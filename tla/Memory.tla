------------------------------- MODULE Memory -------------------------------
(***************************************************************************)
(* The memory of the first user process: create_elf_process builds its     *)
(* page map, stack and image, page faults and system calls grow it,        *)
(* end_process and gc take it down.  Kernel code takes and returns frames  *)
(* meanwhile.  An operator over a record m is a function of the code that  *)
(* changes memory; m.panic is the reason of a kernel panic.  The process's *)
(* page map is used by one thread, so a function is one step.              *)
(***************************************************************************)
EXTENDS ElfStack, Sequences, FiniteSets, SequencesExt, FiniteSetsExt

CONSTANTS
    Frames,         \* blocks of physical memory, 1 .. Frames
    PhysBlockMax,   \* frames hit accepts
    Ratio,          \* PHYS_BLOCK_SIZE as a frame number (4096)
    Dirs,           \* page directories of a page map (512)
    TablesPerDir, PagesPerTable,   \* 512 each
    Units,          \* bytes of a page
    StackPages, ArgUnits,   \* the stack, and what load_elf writes on it:
    Argc, Envc, Strings,    \* vectors, and bytes of strings
    KernelBase,     \* KERNEL_VIRTUAL_BASE, in pages
    LinkerBase,     \* LINKER_BASE_ADDR, in units
    Boots,          \* what the process may meet: [elf, linker, junk, clean]
    FbPages,        \* of the framebuffer
    MmapSizes, MmapHints, Touched,   \* arguments of the process
    MaxRegions, MaxHeap   \* bounds: regions of the process, frames of the kernel

ASSUME MemoryAssumption ==
    /\ {Frames, PhysBlockMax, Ratio, Dirs, TablesPerDir, PagesPerTable, Units} \subseteq Nat \ {0}
    /\ ArgUnits <= 2 * Units /\ StackPages >= 2

VARIABLES
    mem,        \* the memory: see Init
    phase,      \* where the process is in its life
    elf,        \* the program: [name, ok, segments, interp]
    linker,     \* what /lib/ld.so is: such a program, or <<>>
    junk,       \* what _use_count holds at first: nobody initialises it
    clean,      \* slots of a new list whose memory is zero: see MapAt
    heap,       \* frames kernel code owns
    stray       \* history: frames destroy_page_map freed by mistake

vars == <<mem, phase, elf, linker, junk, clean, heap, stray>>
boot == <<elf, linker, junk, clean>>

NoTables == [d \in 0 .. Dirs * TablesPerDir - 1 |-> 0]
Limit == Dirs * TablesPerDir * PagesPerTable
NoPages == [v \in 0 .. Limit - 1 |-> 0]
Filled(x) == [u \in 0 .. Units - 1 |-> x]
Steps(n) == [i \in 1 .. n |-> i - 1]

Init ==
    /\ mem = [free |-> 2 .. Frames, got |-> 0, panic |-> "", regions |-> {},
              data |-> [f \in 0 .. Frames |-> Filled(<<"junk">>)],
              tables |-> NoTables, pages |-> NoPages,
              dirs |-> {}, books |-> {}, lost |-> {}]
    /\ phase = "boot" /\ heap = {1} /\ stray = {}
    /\ \E b \in Boots : elf = b.elf /\ linker = b.linker /\ junk = b.junk /\ clean = b.clean

-----------------------------------------------------------------------------
(* Frames and page tables                                                  *)

Panic(m, why) == IF m.panic = "" THEN [m EXCEPT !.panic = why] ELSE m

\* allocate_physical_block: the lowest free block, in m.got.
AllocatePhysicalBlock(m) ==
    IF m.free = {} THEN Panic([m EXCEPT !.got = 0], "memory")
    ELSE [m EXCEPT !.got = Min(m.free), !.free = @ \ {Min(m.free)}]

\* n blocks for the set of m that field names.
AllocateInto(m, n, field) ==
    FoldLeft(LAMBDA k, i : LET a == AllocatePhysicalBlock(k)
                           IN [a EXCEPT ![field] = @ \cup ({a.got} \ {0})], m, Steps(n))

CreatePageTable(m, d) == LET a == AllocatePhysicalBlock(m) IN [a EXCEPT !.tables[d] = a.got]

\* map_virtual_memory_4k of one page; frame 0 is mapped as not present.
MapVirtualMemory(m, f, v) ==
    IF v >= Limit THEN Panic(m, "limit")
    ELSE LET d == v \div PagesPerTable
             t == IF m.tables[d] = 0 THEN CreatePageTable(m, d) ELSE m
         IN [t EXCEPT !.pages[v] = f]

\* A store of the kernel while the process's page map is loaded.  A fault looks
\* in the kernel process's own regions and finds none.
Store(m, a, x) ==
    IF a >= Limit * Units \/ m.pages[a \div Units] \notin 1 .. Frames THEN Panic(m, "fault")
    ELSE [m EXCEPT !.data[m.pages[a \div Units]][a % Units] = x]

-----------------------------------------------------------------------------
(* vm objects and regions.  A region carries its object: [kind, base,      *)
(* blocks, uses].                                                          *)

Size(r) == Len(r.blocks)
Overlap(b, n, r) == b < r.base + Size(r) /\ r.base < b + n
Fits(m, b, n) == \A r \in m.regions : ~Overlap(b, n, r)
FirstFit(m, n) == CHOOSE b \in 1 .. KernelBase :
                     Fits(m, b, n) /\ \A c \in 1 .. b - 1 : ~Fits(m, c, n)

\* The constructors: an anonymous object has no blocks, another one has all,
\* filled with zeros.
AnonymousObject(n) == [kind |-> "anon", base |-> 0, uses |-> junk, blocks |-> [i \in 1 .. n |-> 0]]
Zeroed(m, f) == [m EXCEPT !.data[f] = Filled(<<"zero">>)]
PhysicalObject(m, n) ==
    FoldLeft(LAMBDA k, i : LET a == AllocatePhysicalBlock(k.m)
                           IN [m |-> Zeroed(a, a.got), blocks |-> Append(k.blocks, a.got)],
             [m |-> m, blocks |-> <<>>], Steps(n))
FramebufferObject == [kind |-> "fb", base |-> 0, uses |-> 0,
                      blocks |-> [i \in 1 .. FbPages |-> Frames + i]]

MapAllocatedBlocks(m, r) ==
    FoldLeft(LAMBDA k, i : MapVirtualMemory(k, r.blocks[i + 1], r.base + i), m, Steps(Size(r)))

\* Mutant: the first block of an object is not freed.
DestroyObjectButOne(m, r) == [m EXCEPT !.free = @ \cup ({r.blocks[i] : i \in 2 .. Size(r)} \ {0})]
\* ~physical_vm_object, when the last reference goes.
DestroyObject(m, r) ==
    IF r.uses > 1 THEN Panic(m, "count")
    ELSE [m EXCEPT !.free = @ \cup ({r.blocks[i] : i \in 1 .. Size(r)} \ {0})]

\* The list's first new slot is assigned to, and so releases the reference that
\* its memory seems to hold: nothing while that memory is zero; else the kernel
\* faults there.
MapAt(m, r, b) ==
    LET n == [r EXCEPT !.base = b, !.uses = @ + 1]
    IN IF Cardinality(m.regions) >= clean THEN Panic(m, "slot")
       ELSE MapAllocatedBlocks([m EXCEPT !.regions = @ \cup {n}], n)
\* map_vmo and allocate_anonymous_vmo at base, or at the lowest free range.  A
\* fixed request that does not fit drops its object, if it already has one.
MapVmo(m, r, b, fixed) ==
    IF b # 0 /\ Fits(m, b, Size(r)) THEN MapAt(m, r, b)
    ELSE IF fixed THEN (IF r.kind = "anon" THEN m ELSE DestroyObject(m, r))
    ELSE IF FirstFit(m, Size(r)) + Size(r) >= KernelBase THEN Panic(m, "region")
    ELSE MapAt(m, r, FirstFit(m, Size(r)))

\* Mutant: the block is not recorded.
HitForgets(m, r, i) ==
    IF r.blocks[i] # 0 THEN MapVirtualMemory(m, r.blocks[i], r.base + i - 1)
    ELSE LET a == AllocatePhysicalBlock(m)
         IN Zeroed(MapVirtualMemory(a, a.got, r.base + i - 1), a.got)
\* hit of the i-th page: map its block, or give it one full of zeros.
Hit(m, r, i) ==
    IF r.blocks[i] # 0 THEN MapVirtualMemory(m, r.blocks[i], r.base + i - 1)
    ELSE LET a == AllocatePhysicalBlock(m)
             b == [a EXCEPT !.regions = (@ \ {r}) \cup {[r EXCEPT !.blocks[i] = a.got]}]
         IN IF a.got >= PhysBlockMax THEN Panic(a, "physical")
            ELSE Zeroed(MapVirtualMemory(b, a.got, r.base + i - 1), a.got)

-----------------------------------------------------------------------------
(* create_elf_process                                                      *)

Go(from, to, m) ==
    /\ phase = from /\ mem' = m /\ phase' = IF m.panic # "" THEN "panic" ELSE to
    /\ UNCHANGED <<boot, heap, stray>>

\* The kernel stack and fx_state, which nobody ever frees.
InitializeProcess == elf.ok /\ Go("boot", "map", AllocateInto(mem, 2, "books"))
\* create_elf_process and its caller: no process, whose name is then set.
NoProcess == ~elf.ok /\ Go("boot", "panic", Panic(mem, "elf"))

CreatePageMap ==
    Go("map", "stack", AllocateInto(AllocateInto(mem, 1 + Dirs, "dirs"), 4, "books"))

\* The stack's region, with its two topmost pages.
StackRegion(m) == CHOOSE r \in m.regions : Size(r) = StackPages /\ r.kind = "anon"
AllocateStack ==
    LET m1 == MapVmo(mem, AnonymousObject(StackPages), 0, FALSE)
        m2 == Hit(m1, StackRegion(m1), StackPages)
        m3 == Hit(m2, StackRegion(m2), StackPages - 1)
    IN Go("stack", "load", m3)

\* A segment: [vaddr, memsz, filesz] in units.
SegmentBase(s, base) == (base + s.vaddr) \div Units
\* Mutant: the offset in the first page is left out.
SegmentPagesShort(s) == (s.memsz + Units - 1) \div Units
SegmentPages(s) == (s.memsz + (s.vaddr % Units) + Units - 1) \div Units
MapSegment(m, s, base) ==
    LET o == PhysicalObject(m, SegmentPages(s))
        r == [kind |-> "image", base |-> 0, uses |-> junk, blocks |-> o.blocks]
    IN MapVmo(o.m, r, SegmentBase(s, base), TRUE)
Byte(e, k, i) == IF i < e.segments[k].filesz THEN <<e.name, k, i>> ELSE <<"zero">>
CopySegment(m, e, k, base) ==
    FoldLeft(LAMBDA n, i : Store(n, base + e.segments[k].vaddr + i, Byte(e, k, i)),
             m, Steps(e.segments[k].memsz))
\* load_elf_segments: first all regions, then all contents.
LoadElfSegments(m, e, base) ==
    LET mapped == FoldLeft(LAMBDA n, i : MapSegment(n, e.segments[i + 1], base),
                           m, Steps(Len(e.segments)))
    IN FoldLeft(LAMBDA n, i : CopySegment(n, e, i + 1, base), mapped, Steps(Len(e.segments)))
LoadProgram ==
    Go("load", IF elf.interp THEN "linker" ELSE "args", LoadElfSegments(mem, elf, 0))

\* load_elf asserts that there is a dynamic linker; without a valid one
\* create_elf_process gives up.
LoadLinker ==
    /\ linker # <<>> => linker.ok
    /\ Go("linker", "args", IF linker = <<>> THEN Panic(mem, "linker")
                            ELSE LoadElfSegments(mem, linker, LinkerBase))

\* load_elf's last part, and the assertion of create_elf_process on rsp.
LoadArgs ==
    LET top == (StackRegion(mem).base + StackPages) * Units
        m == FoldLeft(LAMBDA n, i : Store(n, top - 1 - i, <<"args">>), mem, Steps(ArgUnits))
    IN Go("args", "run", IF StackPointer(4096 * top, Strings, Argc, Envc, FALSE) % 16 = 0 THEN m
                         ELSE Panic(m, "align"))

-----------------------------------------------------------------------------
(* The process runs                                                        *)

\* address_to_region
RegionOf(v) == {r \in mem.regions : r.base <= v /\ v < r.base + Size(r)}

\* An access to a present page; a fault in a region, which the handler hits; a
\* fault elsewhere ends the process, or the kernel if it made the access.
Write(v) ==
    /\ v < Limit /\ mem.pages[v] \in 1 .. Frames
    /\ Go("run", "run", [mem EXCEPT !.data[mem.pages[v]][0] = <<"user">>])
PageFault(v) ==
    /\ v < Limit /\ mem.pages[v] = 0
    /\ \E r \in RegionOf(v) : Go("run", "run", Hit(mem, r, v - r.base + 1))
PageFaultEnds(v, kernel) ==
    /\ RegionOf(v) = {}
    /\ Go("run", "exiting", IF kernel THEN Panic(mem, "pointer") ELSE mem)

More == Cardinality(mem.regions) < MaxRegions
SysMmap(n, hint, fixed) ==
    More /\ Go("run", "run", MapVmo(mem, AnonymousObject(n), hint, fixed))
\* allocate_anonymous_vmo asserts that size and base are whole pages.
SysMmapUnaligned == Go("run", "run", Panic(mem, "assert"))
SysMapFb == More /\ Go("run", "run", MapVmo(mem, FramebufferObject, 0, FALSE))
SysExit == Go("run", "exiting", mem)

-----------------------------------------------------------------------------
(* The process ends                                                        *)

\* destroy_page_map takes the number of a table's frame for its address: it
\* frees another block, or none.
Mistaken(m) == {m.tables[d] \div Ratio : d \in DOMAIN m.tables} \ {0}
DestroyPageMap(m) ==
    [m EXCEPT !.free = @ \cup m.dirs \cup Mistaken(m), !.dirs = {}, !.tables = NoTables,
              !.pages = NoPages, !.books = {},
              !.lost = @ \cup m.books \cup ({m.tables[d] : d \in DOMAIN m.tables} \ {0})]
\* ~address_space: clear() only forgets how many regions there are.  No object
\* is released, and nobody will ever free the objects' frames.
ObjectFrames(m) == UNION {ToSet(r.blocks) : r \in m.regions} \cap 1 .. Frames
DestroyAddressSpace(m) ==
    DestroyPageMap([m EXCEPT !.regions = {}, !.lost = @ \cup ObjectFrames(m)])

\* A table whose frame number is Ratio or more frees a frame it does not own.
Destroy(from, to) == /\ stray' = stray \cup Mistaken(mem)
                     /\ phase = from /\ mem' = DestroyAddressSpace(mem) /\ phase' = to
                     /\ UNCHANGED <<boot, heap>>

LoadLinkerFails == linker # <<>> /\ ~linker.ok /\ Destroy("linker", "panic")

\* end_process lists the process as dead before its thread has left its page
\* map: gc may come in between.
EndProcessLists == Go("exiting", "listed", mem)
EndProcessDies == Go("listed", "dead", mem) \/ Go("early", "gone", mem)
\* Mutant: the loop stops before the first process of the list, the only one.
GcButFirst == FALSE /\ Destroy("dead", "gone")
Gc == Destroy("listed", "early") \/ Destroy("dead", "gone")

\* Kernel code: the heap grows and shrinks.
KernelAllocates ==
    /\ phase # "panic" /\ Cardinality(heap) < MaxHeap /\ mem.free # {}
    /\ LET m == AllocatePhysicalBlock(mem)
       IN mem' = [m EXCEPT !.data[m.got] = Filled(<<"junk">>)] /\ heap' = heap \cup {m.got}
    /\ UNCHANGED <<phase, boot, stray>>
KernelFrees ==
    /\ phase # "panic"
    /\ \E f \in heap \ {1} : heap' = heap \ {f} /\ mem' = [mem EXCEPT !.free = @ \cup {f}]
    /\ UNCHANGED <<phase, boot, stray>>

Create ==
    \/ InitializeProcess \/ NoProcess \/ CreatePageMap \/ AllocateStack \/ LoadProgram
    \/ LoadLinker \/ LoadLinkerFails \/ LoadArgs
Run ==
    \/ \E v \in Touched : Write(v) \/ PageFault(v) \/ \E k \in BOOLEAN : PageFaultEnds(v, k)
    \/ \E n \in MmapSizes, h \in MmapHints, f \in BOOLEAN : SysMmap(n, h, f)
    \/ SysMmapUnaligned \/ SysMapFb \/ SysExit
End == EndProcessLists \/ EndProcessDies \/ Gc
Next == Create \/ Run \/ End \/ KernelAllocates \/ KernelFrees

\* The kernel process calls gc for ever; a thread in end_process runs on.
Spec == /\ Init /\ [][Next]_vars
        /\ WF_vars(EndProcessLists) /\ WF_vars(EndProcessDies) /\ WF_vars(Gc)

-----------------------------------------------------------------------------
(* Properties                                                              *)

BlocksOf(f) == {<<r, i>> \in UNION {{r} \X DOMAIN r.blocks : r \in mem.regions} : r.blocks[i] = f}
Owners(f) ==
    Cardinality({c \in 1 .. 5 : f \in <<mem.free, heap, mem.dirs, mem.books, mem.lost>>[c]})
    + Cardinality({d \in DOMAIN mem.tables : mem.tables[d] = f}) + Cardinality(BlocksOf(f))
\* Every frame has exactly one owner at any time: the allocator, kernel code,
\* the page map, a page table, one page of one object, or nobody for ever.  An
\* object whose mapping is refused gives its frames back, all of them once;
\* the end of a process gives back its page directories and loses the rest.
\* destroy_page_map breaks this for the blocks it frees by mistake.
FramesOwnedOnce ==
    phase # "panic" => \A f \in 1 .. Frames : f \notin stray => Owners(f) = 1

\* The page map and the objects agree: what is present belongs to the object
\* of the region around it, and every block of an object is mapped in its place.
PagesFollowObjects ==
    phase # "panic" =>
        \A v \in DOMAIN mem.pages :
            mem.pages[v] = IF RegionOf(v) = {} THEN 0
                           ELSE LET r == CHOOSE r \in RegionOf(v) : TRUE
                                IN r.blocks[v - r.base + 1]

Loaded == phase \in {"run", "exiting", "listed", "dead"}
Spread(e) == \A j, k \in DOMAIN e.segments :
    j < k => SegmentBase(e.segments[j], 0) + SegmentPages(e.segments[j]) <= SegmentBase(e.segments[k], 0)
Holds(e, base) == \A k \in DOMAIN e.segments : \A i \in 0 .. e.segments[k].memsz - 1 :
    LET a == base + e.segments[k].vaddr + i
    IN mem.data[mem.pages[a \div Units]][a % Units] \in {Byte(e, k, i), <<"user">>}
\* A program whose segments share no page is loaded without a fault or a
\* misaligned stack and finds its file's bytes, and zeros behind them, in every
\* segment of itself and of its linker; and no page it is ever given shows it
\* what a frame held before.
MemoryIsRight ==
    /\ (Spread(elf) /\ (elf.interp /\ linker # <<>> => Spread(linker))) =>
          /\ mem.panic \notin {"fault", "align"}
          /\ Loaded => Holds(elf, 0) /\ (elf.interp => Holds(linker, LinkerBase))
    /\ Loaded => \A v \in DOMAIN mem.pages : mem.pages[v] \in 1 .. Frames =>
          \A u \in 0 .. Units - 1 : mem.data[mem.pages[v]][u] # <<"junk">>

\* A process that ends is taken down by gc, whether gc comes before or after the
\* last call of schedule by the thread that ended it.
ProcessIsReclaimed == phase = "exiting" ~> phase = "gone"
=============================================================================
