------------------------------- MODULE Names --------------------------------
(***************************************************************************)
(* From a path to a node: the volumes mounted under the root, resolve_path *)
(* and follow_link, ext2's inode cache, and the callers: kernel_process at *)
(* boot, then sys_open, sys_stat, read and close of a process.  A path is  *)
(* the sequence of its components, "" where two slashes meet or one leads. *)
(* One Walk is one turn of resolve_path's loop; a symbolic link pushes a   *)
(* call.  A node is an object: <<"ext2", i, k>> is the k-th ext2_node made *)
(* for inode i, which the inode cache owns and deletes; the volume's mount *)
(* point <<"mount", 2>> is not in the cache.  made and excused are         *)
(* history: excused is why the path being resolved may not get what it     *)
(* means.                                                                  *)
(***************************************************************************)
EXTENDS Ext2, TLC

CONSTANTS
    Images,      \* what the disk may hold: [dirs, links, sizes], by inode, and the
                 \* block numbers its files have that are past block_count
    Archives,    \* what the initrd may hold
    Paths,       \* the paths processes use
    WorkingDir,  \* a process's working directory
    Offsets, Sizes,  \* of reads
    CacheSize,   \* of the inode cache (1600 in the code)
    StackDepth,  \* calls of resolve_path the kernel stack holds
    MaxOps       \* bound: requests of processes

VARIABLES
    image, archive, volumes,
    phase,       \* what the result of resolve_path is for
    path,        \* the caller's string
    stack,       \* calls of resolve_path: [cur, rest]
    result,      \* of the outermost call
    icache,      \* inodes of _inode_cache, newest first
    handles,     \* open nodes
    last,        \* what the last read, or stat, gave its caller
    made,        \* nodes made so far for each inode
    excused, ops

vars == <<image, archive, volumes, phase, path, stack, result, icache, handles, last, made,
          excused, ops>>
world == <<image, archive>>

NoNode == <<"none">>
Root == <<"root">>
Dev == <<"dev">>
Initrd == <<"initrd", 0>>
Ext2Root == <<"mount", 2>>
OnDisk(node) == node[1] \in {"ext2", "mount"}
Inodes(i) == DOMAIN i.dirs \cup DOMAIN i.links \cup DOMAIN i.sizes
\* The object is not deleted.
Cached(node) == node[1] = "ext2" => node[2] \in Range(icache)
Alive(node) == Cached(node) /\ (node[1] = "ext2" => node[3] = made[node[2]])
Absolute(p) == p[1] = ""

\* strtok_r: the components that are not empty.
Tokens(p) == SelectSeq(p, LAMBDA name : name # "")
\* strtok_r writes a NUL behind the first component of its argument.
Cut(p) == IF Len(Tokens(p)) < 2 THEN p
          ELSE SubSeq(p, 1, CHOOSE i \in DOMAIN p :
                                /\ p[i] # "" /\ \A j \in 1 .. i - 1 : p[j] = "")

IsDir(node) ==
    \/ node \in {Root, Dev, Initrd}
    \/ OnDisk(node) /\ node[2] \in DOMAIN image.dirs
    \/ node[1] = "initrd" /\ TarIsDir(archive, node[2])
IsSymlink(node) == OnDisk(node) /\ node[2] \in DOMAIN image.links
Dotted(name) == name \in {".", "..", ".rc"}

\* The position of the first element of s that is x, 0 if there is none.
IndexFirst(s, x) ==
    IF \E i \in DOMAIN s : s[i] = x
    THEN CHOOSE i \in DOMAIN s : s[i] = x /\ \A j \in 1 .. i - 1 : s[j] # x ELSE 0

\* root_node::find_dir: the first volume of that name.
RootFindDir(name) ==
    IF name \in {".", ".."} THEN Root
    ELSE IF \E i \in DOMAIN volumes : volumes[i].name = name
    THEN volumes[IndexFirst([i \in DOMAIN volumes |-> volumes[i].name], name)].node
    ELSE NoNode
\* dev_fs::find_dir and tar_volume::find_dir compare one character with ".".
DevFindDir(name) ==
    IF Dotted(name) THEN Dev ELSE IF name = "null" THEN <<"null">> ELSE NoNode
TarFindDir(node, name) ==
    LET k == IF node = Initrd THEN IndexFirst(TarChildren(archive), name) ELSE 0
    IN IF Dotted(name) THEN node ELSE IF k = 0 THEN NoNode ELSE <<"initrd", k>>
\* ext2_node::find_dir: FindDir of the node's blocks; a node that is not in the
\* cache is made.
Ext2FindDir(node, name) ==
    LET ino == FindDir(image.dirs[node[2]], name)
    IN IF ino = 0 THEN NoNode
       ELSE <<"ext2", ino, IF ino \in Range(icache) THEN made[ino] ELSE made[ino] + 1>>
FindNode(node, name) ==
    CASE node = Root -> RootFindDir(name)
      [] node = Dev -> DevFindDir(name)
      [] node[1] = "initrd" -> TarFindDir(node, name)
      [] OnDisk(node) /\ node[2] \in DOMAIN image.dirs -> Ext2FindDir(node, name)
      [] OTHER -> NoNode
\* root_node::read_dir
RootReadDir(index) == IF index < Len(volumes) THEN volumes[index + 1].name ELSE ""

-----------------------------------------------------------------------------
(* resolve_path                                                            *)

Frame(cur, rest) == [cur |-> cur, rest |-> rest]
\* resolve_path(path, working_dir): a relative path is copied behind the working
\* directory, and nobody writes the final NUL, so that what the heap holds there
\* may become part of the last component.
Whole(p) == IF Absolute(p) THEN p ELSE WorkingDir \o p
Unterminated(p) == [p EXCEPT ![Len(p)] = "garbage"]
Call(what, p, torn) ==
    /\ phase' = what /\ path' = p
    /\ stack' = <<Frame(Root, Tokens(IF torn THEN Unterminated(Whole(p)) ELSE Whole(p)))>>
    /\ excused' = IF torn THEN {"unterminated"} ELSE {}

\* Mutant: the cache evicts one node too early.
LookedEarly(node) ==
    IF Cached(node) THEN UNCHANGED <<icache, made>>
    ELSE /\ icache' = <<node[2]>> \o (IF Len(icache) + 1 >= CacheSize THEN Front(icache) ELSE icache)
         /\ made' = [made EXCEPT ![node[2]] = @ + 1]
\* lru_cache::set of a node found for the first time; the evicted node is
\* deleted, whoever holds it.
Looked(node) ==
    IF Cached(node) THEN UNCHANGED <<icache, made>>
    ELSE /\ icache' = <<node[2]>> \o (IF Len(icache) >= CacheSize THEN Front(icache) ELSE icache)
         /\ made' = [made EXCEPT ![node[2]] = @ + 1]

\* read_link: the target, from the inode or from the link's data.
ReadLink(node) == Tokens(image.links[node[2]])

\* Mutant: follow_link resolves the target from the root.
FollowLinkFromRoot(cur, node) == Frame(Root, ReadLink(node))
\* follow_link: the call starts in the directory that holds the link, also for
\* a target that begins with a slash.
FollowLink(cur, node) == Frame(cur, ReadLink(node))

Resolved(node) == stack' = <<>> /\ result' = node
Pop(n) == SubSeq(stack, 1, Len(stack) - n)

\* The lookups that give another node than the name means: what begins with a dot
\* in /dev and in the initrd is the directory itself, also "..", which the code
\* behind that test takes for the root or the parent; ".." of the ext2 volume's root
\* is what its directory says; files behind a directory of the archive are lost.
Diverges(cur, name) ==
    (IF (name # "." /\ Dotted(name) /\ (cur = Dev \/ cur[1] = "initrd"))
        \/ (name = ".." /\ OnDisk(cur) /\ cur[2] = 2)
     THEN {"dots"} ELSE {})
    \cup (IF cur = Initrd /\ ~Flat(archive) THEN {"directories"} ELSE {})

Current == Last(stack).cur
Rest == Last(stack).rest
Entry == IF IsDir(Current) /\ Rest # <<>> THEN FindNode(Current, Head(Rest)) ELSE NoNode
OnLiveNodes == Alive(Current) /\ (Current = Root => Alive(Entry))

\* One turn of the loop: the end of the string returns to the caller, if there
\* is one; a component that is not found, or a file before the end, is a null
\* all the way up; a link is followed whatever follow_symlinks says.
Walk ==
    /\ stack # <<>> /\ Len(stack) <= StackDepth /\ OnLiveNodes
    /\ Looked(Entry)
    /\ excused' = excused \cup (IF Rest = <<>> THEN {} ELSE Diverges(Current, Head(Rest)))
    /\ \/ Rest = <<>> /\ Len(stack) = 1 /\ Resolved(Current)
       \/ /\ Rest = <<>> /\ Len(stack) > 1 /\ UNCHANGED result
          /\ stack' = Append(Pop(2), Frame(Current, stack[Len(stack) - 1].rest))
       \/ Rest # <<>> /\ Entry = NoNode /\ Resolved(NoNode)
       \/ /\ Rest # <<>> /\ Entry # NoNode /\ ~IsSymlink(Entry) /\ UNCHANGED result
          /\ stack' = Append(Pop(1), Frame(Entry, Tail(Rest)))
       \/ /\ Rest # <<>> /\ Entry # NoNode /\ IsSymlink(Entry) /\ UNCHANGED result
          /\ stack' = Pop(1) \o <<Frame(Current, Tail(Rest)), FollowLink(Current, Entry)>>
    /\ UNCHANGED <<world, volumes, phase, path, handles, last, ops>>

\* The directory of the walk, or the mount point it comes to, was deleted with its
\* place in the inode cache: nothing is known of what happens then.
WalkFreed ==
    /\ stack # <<>> /\ Len(stack) <= StackDepth /\ ~OnLiveNodes
    /\ phase' = "wild" /\ stack' = <<>>
    /\ UNCHANGED <<world, volumes, path, result, icache, handles, last, made, excused, ops>>

-----------------------------------------------------------------------------
(* kmain and kernel_process: the devices and the initrd are volumes, the   *)
(* disk one if it could be mounted; /lib is /system/lib or the initrd; the *)
(* first program is zsh or the terminal.                                   *)

Volume(name, node) == [name |-> name, node |-> node]
LibPath == <<"", "system", "lib">>
InitrdPath == <<"", "initrd">>
ZshPath == <<"", "system", "bin", "zsh">>
FtermPath == <<"", "initrd", "fterm">>

Init ==
    /\ image \in Images /\ archive \in Archives
    /\ volumes = <<Volume("dev", Dev)>>
    /\ phase = "kmain" /\ path = <<>> /\ stack = <<>>
    /\ result = NoNode /\ icache = <<>> /\ handles = <<>> /\ last = <<>>
    /\ made = [i \in Inodes(image) |-> 0] /\ excused = {} /\ ops = 0

Quiet == UNCHANGED <<world, result, icache, handles, last, made, ops>>
Delivered(what) == phase = what /\ stack = <<>>

\* Volumes are searched in the order they were added in.
RegisterVolume(name, node) == volumes' = Append(volumes, Volume(name, node))

\* The initrd is mounted; without the kernel's symbols in it there is a panic.
Kmain ==
    /\ phase = "kmain"
    /\ RegisterVolume("initrd", Initrd)
    /\ phase' = IF TarFindDir(Initrd, "kernel.map") = NoNode THEN "panic" ELSE "ahci"
    /\ UNCHANGED <<path, stack, excused>> /\ Quiet

\* What ahci::initialize comes to (see Disk): a mounted ext2 volume, or none.
AhciInitialize ==
    /\ phase = "ahci"
    /\ \/ RegisterVolume("system", Ext2Root)
       \/ UNCHANGED volumes
    /\ Call("lib", LibPath, FALSE) /\ Quiet

RegisterLib ==
    /\ \/ Delivered("lib") /\ result # NoNode
       \/ Delivered("initrd") /\ result # NoNode
    /\ RegisterVolume("lib", result) /\ Call("zsh", ZshPath, FALSE) /\ Quiet
NoSystemLib ==
    /\ Delivered("lib") /\ result = NoNode
    /\ Call("initrd", InitrdPath, FALSE) /\ UNCHANGED volumes /\ Quiet
NoZsh ==
    /\ Delivered("zsh") /\ result = NoNode
    /\ Call("fterm", FtermPath, FALSE) /\ UNCHANGED volumes /\ Quiet
StartInit ==
    /\ phase \in {"zsh", "fterm"} /\ Delivered(phase) /\ (phase = "fterm" \/ result # NoNode)
    /\ phase' = IF result = NoNode THEN "panic" ELSE "up"
    /\ UNCHANGED <<volumes, path, stack, excused>> /\ Quiet

-----------------------------------------------------------------------------
(* System calls of one process at a time.                                  *)

Request(what, p) ==
    /\ phase = "up" /\ ops < MaxOps /\ ops' = ops + 1
    /\ \E torn \in BOOLEAN : (torn => ~Absolute(p)) /\ Call(what, p, torn)
    /\ UNCHANGED <<world, volumes, result, icache, handles, last, made>>

\* sys_open: "/" is the root; a directory flag on a file is refused; else the
\* node is opened.
SysOpen(p) == Tokens(p) # <<>> /\ Request("open", p)
OpenRoot(p) ==
    /\ phase = "up" /\ ops < MaxOps /\ ops' = ops + 1 /\ Tokens(p) = <<>>
    /\ handles' = Append(handles, Root)
    /\ UNCHANGED <<world, volumes, phase, path, stack, result, icache, last, made, excused>>
Opened(directory) ==
    /\ Delivered("open") /\ phase' = "up"
    /\ handles' = IF result = NoNode \/ (directory /\ ~IsDir(result)) THEN handles
                  ELSE Append(handles, result)
    /\ UNCHANGED <<world, volumes, path, stack, result, icache, last, made, excused, ops>>

\* sys_stat: the string strtok_r cuts is the process's own, if it is absolute.
SysStat(p) == Request("stat", p)
Stated ==
    /\ Delivered("stat") /\ phase' = "up" /\ last' = <<"stat", result>>
    /\ path' = IF Absolute(path) THEN Cut(path) ELSE path
    /\ UNCHANGED <<world, volumes, stack, result, icache, handles, made, excused, ops>>

\* read and close of an open node; an ext2 file is read through its inode.
SysRead(h, offset, size) ==
    /\ phase = "up" /\ ops < MaxOps /\ ops' = ops + 1
    /\ Alive(handles[h]) /\ OnDisk(handles[h]) /\ ~IsDir(handles[h])
    /\ last' = <<"read", handles[h][2], offset, size,
                 Read(image.sizes[handles[h][2]], offset, size, image.past)>>
    /\ UNCHANGED <<world, volumes, phase, path, stack, result, icache, handles, made, excused>>
SysClose(h) ==
    /\ phase = "up" /\ Alive(handles[h]) /\ handles' = RemoveAt(handles, h)
    /\ UNCHANGED <<world, volumes, phase, path, stack, result, icache, last, made, excused, ops>>
\* Either of a node that the inode cache deleted.
UseFreed(h) ==
    /\ phase = "up" /\ ~Alive(handles[h]) /\ phase' = "wild"
    /\ UNCHANGED <<world, volumes, path, stack, result, icache, handles, last, made, excused, ops>>

Next ==
    \/ Walk \/ WalkFreed \/ Kmain \/ AhciInitialize \/ RegisterLib \/ NoSystemLib \/ NoZsh \/ StartInit
    \/ \E p \in Paths : SysOpen(p) \/ OpenRoot(p) \/ SysStat(p)
    \/ \E d \in BOOLEAN : Opened(d)
    \/ Stated
    \/ \E h \in DOMAIN handles : SysClose(h) \/ UseFreed(h)
                                 \/ \E o \in Offsets, s \in Sizes : SysRead(h, o, s)

Spec == Init /\ [][Next]_vars

-----------------------------------------------------------------------------
(* Properties                                                              *)

\* Which file or directory a node stands for, whichever object it is.
FileOf(node) ==
    CASE OnDisk(node) -> <<"ext2", node[2]>>
      [] node = Initrd -> <<"initrd", "">>
      [] node[1] = "initrd" /\ node # Initrd -> <<"initrd", TarChildren(archive)[node[2]]>>
      [] OTHER -> node
VolumeRoots == {FileOf(Dev), FileOf(Initrd), FileOf(Ext2Root)}

\* What the name of an entry means in a directory, by what the volumes hold and not
\* by the lookups of the code: ".." of a volume's root is the root.
EntryRef(dir, name) ==
    IF name = "." THEN dir
    ELSE IF name = ".." /\ dir \in VolumeRoots \cup {Root} THEN Root
    ELSE CASE dir = Root /\ (\E v \in Range(volumes) : v.name = name) ->
                 FileOf((CHOOSE v \in Range(volumes) : v.name = name).node)
           [] dir = FileOf(Dev) /\ name = "null" -> <<"null">>
           [] dir = FileOf(Initrd) /\ name \in TarRef(archive) -> <<"initrd", name>>
           [] dir[1] = "ext2" /\ FindDirRef(image.dirs[dir[2]], name) # 0 ->
                 <<"ext2", FindDirRef(image.dirs[dir[2]], name)>>
           [] OTHER -> NoNode
IsDirRef(file) == file \in VolumeRoots \cup {Root} \/ (file[1] = "ext2" /\ IsDir(file))

\* What a path means: component by component, a relative link from its
\* directory, with fuel for the links.
RECURSIVE Meaning(_, _, _)
Meaning(cur, rest, fuel) ==
    IF rest = <<>> THEN cur
    ELSE IF ~IsDirRef(cur) \/ fuel = 0 THEN NoNode
    ELSE LET file == EntryRef(cur, Head(rest))
         IN IF file = NoNode THEN NoNode
            ELSE IF IsSymlink(file)
            THEN LET to == Meaning(cur, Tokens(image.links[file[2]]), fuel - 1)
                 IN IF to = NoNode THEN NoNode ELSE Meaning(to, Tail(rest), fuel)
            ELSE Meaning(file, Tail(rest), fuel)

\* resolve_path, with its calls from follow_link and the lookups through
\* deleted entries and several directory blocks, returns the node the path
\* means, and only a link that leads to itself makes it run out of stack.  Three
\* things excuse a path: it is relative, and the byte behind its copy was not 0
\* (filesystem.cpp:93-96); it has a ".." in the root of a volume, or another name
\* with a dot in front in /dev or the initrd; it looks a file up in an initrd that
\* has directories.  Nothing is said of a walk over a node that was deleted.
ResolveIsRight ==
    excused = {} =>
        /\ (stack = <<>> /\ phase \in {"lib", "initrd", "zsh", "fterm", "open", "stat"})
              => FileOf(result) = Meaning(Root, Tokens(Whole(path)), StackDepth)
        /\ Len(stack) > StackDepth => Meaning(Root, Tokens(Whole(path)), StackDepth) = NoNode

\* A read of an ext2 file gives the bytes of the file, as many as it reports,
\* as far as direct and single indirect blocks reach, unless it ends on a block
\* boundary behind its first block: then the last block is not copied; and unless
\* the file has a block past the end of the volume: then the error is reported as
\* one byte read.
EndsAligned(offset, ret) ==
    (offset + ret) % BlockSize = 0 /\ ret > FirstSize(offset, ret)
FileReadIsRight ==
    (last # <<>> /\ last[1] = "read") =>
        LET offset == last[3]
            got == last[5]
        IN (~EndsAligned(offset, got.ret) /\ image.past = {}
            /\ offset + got.ret <= (Direct + Entries) * BlockSize)
           => got.bytes = [i \in 1 .. got.ret |-> offset + i - 1]

\* The inode cache deletes no node that a process has open, that is the mount
\* point of /lib or that a walk stands on, before more inodes were looked up than
\* it has room for.  (After that it deletes the oldest, whoever holds it.)
Held == Range(handles) \cup {v.node : v \in Range(volumes)} \cup {f.cur : f \in Range(stack)}
NodesStayAlive ==
    (phase = "wild" \/ \E node \in Held : ~Alive(node))
        => Cardinality({i \in DOMAIN made : made[i] > 0}) > CacheSize

\* The image's inodes lie at different places; every live entry of a
\* directory's first block is listed by read_dir at some index; every file of an
\* initrd without directories is found and listed, and so is every volume.
LayoutIsRight ==
    /\ \A a, b \in Inodes(image) :
          a # b => ReadInode(a) # ReadInode(b)
    /\ \A d \in DOMAIN image.dirs : \A e \in LiveEntries(<<image.dirs[d][1]>>) :
          \E i \in 0 .. Len(image.dirs[d][1]) : ReadDir(image.dirs[d], i) = e
    /\ Flat(archive) => /\ Range(TarChildren(archive)) = TarRef(archive)
                        /\ {TarReadDir(archive, i) : i \in 2 .. Len(archive)} = TarRef(archive) \cup {""}
    /\ \A i \in 0 .. Len(volumes) - 1 : RootFindDir(RootReadDir(i)) # NoNode
=============================================================================
