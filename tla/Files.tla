-------------------------------- MODULE Files --------------------------------
(***************************************************************************)
(* The file descriptors of a process (scheduler.h) and the system calls on *)
(* them (syscalls.cpp), over the handle counts of fs_node, the two ends of *)
(* a unix_pipe and the devices of a pty.  A process has one thread and its *)
(* pipes and ptys are its own, so its calls run one after another; a call  *)
(* that closes several descriptors takes one step for each.  Descriptor d  *)
(* of the model is number d - 1 of the code.                               *)
(***************************************************************************)
EXTENDS Naturals, Sequences, FiniteSets

CONSTANTS
    Pipe,       \* the pipes that may be made
    Pty,        \* the pseudo terminals that may be granted
    FileSize,   \* the size of the regular file
    Word,       \* the modulus of a register
    MaxFds,     \* bound: the length of the descriptor table
    MaxBytes,   \* bound: the bytes in a pipe
    MaxLost     \* bound: the handles that failed calls of sys_dup drop, one of a node

ASSUME FilesAssumption ==
    /\ FileSize \in Nat /\ Word \in Nat /\ FileSize < Word
    /\ MaxFds \in Nat /\ MaxBytes \in Nat /\ MaxLost \in Nat
    /\ MaxFds >= 3                      \* the table of a new process
    /\ Pipe \intersect Pty = {}

VARIABLES
    fds,        \* _file_descriptors
    nodes,      \* handles: _handle_count of every node; deleted: the pipe ends
                \* that are gone; widowed: the pipe ends whose _widowed is set
    bytes,      \* _buffer_pos of a pipe's stream
    made,       \* the pipes and ptys made so far
    phase,      \* what the thread is doing
    at,         \* the descriptor that sys_grant_pty or destroy_all_files has reached
    pty,        \* the pty that sys_grant_pty hands out
    lost        \* ghost: the handles of a node that no descriptor has

vars == <<fds, nodes, bytes, made, phase, at, pty, lost>>

End == {"read", "write"} \X Pipe
Peer(e) == IF e[1] = "read" THEN <<"write", e[2]>> ELSE <<"read", e[2]>>
Dev == <<"dev", 0>>
File == <<"file", 0>>
Node == {Dev, File} \union End \union ({"worker", "controller"} \X Pty)

Fd(n, p) == [node |-> n, pos |-> p]
NoFd == Fd(<<"none", 0>>, 0)                \* a null entry of the table
Open(d) == d \in DOMAIN fds /\ fds[d] # NoFd

\* Positions matter for the regular file only.  The other nodes have size 0,
\* and their positions are not kept.
SizeOf(n) == IF n = File THEN FileSize ELSE 0

Count(n) == Cardinality({d \in DOMAIN fds : fds[d].node = n})

\* create_elf_process: stdin is /dev/null, stdout and stderr are /dev/klog, if
\* the devices were found.
Init ==
    /\ fds \in {<<in, out, out>> : in, out \in {NoFd, Fd(Dev, 0)}}
    /\ nodes = [handles |-> [n \in Node |-> Count(n)], deleted |-> {}, widowed |-> {}]
    /\ bytes = [p \in Pipe |-> 0]
    /\ made = {}
    /\ phase = "run"
    /\ at = 1
    /\ pty = CHOOSE t \in Pty : TRUE
    /\ lost = [n \in Node |-> 0]

-----------------------------------------------------------------------------
(* Nodes and the descriptor table                                          *)

\* fs_node::open and add_handle.
Opened(s, n) == [s EXCEPT !.handles[n] = @ + 1]

\* Mutant: a pipe end is deleted although one handle is left.
ClosedEarly(s, n) ==
    IF n \in End /\ s.handles[n] <= 2
      THEN [handles |-> [s.handles EXCEPT ![n] = @ - 1],
            deleted |-> s.deleted \union {n},
            widowed |-> s.widowed \union {Peer(n)}]
      ELSE [s EXCEPT !.handles[n] = @ - 1]

\* node->close(): a pipe end is deleted with its last handle and tells its
\* peer, whether or not the peer still exists.
Closed(s, n) ==
    IF n \in End /\ s.handles[n] = 1
      THEN [handles |-> [s.handles EXCEPT ![n] = @ - 1],
            deleted |-> s.deleted \union {n},
            widowed |-> s.widowed \union {Peer(n)}]
      ELSE [s EXCEPT !.handles[n] = @ - 1]

\* After the close of node n, or of none for a null entry, the thread goes on.
\* A pipe end whose peer is gone writes into freed memory, which may be in use
\* again.
AfterClose(f, next) ==
    phase' \in
        IF f.node \in End /\ nodes.handles[f.node] = 1 /\ Peer(f.node) \in nodes.deleted
          THEN {next, "corrupt"}
          ELSE {next}

ClosedFd(s, f) == IF f = NoFd THEN s ELSE Closed(s, f.node)

\* Mutant: a closed standard descriptor is used again.
AllocateAny(t, f) ==
    LET free == {d \in DOMAIN t : t[d] = NoFd}
    IN  IF free = {}
          THEN Append(t, f)
          ELSE [t EXCEPT ![CHOOSE d \in free : \A e \in free : d <= e] = f]

\* allocate_file_desc: the first free entry behind the standard three, or a
\* new one.
Allocate(t, f) ==
    LET free == {d \in DOMAIN t : t[d] = NoFd /\ d > 3}
    IN  IF free = {}
          THEN Append(t, f)
          ELSE [t EXCEPT ![CHOOSE d \in free : \A e \in free : d <= e] = f]

HasRoom(n) == Len(fds) + n <= MaxFds

-----------------------------------------------------------------------------
(* System calls                                                            *)

SysOpen ==
    \E n \in {Dev, File}, append \in BOOLEAN :
        /\ phase = "run"
        /\ HasRoom(1)
        /\ fds' = Allocate(fds, Fd(n, IF append THEN SizeOf(n) ELSE 0))
        /\ nodes' = Opened(nodes, n)
        /\ UNCHANGED <<bytes, made, phase, at, pty, lost>>

SysClose(d) ==
    /\ phase = "run"
    /\ Open(d)
    /\ nodes' = Closed(nodes, fds[d].node)
    /\ AfterClose(fds[d], "run")
    /\ fds' = [fds EXCEPT ![d] = NoFd]
    /\ UNCHANGED <<bytes, made, at, pty, lost>>

\* destroy_file_desc tests fd > size(), so the number behind the last one
\* reaches list::get, which panics.
SysCloseBehind ==
    /\ phase = "run"
    /\ phase' = "panic"
    /\ UNCHANGED <<fds, nodes, bytes, made, at, pty, lost>>

\* Mutant: the copied handle is not counted.
SysDupUncounted(s) ==
    /\ phase = "run"
    /\ Open(s)
    /\ HasRoom(1)
    /\ fds' = Allocate(fds, fds[s])
    /\ UNCHANGED <<nodes, bytes, made, phase, at, pty, lost>>

SysDup(s) ==
    /\ phase = "run"
    /\ Open(s)
    /\ HasRoom(1)
    /\ fds' = Allocate(fds, fds[s])
    /\ nodes' = Opened(nodes, fds[s].node)
    /\ UNCHANGED <<bytes, made, phase, at, pty, lost>>

\* With a requested number: the handle is counted, the old descriptor is
\* destroyed, and the new one takes its place.
SysDupTo(s, d) ==
    /\ phase = "run"
    /\ Open(s)
    /\ d \in DOMAIN fds \ {s}
    /\ nodes' = ClosedFd(Opened(nodes, fds[s].node), fds[d])
    /\ IF fds[d].node = fds[s].node THEN phase' = "run" ELSE AfterClose(fds[d], "run")
    /\ fds' = [fds EXCEPT ![d] = fds[s]]
    /\ UNCHANGED <<bytes, made, at, pty, lost>>

\* With a requested number behind the table, -ENOSYS is returned after the
\* handle was counted, and nobody gives it back.
SysDupRefused(s) ==
    /\ phase = "run"
    /\ Open(s)
    /\ lost[fds[s].node] = 0
    /\ Cardinality({n \in Node : lost[n] > 0}) < MaxLost
    /\ nodes' = Opened(nodes, fds[s].node)
    /\ lost' = [lost EXCEPT ![fds[s].node] = @ + 1]
    /\ UNCHANGED <<fds, bytes, made, phase, at, pty>>

SysPipe(p) ==
    /\ phase = "run"
    /\ HasRoom(2)
    /\ p \notin made
    /\ made' = made \union {p}
    /\ fds' = Allocate(Allocate(fds, Fd(<<"read", p>>, 0)), Fd(<<"write", p>>, 0))
    /\ nodes' = Opened(Opened(nodes, <<"read", p>>), <<"write", p>>)
    /\ UNCHANGED <<bytes, phase, at, pty, lost>>

\* sys_grant_pty: the worker replaces the standard descriptors one by one, then
\* the controller gets a descriptor.
SysGrantPty(t) ==
    /\ phase = "run"
    /\ HasRoom(1)
    /\ t \notin made
    /\ made' = made \union {t}
    /\ pty' = t
    /\ phase' = "grant"
    /\ at' = 1
    /\ UNCHANGED <<fds, nodes, bytes, lost>>

\* replace_file_desc.
GrantReplace ==
    /\ phase = "grant"
    /\ at <= 3
    /\ nodes' = ClosedFd(Opened(nodes, <<"worker", pty>>), fds[at])
    /\ AfterClose(fds[at], "grant")
    /\ fds' = [fds EXCEPT ![at] = Fd(<<"worker", pty>>, 0)]
    /\ at' = at + 1
    /\ UNCHANGED <<bytes, made, pty, lost>>

GrantController ==
    /\ phase = "grant"
    /\ at > 3
    /\ fds' = Allocate(fds, Fd(<<"controller", pty>>, 0))
    /\ nodes' = Opened(nodes, <<"controller", pty>>)
    /\ phase' = "run"
    /\ at' = 1
    /\ UNCHANGED <<bytes, made, pty, lost>>

-----------------------------------------------------------------------------
(* Reading, writing and seeking                                            *)

\* fs::read of n bytes moves the position of the descriptor.
ReadOf(fd, n) == Fd(fd.node, fd.pos + n)

\* ext2 and the disk: a read ends at the end of the file.
SysReadFile(d) ==
    /\ phase = "run"
    /\ Open(d) /\ fds[d].node = File
    /\ fds[d].pos < FileSize
    /\ \E n \in 1 .. FileSize - fds[d].pos : fds' = [fds EXCEPT ![d] = ReadOf(@, n)]
    /\ UNCHANGED <<nodes, bytes, made, phase, at, pty, lost>>

\* sys_seek.  The offset is an unsigned register, so a negative one is large
\* and a sum wraps around.
SeekResult(p, off, whence, size) ==
    CASE whence = "set" -> IF off > size THEN p ELSE off
      [] whence = "cur" -> IF (off + p) % Word > size THEN p ELSE (off + p) % Word
      [] whence = "end" -> IF off > 0 THEN p ELSE size

SysSeek(d) ==
    /\ phase = "run"
    /\ Open(d) /\ fds[d].node = File
    /\ \E off \in 0 .. Word - 1, whence \in {"set", "cur", "end"} :
        fds' = [fds EXCEPT ![d] = Fd(File, SeekResult(@.pos, off, whence, FileSize))]
    /\ UNCHANGED <<nodes, bytes, made, phase, at, pty, lost>>

\* unix_pipe::write: what the stream holds after a byte, unless -EPIPE.
WriteOf(end, p) ==
    IF end \in nodes.widowed THEN bytes ELSE [bytes EXCEPT ![p] = @ + 1]

SysWritePipe(d, p) ==
    /\ phase = "run"
    /\ Open(d) /\ fds[d].node = <<"write", p>>
    /\ bytes[p] < MaxBytes
    /\ bytes' = WriteOf(fds[d].node, p)
    /\ UNCHANGED <<fds, nodes, made, phase, at, pty, lost>>

\* A reader of an empty pipe blocks, unless the writer is gone.
SysReadPipe(d, p) ==
    /\ phase = "run"
    /\ Open(d) /\ fds[d].node = <<"read", p>>
    /\ IF bytes[p] = 0
         THEN /\ phase' = IF fds[d].node \in nodes.widowed THEN "run" ELSE "blocked"
              /\ UNCHANGED bytes
         ELSE /\ \E n \in 1 .. bytes[p] : bytes' = [bytes EXCEPT ![p] = @ - n]
              /\ UNCHANGED phase
    /\ UNCHANGED <<fds, nodes, made, at, pty, lost>>

\* No write wakes a blocked reader, since writers only signal the watchers.
\* But the scheduler may resume it, or an interrupt end its wait; the stream is
\* still empty, for the process has no other thread.
ReadPipeReturns ==
    /\ phase = "blocked"
    /\ phase' = "run"
    /\ UNCHANGED <<fds, nodes, bytes, made, at, pty, lost>>

-----------------------------------------------------------------------------
(* sys_exit: destroy_all_files                                             *)

SysExit ==
    /\ phase = "run"
    /\ phase' = "exit"
    /\ at' = 1
    /\ UNCHANGED <<fds, nodes, bytes, made, pty, lost>>

ExitClose ==
    /\ phase = "exit"
    /\ at <= Len(fds)
    /\ nodes' = ClosedFd(nodes, fds[at])
    /\ AfterClose(fds[at], "exit")
    /\ fds' = [fds EXCEPT ![at] = NoFd]
    /\ at' = at + 1
    /\ UNCHANGED <<bytes, made, pty, lost>>

ExitDone ==
    /\ phase = "exit"
    /\ at > Len(fds)
    /\ fds' = <<>>
    /\ phase' = "exited"
    /\ at' = 1
    /\ UNCHANGED <<nodes, bytes, made, pty, lost>>

-----------------------------------------------------------------------------
OnDescriptor(d) ==
    \/ SysClose(d) \/ SysDup(d) \/ SysDupRefused(d)
    \/ \E e \in DOMAIN fds : SysDupTo(d, e)
    \/ SysReadFile(d) \/ SysSeek(d)
    \/ \E p \in Pipe : SysWritePipe(d, p) \/ SysReadPipe(d, p)

Next ==
    \/ SysOpen \/ SysCloseBehind
    \/ \E d \in DOMAIN fds : OnDescriptor(d)
    \/ \E p \in Pipe : SysPipe(p)
    \/ \E t \in Pty : SysGrantPty(t)
    \/ GrantReplace \/ GrantController \/ ReadPipeReturns
    \/ SysExit \/ ExitClose \/ ExitDone

Spec == Init /\ [][Next]_vars

-----------------------------------------------------------------------------
(* Properties                                                              *)

\* The table holds descriptors of known nodes, the counts are natural numbers.
TypeOK ==
    /\ fds \in Seq([node : Node, pos : Nat] \union {NoFd})
    /\ nodes \in [handles : [Node -> Nat], deleted : SUBSET End, widowed : SUBSET End]
    /\ bytes \in [Pipe -> 0 .. MaxBytes]
    /\ made \subseteq Pipe \union Pty
    /\ phase \in {"run", "grant", "exit", "exited", "blocked", "panic", "corrupt"}
    /\ at \in 1 .. MaxFds + 1
    /\ lost \in [Node -> 0 .. 1]

\* _handle_count of a node is the number of descriptors that refer to it and of
\* the handles that sys_dup dropped, whatever the calls that opened, copied,
\* replaced and closed them.
HandlesExact == \A n \in Node : nodes.handles[n] = Count(n) + lost[n]

\* unix_pipe::close deletes an end when the last descriptor of it goes, neither
\* earlier nor never.
PipeEndLifetime ==
    \A e \in End :
        e[2] \in made => (e \in nodes.deleted <=> Count(e) = 0 /\ lost[e] = 0)

\* An end knows that its peer is gone: a reader then gets the end of the file
\* and does not block, and a writer does not reach for its _other_end.
WidowedExact ==
    \A e \in End :
        e[2] \in made /\ e \notin nodes.deleted
            => (e \in nodes.widowed <=> Peer(e) \in nodes.deleted)

\* Opening, reading and seeking keep the position inside the file.
PosInFile == \A d \in DOMAIN fds : fds[d].pos <= SizeOf(fds[d].node)

\* A call gives a descriptor another node only if it names the descriptor, or
\* if allocate_file_desc finds it free behind the standard three.
DescriptorsStable ==
    [][\A d \in DOMAIN fds \intersect DOMAIN fds' :
            \/ fds'[d].node = fds[d].node
            \/ fds'[d] = NoFd
            \/ phase = "grant" /\ at = d
            \/ d > 3 /\ fds[d] = NoFd
            \/ \E s \in DOMAIN fds : SysDupTo(s, d)]_vars

\* The descriptor table and the handle counts of the nodes agree after every
\* system call, and every position is inside its file.
DescriptorsExact == TypeOK /\ HandlesExact /\ PosInFile

\* The two ends of a pipe live exactly as long as their handles, and the one that
\* is left knows of it.
PipeEndsExact == PipeEndLifetime /\ WidowedExact
=============================================================================
