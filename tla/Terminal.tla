------------------------------ MODULE Terminal ------------------------------
(***************************************************************************)
(* From a key to the screen: the keyboard interrupt, the ring of kbd0, the *)
(* pty with its two buffers, and the loop of fterm, the process that holds *)
(* both ends of the pty.  The descriptors 0 to 2 of the process are first  *)
(* /dev/null and /dev/klog, then the worker end.  Code other than fterm's  *)
(* own that runs in the process may write, read and control that end: the  *)
(* actions Stdout, ReadStdin, Tcsetattr and Tcflush.  The process has one  *)
(* thread, so a call on the pty is one step; the interrupt may run on      *)
(* another CPU, so what it shares with keyboard_device::read is not.       *)
(***************************************************************************)
EXTENDS CharBuffer, Screen, FiniteSets

CONSTANTS
    Ring,       \* places of the ring; its counters are that wide (256)
    PollMax,    \* buf of input_manager::poll (16)
    ReadMax,    \* buf of main (512)
    LogMax,     \* MAX_SIZE of log_device (0x100000)
    Typed,      \* sequences of scan codes, <<place on the keyboard, pressed>>
    StaleCodes, \* what may be in the ring, and in the buf of poll, before a key is
    StaleBytes, \* what may be in the buf of main before a byte is
    Outputs,    \* what the process may print
    Garbage,    \* what malloc may leave in each buffer: [position, lines, lock]
    JunkIndex,  \* what the uninitialised i of keyboard_device::read may be
    MaxLogs, MaxCalls   \* bounds: calls before there is a pty, and after

ASSUME TerminalAssumption == {Ring, PollMax, ReadMax, LogMax} \subseteq Nat \ {0}

VARIABLES
    kbd,        \* keyboard_device
    irq,        \* <<>>, or what the interrupt handler loaded from _count
    pty,        \* [worker, controller, echo, canon]
    klog,       \* log_device, and the position of the descriptor
    screen,     \* see Screen
    p,          \* the process: pc and the locals of the functions it is in
    ghost       \* history, see Init

vars == <<kbd, irq, pty, klog, screen, p, ghost>>

Smaller(a, b) == IF a < b THEN a ELSE b
KeymapJp == [A |-> "a", ZERO |-> "0", ENTER |-> "nl", BACKSPACE |-> "bs", UP |-> "up", LSHIFT |-> "shift"]
KeymapShiftJp == [KeymapJp EXCEPT !.A = "A", !.ZERO = "nul"]
Prompt == <<"p", " ">>     \* the first and the last byte of it
\* ECHO and ICANON are set; clean: malloc left no bytes and no lines.
NewPty(g) ==
    [worker |-> New(FALSE, g.worker), controller |-> New(TRUE, g.controller), echo |-> TRUE, canon |-> TRUE,
     clean |-> \A h \in {g.worker, g.controller} : h.position = 0 /\ h.lines = 0]
NoLog == [text |-> <<>>, position |-> 0, pos |-> 0, wild |-> FALSE]

Init ==
    /\ \E k \in StaleCodes :
        kbd = [start |-> 0, end |-> 0, count |-> 0, buf |-> [i \in 0 .. Ring - 1 |-> k], there |-> FALSE]
    /\ irq = <<>>
    /\ \E g \in Garbage : pty = NewPty(g)
    /\ klog = NoLog
    /\ screen = Blank
    /\ \E b \in StaleBytes :
        p = [pc |-> "boot", size |-> 0, i |-> 0, n |-> 0, c |-> 0, shift |-> FALSE, end |-> "", next |-> "", need |-> 0,
             codes |-> <<>>, buf |-> [j \in 1 .. ReadMax |-> b], left |-> <<>>]
    \* typed: keys to come; pressed: keys in the ring; sent: bytes on their way
    \* to the screen; logged: bytes klog accepted
    /\ \E t \in Typed : ghost = [typed |-> t, pressed |-> <<>>, mistaken |-> FALSE, sent |-> <<>>, misprinted |-> FALSE,
                logged |-> <<>>, raced |-> FALSE, wrapped |-> FALSE, junk |-> FALSE, calls |-> 0]

Wild == pty.worker.wild \/ pty.controller.wild \/ klog.wild \/ screen.smashed
\* Once memory is overwritten nothing more is said of the system.
Pc(x) == p.pc = x /\ ~Wild
Goto(x) == p' = [p EXCEPT !.pc = x]

-----------------------------------------------------------------------------
(* The keyboard                                                            *)

KbdReadPanics ==    \* 10000 attempts without an answer, in ps2_initialize
    /\ Pc("boot") /\ Goto("panic")
    /\ UNCHANGED <<kbd, irq, pty, klog, screen, ghost>>
Ps2Initialize ==
    /\ Pc("boot") /\ Goto("start")
    /\ \E passes \in BOOLEAN : kbd' = [kbd EXCEPT !.there = passes]    \* the self-test
    /\ UNCHANGED <<irq, pty, klog, screen, ghost>>

\* write: the byte goes into the ring, then _count++ loads and stores.  256
\* minus an eight bit count is never zero, so a full ring is written too.
Ps2KbdHandler ==
    /\ ~Wild /\ kbd.there /\ irq = <<>> /\ ghost.typed # <<>>
    /\ kbd' = [kbd EXCEPT !.buf[kbd.end] = ghost.typed[1], !.end = (@ + 1) % Ring]
    /\ irq' = <<kbd.count>>
    /\ ghost' = [ghost EXCEPT !.pressed = Append(@, ghost.typed[1]), !.typed = Tail(@)]
    /\ UNCHANGED <<pty, klog, screen, p>>
KbdHandlerCounts ==
    /\ ~Wild /\ irq # <<>>
    /\ kbd' = [kbd EXCEPT !.count = (irq[1] + 1) % Ring]
    /\ irq' = <<>>
    /\ ghost' = [ghost EXCEPT !.raced = @ \/ kbd.count # irq[1], !.wrapped = @ \/ irq[1] + 1 = Ring]
    /\ UNCHANGED <<pty, klog, screen, p>>

\* keyboard_device::read, from poll.  Without a keyboard the open and the read
\* fail and there are no keys.
KbdRead ==
    LET size == Smaller(PollMax, kbd.count) IN
    /\ Pc("top")
    /\ \E j \in IF size = 0 THEN {0} ELSE JunkIndex :
        /\ p' = [p EXCEPT !.pc = IF size = 0 THEN "keys" ELSE "load", !.size = size, !.i = j, !.n = 1,
                !.codes = <<>>]
        /\ ghost' = [ghost EXCEPT !.junk = @ \/ j # 0]
    /\ UNCHANGED <<kbd, irq, pty, klog, screen>>
ReadKeyLoads ==
    /\ Pc("load")
    /\ p' = IF p.i >= p.size \/ kbd.count = 0 THEN [p EXCEPT !.pc = "keys"]
            ELSE [p EXCEPT !.pc = "store", !.c = kbd.count]
    /\ UNCHANGED <<kbd, irq, pty, klog, screen, ghost>>

Taken(code) == [ghost EXCEPT !.pressed = IF @ = <<>> THEN @ ELSE Tail(@), !.raced = @ \/ kbd.count # p.c,
                             !.mistaken = @ \/ ghost.pressed = <<>> \/ ghost.pressed[1] # code]
\* Mutant: read_key takes the last key of the ring.
ReadKeyLast ==
    /\ Pc("store")
    /\ LET e == (kbd.end + Ring - 1) % Ring IN
        /\ kbd' = [kbd EXCEPT !.count = p.c - 1, !.end = e]
        /\ p' = [p EXCEPT !.pc = "load", !.codes = Append(@, kbd.buf[e]), !.i = @ + 1]
        /\ ghost' = Taken(kbd.buf[e])
    /\ UNCHANGED <<irq, pty, klog, screen>>
ReadKey ==
    /\ Pc("store")
    /\ kbd' = [kbd EXCEPT !.count = p.c - 1, !.start = (@ + 1) % Ring]
    /\ p' = [p EXCEPT !.pc = "load", !.codes = Append(@, kbd.buf[kbd.start]), !.i = @ + 1]
    /\ ghost' = Taken(kbd.buf[kbd.start])
    /\ UNCHANGED <<irq, pty, klog, screen>>

-----------------------------------------------------------------------------
(* The pty                                                                 *)

\* The writes of the echo.
Echoes(q) == [i \in 1 .. Len(q) |-> IF q[i] = "esc" THEN <<"^", "[">> ELSE <<q[i]>>]
\* The threads blocked on the worker end and its watchers are none: there is
\* one thread, and nothing in the kernel watches a node.
ControllerWrite(t, q) ==
    LET w == Write(t.worker, q) IN
        [t EXCEPT !.worker = w,
                  !.controller = IF t.echo /\ w.written > 0 THEN Run(Write, @, Echoes(q)) ELSE @]
WorkerWrite(t, q) == [t EXCEPT !.controller = Write(@, q)]

Intact(b) == pty.clean /\ ~b.torn /\ ~b.over /\ ~b.wild
WriteTo(t, end, q) == IF end = "controller" THEN ControllerWrite(t, q) ELSE WorkerWrite(t, q)
BufferOf(t, end) == IF end = "controller" THEN t.worker ELSE t.controller

\* buffer += n: as many bytes from there on.
Advanced(q, n) == [i \in 1 .. Len(q) |-> IF i + n <= Len(q) THEN q[i + n] ELSE "junk"]

\* pty_device::write by the process.  A _lock that malloc left taken is never
\* free.  When the first try wrote less than its size the loop begins.
PtyWrite(end, q, next) ==
    LET t == WriteTo(pty, end, q)
        got == BufferOf(t, end).written
        to == IF q = <<>> THEN next ELSE IF BufferOf(pty, end).lock THEN "spin"
              ELSE IF got < Len(q) THEN "retry" ELSE next
    IN  /\ pty' = IF q = <<>> \/ to = "spin" THEN pty
                  ELSE [t EXCEPT !.worker = Returned(@), !.controller = Returned(@)]
        /\ p' = IF to # "retry" THEN [p EXCEPT !.pc = to, !.n = @ + 1]
                ELSE [p EXCEPT !.pc = to, !.n = @ + 1, !.end = end, !.next = next, !.need = Len(q) - got,
                        !.left = Advanced(q, got)]
Sent(q) == [ghost EXCEPT !.sent =
    IF pty'.controller = pty.controller \/ ~Intact(pty'.controller) THEN @ ELSE @ \o q]

\* The loop writes size bytes from where it is, until that many are written in all.
Retry ==
    /\ Pc("retry")
    /\ LET t == WriteTo(pty, p.end, p.left)
           got == BufferOf(t, p.end).written
       IN  /\ p' = IF got >= p.need THEN [p EXCEPT !.pc = p.next, !.left = <<>>]
                   ELSE [p EXCEPT !.need = @ - got, !.left = Advanced(@, got)]
           /\ pty' = [t EXCEPT !.worker = Returned(@), !.controller = Returned(@)]
    /\ UNCHANGED <<kbd, irq, klog, screen, ghost>>

-----------------------------------------------------------------------------
(* The process before it has a pty                                         *)

Call == ghost.calls < MaxCalls
Counted(g) == [g EXCEPT !.calls = @ + 1]

\* log_device::write: at a position other than 0 it is refused, and the
\* descriptor's position is past 0 after the first write.  Where it should
\* wrap, to_write is more than size.
LogWritten(k, q) ==
    LET full == Len(k.text) = LogMax
        n == Len(q)
    IN  CASE full /\ k.position + n <= LogMax ->
                [k EXCEPT !.text = [i \in 1 .. LogMax |->
                    IF i - k.position \in 1 .. n THEN q[i - k.position] ELSE @[i]], !.position = @ + n]
          [] ~full /\ Len(k.text) + n <= LogMax -> [k EXCEPT !.text = @ \o q]
          [] OTHER -> [k EXCEPT !.wild = TRUE]
\* log_device::read of n bytes at 0, where it does not wrap: if text is full,
\* position + n < LogMax.
LogRead(k, n) == SubSeq(k.text, k.position + 1, k.position + Smaller(n, Len(k.text)))
\* fs::write moves the position of the descriptor by what was written.
FsWritten(k, n) == [k EXCEPT !.pos = @ + n]
LogWrite(q) ==
    /\ Pc("start") /\ ghost.calls < MaxLogs
    /\ LET bytes == SubSeq(q, 1, Smaller(Len(q), LogMax)) IN
        IF klog.pos # 0 THEN klog' = klog /\ ghost' = Counted(ghost)
        ELSE /\ klog' = FsWritten(LogWritten(klog, bytes), Len(bytes))
             /\ ghost' = Counted([ghost EXCEPT !.logged = @ \o bytes])
    /\ UNCHANGED <<kbd, irq, pty, screen, p>>
OpenKlog ==
    /\ Pc("start") /\ ghost.calls < MaxLogs /\ klog.pos # 0
    /\ klog' = [klog EXCEPT !.pos = 0]
    /\ ghost' = Counted(ghost)
    /\ UNCHANGED <<kbd, irq, pty, screen, p>>

\* main from sys_grant_pty to the loop: the first prompt.  No descriptor of
\* the process refers to klog any more: here its history ends.
GrantPty ==
    /\ Pc("start")
    /\ PtyWrite("worker", Prompt, "top")
    /\ ghost' = [Sent(Prompt) EXCEPT !.logged = <<>>, !.calls = 0]
    /\ klog' = NoLog
    /\ UNCHANGED <<kbd, irq, screen>>

-----------------------------------------------------------------------------
(* The loop of fterm                                                       *)

KeyOf(code) == (IF p.shift THEN KeymapShiftJp ELSE KeymapJp)[code[1]]
\* on_key: the bytes a key writes to the pty.
KeyBytes(key) == IF key = "up" THEN <<"esc", "[", "A">> ELSE <<key>>
\* Where read counted more keys than it stored, poll uses what its buf held.
PolledCodes == IF p.n <= Len(p.codes) THEN {p.codes[p.n]} ELSE StaleCodes
OnKey ==
    /\ Pc("keys") /\ p.n <= p.i
    /\ \E code \in PolledCodes : LET q == IF code[2] THEN KeyBytes(KeyOf(code)) ELSE <<>> IN
        /\ KeyOf(code) # "shift"
        /\ PtyWrite("controller", q, "keys")
        /\ ghost' = Sent(FlattenSeq(Echoes(q)))
    /\ UNCHANGED <<kbd, irq, klog, screen>>
OnShift ==
    /\ Pc("keys") /\ p.n <= p.i
    /\ \E code \in PolledCodes :
        KeyOf(code) = "shift" /\ p' = [p EXCEPT !.shift = code[2], !.n = @ + 1]
    /\ UNCHANGED <<kbd, irq, pty, klog, screen, ghost>>
KeysDone ==         \* tcsetattr: no echo, not canonical
    /\ Pc("keys") /\ p.n > p.i
    /\ p' = [p EXCEPT !.pc = "print", !.codes = <<>>, !.size = 0, !.i = 0, !.n = 0, !.c = 0]
    /\ pty' = [pty EXCEPT !.echo = FALSE, !.canon = FALSE, !.worker.ignore_bs = TRUE]
    /\ UNCHANGED <<kbd, irq, klog, screen, ghost>>

\* print_char on the byte c; a newline writes the prompt to the worker end,
\* and if that does not return nothing more is printed.
PrintByte(m, c) ==
    LET s == PrintChar([m.screen EXCEPT !.prompts = 0], c)
        b == Write(m.controller, Prompt)
    IN  IF m.stuck THEN m
        ELSE IF s.prompts = 0 THEN [m EXCEPT !.screen = s]
        ELSE [m EXCEPT !.screen = s, !.controller = Returned(b), !.sent = @ \o Prompt, !.got = b.written, !.stuck = b.written < Len(Prompt)]
Misprinted(q) == \E i \in 1 .. Len(q) : i > Len(ghost.sent) \/ (ghost.sent[i] # "nul" /\ q[i] # ghost.sent[i])
PrintLoop ==
    /\ Pc("print") /\ HasData(pty.controller)
    /\ LET buf == Received(pty.controller, ReadMax, p.buf)
           q == SubSeq(buf, 1, ReadSize(pty.controller, ReadMax))
           m == Run(PrintByte,
                    [screen |-> screen, controller |-> Read(pty.controller, ReadMax), stuck |-> FALSE, got |-> 0,
                     sent |-> SubSeq(ghost.sent, Len(q) + 1, Len(ghost.sent))], q)
       IN  /\ screen' = m.screen
           /\ pty' = [pty EXCEPT !.controller = m.controller]
           /\ p' = IF m.stuck THEN [p EXCEPT !.buf = buf, !.pc = "retry", !.end = "worker",
                                                    !.next = "print", !.need = Len(Prompt) - m.got,
                                                    !.left = Advanced(Prompt, m.got)]
                   ELSE [p EXCEPT !.buf = buf]
           /\ ghost' = [ghost EXCEPT !.sent = IF Intact(m.controller) THEN m.sent ELSE <<>>,
                                    !.misprinted = @ \/ Misprinted(q)]
    /\ UNCHANGED <<kbd, irq, klog>>
PrintDone ==        \* tcsetattr: as it was at the start
    /\ Pc("print") /\ ~HasData(pty.controller)
    /\ Goto("top")
    /\ pty' = [pty EXCEPT !.echo = TRUE, !.canon = TRUE, !.worker.ignore_bs = FALSE]
    /\ UNCHANGED <<kbd, irq, klog, screen, ghost>>

-----------------------------------------------------------------------------
(* Other code of the process, on the worker end                            *)

Stdout(q) ==
    /\ Pc("top") /\ Call
    /\ PtyWrite("worker", q, "top")
    /\ ghost' = Counted(Sent(q))
    /\ UNCHANGED <<kbd, irq, klog, screen>>
\* worker_read blocks while there is something to read.
ReadStdin ==
    /\ Pc("top") /\ Call
    /\ IF IF pty.canon THEN HasLines(pty.worker) ELSE HasData(pty.worker)
       THEN Goto("blocked") /\ UNCHANGED pty
       ELSE IF pty.worker.lock THEN Goto("spin") /\ UNCHANGED pty
       ELSE UNCHANGED p /\ pty' = [pty EXCEPT !.worker = Read(@, ReadMax)]
    /\ ghost' = Counted(ghost)
    /\ UNCHANGED <<kbd, irq, klog, screen>>
Tcsetattr(echo, canon) ==
    /\ Pc("top") /\ Call
    /\ pty' = [pty EXCEPT !.echo = echo, !.canon = canon, !.worker.ignore_bs = ~canon]
    /\ ghost' = Counted(ghost)
    /\ UNCHANGED <<kbd, irq, klog, screen, p>>
Tcflush(arg) ==
    /\ Pc("top") /\ Call
    /\ IF arg \in {1, 2} /\ pty.worker.lock THEN Goto("spin") /\ UNCHANGED <<pty, ghost>>
       ELSE /\ pty' = [pty EXCEPT !.worker = IF arg \in {1, 2} THEN Flush(@) ELSE @,
                                  !.controller = IF arg \in {2, 3} THEN Flush(@) ELSE @]
            /\ ghost' = Counted([ghost EXCEPT !.sent = IF arg \in {2, 3} THEN <<>> ELSE @])
            /\ UNCHANGED p
    /\ UNCHANGED <<kbd, irq, klog, screen>>

-----------------------------------------------------------------------------
Fterm == KbdRead \/ ReadKeyLoads \/ ReadKey \/ OnKey \/ OnShift \/ KeysDone \/ PrintLoop \/ PrintDone
         \/ KbdReadPanics \/ Ps2Initialize \/ GrantPty \/ Retry
Other == \/ \E q \in Outputs : LogWrite(q) \/ Stdout(q)
         \/ OpenKlog \/ ReadStdin
         \/ \E echo, canon \in BOOLEAN : Tcsetattr(echo, canon)
         \/ \E arg \in 1 .. 3 : Tcflush(arg)
Keyboard == Ps2KbdHandler \/ KbdHandlerCounts
Next == Fterm \/ Other \/ Keyboard

\* fterm has no step that changes anything.
Stopped == \/ p.pc \in {"panic", "blocked", "spin"} \/ Wild
           \/ Pc("retry") /\ BufferOf(WriteTo(pty, p.end, p.left), p.end).written = 0
\* The process is scheduled round robin, and an interrupt handler that has
\* begun is not preempted.  The first is WF_vars(Fterm), its ENABLED written out.
Spec == /\ Init /\ [][Next]_vars
        /\ []<>Stopped \/ []<><<Fterm>>_vars
        /\ WF_vars(KbdHandlerCounts)

-----------------------------------------------------------------------------
(* Properties                                                              *)

\* The keys poll got are the first of those the interrupt handler put in the
\* ring, in order, and _count is the number of the others.  Until _count wraps
\* (255 unread keys and one more), read and handler change it at the same
\* time, or read starts from its uninitialised index.
KeysInOrder ==
    ghost.raced \/ ghost.wrapped \/ ghost.junk
    \/ (~ghost.mistaken /\ kbd.count + Len(irq) = Len(ghost.pressed))

\* What fterm prints and what is still in the controller's buffer is what was
\* echoed, printed and prompted, in order; only where a NUL was sent is it the
\* byte of an earlier read, and of a write that does not return a part is there.
\* Unless the buffer ever held more than _size bytes when it was read, came
\* near _max_size, or began with garbage.  And klog returns the last bytes it
\* accepted, until a write has to wrap.  A whole line in a buffer is announced:
\* through erasing, reading and flushing, _lines is at least the number of
\* newlines and NULs there.
BytesInOrder ==
    /\ Intact(pty.controller) =>
        /\ ~ghost.misprinted
        /\ pty.controller.data = ghost.sent \/ (Pc("retry") /\ IsPrefix(pty.controller.data, ghost.sent))
    /\ ~klog.wild =>
        LET n == IF Len(klog.text) < LogMax THEN LogMax ELSE LogMax - klog.position - 1
            first == Len(ghost.logged) - Len(klog.text)
        IN  LogRead(klog, n) = SubSeq(ghost.logged, first + 1, first + Smaller(n, Len(klog.text)))
    /\ \A b \in {pty.worker, pty.controller} : Intact(b) => EndsIn(b.data) <= b.lines

\* The cursor stays on the screen, one column past the last included, whatever
\* is printed; and only when text follows an escape sequence that filled its
\* buffer is a cell read that its row does not have.  Until a sequence moves the
\* cursor by a negative amount, for which no branch has a test on the side the
\* cursor then leaves, or farther than an int reaches.
CursorOnScreen ==
    screen.strayed \/ /\ screen.y \in 0 .. Rows - 1 /\ screen.x \in 0 .. Columns
                      /\ screen.wild => screen.resumed

Full(b) == Position(b) = MaxSize
Spinning == /\ Pc("retry")
            /\ Full(BufferOf(pty, p.end)) \/ (p.left = <<"bs">> /\ ~HasData(pty.worker))
\* fterm comes back to its loop again and again, unless it asks for its own
\* input, a lock began as taken, or it writes for ever: to a buffer that is
\* full, as only fterm itself would read it, or a backspace to an empty one.
\* Or a newline that a read left in the queue is printed again and again, each
\* time with a new prompt.
LoopReturns == []<>(Pc("top") \/ Pc("panic") \/ Pc("blocked") \/ Pc("spin") \/ Spinning
                   \/ pty.controller.torn \/ Wild)
=============================================================================
