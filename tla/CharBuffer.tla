----------------------------- MODULE CharBuffer -----------------------------
(***************************************************************************)
(* kstd::char_buffer, the byte queue behind each end of a pty.  A buffer   *)
(* is a record: data is _data up to _position, and room what malloc or     *)
(* realloc returned (what is past _position is never read before it is     *)
(* written).  torn, over and wild are history: a read left part of the     *)
(* queue where it was, a write took more bytes than its caller passed, or  *)
(* an access went past the room.                                           *)
(***************************************************************************)
EXTENDS Integers, Sequences, SequencesExt

CONSTANTS
    StartSize,  \* _size: set to START_SIZE (1024), never changed
    MaxSize,    \* _max_size (0x200000)
    Slack,      \* what realloc adds (128)
    LineCounts  \* half the values of _lines, an int (2^31)

ASSUME CharBufferAssumption == StartSize \in Nat \ {0} /\ MaxSize > StartSize /\ Slack \in Nat /\ LineCounts > MaxSize

Ends == {"nl", "nul"}           \* the bytes _lines counts
EndsIn(q) == Len(SelectSeq(q, LAMBDA c : c \in Ends))
Int32(n) == ((n + LineCounts) % (2 * LineCounts)) - LineCounts
Position(b) == Len(b.data)
\* FoldLeft, with each step taken on the value of the one before it.
Run(op(_, _), start, q) == CHOOSE r \in FoldLeft(LAMBDA S, c : {op(x, c) : x \in S}, {start}, q) : TRUE
Returned(b) == [b EXCEPT !.written = 0]     \* written is a local of write

\* _position, _lines and _lock hold whatever malloc returned: here g.
New(ignore, g) ==
    [data |-> [i \in 1 .. g.position |-> "junk"], lines |-> g.lines,
     room |-> StartSize, ignore_bs |-> ignore, written |-> 0, lock |-> g.lock,
     torn |-> FALSE, over |-> FALSE, wild |-> FALSE]

HasLines(b) == b.lines > 0
HasData(b) == Position(b) > 0

Stored(b, c) == [b EXCEPT !.data = Append(@, c), !.written = @ + 1,
                                !.lines = IF c \in Ends THEN Int32(@ + 1) ELSE @]
Erased(b) == IF HasData(b) THEN [b EXCEPT !.data = Front(@), !.written = @ + 1] ELSE b
\* One byte of a write.  A backspace on an empty buffer is not counted as
\* written; one that erases a newline leaves _lines as it is.
Put(b, c) ==
    IF c = "bs" /\ ~b.ignore_bs THEN Erased(b)
    ELSE IF Position(b) >= b.room \/ b.wild THEN [b EXCEPT !.wild = TRUE]
    ELSE Stored(b, c)

\* Mutant: the last byte of the maximum is kept free.
SizeOfWriteShort(b, n) == IF Position(b) + StartSize > MaxSize THEN MaxSize - Position(b) - 1 ELSE n
\* The size is clipped against _size and not against the bytes to write.
SizeOfWrite(b, n) == IF Position(b) + StartSize > MaxSize THEN MaxSize - Position(b) ELSE n

Realloc(b, n) ==
    IF Position(b) + n <= StartSize THEN b
    ELSE [b EXCEPT !.room = LET r == Position(b) + StartSize + Slack IN IF r > @ THEN r ELSE @]

\* The bytes past the end of q are what follows it in the caller's memory.
Write(b, q) ==
    LET n == SizeOfWrite(b, Len(q))
        bytes == [i \in 1 .. n |-> IF i <= Len(q) THEN q[i] ELSE "junk"]
        start == [b EXCEPT !.written = 0, !.over = @ \/ n > Len(q)]
    IN  IF n <= 0 THEN [b EXCEPT !.written = 0, !.wild = @ \/ n < 0]   \* size is unsigned
        ELSE Run(Put, Realloc(start, n), bytes)

\* Mutant: the queue is moved down one place too few.
MovedButOne(b, n) == [i \in 1 .. Position(b) - n |-> IF i <= StartSize - n THEN b.data[n + i - 1] ELSE b.data[i]]
\* Only the first _size bytes move.
Moved(b, n) == [i \in 1 .. Position(b) - n |-> IF i <= StartSize - n THEN b.data[n + i] ELSE b.data[i]]

ReadSize(b, n) == IF n > Position(b) THEN Position(b) ELSE n
Read(b, n) ==
    LET size == ReadSize(b, n) IN
    IF size = 0 THEN b
    ELSE [b EXCEPT !.lines = Int32(@ - EndsIn(SubSeq(b.data, 1, size))), !.data = Moved(b, size),
                   !.torn = @ \/ Position(b) > StartSize, !.wild = @ \/ size > StartSize]
\* What read leaves in the caller's buffer: a NUL is not copied.
Received(b, n, old) == [i \in 1 .. Len(old) |->
    IF i <= ReadSize(b, n) /\ b.data[i] # "nul" THEN b.data[i] ELSE old[i]]

Flush(b) == [b EXCEPT !.data = <<>>, !.lines = 0]
=============================================================================
