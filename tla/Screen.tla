------------------------------- MODULE Screen -------------------------------
(***************************************************************************)
(* The terminal emulator of fterm: print_char as a function of the screen  *)
(* s and a byte.  The cells are left out: a row is its length, which is    *)
(* what indexing can get wrong.  A byte is a string: a letter, a digit, or *)
(* the name of a control character.                                        *)
(***************************************************************************)
EXTENDS Integers, Sequences, SequencesExt, FiniteSetsExt

CONSTANTS
    Columns, Rows,  \* ws_col and ws_row
    EscMax,         \* ESC_BUFFER_MAX (256)
    IntMax          \* the largest int (2^31 - 1)

ASSUME ScreenAssumption == {Columns, Rows, EscMax, IntMax} \subseteq Nat \ {0}

Digits == <<"0", "1", "2", "3", "4", "5", "6", "7", "8", "9">>
Alpha == {"a", "p", "A", "B", "C", "D", "m"}
Space == {" ", "nl"}
Graph == Alpha \cup ToSet(Digits) \cup {"[", "]", ";", "^", "-"}

Normal == [set |-> {}, fg |-> 33, bg |-> 0]
\* wild: a cell past the end of its row was read; smashed: a cell was put into a
\* row that does not exist; resumed: an escape sequence filled its buffer, after
\* which text is printed again; strayed: the cursor was moved by a negative amount,
\* or farther than an int reaches.
Blank == [x |-> 0, y |-> 0, rows |-> [i \in 0 .. Rows - 1 |-> Columns],
          esc |-> FALSE, type |-> "", buf |-> <<>>, state |-> Normal,
          prompts |-> 0, wild |-> FALSE, smashed |-> FALSE, resumed |-> FALSE, strayed |-> FALSE]

-----------------------------------------------------------------------------
(* atoi and strchr on the parameters of a sequence                         *)

Value(c) == (CHOOSE i \in 1 .. 10 : Digits[i] = c) - 1
FirstNot(S, q) == Min({i \in 1 .. Len(q) : q[i] \notin S} \cup {Len(q) + 1})
\* What an int holds after an overflow.
Wrapped(n) == ((n + IntMax + 1) % (2 * (IntMax + 1))) - IntMax - 1
Number(q) == FoldLeft(LAMBDA n, c : Wrapped(10 * n + Value(c)), 0,
                      SubSeq(q, 1, FirstNot(ToSet(Digits), q) - 1))
Atoi(q) == IF q # <<>> /\ q[1] = "-" THEN Wrapped(-Number(Tail(q))) ELSE Number(q)
\* What follows the first semicolon; <<>> when there is none.
Rest(q) == LET S == {i \in 1 .. Len(q) : q[i] = ";"} IN
    IF S = {} THEN <<>> ELSE SubSeq(q, Min(S) + 1, Len(q))
Amount(s) == IF s.buf = <<>> THEN 1 ELSE Atoi(s.buf)

Sets == [r \in {1, 2, 3, 4, 5, 6, 7, 9, 21} |->
    CASE r = 1 -> "bold" [] r = 2 -> "faint" [] r = 3 -> "italic" [] r \in {4, 21} -> "underline"
      [] r \in {5, 6} -> "blink" [] r = 7 -> "reverse" [] r = 9 -> "strikethrough"]
Clears == [r \in {24, 25, 27} |-> CASE r = 24 -> "underline" [] r = 25 -> "blink" [] r = 27 -> "reverse"]
Palette(q, old) == LET p == Rest(q) IN
    IF p # <<>> /\ p[1] = "5" /\ \E i \in 1 .. Len(p) : p[i] = ";" THEN Atoi(Rest(p)) % 256 ELSE old

DoAnsiSgr(t, q) ==
    LET r == Atoi(q) IN
    CASE r = 0 -> Normal
      [] r \in DOMAIN Sets -> [t EXCEPT !.set = @ \cup {Sets[r]}]
      [] r \in DOMAIN Clears -> [t EXCEPT !.set = @ \ {Clears[r]}]
      [] r \in 30 .. 37 -> [t EXCEPT !.fg = r - 30]
      [] r \in 40 .. 47 -> [t EXCEPT !.bg = r - 40]
      [] r \in 90 .. 97 -> [t EXCEPT !.fg = r - 90 + 8]
      [] r \in 100 .. 107 -> [t EXCEPT !.bg = r - 100 + 8]
      [] r = 38 -> [t EXCEPT !.fg = Palette(q, @)]
      [] r = 48 -> [t EXCEPT !.bg = Palette(q, @)]
      [] OTHER -> t

-----------------------------------------------------------------------------
(* The cursor                                                              *)

\* Mutant: one line is scrolled, however far the cursor went.
ScrollOnce(s) ==
    IF s.y < Rows THEN s
    ELSE [s EXCEPT !.y = @ - 1, !.rows = [i \in 0 .. Rows - 1 |-> IF i + 1 < Rows THEN s.rows[i + 1] ELSE 0]]
\* A line that scrolls in has no cells.
Scroll(s) ==
    LET k == s.y - Rows + 1 IN
    IF k <= 0 THEN s
    ELSE [s EXCEPT !.y = Rows - 1, !.rows = [i \in 0 .. Rows - 1 |-> IF i + k < Rows THEN s.rows[i + k] ELSE 0]]

\* s with its cursor moved to x, y, which are int.
At(s, x, y) == [s EXCEPT !.x = Wrapped(x), !.y = Wrapped(y),
                         !.strayed = @ \/ Amount(s) < 0 \/ Wrapped(x) # x \/ Wrapped(y) # y]
\* Nothing brings the cursor back from below the last row, or scrolls, here.
Up(s) == LET t == At(s, s.x, s.y - Amount(s)) IN [t EXCEPT !.y = Max({@, 0})]
Down(s) == Scroll(At(s, s.x, s.y + Amount(s)))
Forward(s) ==
    LET t == At(s, s.x + Amount(s), s.y)
        laps == (t.x - 1) \div Columns
    IN  IF t.x <= Columns THEN t
        ELSE Scroll([t EXCEPT !.x = @ - laps * Columns, !.y = @ + laps])
Back(s) ==
    LET t == At(s, s.x - Amount(s), s.y)
        laps == IF t.x < 0 THEN (Columns - 1 - t.x) \div Columns ELSE 0
    IN  IF s.y < laps THEN [t EXCEPT !.x = 0, !.y = 0]
        ELSE [t EXCEPT !.x = @ + laps * Columns, !.y = @ - laps]

DoAnsiCsi(s, c) ==
    CASE c = "m" -> [s EXCEPT !.state = DoAnsiSgr(@, s.buf)]
      [] c = "A" -> Up(s)
      [] c = "B" -> Down(s)
      [] c = "C" -> Forward(s)
      [] c = "D" -> Back(s)
      [] OTHER -> s

\* The mode ends only when the buffer is full: neither the last letter of a
\* sequence nor a type that is not handled leaves it.
Escaped(s, c) ==
    LET first == s.type = ""
        t == [s EXCEPT !.type = IF first /\ c # "nul" THEN c ELSE @]
        ch == IF first THEN "nul" ELSE c
    IN  CASE c \in Space \/ t.type \notin {"[", "]"} -> IF c \in Space THEN s ELSE t
          [] ch \notin Alpha /\ Len(s.buf) = EscMax - 1 -> [t EXCEPT !.esc = FALSE, !.resumed = TRUE]
          [] ch \notin Alpha -> [t EXCEPT !.buf = IF ch = "nul" THEN @ ELSE Append(@, ch)]
          [] OTHER -> IF t.type = "[" THEN DoAnsiCsi(t, ch) ELSE t

\* A row grows by one cell at its end, a negative x being a large size_t, and
\* the cell at x is read.
Shown(s, c) ==
    LET there == s.y \in DOMAIN s.rows
        n == IF there THEN s.rows[s.y] ELSE 0
        put == [s EXCEPT !.rows = IF there /\ s.x \notin 0 .. n - 1 THEN [@ EXCEPT ![s.y] = n + 1] ELSE @,
                         !.wild = @ \/ s.x \notin 0 .. n, !.smashed = @ \/ ~there, !.x = @ + 1]
    IN  IF put.x > Columns THEN Scroll([put EXCEPT !.x = 0, !.y = @ + 1]) ELSE put

PrintChar(s, c) ==
    CASE s.esc -> Escaped(s, c)
      [] ~s.esc /\ c = "esc" -> [s EXCEPT !.esc = TRUE, !.type = "", !.buf = <<>>]
      [] ~s.esc /\ c = "nl" -> Scroll([s EXCEPT !.y = @ + 1, !.x = 0, !.prompts = @ + 1])
      [] ~s.esc /\ c = "bs" -> [s EXCEPT !.x = IF @ > 0 THEN @ - 1 ELSE @]
      [] ~s.esc /\ c \in Graph \cup {" "} -> Shown(s, c)
      [] OTHER -> s
=============================================================================
