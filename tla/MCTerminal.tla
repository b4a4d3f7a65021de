----------------------------- MODULE MCTerminal -----------------------------
(***************************************************************************)
(* Model of Terminal for TLC.                                              *)
(***************************************************************************)
EXTENDS Terminal

Press(k) == <<k, TRUE>>
MCTyped == {<<Press("ENTER"), Press("BACKSPACE"), Press("BACKSPACE")>>,
            <<Press("LSHIFT"), Press("ZERO"), Press("UP")>>,
            <<Press("UP"), Press("ENTER"), Press("A")>>}
MCStaleCodes == {Press("BACKSPACE")}
\* Cursor movements, a negative one with text behind it and one that overflows
\* included, colours, text that wraps, and writes as long as the room
\* of a buffer and longer.
Csi(q) == <<"esc", "[">> \o q
MCOutputs == {Csi(<<"0", "0", "0", "0", "0", "5", "C">>), Csi(<<"9", "B", "D">>),
              Csi(<<"-", "0", "0", "0", "0", "0", "9", "A", "0", "a">>), Csi(<<"1", "2", "7", "B", "D">>),
              Csi(<<"3", "8", ";", "5", ";", "1", "m">>), <<"a", "nl", "a", "a">>,
              [i \in 1 .. 14 |-> "a"], [i \in 1 .. 15 |-> "a"]}
Garb(n, l, k) == [position |-> n, lines |-> l, lock |-> k]
Pair(w, c) == [worker |-> w, controller |-> c]
Zero == Garb(0, 0, FALSE)
MCGarbage == {Pair(Zero, Zero), Pair(Garb(12, 0, FALSE), Garb(3, 1, FALSE)),
              Pair(Garb(0, 0, TRUE), Zero), Pair(Zero, Garb(0, 0, TRUE))}
=============================================================================
