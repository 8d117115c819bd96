----------------------------- MODULE MCEvaluation -----------------------------
(***************************************************************************)
(* A base with a file in LF and one in CRLF, and what workers make of it:  *)
(* edits in different places and in the same one, a deletion, a move, and  *)
(* new files: empty, in LF and in bytes that are no UTF-8.                 *)
(***************************************************************************)
EXTENDS Evaluation

Old == Text(0, 0, "lf")
MCBase == [a |-> Old, b |-> Text(0, 0, "crlf"), c |-> Absent]

MCEdited ==
    {[MCBase EXCEPT !.a = Text(1, 0, "lf")],
     [MCBase EXCEPT !.a = Text(0, 1, "lf")],
     [MCBase EXCEPT !.a = Absent],
     [MCBase EXCEPT !.a = Absent, !.c = Old],
     [MCBase EXCEPT !.a = Text(0, 2, "lf"), !.b = Text(1, 0, "crlf")],
     [MCBase EXCEPT !.c = Empty],
     [MCBase EXCEPT !.c = Text(1, 1, "lf")],
     [MCBase EXCEPT !.c = Text(1, 1, "bytes")]}

MCSolved ==
    {[MCBase EXCEPT !.a = Text(1, 0, "lf")],
     [MCBase EXCEPT !.a = Text(1, 1, "lf")]}
=============================================================================
