---------------------------- MODULE StudentWork ----------------------------
(***************************************************************************)
(* What coursectl promises about a student's reports and traces, whatever  *)
(* commands run, fail or are killed: a file stays in the target clone or   *)
(* moves to the archive, and an archived file stays there.  The two        *)
(* exceptions are the student's own: a file written while a command is     *)
(* already running (it is exposed to that command's clean) and a clone     *)
(* the student deletes.  Promised by the comments of Clone and Archive     *)
(* ("so a re-run never discards student work", "so student work survives   *)
(* a reset or a lab switch") in coursectl/internal/target/target.go.       *)
(***************************************************************************)
CONSTANT Items              \* the files a student writes

VARIABLES place,            \* where each file is
          exposed           \* files written while a command was running

vars == <<place, exposed>>

Places == {"unwritten", "clone", "archive", "lost", "discarded"}

TypeOK == /\ place \in [Items -> Places]
          /\ exposed \in SUBSET Items

Init == /\ place = [i \in Items |-> "unwritten"]
        /\ exposed = {}

Moved(S, from, to) ==
  /\ \A i \in S : place[i] = from
  /\ place' = [i \in Items |-> IF i \in S THEN to ELSE place[i]]

\* The student writes a file; it is exposed if a command is running.
Write(i) ==
  /\ Moved({i}, "unwritten", "clone")
  /\ exposed' \in {exposed, exposed \cup {i}}

\* A command moves files to the archive.
Preserve(S) == Moved(S, "clone", "archive") /\ UNCHANGED exposed

\* A command's clean removes files, exposed ones only.
Lose(S) ==
  /\ S \subseteq exposed
  /\ Moved(S, "clone", "lost")
  /\ exposed' \in SUBSET exposed

\* The student deletes files.
Discard(S) == Moved(S, "clone", "discarded") /\ UNCHANGED exposed

\* A command ends (or a new one begins): what it exposed is exposed no more.
Settle == exposed' \in SUBSET exposed /\ UNCHANGED place

Next ==
  \/ \E i \in Items : Write(i)
  \/ \E S \in SUBSET Items : Preserve(S) \/ Lose(S) \/ Discard(S)
  \/ Settle

Spec == Init /\ [][Next]_vars
=============================================================================
