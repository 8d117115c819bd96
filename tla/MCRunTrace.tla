----------------------------- MODULE MCRunTrace -----------------------------
(***************************************************************************)
(* Instances of RunTrace for TLC: two requests, two answers, two stages.    *)
(***************************************************************************)
EXTENDS RunTrace

CONSTANTS r1, r2, a1, a2, s1, s2

Step(accepts, answer) == [accepts |-> accepts, answer |-> answer]

\* A script with an expectation at its second step, and one that takes any
\* request once.
TwoScripts == {<<Step({r1, r2}, a1), Step({r2}, a2), Step({r1, r2}, a1)>>,
               <<Step({r1, r2}, a2)>>}
TwoAnswers == {<<Step({r1, r2}, a1), Step({r1, r2}, a2)>>}
=============================================================================
