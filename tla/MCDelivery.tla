------------------------------ MODULE MCDelivery ------------------------------
(***************************************************************************)
(* An instance of Delivery for TLC: one workflow of each kind, the worker  *)
(* ids of the course's replay fixtures, and reviewers that write every     *)
(* kind of line.                                                           *)
(***************************************************************************)
EXTENDS Delivery

MCKeys == (Workflows \X (1 .. 2)) \cup {<<"", 0>>}
MCNoKey == <<"", 0>>
MCTask == <<"task", "-", "m06", "-", "1">>
MCImplementers == {<<"label", "-", "worker">>, <<"badge", "-", "worker">>}
MCReviewers == {<<"correctness", "-", "reviewer">>}
MCFixers == {<<"fix", "-", "worker">>}

\* The course's ids are such that nothing is overwritten.
ASSUME CourseIdsApart == IdsApart

Good == Finding(RequiredKeys, "tests", "low", "high", "object")
MCLines ==
    {Concludes("approved"), Concludes("approved!"), Reports(Good), Reports(Broken),
     Reports([Good EXCEPT !.keys = @ \ {"summary"}]),
     Reports([Good EXCEPT !.severity = "urgent"]),
     Reports([Good EXCEPT !.evidence = "null"]),
     Line("FINDING:", Good, "")}
=============================================================================
