-------------------------- MODULE PullRequestLedger --------------------------
(***************************************************************************)
(* What the pull-request boundary promises: a growing record of the draft  *)
(* pull requests that were opened, at most one for each idempotency key    *)
(* and no number twice, none ever withdrawn or renumbered.                 *)
(***************************************************************************)
VARIABLE ledger    \* a set of records with a key and a number

Init == ledger = {}

Open(pr) ==
    /\ \A old \in ledger : old.key # pr.key /\ old.number # pr.number
    /\ ledger' = ledger \cup {pr}

Next == \E pr \in ledger' : Open(pr)
Spec == Init /\ [][Next]_ledger
=============================================================================
