--------------------------- MODULE MCTargetClone ---------------------------
(***************************************************************************)
(* Instances of TargetClone for TLC: one or two repositories, two module   *)
(* checkpoints, labs at one of the revisions, a handful of files.          *)
(***************************************************************************)
EXTENDS TargetClone, FiniteSets, TLC

CONSTANTS bookit, platform, v1, v2, p1, p2

TwoProcs == Permutations({p1, p2})

\* One repository, two modules that pin different revisions of it.
OneRepoMap == 3 :> [repository |-> bookit, revision |-> v1] @@
              4 :> [repository |-> bookit, revision |-> v2]
OneRevMap == 0 :> [repository |-> bookit, revision |-> v1]
\* Two repositories; module 5 pins an early revision, module 7 a later one.
TwoRepoMap == 5 :> [repository |-> platform, revision |-> v1] @@
              6 :> [repository |-> bookit, revision |-> v2] @@
              7 :> [repository |-> platform, revision |-> v2]

OneRank == bookit :> 1
TwoRank == bookit :> 1 @@ platform :> 2

LabAtV1 == {[repository |-> bookit, revision |-> v1]}

File(s, n) == [repo |-> bookit, sub |-> s, id |-> n]
NoItems == {}
NoLabs == {}
OneReport == {File("reports", 1)}
TwoReports == {File("reports", 1), File("reports", 2)}
ReportAndTrace == {File("reports", 1), File("traces", 1)}
=============================================================================
