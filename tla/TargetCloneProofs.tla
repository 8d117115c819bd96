------------------------- MODULE TargetCloneProofs -------------------------
(***************************************************************************)
(* Proofs about TargetClone: type correctness, custody of the student's    *)
(* reports and traces, the refinement of StudentWork, what the commands    *)
(* that report success leave.                                              *)
(***************************************************************************)
EXTENDS TargetClone, WellFoundedInduction, TLAPS

-----------------------------------------------------------------------------
(* Helpers of the checkpoint map.                                          *)

\* Every non-empty set of naturals has a least element.
LEMMA LeastNatural ==
  ASSUME NEW R \in SUBSET Nat, R # {}
  PROVE  \E n \in R : \A m \in R : n <= m
<1>1. PICK n \in R : \A m \in R : ~ (<<m, n>> \in OpToRel(<, Nat))
  BY NatLessThanWellFounded, WFMin, Zenon
<1>2. \A m \in R : ~ (m < n)
  BY <1>1 DEF OpToRel
<1>3. QED
  BY <1>2

\* A non-empty set of repositories has a first one by name (sortCheckpoints).
LEMMA FirstByNameIn ==
  ASSUME NEW S \in SUBSET Repos, S # {}
  PROVE  FirstByName(S) \in S
<1> DEFINE R == {Rank[r] : r \in S}
<1>1. R \in SUBSET Nat /\ R # {}
  BY RankAssumption
<1>2. PICK n \in R : \A m \in R : n <= m
  BY <1>1, LeastNatural
<1>3. PICK r \in S : Rank[r] = n
  BY <1>2
<1>4. \A q \in S : Rank[r] <= Rank[q]
  BY <1>2, <1>3
<1>5. QED
  BY <1>4 DEF FirstByName

\* Every repository the map names is pinned to a revision (TargetRepos).
LEMMA PinnedRevisionIn ==
  ASSUME NEW r \in Named
  PROVE  r \in Repos /\ PinnedRevision(r) \in Revs
<1>1. Referring(r) \in SUBSET Nat /\ Referring(r) # {}
  BY CheckpointAssumption DEF Referring, Named
<1>2. PICK m \in Referring(r) : \A n \in Referring(r) : m <= n
  BY <1>1, LeastNatural
<1>3. LowestModule(r) \in Referring(r)
  BY <1>2 DEF LowestModule
<1>4. QED
  BY <1>3, CheckpointAssumption DEF Referring, Named, PinnedRevision, Modules

LEMMA NamedNotEmpty == Named # {} /\ Named \in SUBSET Repos
  BY CheckpointAssumption DEF Named, Modules

-----------------------------------------------------------------------------
(* Type correctness.                                                       *)

\* Initially, by the assumptions on the constants.
LEMMA InitType == Init => TypeOK
<1>1. Repos # {} /\ Revs # {}
  BY CheckpointAssumption DEF Modules
<1>2. /\ (CHOOSE r \in Repos : TRUE) \in Repos
      /\ (CHOOSE v \in Revs : TRUE) \in Revs
  BY <1>1
<1> SUFFICES ASSUME Init PROVE TypeOK
  OBVIOUS
<1>3. repo \in [Procs -> Repos] /\ rev \in [Procs -> Revs]
  BY <1>2 DEF Init
<1>4. /\ present \in [Repos -> BOOLEAN] /\ head \in [Repos -> Revs \cup {NoRev}]
      /\ objects \in [Repos -> SUBSET Revs] /\ lock \in [Repos -> BOOLEAN]
      /\ dirt \in [Repos -> SUBSET Debris]
      /\ trees \in [Repos -> [Trees -> Linked]]
      /\ remote \in [Repos -> SUBSET Revs]
  BY DEF Init, Linked
<1>5. /\ pc \in [Procs -> Steps \cup {"idle"}]
      /\ cmd \in [Procs -> {"setup", "reset", "start-lab"}]
      /\ sub \in [Procs -> Subs] /\ now \in [Procs -> 0..MaxClock]
      /\ todo \in [Procs -> SUBSET Named] /\ wts \in [Procs -> SUBSET Trees]
      /\ result \in [Procs -> {"none", "ok", "error"}]
      /\ fresh \in [Procs -> SUBSET Items]
      /\ meddled \in [Procs -> {"no", "early", "late"}]
  BY CloneAssumption DEF Init, Subs
<1>6. /\ clock \in 0..MaxClock /\ stamp \in [Items -> 0..MaxClock]
      /\ at \in [Items -> {"unwritten", "clone", "archive", "lost", "discarded"}]
      /\ faults \in 0..MaxFaults /\ moves \in 0..MaxStudent
  BY CloneAssumption DEF Init
<1>7. QED
  BY <1>3, <1>4, <1>5, <1>6 DEF TypeOK

\* A command begins on a repository and a revision the constants name.
LEMMA BeginType ==
  ASSUME TypeOK, NEW p \in Procs, BeginCommand(p)
  PROVE  TypeOK'
<1> USE DEF TypeOK, cloneVars, workVars, envVars
<1>1. ASSUME NEW c \in {"setup", "reset", "start-lab"}, NEW r \in Repos,
             NEW v \in Revs, NEW rest \in SUBSET Named,
             NEW step \in Steps \cup {"idle"}, NEW res \in {"none", "error"},
             Begin(p, c, r, v, rest, step, res)
      PROVE  TypeOK'
  BY <1>1, CloneAssumption DEF Begin, Subs
<1>2. CASE BeginReset(p)
  BY <1>1, <1>2, CheckpointAssumption DEF BeginReset, ModuleCheckpoint, Steps
<1>3. CASE BeginLab(p)
  BY <1>1, <1>3, CloneAssumption DEF BeginLab, Steps
<1>4. CASE BeginSetup(p)
  <2>1. FirstByName(Named) \in Named
    BY NamedNotEmpty, FirstByNameIn
  <2>2. QED
    BY <1>1, <1>4, <2>1, NamedNotEmpty, PinnedRevisionIn DEF BeginSetup, Steps
<1>5. QED
  BY <1>2, <1>3, <1>4 DEF BeginCommand

\* After a successful checkoutRevision the jobs stay well-typed: setup's next
\* repository is one the map names.
LEMMA ReadyType ==
  ASSUME TypeOK, NEW p \in Procs, RevisionReady(p)
  PROVE  /\ pc' \in [Procs -> Steps \cup {"idle"}]
         /\ result' \in [Procs -> {"none", "ok", "error"}]
         /\ cmd' \in [Procs -> {"setup", "reset", "start-lab"}]
         /\ repo' \in [Procs -> Repos]
         /\ rev' \in [Procs -> Revs]
         /\ todo' \in [Procs -> SUBSET Named]
<1> USE DEF TypeOK, jobVars, Continue, Goto, Finish, Steps
<1>1. CASE cmd[p] = "reset"
  BY <1>1 DEF RevisionReady
<1>2. CASE cmd[p] # "reset" /\ todo[p] = {}
  BY <1>2 DEF RevisionReady
<1>3. CASE cmd[p] # "reset" /\ todo[p] # {}
  <2> DEFINE r == FirstByName(todo[p])
  <2>1. r \in todo[p] /\ todo[p] \subseteq Named
    BY <1>3, NamedNotEmpty, FirstByNameIn
  <2>2. r \in Repos /\ PinnedRevision(r) \in Revs
    BY <2>1, PinnedRevisionIn
  <2>3. NextRepository(p)
    BY <1>3 DEF RevisionReady
  <2> HIDE DEF r
  <2>4. QED
    BY <2>1, <2>2, <2>3 DEF NextRepository, r
<1>4. QED
  BY <1>1, <1>2, <1>3

\* Where the control of one process goes, and what meddling records.
LEMMA FlowType ==
  ASSUME TypeOK, NEW p \in Procs
  PROVE  /\ \A step \in Steps :
              Continue(p, step) => /\ pc' \in [Procs -> Steps \cup {"idle"}]
                                   /\ result' \in [Procs -> {"none", "ok", "error"}]
         /\ \A res \in {"ok", "error"} :
              Finish(p, res) => /\ pc' \in [Procs -> Steps \cup {"idle"}]
                                /\ result' \in [Procs -> {"none", "ok", "error"}]
         /\ Meddles(p) => meddled' \in [Procs -> {"no", "early", "late"}]
<1>1. ASSUME NEW step \in Steps, Continue(p, step)
      PROVE  /\ pc' \in [Procs -> Steps \cup {"idle"}]
             /\ result' \in [Procs -> {"none", "ok", "error"}]
  BY <1>1 DEF TypeOK, Continue, Goto
<1>2. ASSUME NEW res \in {"ok", "error"}, Finish(p, res)
      PROVE  /\ pc' \in [Procs -> Steps \cup {"idle"}]
             /\ result' \in [Procs -> {"none", "ok", "error"}]
  BY <1>2 DEF TypeOK, Finish, Goto
<1>3. Meddles(p) => meddled' \in [Procs -> {"no", "early", "late"}]
  BY DEF TypeOK, Meddles
<1>4. QED
  BY <1>1, <1>2, <1>3, Zenon

\* git checkout and git reset.
LEMMA ToRevisionType ==
  ASSUME TypeOK, NEW p \in Procs, NEW step \in Steps, ToRevision(p, step)
  PROVE  TypeOK'
<1> USE DEF TypeOK, cloneVars, workVars, envVars, jobVars
<1>1. CASE Local(p) /\ ~lock[repo[p]]
  <2> HIDE DEF TypeOK
  <2>0. /\ head' = [head EXCEPT ![repo[p]] = rev[p]]
        /\ dirt' = [dirt EXCEPT ![repo[p]] = @ \ {"edits"}]
    BY <1>1, Zenon DEF ToRevision
  <2>1. /\ head' \in [Repos -> Revs \cup {NoRev}]
        /\ dirt' \in [Repos -> SUBSET Debris]
    BY <2>0 DEF TypeOK
  <2>2. /\ pc' \in [Procs -> Steps \cup {"idle"}]
        /\ result' \in [Procs -> {"none", "ok", "error"}]
        /\ meddled' \in [Procs -> {"no", "early", "late"}]
    BY <1>1, FlowType DEF ToRevision
  <2>3. QED
    BY <2>1, <2>2 DEF ToRevision, TypeOK
<1>2. CASE ~(Local(p) /\ ~lock[repo[p]])
  BY <1>2, FlowType DEF ToRevision
<1>3. QED
  BY <1>1, <1>2

\* Archive goes on to the traces, or past them.
LEMMA AfterArchiveType ==
  ASSUME TypeOK, NEW p \in Procs, AfterArchive(p)
  PROVE  /\ sub' \in [Procs -> Subs]
         /\ pc' \in [Procs -> Steps \cup {"idle"}]
         /\ result' \in [Procs -> {"none", "ok", "error"}]
<1>1. {"archive", "list", "restore"} \subseteq Steps
  BY DEF Steps
<1>2. CASE sub[p] = "reports"
  <2>1. Continue(p, "archive") /\ sub' = [sub EXCEPT ![p] = "traces"]
    BY <1>2, Zenon DEF AfterArchive
  <2>2. sub' \in [Procs -> Subs]
    BY <2>1 DEF TypeOK, Subs
  <2>3. QED
    BY <1>1, <2>1, <2>2, FlowType
<1>3. CASE sub[p] # "reports"
  <2>1. /\ Continue(p, IF cmd[p] = "reset" THEN "list" ELSE "restore")
        /\ UNCHANGED sub
    BY <1>3, Zenon DEF AfterArchive
  <2>2. (IF cmd[p] = "reset" THEN "list" ELSE "restore") \in Steps
    BY <1>1
  <2>3. sub' \in [Procs -> Subs]
    BY <2>1 DEF TypeOK
  <2>4. QED
    BY <2>1, <2>2, <2>3, FlowType
<1>4. QED
  BY <1>2, <1>3

\* A step of a command under way.
LEMMA StepType ==
  ASSUME TypeOK, NEW p \in Procs, Step(p)
  PROVE  TypeOK'
<1> USE DEF TypeOK, cloneVars, workVars, envVars, jobVars
<1>1. CASE ArchiveRead(p)
  <2>1. CASE Contents(repo[p], sub[p]) = {}
    <3>1. AfterArchive(p) /\ UNCHANGED now
      BY <1>1, <2>1, Zenon DEF ArchiveRead
    <3>2. QED
      BY <1>1, <3>1, AfterArchiveType DEF ArchiveRead
  <2>2. CASE Contents(repo[p], sub[p]) # {}
    <3>1. /\ Continue(p, "rename") /\ UNCHANGED sub
          /\ now' = [now EXCEPT ![p] = clock]
      BY <1>1, <2>2, Zenon DEF ArchiveRead
    <3>2. now' \in [Procs -> 0..MaxClock]
      BY <3>1
    <3>3. "rename" \in Steps
      BY DEF Steps
    <3>4. /\ pc' \in [Procs -> Steps \cup {"idle"}]
          /\ result' \in [Procs -> {"none", "ok", "error"}]
      BY <3>1, <3>3, FlowType
    <3>5. QED
      BY <1>1, <3>1, <3>2, <3>4 DEF ArchiveRead
  <2>3. QED
    BY <2>1, <2>2
<1>2. CASE ArchiveMove(p)
  <2> DEFINE S == Contents(repo[p], sub[p])
  <2>1. CASE S = {} \/ Occupied(repo[p], sub[p], now[p])
    <3>1. Finish(p, "error") /\ UNCHANGED <<workVars, sub>>
      BY <1>2, <2>1, Zenon DEF ArchiveMove
    <3>2. now' \in [Procs -> 0..MaxClock]
      BY <1>2, CloneAssumption DEF ArchiveMove
    <3>3. QED
      BY <1>2, <3>1, <3>2, FlowType DEF ArchiveMove
  <2>2. CASE ~(S = {} \/ Occupied(repo[p], sub[p], now[p]))
    <3>1. /\ at' = [i \in Items |-> IF i \in S THEN "archive" ELSE at[i]]
          /\ stamp' = [i \in Items |-> IF i \in S THEN now[p] ELSE stamp[i]]
          /\ AfterArchive(p)
      BY <1>2, <2>2 DEF ArchiveMove
    <3>2. /\ at' \in [Items -> {"unwritten", "clone", "archive", "lost", "discarded"}]
          /\ stamp' \in [Items -> 0..MaxClock]
      BY <3>1
    <3>3. /\ sub' \in [Procs -> Subs]
          /\ pc' \in [Procs -> Steps \cup {"idle"}]
          /\ result' \in [Procs -> {"none", "ok", "error"}]
      BY <3>1, AfterArchiveType
    <3>4. now' \in [Procs -> 0..MaxClock]
      BY <1>2, CloneAssumption DEF ArchiveMove
    <3>5. QED
      BY <1>2, <3>2, <3>3, <3>4 DEF ArchiveMove
  <2>3. QED
    BY <2>1, <2>2
<1>3. CASE WorktreeList(p)
  <2>1. "remove" \in Steps
    BY DEF Steps
  <2>2. wts' \in [Procs -> SUBSET Trees]
    <3>1. \/ wts' = [wts EXCEPT ![p] = {t \in Trees : trees[repo[p]][t] # "none"}]
          \/ wts' = wts
      BY <1>3, Zenon DEF WorktreeList
    <3>2. QED
      BY <3>1, ZenonT(30)
  <2>3. QED
    BY <1>3, <2>1, <2>2, FlowType DEF WorktreeList
<1>4. CASE WorktreeRemove(p)
  <2>0. PICK t \in wts[p] :
       IF present[repo[p]] /\ trees[repo[p]][t] = "linked"
       THEN /\ trees' = [trees EXCEPT ![repo[p]][t] = "none"]
            /\ wts' = [wts EXCEPT ![p] = @ \ {t}]
            /\ Meddles(p)
            /\ UNCHANGED <<pc, result>>
       ELSE Finish(p, "error") /\ UNCHANGED <<trees, wts, meddled>>
    BY <1>4 DEF WorktreeRemove
  <2>1. trees' \in [Repos -> [Trees -> Linked]]
    <3>1. \/ trees' = [trees EXCEPT ![repo[p]][t] = "none"]
          \/ trees' = trees
      BY <2>0, Zenon
    <3>2. trees \in [Repos -> [Trees -> Linked]] /\ repo[p] \in Repos
      OBVIOUS
    <3> HIDE DEF TypeOK
    <3>3. CASE trees' = [trees EXCEPT ![repo[p]][t] = "none"]
      BY <3>2, <3>3 DEF Linked
    <3>4. QED
      BY <3>1, <3>2, <3>3
  <2>2. /\ wts' \in [Procs -> SUBSET Trees]
        /\ meddled' \in [Procs -> {"no", "early", "late"}]
        /\ pc' \in [Procs -> Steps \cup {"idle"}]
        /\ result' \in [Procs -> {"none", "ok", "error"}]
    <3>1. \/ /\ wts' = [wts EXCEPT ![p] = @ \ {t}]
             /\ Meddles(p)
             /\ UNCHANGED <<pc, result>>
          \/ Finish(p, "error") /\ UNCHANGED <<wts, meddled>>
      BY <2>0, Zenon
    <3>2. CASE Finish(p, "error") /\ UNCHANGED <<wts, meddled>>
      BY <3>2, FlowType
    <3>3. CASE /\ wts' = [wts EXCEPT ![p] = @ \ {t}]
               /\ Meddles(p)
               /\ UNCHANGED <<pc, result>>
      <4>1. wts' \in [Procs -> SUBSET Trees]
        BY <3>3
      <4>2. meddled' \in [Procs -> {"no", "early", "late"}]
        BY <3>3, FlowType
      <4>3. QED
        BY <3>3, <4>1, <4>2
    <3>4. QED
      BY <3>1, <3>2, <3>3
  <2>3. QED
    BY <1>4, <2>1, <2>2 DEF WorktreeRemove
<1>5. CASE WorktreePrune(p)
  BY <1>5, ZenonT(30) DEF WorktreePrune, Continue, Goto, Finish, Steps
<1>6. CASE Restore(p)
  BY <1>6, ZenonT(30) DEF Restore, Continue, Goto, Finish, Steps
<1>7. CASE HasCommit(p)
  BY <1>7 DEF HasCommit, Continue, Goto, Steps
<1>8. CASE Fetch(p)
  BY <1>8 DEF Fetch, Continue, Goto, Steps
<1>9. CASE FetchFails(p)
  BY <1>9, CloneAssumption DEF FetchFails, Continue, Goto, Steps
<1>10. CASE Recheck(p)
  BY <1>10 DEF Recheck, Continue, Goto, Finish, Steps
<1>11. CASE Checkout(p)
  BY <1>11, ToRevisionType DEF Checkout, Steps
<1>12. CASE HardReset(p)
  BY <1>12, ToRevisionType DEF HardReset, Steps
<1>13. CASE Clean(p)
  <2>1. CASE present[repo[p]]
    <3>1. RevisionReady(p)
      BY <1>13, <2>1 DEF Clean
    <3>2. /\ dirt' \in [Repos -> SUBSET Debris]
          /\ at' \in [Items -> {"unwritten", "clone", "archive", "lost", "discarded"}]
          /\ meddled' \in [Procs -> {"no", "early", "late"}]
      <4>1. /\ dirt' = [dirt EXCEPT ![repo[p]] = @ \ {"untracked"}]
            /\ at' = [i \in Items |-> IF i \in InClone(repo[p]) THEN "lost" ELSE at[i]]
            /\ Meddles(p)
        BY <1>13, <2>1, Zenon DEF Clean
      <4>2. QED
        BY <4>1, FlowType
    <3>3. QED
      BY <1>13, <3>1, <3>2, ReadyType DEF Clean
  <2>2. CASE ~present[repo[p]]
    BY <1>13, <2>2 DEF Clean, Finish, Goto
  <2>3. QED
    BY <2>1, <2>2
<1>14. CASE Verify(p)
  BY <1>14, ZenonT(30) DEF Verify, Continue, Goto, Finish, Steps
<1>15. CASE HealthCheck(p)
  BY <1>15 DEF HealthCheck, Continue, Goto, Finish, Steps
<1>16. CASE CloneCheck(p)
  <2>1. CASE present[repo[p]]
    <3>1. RevisionReady(p)
      BY <1>16, <2>1 DEF CloneCheck
    <3>2. QED
      BY <1>16, <3>1, ReadyType DEF CloneCheck
  <2>2. CASE ~present[repo[p]]
    BY <1>16, <2>2 DEF CloneCheck, Continue, Goto, Steps
  <2>3. QED
    BY <2>1, <2>2
<1>17. CASE GitClone(p)
  <2>1. CASE present[repo[p]]
    BY <1>17, <2>1, FlowType DEF GitClone
  <2>2. CASE ~present[repo[p]]
    <3>1. /\ present' \in [Repos -> BOOLEAN]
          /\ objects' \in [Repos -> SUBSET Revs]
          /\ head' \in [Repos -> Revs \cup {NoRev}]
      <4>1. PICK tip \in remote[repo[p]] :
              /\ present' = [present EXCEPT ![repo[p]] = TRUE]
              /\ objects' = [objects EXCEPT ![repo[p]] = remote[repo[p]]]
              /\ head' = [head EXCEPT ![repo[p]] = tip]
        BY <1>17, <2>2, Zenon DEF GitClone
      <4>2. QED
        BY <4>1
    <3>2. /\ pc' \in [Procs -> Steps \cup {"idle"}]
          /\ result' \in [Procs -> {"none", "ok", "error"}]
          /\ meddled' \in [Procs -> {"no", "early", "late"}]
      BY <1>17, <2>2, FlowType DEF GitClone, Steps
    <3>3. QED
      BY <1>17, <2>2, <3>1, <3>2 DEF GitClone
  <2>3. QED
    BY <2>1, <2>2
<1>18. QED
  BY <1>1, <1>2, <1>3, <1>4, <1>5, <1>6, <1>7, <1>8, <1>9, <1>10, <1>11, <1>12, <1>13, <1>14, <1>15, <1>16, <1>17 DEF Step

\* A command that fails or is killed, whatever it had done by then.
LEMMA InterruptType ==
  ASSUME TypeOK, NEW p \in Procs, Interrupt(p)
  PROVE  TypeOK'
<1>1. /\ pc' \in [Procs -> Steps \cup {"idle"}]
      /\ result' \in [Procs -> {"none", "ok", "error"}]
  BY FlowType DEF Interrupt
<1>2. meddled' \in [Procs -> {"no", "early", "late"}]
  BY FlowType DEF Interrupt, TypeOK
<1>3. faults' \in 0..MaxFaults
  BY CloneAssumption DEF Interrupt, TypeOK
<1>4. UNCHANGED <<envVars, jobVars, sub, now, wts, fresh>>
  BY DEF Interrupt
<1>5. CASE UNCHANGED <<cloneVars, workVars>>
  BY <1>1, <1>2, <1>3, <1>4, <1>5 DEF TypeOK, cloneVars, workVars, envVars, jobVars
<1>6. CASE HalfCloned(p)
  <2>0. PICK got \in {{}, remote[repo[p]]} : \E h \in got \cup {NoRev} :
          /\ present' = [present EXCEPT ![repo[p]] = TRUE]
          /\ objects' = [objects EXCEPT ![repo[p]] = got]
          /\ head' = [head EXCEPT ![repo[p]] = h]
    BY <1>6 DEF HalfCloned
  <2>1. PICK h \in got \cup {NoRev} :
          /\ present' = [present EXCEPT ![repo[p]] = TRUE]
          /\ objects' = [objects EXCEPT ![repo[p]] = got]
          /\ head' = [head EXCEPT ![repo[p]] = h]
    BY <2>0
  <2>2. repo[p] \in Repos /\ got \in SUBSET Revs
    BY DEF TypeOK
  <2>3. /\ present' \in [Repos -> BOOLEAN]
        /\ objects' \in [Repos -> SUBSET Revs]
        /\ head' \in [Repos -> Revs \cup {NoRev}]
    BY <2>1, <2>2 DEF TypeOK
  <2>4. dirt' \in [Repos -> SUBSET Debris] /\ UNCHANGED <<lock, trees, workVars>>
    BY <1>6 DEF HalfCloned, TypeOK, Debris
  <2>5. QED
    BY <1>1, <1>2, <1>3, <1>4, <2>3, <2>4 DEF TypeOK, workVars, envVars, jobVars
<1>7. CASE HalfCheckedOut(p)
  <2>1. PICK h \in {head[repo[p]], rev[p]}, l \in BOOLEAN :
          /\ head' = [head EXCEPT ![repo[p]] = h]
          /\ lock' = [lock EXCEPT ![repo[p]] = l]
          /\ dirt' = [dirt EXCEPT ![repo[p]] = @ \cup {"edits"}]
    BY <1>7 DEF HalfCheckedOut
  <2>2. /\ head' \in [Repos -> Revs \cup {NoRev}]
        /\ lock' \in [Repos -> BOOLEAN]
        /\ dirt' \in [Repos -> SUBSET Debris]
    BY <2>1 DEF TypeOK, Debris
  <2>3. UNCHANGED <<present, objects, trees, workVars>>
    BY <1>7 DEF HalfCheckedOut
  <2>4. QED
    BY <1>1, <1>2, <1>3, <1>4, <2>2, <2>3 DEF TypeOK, workVars, envVars, jobVars
<1>8. CASE HalfCleaned(p)
  <2>1. /\ at' \in [Items -> {"unwritten", "clone", "archive", "lost", "discarded"}]
        /\ UNCHANGED <<cloneVars, stamp>>
    BY <1>8 DEF HalfCleaned, TypeOK
  <2>2. QED
    BY <1>1, <1>2, <1>3, <1>4, <2>1 DEF TypeOK, cloneVars, envVars, jobVars
<1>9. QED
  BY <1>5, <1>6, <1>7, <1>8 DEF Interrupt, cloneVars, workVars

\* The student, upstream and the clock.
LEMMA EnvironmentType ==
  ASSUME TypeOK, Environment
  PROVE  TypeOK'
<1> USE DEF procVars, cloneVars, workVars, envVars, jobVars
<1>1. ASSUME NEW i \in Items, Write(i) PROVE TypeOK'
  <2>1. /\ at' \in [Items -> {"unwritten", "clone", "archive", "lost", "discarded"}]
        /\ fresh' \in [Procs -> SUBSET Items]
    BY <1>1 DEF Write, TypeOK
  <2>2. QED
    BY <1>1, <2>1 DEF Write, TypeOK
<1>2. ASSUME StudentMoves
      PROVE  /\ moves' \in 0..MaxStudent
             /\ meddled' \in [Procs -> {"no", "early", "late"}]
             /\ UNCHANGED <<stamp, remote, clock, procVars, fresh, faults>>
  BY <1>2, CloneAssumption DEF StudentMoves, TypeOK
<1>3. ASSUME NEW r \in Repos, Edit(r) PROVE TypeOK'
  <2>1. dirt' \in [Repos -> SUBSET Debris]
    BY <1>3 DEF Edit, TypeOK
  <2>2. QED
    BY <1>2, <1>3, <2>1 DEF Edit, TypeOK
<1>4. ASSUME NEW r \in Repos, MoveHead(r) PROVE TypeOK'
  <2>1. head' \in [Repos -> Revs \cup {NoRev}]
    BY <1>4 DEF MoveHead, TypeOK
  <2>2. QED
    BY <1>2, <1>4, <2>1 DEF MoveHead, TypeOK
<1>5. ASSUME NEW r \in Repos, AddTree(r) PROVE TypeOK'
  <2>1. PICK t \in Trees, k \in {"linked", "locked"} :
          trees' = [trees EXCEPT ![r][t] = k]
    BY <1>5 DEF AddTree
  <2>2. trees' \in [Repos -> [Trees -> Linked]]
    BY <2>1 DEF TypeOK, Linked
  <2>3. QED
    BY <1>2, <1>5, <2>2 DEF AddTree, TypeOK
<1>6. ASSUME NEW r \in Repos, DeleteClone(r) PROVE TypeOK'
  <2>1. /\ present' \in [Repos -> BOOLEAN]
        /\ head' \in [Repos -> Revs \cup {NoRev}]
        /\ objects' \in [Repos -> SUBSET Revs]
        /\ lock' \in [Repos -> BOOLEAN]
        /\ dirt' \in [Repos -> SUBSET Debris]
    BY <1>6 DEF DeleteClone, TypeOK
  <2>2. trees' \in [Repos -> [Trees -> Linked]]
    BY <1>6 DEF DeleteClone, TypeOK, Linked
  <2>3. at' \in [Items -> {"unwritten", "clone", "archive", "lost", "discarded"}]
    BY <1>6 DEF DeleteClone, TypeOK
  <2>4. QED
    BY <1>2, <1>6, <2>1, <2>2, <2>3 DEF DeleteClone, TypeOK
<1>7. ASSUME NEW r \in Repos, Unlock(r) PROVE TypeOK'
  BY <1>7 DEF Unlock, TypeOK
<1>8. ASSUME NEW r \in Repos, UnlockTree(r) PROVE TypeOK'
  <2>1. PICK t \in Trees : trees' = [trees EXCEPT ![r][t] = "linked"]
    BY <1>8 DEF UnlockTree
  <2>2. trees' \in [Repos -> [Trees -> Linked]]
    BY <2>1 DEF TypeOK, Linked
  <2>3. QED
    BY <1>8, <2>2 DEF UnlockTree, TypeOK
<1>9. ASSUME NEW r \in Repos, Publish(r) PROVE TypeOK'
  BY <1>9 DEF Publish, TypeOK
<1>10. CASE Tick
  BY <1>10, CloneAssumption DEF Tick, TypeOK
<1>11. QED
  BY <1>1, <1>3, <1>4, <1>5, <1>6, <1>7, <1>8, <1>9, <1>10 DEF Environment

\* Every variable keeps its type, for any number of processes, repositories
\* and files.
THEOREM TypeCorrect == Spec => []TypeOK
<1>1. TypeOK /\ [Next]_vars => TypeOK'
  <2> SUFFICES ASSUME TypeOK, [Next]_vars PROVE TypeOK'
    OBVIOUS
  <2>1. CASE UNCHANGED vars
    BY <2>1 DEF vars, TypeOK, cloneVars, workVars, envVars, jobVars
  <2>2. CASE Next
    BY <2>2, BeginType, StepType, InterruptType, EnvironmentType DEF Next, Process
  <2>3. QED
    BY <2>1, <2>2
<1>2. QED
  BY InitType, <1>1, PTL DEF Spec

-----------------------------------------------------------------------------
(* Custody of the student's work.                                          *)

\* What a step of process p, or its interruption, may do to the facts of
\* CustodyInv: it adds no file to a clone, removes no clone, leaves the other
\* processes alone, and passes the archiving of a directory only when the
\* directory is empty.
Custodial(p) ==
  /\ \A i \in Items : at'[i] = "clone" => at[i] = "clone"
  /\ \A r \in Repos : present[r] => present'[r]
  /\ fresh' = fresh
  /\ \A q \in Procs \ {p} : /\ pc'[q] = pc[q] /\ sub'[q] = sub[q]
                            /\ repo'[q] = repo[q] /\ cmd'[q] = cmd[q]
  /\ cmd' = cmd
  /\ pc'[p] \in {"clone", "gitclone"} => cmd[p] # "reset"
  /\ \A s \in Subs :
       Past(p, s)' => /\ repo'[p] = repo[p]
                      /\ Past(p, s) \/ Contents(repo[p], s)' = {}

\* A custodial step preserves the invariant.
LEMMA CustodialPreserves ==
  ASSUME TypeOK, CustodyInv, NEW p \in Procs, Custodial(p)
  PROVE  CustodyInv'
<1>1. ArchivedFirst'
  <2> SUFFICES ASSUME NEW q \in Procs, NEW s \in Subs, Past(q, s)'
               PROVE  Contents(repo[q], s)' \subseteq fresh'[q]
    BY DEF ArchivedFirst
  <2>1. \A r : Contents(r, s)' \subseteq Contents(r, s)
    BY DEF Custodial, Contents
  <2>2. Past(q, s) \/ Contents(repo[q], s)' = {}
    BY DEF Custodial, Past
  <2>3. repo'[q] = repo[q]
    BY DEF Custodial
  <2>4. Past(q, s) => Contents(repo[q], s) \subseteq fresh[q]
    BY DEF CustodyInv, ArchivedFirst
  <2>5. QED
    BY <2>1, <2>2, <2>3, <2>4 DEF Custodial, Contents
<1>2. MissingIsEmpty'
  BY DEF CustodyInv, MissingIsEmpty, Custodial, InClone
<1>3. ResetNeverClones'
  BY DEF CustodyInv, ResetNeverClones, Custodial
<1>4. QED
  BY <1>1, <1>2, <1>3 DEF CustodyInv

\* Every step of a command is custodial.
LEMMA StepCustodial ==
  ASSUME TypeOK, CustodyInv, NEW p \in Procs, Step(p)
  PROVE  Custodial(p)
<1> USE DEF Custodial, Past, cloneVars, workVars, envVars, jobVars
<1>1. CASE WorktreeList(p)
  BY <1>1 DEF WorktreeList, Continue, Finish, Goto, TypeOK
<1>2. CASE WorktreeRemove(p)
  BY <1>2 DEF WorktreeRemove, Continue, Finish, Goto, TypeOK
<1>3. CASE WorktreePrune(p)
  BY <1>3 DEF WorktreePrune, Continue, Finish, Goto, TypeOK
<1>4. CASE Restore(p)
  BY <1>4 DEF Restore, Continue, Finish, Goto, TypeOK
<1>5. CASE HasCommit(p)
  BY <1>5 DEF HasCommit, Continue, Finish, Goto, TypeOK
<1>6. CASE Fetch(p)
  BY <1>6 DEF Fetch, Continue, Finish, Goto, TypeOK
<1>7. CASE FetchFails(p)
  BY <1>7 DEF FetchFails, Continue, Finish, Goto, TypeOK
<1>8. CASE Recheck(p)
  BY <1>8 DEF Recheck, Continue, Finish, Goto, TypeOK
<1>9. CASE Verify(p)
  BY <1>9 DEF Verify, Continue, Finish, Goto, TypeOK
<1>10. CASE HealthCheck(p)
  BY <1>10 DEF HealthCheck, Continue, Finish, Goto, TypeOK
<1>11. CASE ArchiveRead(p)
  <2>1. CASE Contents(repo[p], sub[p]) = {}
    <3>1. AfterArchive(p) /\ UNCHANGED now
      BY <1>11, <2>1, Zenon DEF ArchiveRead
    <3>2. at' = at /\ present' = present /\ fresh' = fresh /\ UNCHANGED jobVars
      BY <1>11 DEF ArchiveRead
    <3>3. \A r, s : Contents(r, s)' = Contents(r, s)
      BY <3>2 DEF Contents
    <3>4. QED
      BY <1>11, <2>1, <3>1, <3>2, <3>3
         DEF ArchiveRead, AfterArchive, Continue, Goto, TypeOK, Subs
  <2>2. CASE Contents(repo[p], sub[p]) # {}
    BY <1>11, <2>2 DEF ArchiveRead, Continue, Goto, TypeOK
  <2>3. QED
    BY <2>1, <2>2
<1>12. CASE ArchiveMove(p)
  <2>1. CASE \/ Contents(repo[p], sub[p]) = {}
             \/ Occupied(repo[p], sub[p], now[p])
    <3>1. Finish(p, "error") /\ UNCHANGED <<workVars, sub>>
      BY <1>12, <2>1, Zenon DEF ArchiveMove
    <3>2. QED
      BY <1>12, <3>1 DEF ArchiveMove, Finish, Goto, TypeOK
  <2>2. CASE ~(\/ Contents(repo[p], sub[p]) = {}
               \/ Occupied(repo[p], sub[p], now[p]))
    <3>1. /\ at' = [i \in Items |-> IF i \in Contents(repo[p], sub[p])
                                    THEN "archive" ELSE at[i]]
          /\ AfterArchive(p)
      BY <1>12, <2>2, Zenon DEF ArchiveMove
    <3>2. present' = present /\ fresh' = fresh /\ UNCHANGED jobVars
      BY <1>12 DEF ArchiveMove
    <3>3. \A i \in Items : at'[i] = "clone" => at[i] = "clone"
      BY <3>1
    <3>4. \A s : s = sub[p] => Contents(repo[p], s)' = {}
      BY <3>1, <3>2 DEF Contents
    <3>5. QED
      <4> HIDE DEF Custodial, Past
      <4>1. /\ \A q \in Procs \ {p} : pc'[q] = pc[q] /\ sub'[q] = sub[q]
            /\ \/ pc'[p] = "archive" /\ sub[p] = "reports" /\ sub'[p] = "traces"
               \/ sub[p] = "traces" /\ sub' = sub /\ pc'[p] \in {"list", "restore"}
        BY <3>1 DEF AfterArchive, Continue, Goto, TypeOK, Subs
      <4>2. pc[p] = "rename"
        BY <1>12 DEF ArchiveMove
      <4>3. \A s \in Subs : s = sub[p] \/ (Past(p, s)' => Past(p, s))
        BY <4>1, <4>2 DEF Past, Subs
      <4>4. \A s \in Subs : Past(p, s)' => Past(p, s) \/ Contents(repo[p], s)' = {}
        BY <3>4, <4>3
      <4>5. QED
        BY <3>2, <3>3, <4>1, <4>4 DEF Custodial
  <2>3. QED
    BY <2>1, <2>2
<1>13. ASSUME NEW step \in {"hard", "clean"}, ToRevision(p, step),
              pc[p] \in {"checkout", "hard"}
       PROVE  Custodial(p)
  <2>1. /\ at' = at /\ present' = present /\ fresh' = fresh
        /\ UNCHANGED <<jobVars, sub>>
    BY <1>13 DEF ToRevision
  <2>2. Continue(p, step) \/ Finish(p, "error")
    BY <1>13, Zenon DEF ToRevision
  <2>3. QED
    BY <1>13, <2>1, <2>2 DEF Continue, Finish, Goto, TypeOK
<1>14. CASE Checkout(p) \/ HardReset(p)
  BY <1>13, <1>14 DEF Checkout, HardReset
<1>15. ASSUME RevisionReady(p)
       PROVE  /\ \A q \in Procs \ {p} : pc'[q] = pc[q] /\ repo'[q] = repo[q]
              /\ cmd' = cmd
              /\ \/ pc'[p] = "verify" /\ cmd[p] = "reset" /\ repo' = repo
                 \/ pc'[p] = "clone" /\ cmd[p] # "reset"
                 \/ pc'[p] = "idle"
  BY <1>15 DEF RevisionReady, NextRepository, Continue, Finish, Goto, TypeOK
<1>16. CASE Clean(p)
  <2>1. CASE present[repo[p]]
    <3>1. /\ at' = [i \in Items |-> IF i \in InClone(repo[p]) THEN "lost" ELSE at[i]]
          /\ RevisionReady(p)
      BY <1>16, <2>1, Zenon DEF Clean
    <3>2. \A i \in Items : at'[i] = "clone" => at[i] = "clone"
      BY <3>1
    <3>3. pc[p] = "clean" /\ present' = present /\ fresh' = fresh /\ sub' = sub
      BY <1>16 DEF Clean
    <3>4. QED
      BY <1>15, <3>1, <3>2, <3>3
  <2>2. CASE ~present[repo[p]]
    <3>1. Finish(p, "error") /\ UNCHANGED <<jobVars, dirt, at, meddled>>
      BY <1>16, <2>2, Zenon DEF Clean
    <3>2. QED
      BY <1>16, <3>1 DEF Clean, Finish, Goto, TypeOK
  <2>3. QED
    BY <2>1, <2>2
<1>17. CASE CloneCheck(p)
  <2>1. cmd[p] # "reset"
    BY <1>17 DEF CloneCheck, CustodyInv, ResetNeverClones
  <2>2. at' = at /\ present' = present /\ fresh' = fresh /\ sub' = sub
    BY <1>17 DEF CloneCheck
  <2>3. CASE present[repo[p]]
    <3>1. RevisionReady(p)
      BY <1>17, <2>3, Zenon DEF CloneCheck
    <3>2. QED
      BY <1>15, <2>1, <2>2, <3>1
  <2>4. CASE ~present[repo[p]]
    BY <1>17, <2>1, <2>2, <2>4 DEF CloneCheck, Continue, Goto, TypeOK
  <2>5. QED
    BY <2>3, <2>4
<1>18. CASE GitClone(p)
  <2>1. cmd[p] # "reset"
    BY <1>18 DEF GitClone, CustodyInv, ResetNeverClones
  <2>2. at' = at /\ fresh' = fresh /\ sub' = sub /\ UNCHANGED jobVars
    BY <1>18 DEF GitClone
  <2>3. CASE present[repo[p]]
    <3>1. Finish(p, "error") /\ UNCHANGED <<cloneVars, meddled>>
      BY <1>18, <2>3, Zenon DEF GitClone
    <3>2. QED
      BY <2>2, <3>1 DEF Finish, Goto, TypeOK
  <2>4. CASE ~present[repo[p]]
    <3>1. /\ Continue(p, "has")
          /\ present' = [present EXCEPT ![repo[p]] = TRUE]
      BY <1>18, <2>4, Zenon DEF GitClone
    <3>2. \A s : Contents(repo[p], s) = {}
      BY <2>4 DEF CustodyInv, MissingIsEmpty, InClone, Contents, TypeOK
    <3>3. \A s : Contents(repo[p], s)' = {}
      BY <2>2, <3>2 DEF Contents
    <3>4. QED
      BY <2>2, <3>1, <3>3 DEF Continue, Goto, TypeOK
  <2>5. QED
    BY <2>3, <2>4
<1>20. QED
  BY <1>1, <1>2, <1>3, <1>4, <1>5, <1>6, <1>7, <1>8, <1>9, <1>10,
     <1>11, <1>12, <1>14, <1>16, <1>17, <1>18 DEF Step

\* An interrupted command is custodial too: it ends.
LEMMA InterruptCustodial ==
  ASSUME TypeOK, NEW p \in Procs, Interrupt(p)
  PROVE  Custodial(p)
<1>1. /\ pc'[p] = "idle"
      /\ \A q \in Procs \ {p} : pc'[q] = pc[q]
      /\ UNCHANGED <<jobVars, sub, fresh>>
  BY DEF Interrupt, Finish, Goto, TypeOK
<1>2. /\ \A i \in Items : at'[i] = "clone" => at[i] = "clone"
      /\ \A r \in Repos : present[r] => present'[r]
  <2>1. CASE UNCHANGED <<cloneVars, workVars>>
    BY <2>1 DEF cloneVars, workVars
  <2>2. CASE HalfCloned(p)
    BY <2>2 DEF HalfCloned, workVars, TypeOK
  <2>3. CASE HalfCheckedOut(p)
    BY <2>3 DEF HalfCheckedOut, workVars
  <2>4. CASE HalfCleaned(p)
    BY <2>4 DEF HalfCleaned, cloneVars
  <2>5. QED
    BY <2>1, <2>2, <2>3, <2>4 DEF Interrupt, cloneVars, workVars
<1>3. QED
  BY <1>1, <1>2 DEF Custodial, Past, jobVars

\* A command that begins has archived nothing yet and knows no later file.
LEMMA BeginCustody ==
  ASSUME TypeOK, CustodyInv, NEW p \in Procs, BeginCommand(p)
  PROVE  CustodyInv'
<1>1. /\ UNCHANGED <<at, present>>
      /\ \A q \in Procs \ {p} : /\ pc'[q] = pc[q] /\ sub'[q] = sub[q]
                                /\ repo'[q] = repo[q] /\ cmd'[q] = cmd[q]
                                /\ fresh'[q] = fresh[q]
      /\ sub'[p] = "reports"
      /\ \/ pc'[p] \in {"archive", "idle"}
         \/ pc'[p] = "clone" /\ cmd'[p] # "reset"
  <2> USE DEF Begin, cloneVars, workVars, TypeOK
  <2>1. CASE BeginReset(p)
    BY <2>1 DEF BeginReset
  <2>2. CASE BeginLab(p)
    BY <2>2 DEF BeginLab
  <2>3. CASE BeginSetup(p)
    BY <2>3 DEF BeginSetup
  <2>4. QED
    BY <2>1, <2>2, <2>3 DEF BeginCommand
<1>2. ArchivedFirst'
  <2> SUFFICES ASSUME NEW q \in Procs, NEW s \in Subs, Past(q, s)'
               PROVE  Contents(repo[q], s)' \subseteq fresh'[q]
    BY DEF ArchivedFirst
  <2>1. q # p /\ Past(q, s)
    BY <1>1 DEF Past
  <2>2. QED
    BY <1>1, <2>1 DEF CustodyInv, ArchivedFirst, Contents
<1>3. MissingIsEmpty'
  BY <1>1 DEF CustodyInv, MissingIsEmpty, InClone
<1>4. ResetNeverClones'
  BY <1>1 DEF CustodyInv, ResetNeverClones
<1>5. QED
  BY <1>2, <1>3, <1>4 DEF CustodyInv

\* What the student writes is new to every command under way; what the student
\* deletes takes the files along; upstream and the clock touch no file.
LEMMA EnvironmentCustody ==
  ASSUME TypeOK, CustodyInv, Environment
  PROVE  CustodyInv'
<1> USE DEF CustodyInv, MissingIsEmpty, ResetNeverClones, InClone, Past,
            procVars, jobVars
<1>1. ASSUME NEW i \in Items, Write(i) PROVE CustodyInv'
  <2>1. /\ present[i.repo] /\ UNCHANGED <<present, procVars>>
        /\ \A j \in Items : at'[j] = "clone" => j = i \/ at[j] = "clone"
        /\ \A q \in Procs : fresh'[q] = fresh[q] \cup {i}
    BY <1>1 DEF Write, cloneVars, TypeOK
  <2>2. \A r, s : Contents(r, s)' \subseteq Contents(r, s) \cup {i}
    BY <2>1 DEF Contents
  <2>3. ArchivedFirst'
    <3> SUFFICES ASSUME NEW q \in Procs, NEW s \in Subs, Past(q, s)'
                 PROVE  Contents(repo[q], s)' \subseteq fresh'[q]
      BY DEF ArchivedFirst
    <3>1. Past(q, s) /\ repo'[q] = repo[q]
      BY <2>1
    <3>2. Contents(repo[q], s) \subseteq fresh[q]
      BY <3>1 DEF ArchivedFirst
    <3>3. QED
      BY <2>1, <2>2, <3>1, <3>2 DEF Contents
  <2>4. MissingIsEmpty'
    BY <2>1
  <2>5. QED
    BY <2>1, <2>3, <2>4
<1>2. ASSUME UNCHANGED <<procVars, fresh>>,
             \A j \in Items : at'[j] = "clone" => at[j] = "clone",
             \A r \in Repos : present[r] /\ ~present'[r]
                              => \A j \in Items : j.repo = r => at'[j] # "clone"
      PROVE  CustodyInv'
  <2>1. \A r, s : Contents(r, s)' \subseteq Contents(r, s)
    BY <1>2 DEF Contents
  <2>2. ArchivedFirst'
    BY <1>2, <2>1 DEF ArchivedFirst
  <2>3. MissingIsEmpty' /\ ResetNeverClones'
    BY <1>2
  <2>4. QED
    BY <2>2, <2>3
<1>3. ASSUME NEW r \in Repos, DeleteClone(r) PROVE CustodyInv'
  <2>1. /\ UNCHANGED <<procVars, fresh>>
        /\ \A j \in Items : at'[j] = "clone" => at[j] = "clone" /\ j.repo # r
        /\ \A q \in Repos : present'[q] = (IF q = r THEN FALSE ELSE present[q])
    BY <1>3 DEF DeleteClone, StudentMoves, TypeOK
  <2>2. QED
    BY <1>2, <2>1
<1>4. ASSUME NEW r \in Repos,
             \/ Edit(r) \/ MoveHead(r) \/ AddTree(r)
             \/ Unlock(r) \/ UnlockTree(r) \/ Publish(r)
      PROVE  CustodyInv'
  <2>1. UNCHANGED <<procVars, fresh, at, present>>
    BY <1>4 DEF Edit, MoveHead, AddTree, Unlock, UnlockTree, Publish,
                StudentMoves, workVars, cloneVars
  <2>2. QED
    BY <1>2, <2>1
<1>5. CASE Tick
  <2>1. UNCHANGED <<procVars, fresh, at, present>>
    BY <1>5 DEF Tick, workVars, cloneVars
  <2>2. QED
    BY <1>2, <2>1
<1>6. QED
  BY <1>1, <1>3, <1>4, <1>5 DEF Environment

\* In every reachable state a command past the archiving of a directory finds
\* in it only what was written since it began, and a missing clone is empty.
THEOREM CustodyHolds == Spec => []CustodyInv
<1>1. Init => CustodyInv
  BY DEF Init, CustodyInv, ArchivedFirst, MissingIsEmpty, ResetNeverClones,
         Past, InClone
<1>2. TypeOK /\ CustodyInv /\ [Next]_vars => CustodyInv'
  <2> SUFFICES ASSUME TypeOK, CustodyInv, [Next]_vars PROVE CustodyInv'
    OBVIOUS
  <2>1. CASE UNCHANGED vars
    BY <2>1 DEF vars, cloneVars, workVars, envVars, jobVars, CustodyInv,
                ArchivedFirst, MissingIsEmpty, ResetNeverClones, Past, InClone,
                Contents
  <2>2. CASE Next
    <3>1. ASSUME NEW p \in Procs, Process(p) PROVE CustodyInv'
      BY <3>1, BeginCustody, StepCustodial, InterruptCustodial,
         CustodialPreserves DEF Process
    <3>2. QED
      BY <2>2, <3>1, EnvironmentCustody DEF Next
  <2>3. QED
    BY <2>1, <2>2
<1>3. QED
  BY TypeCorrect, <1>1, <1>2, PTL DEF Spec

-----------------------------------------------------------------------------
(* TargetClone implements StudentWork.                                     *)

\* Ending commands only ever narrows what is exposed.
LEMMA ExposedNarrows ==
  ASSUME TypeOK,
         \A q \in Procs : Running(q)' => Running(q) /\ fresh'[q] = fresh[q]
  PROVE  Exposed' \subseteq Exposed
  BY DEF Exposed

\* Before its clean, a command has archived both directories.
LEMMA CleanFindsFresh ==
  ASSUME TypeOK, CustodyInv, NEW p \in Procs, pc[p] = "clean"
  PROVE  InClone(repo[p]) \subseteq Exposed
<1>1. \A s \in Subs : Contents(repo[p], s) \subseteq fresh[p]
  BY DEF CustodyInv, ArchivedFirst, Past
<1>2. \A i \in InClone(repo[p]) : i \in fresh[p]
  BY <1>1, CloneAssumption DEF InClone, Contents
<1>3. Running(p)
  BY DEF Running
<1>4. QED
  BY <1>2, <1>3 DEF Exposed

\* The step of a command preserves, loses exposed files only, or settles.
LEMMA StepRefines ==
  ASSUME TypeOK, CustodyInv, NEW p \in Procs, Step(p)
  PROVE  Work!Next
<1>0. \A q \in Procs \ {p} : pc'[q] = pc[q]
  BY StepCustodial DEF Custodial
<1>1. fresh' = fresh /\ Running(p)
  BY StepCustodial DEF Custodial, Step, Running, ArchiveRead, ArchiveMove,
     WorktreeList, WorktreeRemove, WorktreePrune, Restore, HasCommit, Fetch,
     FetchFails, Recheck, Checkout, HardReset, Clean, Verify, HealthCheck,
     CloneCheck, GitClone
<1>2. Exposed' \subseteq Exposed
  BY <1>0, <1>1, ExposedNarrows DEF Running
<1>3. CASE UNCHANGED at
  BY <1>2, <1>3 DEF Work!Next, Work!Settle
<1>4. CASE ArchiveMove(p) /\ at' # at
  <2> DEFINE S == Contents(repo[p], sub[p])
  <2>1. ~(S = {} \/ Occupied(repo[p], sub[p], now[p]))
    BY <1>4 DEF ArchiveMove, workVars
  <2>2. /\ at' = [i \in Items |-> IF i \in S THEN "archive" ELSE at[i]]
        /\ AfterArchive(p)
    BY <1>4, <2>1, Zenon DEF ArchiveMove
  <2>3. \A q \in Procs : Running(q)' <=> Running(q)
    BY <1>0, <1>1, <2>2 DEF AfterArchive, Continue, Goto, Running, TypeOK
  <2>4. Exposed' = Exposed
    BY <1>1, <2>3 DEF Exposed
  <2>5. S \in SUBSET Items /\ \A i \in S : at[i] = "clone"
    BY DEF Contents
  <2>6. Work!Preserve(S)
    BY <2>2, <2>4, <2>5 DEF Work!Preserve, Work!Moved
  <2>7. QED
    BY <2>5, <2>6 DEF Work!Next
<1>5. CASE Clean(p) /\ at' # at
  <2> DEFINE S == InClone(repo[p])
  <2>1. at' = [i \in Items |-> IF i \in S THEN "lost" ELSE at[i]]
    BY <1>5 DEF Clean
  <2>2. S \in SUBSET Items /\ \A i \in S : at[i] = "clone"
    BY DEF InClone
  <2>3. S \subseteq Exposed
    BY <1>5, CleanFindsFresh DEF Clean
  <2>4. Work!Lose(S)
    BY <1>2, <2>1, <2>2, <2>3 DEF Work!Lose, Work!Moved
  <2>5. QED
    BY <2>2, <2>4 DEF Work!Next
<1>6. ArchiveMove(p) \/ Clean(p) \/ UNCHANGED at
  BY DEF Step, ArchiveRead, WorktreeList, WorktreeRemove, WorktreePrune,
     Restore, HasCommit, Fetch, FetchFails, Recheck, Checkout, HardReset,
     ToRevision, Verify, HealthCheck, CloneCheck, GitClone, workVars
<1>7. QED
  BY <1>3, <1>4, <1>5, <1>6

\* An interruption settles, or loses exposed files in the middle of a clean.
LEMMA InterruptRefines ==
  ASSUME TypeOK, CustodyInv, NEW p \in Procs, Interrupt(p)
  PROVE  Work!Next
<1>1. Exposed' \subseteq Exposed
  <2>1. fresh' = fresh /\ \A q \in Procs : Running(q)' => Running(q)
    BY DEF Interrupt, Finish, Goto, Running, TypeOK
  <2>2. QED
    BY <2>1, ExposedNarrows
<1>2. CASE UNCHANGED at
  BY <1>1, <1>2 DEF Work!Next, Work!Settle
<1>3. CASE HalfCleaned(p)
  <2>1. PICK S \in SUBSET InClone(repo[p]) :
          at' = [i \in Items |-> IF i \in S THEN "lost" ELSE at[i]]
    BY <1>3 DEF HalfCleaned
  <2>2. S \in SUBSET Items /\ \A i \in S : at[i] = "clone"
    BY DEF InClone
  <2>3. S \subseteq Exposed
    BY <1>3, CleanFindsFresh DEF HalfCleaned
  <2>4. Work!Lose(S)
    BY <1>1, <2>1, <2>2, <2>3 DEF Work!Lose, Work!Moved
  <2>5. QED
    BY <2>2, <2>4 DEF Work!Next
<1>4. UNCHANGED at \/ HalfCleaned(p)
  BY DEF Interrupt, HalfCloned, HalfCheckedOut, workVars
<1>5. QED
  BY <1>2, <1>3, <1>4

\* A command that begins exposes nothing yet.
LEMMA BeginRefines ==
  ASSUME TypeOK, NEW p \in Procs, BeginCommand(p)
  PROVE  Work!Next
<1>1. /\ UNCHANGED at
      /\ fresh' = [fresh EXCEPT ![p] = {}]
      /\ \A q \in Procs \ {p} : pc'[q] = pc[q]
  <2> USE DEF Begin, workVars, TypeOK
  <2>1. CASE BeginReset(p)
    BY <2>1 DEF BeginReset
  <2>2. CASE BeginLab(p)
    BY <2>2 DEF BeginLab
  <2>3. CASE BeginSetup(p)
    BY <2>3 DEF BeginSetup
  <2>4. QED
    BY <2>1, <2>2, <2>3 DEF BeginCommand
<1>2. Exposed' \subseteq Exposed
  BY <1>1 DEF Exposed, Running, TypeOK
<1>3. QED
  BY <1>1, <1>2 DEF Work!Next, Work!Settle

\* The student writes or discards; nothing else outside the commands touches
\* a file.
LEMMA EnvironmentRefines ==
  ASSUME TypeOK, Environment
  PROVE  Work!Next \/ UNCHANGED Work!vars
<1> USE DEF procVars
<1>1. ASSUME NEW i \in Items, Write(i) PROVE Work!Next
  <2>1. /\ at[i] = "unwritten" /\ at' = [at EXCEPT ![i] = "clone"]
        /\ \A q \in Procs : fresh'[q] = fresh[q] \cup {i} /\ pc'[q] = pc[q]
    BY <1>1 DEF Write
  <2>2. \A q \in Procs : Running(q)' <=> Running(q)
    BY <2>1 DEF Running
  <2>3. CASE \E q \in Procs : Running(q)
    <3>1. Exposed' = Exposed \cup {i}
      BY <2>1, <2>2, <2>3 DEF Exposed
    <3>2. QED
      BY <2>1, <3>1 DEF Work!Next, Work!Write, Work!Moved, TypeOK
  <2>4. CASE ~\E q \in Procs : Running(q)
    <3>1. Exposed' = Exposed
      BY <2>2, <2>4 DEF Exposed
    <3>2. QED
      BY <2>1, <3>1 DEF Work!Next, Work!Write, Work!Moved, TypeOK
  <2>5. QED
    BY <2>3, <2>4
<1>2. ASSUME UNCHANGED <<procVars, fresh>> PROVE Exposed' = Exposed
  BY <1>2 DEF Exposed, Running
<1>3. ASSUME NEW r \in Repos, DeleteClone(r) PROVE Work!Next
  <2> DEFINE S == InClone(r)
  <2>1. /\ at' = [i \in Items |-> IF i \in S THEN "discarded" ELSE at[i]]
        /\ UNCHANGED <<procVars, fresh>>
    BY <1>3 DEF DeleteClone, StudentMoves
  <2>2. S \in SUBSET Items /\ \A i \in S : at[i] = "clone"
    BY DEF InClone
  <2>3. Work!Discard(S)
    BY <1>2, <2>1, <2>2 DEF Work!Discard, Work!Moved
  <2>4. QED
    BY <2>2, <2>3 DEF Work!Next
<1>4. ASSUME \/ Tick
             \/ \E r \in Repos : \/ Edit(r) \/ MoveHead(r) \/ AddTree(r)
                                \/ Unlock(r) \/ UnlockTree(r) \/ Publish(r)
      PROVE  UNCHANGED Work!vars
  <2>1. UNCHANGED <<procVars, fresh, at>>
    BY <1>4 DEF Tick, Edit, MoveHead, AddTree, Unlock, UnlockTree, Publish,
                StudentMoves, workVars
  <2>2. QED
    BY <1>2, <2>1 DEF Work!vars
<1>5. QED
  BY <1>1, <1>3, <1>4 DEF Environment

\* Whatever commands do, fail or leave half done, in any interleaving with the
\* student: every step on the clones, the archive and the processes is a step
\* of StudentWork or changes no file.
THEOREM WorkIsKept == Spec => WorkKept
<1>1. Init => Work!Init
  BY DEF Init, Work!Init, Exposed, Running
<1>2. TypeOK /\ CustodyInv /\ [Next]_vars => [Work!Next]_(Work!vars)
  <2> SUFFICES ASSUME TypeOK, CustodyInv, [Next]_vars
               PROVE  Work!Next \/ UNCHANGED Work!vars
    OBVIOUS
  <2>1. CASE UNCHANGED vars
    BY <2>1 DEF vars, workVars, Work!vars, Exposed, Running
  <2>2. CASE Next
    BY <2>2, BeginRefines, StepRefines, InterruptRefines, EnvironmentRefines
       DEF Next, Process
  <2>3. QED
    BY <2>1, <2>2
<1>3. QED
  BY TypeCorrect, CustodyHolds, <1>1, <1>2, PTL DEF Spec, WorkKept, Work!Spec

-----------------------------------------------------------------------------
(* Archives are sealed.                                                    *)

Sealed ==
  \A i, j \in Items :
    /\ at[i] = "archive"
    /\ j.repo = i.repo /\ j.sub = i.sub
    => /\ at'[i] = "archive" /\ stamp'[i] = stamp[i]
       /\ at'[j] = "archive" /\ stamp'[j] = stamp[i] => at[j] = "archive"

\* Apart from Archive's rename, no step archives or unarchives a file.
Untouched == /\ stamp' = stamp
             /\ \A i \in Items : at'[i] = "archive" <=> at[i] = "archive"

LEMMA OnlyRenameArchives ==
  ASSUME TypeOK, Next
  PROVE  Untouched \/ \E p \in Procs : ArchiveMove(p)
<1> USE DEF Untouched, workVars
<1>1. ASSUME NEW p \in Procs, BeginCommand(p) PROVE Untouched
  <2>1. CASE BeginReset(p)
    BY <2>1 DEF BeginReset, Begin
  <2>2. CASE BeginLab(p)
    BY <2>2 DEF BeginLab, Begin
  <2>3. CASE BeginSetup(p)
    BY <2>3 DEF BeginSetup, Begin
  <2>4. QED
    BY <1>1, <2>1, <2>2, <2>3 DEF BeginCommand
<1>2. ASSUME NEW p \in Procs, Step(p), ~ArchiveMove(p) PROVE Untouched
  <2>1. CASE Clean(p)
    <3>1. stamp' = stamp
      BY <2>1 DEF Clean
    <3>2. \/ at' = at
          \/ at' = [i \in Items |-> IF i \in InClone(repo[p]) THEN "lost" ELSE at[i]]
      BY <2>1, Zenon DEF Clean
    <3>3. QED
      BY <3>1, <3>2 DEF InClone
  <2>2. CASE ~Clean(p)
    BY <1>2, <2>2 DEF Step, ArchiveRead, WorktreeList, WorktreeRemove,
       WorktreePrune, Restore, HasCommit, Fetch, FetchFails, Recheck, Checkout,
       HardReset, ToRevision, Verify, HealthCheck, CloneCheck, GitClone
  <2>3. QED
    BY <2>1, <2>2
<1>3. ASSUME NEW p \in Procs, Interrupt(p) PROVE Untouched
  <2>1. CASE HalfCleaned(p)
    BY <2>1 DEF HalfCleaned, InClone
  <2>2. CASE ~HalfCleaned(p)
    BY <1>3, <2>2 DEF Interrupt, HalfCloned, HalfCheckedOut
  <2>3. QED
    BY <2>1, <2>2
<1>4. ASSUME Environment PROVE Untouched
  <2>1. ASSUME NEW i \in Items, Write(i) PROVE Untouched
    BY <2>1 DEF Write, TypeOK
  <2>2. ASSUME NEW r \in Repos, DeleteClone(r) PROVE Untouched
    BY <2>2 DEF DeleteClone, StudentMoves, InClone
  <2>3. QED
    BY <1>4, <2>1, <2>2 DEF Environment, StudentMoves, Edit, MoveHead, AddTree,
       Unlock, UnlockTree, Publish, Tick
<1>5. QED
  BY <1>1, <1>2, <1>3, <1>4 DEF Next, Process

\* No archive directory is ever added to, changed or emptied, however many
\* commands archive within one second.
THEOREM ArchivesStaySealed == Spec => ArchivesSealed
<1>1. TypeOK /\ [Next]_vars => [Sealed]_vars
  <2> SUFFICES ASSUME TypeOK, Next PROVE Sealed
    OBVIOUS
  <2>1. CASE Untouched
    BY <2>1 DEF Untouched, Sealed
  <2>2. ASSUME NEW p \in Procs, ArchiveMove(p) PROVE Sealed
    <3> DEFINE S == Contents(repo[p], sub[p])
    <3>1. CASE S = {} \/ Occupied(repo[p], sub[p], now[p])
      <4>1. UNCHANGED workVars
        BY <2>2, <3>1, Zenon DEF ArchiveMove
      <4>2. QED
        BY <4>1 DEF workVars, Sealed
    <3>2. CASE ~(S = {} \/ Occupied(repo[p], sub[p], now[p]))
      <4>1. /\ at' = [i \in Items |-> IF i \in S THEN "archive" ELSE at[i]]
            /\ stamp' = [i \in Items |-> IF i \in S THEN now[p] ELSE stamp[i]]
        BY <2>2, <3>2, Zenon DEF ArchiveMove
      <4>2. \A i \in S : at[i] = "clone" /\ i.repo = repo[p] /\ i.sub = sub[p]
        BY DEF Contents
      <4>3. \A i \in Items : /\ at[i] = "archive"
                            /\ i.repo = repo[p] /\ i.sub = sub[p]
                            => stamp[i] # now[p]
        BY <3>2 DEF Occupied
      <4> HIDE DEF S
      <4>4. QED
        BY <4>1, <4>2, <4>3 DEF Sealed
    <3>3. QED
      BY <3>1, <3>2
  <2>3. QED
    BY <2>1, <2>2, OnlyRenameArchives
<1>2. QED
  BY TypeCorrect, <1>1, PTL DEF Spec, ArchivesSealed, Sealed

-----------------------------------------------------------------------------
(* What a command that reports success leaves.                             *)

\* The flow of one command: reset alone verifies and never clones, start-lab
\* has one repository, a result is there only at the end.
FlowOf(p) ==
  /\ pc[p] \in {"verify", "health"} => cmd[p] = "reset"
  /\ pc[p] \in {"restore", "clone", "gitclone"} => cmd[p] # "reset"
  /\ cmd[p] = "start-lab" => todo[p] = {}
  /\ result[p] # "none" => pc[p] = "idle"

NoTrees(r) == \A t \in Trees : trees[r][t] = "none"
Unlinked == {"has", "fetch", "refetched", "checkout", "hard", "clean", "verify", "health"}

\* What the steps of a reset or a start-lab have done so far.
Restored(p) ==
  /\ pc[p] = "remove" => \A t \in Trees : trees[repo[p]][t] # "none" => t \in wts[p]
  /\ cmd[p] = "reset" /\ (pc[p] \in Unlinked \/ result[p] = "ok") => NoTrees(repo[p])
  /\ pc[p] = "clone" /\ cmd[p] = "start-lab" => ~ present[repo[p]]
  /\ pc[p] = "clean" => /\ present[repo[p]] /\ ~ lock[repo[p]]
                        /\ head[repo[p]] = rev[p] /\ "edits" \notin dirt[repo[p]]
  /\ pc[p] \in {"verify", "health"} \/ (result[p] = "ok" /\ cmd[p] # "setup")
       => Pristine(p, {"ignored"})

\* What setup has done so far: the repositories before the present one.
Cloned(p) ==
  cmd[p] = "setup" =>
    /\ pc[p] # "idle" => \A r \in Named : r \in todo[p] \/ r = repo[p] \/ present[r]
    /\ result[p] = "ok" => \A r \in Named : present[r]

Verified(p) ==
  cmd[p] = "reset" /\ (pc[p] = "health" \/ result[p] = "ok") => head[repo[p]] = rev[p]

ReadyInv(p) ==
  /\ FlowOf(p)
  /\ meddled[p] = "no" => Restored(p) /\ Cloned(p)
  /\ meddled[p] # "late" => Verified(p)

\* A step of another process, of the student or of upstream, as q sees it: it
\* touches nothing of q's, and the clones' state only when it tells q so.
Spared(q) ==
  \A r \in Repos :
    /\ present'[r] = present[r] /\ head'[r] = head[r] /\ dirt'[r] = dirt[r]
    /\ lock'[r] => lock[r]
    /\ \A t \in Trees : trees'[r][t] = "none" <=> trees[r][t] = "none"
    /\ InClone(r)' \subseteq InClone(r) \cup fresh'[q]
Quiet(q) ==
  /\ pc'[q] = pc[q] /\ result'[q] = result[q] /\ wts'[q] = wts[q]
  /\ cmd'[q] = cmd[q] /\ repo'[q] = repo[q] /\ rev'[q] = rev[q] /\ todo'[q] = todo[q]
  /\ fresh[q] \subseteq fresh'[q]
  /\ meddled'[q] # "late" => meddled'[q] = meddled[q] /\ Spared(q)

LEMMA QuietKeeps ==
  ASSUME TypeOK, NEW q \in Procs, ReadyInv(q), Quiet(q)
  PROVE  ReadyInv(q)'
<1> USE DEF ReadyInv, Quiet
<1>0. repo[q] \in Repos /\ Named \subseteq Repos
  BY NamedNotEmpty DEF TypeOK
<1>1. FlowOf(q)'
  BY DEF FlowOf
<1>2. ASSUME meddled'[q] = "no" PROVE Restored(q)' /\ Cloned(q)'
  <2>1. Spared(q) /\ Restored(q) /\ Cloned(q)
    BY <1>2
  <2>2. Cloned(q)'
    BY <1>0, <2>1 DEF Cloned, Spared
  <2>3. NoTrees(repo[q]) => NoTrees(repo[q])'
    BY <1>0, <2>1 DEF NoTrees, Spared
  <2>4. Pristine(q, {"ignored"}) => Pristine(q, {"ignored"})'
    BY <1>0, <2>1 DEF Pristine, Spared
  <2>5. Restored(q)'
    BY <1>0, <2>1, <2>3, <2>4 DEF Restored, Spared
  <2> QED
    BY <2>2, <2>5
<1>3. ASSUME meddled'[q] # "late" PROVE Verified(q)'
  BY <1>0, <1>3 DEF Verified, Spared
<1> QED
  BY <1>1, <1>2, <1>3

\* The clones as q sees them, when nothing but commits and files that are no
\* longer in them changed.
LEMMA Untouching ==
  ASSUME UNCHANGED <<present, head, lock, dirt, trees>>, NEW q \in Procs,
         \A i \in Items : at'[i] = "clone" => at[i] = "clone"
  PROVE  Spared(q)
  BY DEF Spared, InClone

LEMMA MeddlesTells ==
  ASSUME TypeOK, NEW p \in Procs, Meddles(p)
  PROVE  meddled'[p] = meddled[p] /\ \A q \in Procs \ {p} : meddled'[q] = "late"
  BY DEF Meddles, TypeOK

LEMMA StepQuiet ==
  ASSUME TypeOK, NEW p \in Procs, Step(p), NEW q \in Procs \ {p}
  PROVE  Quiet(q)
<1> USE DEF cloneVars, workVars, envVars, jobVars
<1>1. ASSUME \/ ArchiveRead(p) \/ WorktreeList(p) \/ WorktreePrune(p) \/ Restore(p)
             \/ HasCommit(p) \/ FetchFails(p) \/ Recheck(p) \/ HealthCheck(p)
             \/ Verify(p)
      PROVE  Quiet(q)
  <2>1. UNCHANGED <<cloneVars, workVars, jobVars, fresh>>
    BY <1>1 DEF ArchiveRead, WorktreeList, WorktreePrune, Restore, HasCommit, FetchFails,
       Recheck, HealthCheck, Verify
  <2>2. pc'[q] = pc[q] /\ result'[q] = result[q]
    BY <1>1 DEF ArchiveRead, AfterArchive, WorktreeList, WorktreePrune, Restore, HasCommit,
       FetchFails, Recheck, HealthCheck, Verify, Continue, Finish, Goto, TypeOK
  <2>3. wts'[q] = wts[q] /\ meddled'[q] = meddled[q]
    BY <1>1 DEF ArchiveRead, WorktreeList, WorktreePrune, Restore, HasCommit, FetchFails,
       Recheck, HealthCheck, Verify, TypeOK
  <2> QED
    BY <2>1, <2>2, <2>3, Untouching DEF Quiet
<1>2. CASE Fetch(p)
  <2>1. /\ UNCHANGED <<present, head, lock, dirt, trees, workVars, jobVars, wts, meddled, fresh>>
        /\ pc'[q] = pc[q] /\ result'[q] = result[q]
    BY <1>2 DEF Fetch, Continue, Goto, TypeOK
  <2> QED
    BY <2>1, Untouching DEF Quiet
<1>3. CASE ArchiveMove(p)
  <2>1. /\ UNCHANGED <<cloneVars, jobVars, wts, meddled, fresh>>
        /\ \A i \in Items : at'[i] = "clone" => at[i] = "clone"
    BY <1>3 DEF ArchiveMove
  <2>2. pc'[q] = pc[q] /\ result'[q] = result[q]
    BY <1>3 DEF ArchiveMove, AfterArchive, Continue, Finish, Goto, TypeOK
  <2> QED
    BY <2>1, <2>2, Untouching DEF Quiet
<1>4. CASE WorktreeRemove(p)
  <2>1. /\ UNCHANGED <<present, head, lock, dirt, workVars, jobVars, fresh>>
        /\ pc'[q] = pc[q] /\ result'[q] = result[q] /\ wts'[q] = wts[q]
        /\ Meddles(p) \/ UNCHANGED <<trees, meddled>>
    BY <1>4 DEF WorktreeRemove, Finish, Goto, TypeOK
  <2> QED
    BY <2>1, Untouching, MeddlesTells DEF Quiet
<1>5. CASE Checkout(p) \/ HardReset(p)
  <2>1. PICK step : ToRevision(p, step)
    BY <1>5 DEF Checkout, HardReset
  <2>2. /\ UNCHANGED <<present, lock, trees, workVars, jobVars, wts, fresh>>
        /\ pc'[q] = pc[q] /\ result'[q] = result[q]
        /\ Meddles(p) \/ UNCHANGED <<head, dirt, meddled>>
    BY <2>1 DEF ToRevision, Continue, Finish, Goto, TypeOK
  <2> QED
    BY <2>2, Untouching, MeddlesTells DEF Quiet
<1>6. ASSUME RevisionReady(p)
      PROVE  /\ pc'[q] = pc[q] /\ result'[q] = result[q]
             /\ cmd'[q] = cmd[q] /\ repo'[q] = repo[q] /\ rev'[q] = rev[q] /\ todo'[q] = todo[q]
  BY <1>6 DEF RevisionReady, NextRepository, Continue, Finish, Goto, TypeOK
<1>7. CASE Clean(p)
  <2>1. CASE present[repo[p]]
    <3>1. RevisionReady(p) /\ Meddles(p) /\ UNCHANGED <<wts, fresh>>
      BY <1>7, <2>1 DEF Clean
    <3> QED
      BY <1>6, <3>1, MeddlesTells DEF Quiet
  <2>2. CASE ~ present[repo[p]]
    <3>1. /\ UNCHANGED <<cloneVars, workVars, jobVars, wts, meddled, fresh>>
          /\ Finish(p, "error")
      BY <1>7, <2>2 DEF Clean
    <3> QED
      BY <3>1, Untouching DEF Quiet, Finish, Goto, TypeOK
  <2> QED
    BY <2>1, <2>2
<1>8. CASE CloneCheck(p)
  <2>1. UNCHANGED <<cloneVars, workVars, wts, meddled, fresh>>
    BY <1>8 DEF CloneCheck
  <2>2. CASE present[repo[p]]
    <3>1. RevisionReady(p)
      BY <1>8, <2>2 DEF CloneCheck
    <3> QED
      BY <1>6, <2>1, <3>1, Untouching DEF Quiet
  <2>3. CASE ~ present[repo[p]]
    <3>1. UNCHANGED jobVars /\ pc'[q] = pc[q] /\ result'[q] = result[q]
      BY <1>8, <2>3 DEF CloneCheck, Continue, Goto, TypeOK
    <3> QED
      BY <2>1, <3>1, Untouching DEF Quiet
  <2> QED
    BY <2>2, <2>3
<1>9. CASE GitClone(p)
  <2>1. /\ UNCHANGED <<workVars, jobVars, wts, fresh>>
        /\ pc'[q] = pc[q] /\ result'[q] = result[q]
        /\ Meddles(p) \/ UNCHANGED <<cloneVars, meddled>>
    BY <1>9 DEF GitClone, Continue, Finish, Goto, TypeOK
  <2> QED
    BY <2>1, Untouching, MeddlesTells DEF Quiet
<1> QED
  BY <1>1, <1>2, <1>3, <1>4, <1>5, <1>7, <1>8, <1>9 DEF Step

\* A command that fails has nothing to show.
LEMMA ErrorReady ==
  ASSUME NEW p \in Procs, FlowOf(p), pc'[p] = "idle", result'[p] = "error",
         cmd'[p] = cmd[p], todo'[p] = todo[p]
  PROVE  ReadyInv(p)'
  BY DEF ReadyInv, FlowOf, Restored, Cloned, Verified, Unlinked

\* A step that leaves the clone as it is.
LEMMA GoesOn ==
  ASSUME TypeOK, NEW p \in Procs, ReadyInv(p), pc[p] # "idle", result'[p] = result[p],
         UNCHANGED <<jobVars, present, trees>>, meddled'[p] = meddled[p],
         pc'[p] \in {"archive", "rename", "list", "restore", "has", "fetch", "refetched",
                     "checkout", "gitclone"},
         pc'[p] \in {"restore", "gitclone"} => cmd[p] # "reset",
         pc'[p] \in Unlinked /\ cmd[p] = "reset" /\ meddled[p] = "no" => NoTrees(repo[p])
  PROVE  ReadyInv(p)'
<1> USE DEF ReadyInv, jobVars
<1>1. result[p] = "none" /\ result'[p] = "none"
  BY DEF FlowOf, TypeOK
<1>2. FlowOf(p)' /\ Verified(p)'
  BY <1>1 DEF FlowOf, Verified
<1>3. ASSUME meddled[p] = "no" PROVE Restored(p)' /\ Cloned(p)'
  <2>1. Restored(p)'
    BY <1>1, <1>3 DEF Restored, NoTrees
  <2>2. Cloned(p)'
    BY <1>1, <1>3 DEF Cloned
  <2> QED
    BY <2>1, <2>2
<1> QED
  BY <1>2, <1>3

LEMMA AfterArchiveFlow ==
  ASSUME TypeOK, NEW p \in Procs, AfterArchive(p)
  PROVE  /\ result'[p] = result[p]
         /\ pc'[p] \in {"archive", "list", "restore"}
         /\ pc'[p] = "restore" => cmd[p] # "reset"
  BY DEF AfterArchive, Continue, Goto, TypeOK

\* The archives of a command, and the worktrees of a reset.
LEMMA ArchiveReady ==
  ASSUME TypeOK, NEW p \in Procs, ReadyInv(p), ArchiveRead(p) \/ ArchiveMove(p)
  PROVE  ReadyInv(p)'
<1> USE DEF cloneVars, workVars, jobVars, Unlinked
<1>1. UNCHANGED <<cloneVars, jobVars, meddled>> /\ pc[p] # "idle"
  BY DEF ArchiveRead, ArchiveMove
<1>2. CASE Finish(p, "error")
  BY <1>1, <1>2, ErrorReady DEF Finish, Goto, TypeOK, ReadyInv
<1>3. CASE AfterArchive(p)
  BY <1>1, <1>3, AfterArchiveFlow, GoesOn
<1>4. CASE Continue(p, "rename")
  BY <1>1, <1>4, GoesOn DEF Continue, Goto, TypeOK
<1> QED
  BY <1>2, <1>3, <1>4 DEF ArchiveRead, ArchiveMove

LEMMA WorktreesReady ==
  ASSUME TypeOK, NEW p \in Procs, ReadyInv(p),
         WorktreeList(p) \/ WorktreeRemove(p) \/ WorktreePrune(p)
  PROVE  ReadyInv(p)'
<1> USE DEF cloneVars, workVars, jobVars
<1>1. /\ UNCHANGED <<present, head, lock, dirt, jobVars>> /\ pc[p] \in {"list", "remove"}
      /\ result[p] = "none"
  BY DEF WorktreeList, WorktreeRemove, WorktreePrune, ReadyInv, FlowOf, TypeOK
<1>2. CASE Finish(p, "error")
  BY <1>1, <1>2, ErrorReady DEF Finish, Goto, TypeOK, ReadyInv
<1>3. CASE WorktreeList(p) /\ ~ Finish(p, "error")
  <2>1. /\ pc'[p] = "remove" /\ result'[p] = "none" /\ UNCHANGED <<trees, meddled>>
        /\ wts'[p] = {t \in Trees : trees[repo[p]][t] # "none"}
    BY <1>1, <1>3 DEF WorktreeList, Continue, Goto, TypeOK
  <2>2. FlowOf(p)' /\ Verified(p)' /\ Restored(p)'
    BY <1>1, <2>1 DEF ReadyInv, FlowOf, Verified, Restored, Unlinked
  <2>3. meddled[p] = "no" => Cloned(p)'
    BY <1>1, <2>1 DEF ReadyInv, Cloned
  <2> QED
    BY <2>1, <2>2, <2>3 DEF ReadyInv
<1>4. CASE WorktreeRemove(p) /\ ~ Finish(p, "error")
  <2>1. PICK t \in wts[p] : /\ trees' = [trees EXCEPT ![repo[p]][t] = "none"]
                            /\ wts' = [wts EXCEPT ![p] = @ \ {t}]
                            /\ Meddles(p) /\ UNCHANGED <<pc, result>>
    BY <1>4 DEF WorktreeRemove
  <2>2. /\ \A u \in Trees : trees'[repo[p]][u] # "none" => u # t /\ trees[repo[p]][u] # "none"
        /\ wts'[p] = wts[p] \ {t} /\ meddled'[p] = meddled[p]
        /\ pc'[p] = "remove" /\ result'[p] = "none"
    BY <1>1, <1>4, <2>1, MeddlesTells DEF TypeOK, WorktreeRemove
  <2>3. FlowOf(p)' /\ Verified(p)'
    BY <1>1, <2>2 DEF ReadyInv, FlowOf, Verified
  <2>4. meddled[p] = "no" => Restored(p)'
    <3>1. pc[p] = "remove"
      BY <1>4 DEF WorktreeRemove
    <3> QED
      BY <1>1, <2>2, <3>1 DEF ReadyInv, Restored, Unlinked
  <2>5. meddled[p] = "no" => Cloned(p)'
    BY <1>1, <2>2 DEF ReadyInv, Cloned
  <2> QED
    BY <2>2, <2>3, <2>4, <2>5 DEF ReadyInv
<1>5. CASE WorktreePrune(p) /\ ~ Finish(p, "error")
  <2>1. /\ pc[p] = "remove" /\ wts[p] = {} /\ UNCHANGED <<trees, meddled>>
        /\ pc'[p] = "has" /\ result'[p] = result[p]
    BY <1>5 DEF WorktreePrune, Continue, Goto, TypeOK
  <2>2. meddled[p] = "no" => NoTrees(repo[p])
    BY <2>1 DEF ReadyInv, Restored, NoTrees
  <2> QED
    BY <1>1, <2>1, <2>2, GoesOn
<1> QED
  BY <1>2, <1>3, <1>4, <1>5

\* From the look at the clone to the commit that is there.
LEMMA RevisionFound ==
  ASSUME TypeOK, NEW p \in Procs, ReadyInv(p),
         Restore(p) \/ HasCommit(p) \/ Fetch(p) \/ FetchFails(p) \/ Recheck(p)
  PROVE  ReadyInv(p)'
<1> USE DEF cloneVars, workVars, jobVars
<1>1. /\ UNCHANGED <<present, trees, jobVars, meddled>>
      /\ pc[p] \in {"restore", "has", "fetch", "refetched"}
  BY DEF Restore, HasCommit, Fetch, FetchFails, Recheck
<1>2. CASE Finish(p, "error")
  BY <1>1, <1>2, ErrorReady DEF Finish, Goto, TypeOK, ReadyInv
<1>3. CASE ~ Finish(p, "error")
  <2>1. result'[p] = result[p] /\ pc'[p] \in {"has", "fetch", "refetched", "checkout"}
    BY <1>3 DEF Restore, HasCommit, Fetch, FetchFails, Recheck, Continue, Goto, TypeOK
  <2>2. pc[p] = "restore" => cmd[p] # "reset"
    BY DEF ReadyInv, FlowOf
  <2>3. cmd[p] = "reset" /\ meddled[p] = "no" => NoTrees(repo[p])
    BY <1>1, <2>2 DEF ReadyInv, Restored, Unlinked
  <2> QED
    BY <1>1, <2>1, <2>3, GoesOn
<1> QED
  BY <1>2, <1>3

\* git checkout and git reset --hard: at the revision, without edits.
LEMMA AtRevision ==
  ASSUME TypeOK, NEW p \in Procs, ReadyInv(p), Checkout(p) \/ HardReset(p)
  PROVE  ReadyInv(p)'
<1> USE DEF workVars, jobVars
<1>1. /\ UNCHANGED <<present, lock, trees, jobVars, at, fresh>>
      /\ pc[p] \in {"checkout", "hard"} /\ result[p] = "none"
  BY DEF Checkout, HardReset, ToRevision, ReadyInv, FlowOf, TypeOK
<1>2. CASE Finish(p, "error")
  BY <1>1, <1>2, ErrorReady DEF Finish, Goto, TypeOK, ReadyInv
<1>3. CASE ~ Finish(p, "error")
  <2>1. /\ present[repo[p]] /\ ~ lock[repo[p]]
        /\ head'[repo[p]] = rev[p] /\ dirt'[repo[p]] = dirt[repo[p]] \ {"edits"}
        /\ Meddles(p)
        /\ pc'[p] \in {"hard", "clean"} /\ result'[p] = "none"
    BY <1>1, <1>3 DEF Checkout, HardReset, ToRevision, Local, Continue, Goto, TypeOK
  <2>2. meddled'[p] = meddled[p]
    BY <2>1, MeddlesTells
  <2>3. FlowOf(p)' /\ Verified(p)'
    BY <1>1, <2>1 DEF ReadyInv, FlowOf, Verified
  <2>4. meddled[p] = "no" => Restored(p)'
    BY <1>1, <2>1 DEF ReadyInv, Restored, Unlinked, NoTrees
  <2>5. meddled[p] = "no" => Cloned(p)'
    BY <1>1, <2>1 DEF ReadyInv, Cloned
  <2> QED
    BY <2>2, <2>3, <2>4, <2>5 DEF ReadyInv
<1> QED
  BY <1>2, <1>3

\* What follows on a clone that is ready: for setup it is enough that it is
\* there, for the others it must be as if freshly made.
LEMMA ReadyGoesOn ==
  ASSUME TypeOK, NEW p \in Procs, ReadyInv(p), RevisionReady(p), pc[p] # "idle",
         UNCHANGED <<present, head, lock, trees>>, present[repo[p]],
         meddled'[p] = meddled[p],
         meddled[p] = "no" /\ cmd[p] # "setup" => Pristine(p, {"ignored"})',
         meddled[p] = "no" /\ cmd[p] = "reset" => NoTrees(repo[p])
  PROVE  ReadyInv(p)'
<1> USE DEF ReadyInv, jobVars
<1>0. result[p] = "none"
  BY DEF FlowOf, TypeOK
<1>1. CASE cmd[p] = "reset"
  <2>1. pc'[p] = "verify" /\ result'[p] = "none" /\ UNCHANGED jobVars
    BY <1>0, <1>1 DEF RevisionReady, Continue, Goto, TypeOK
  <2> QED
    BY <1>1, <2>1 DEF FlowOf, Restored, Cloned, Verified, NoTrees
<1>2. CASE cmd[p] # "reset" /\ todo[p] = {}
  <2>1. pc'[p] = "idle" /\ result'[p] = "ok" /\ UNCHANGED jobVars
    BY <1>2 DEF RevisionReady, Finish, Goto, TypeOK
  <2>2. FlowOf(p)' /\ Verified(p)'
    BY <1>2, <2>1 DEF FlowOf, Verified
  <2>3. meddled[p] = "no" => Restored(p)'
    BY <1>2, <2>1 DEF Restored
  <2>4. meddled[p] = "no" => Cloned(p)'
    BY <1>2, <2>1 DEF Cloned
  <2> QED
    BY <2>2, <2>3, <2>4
<1>3. CASE cmd[p] = "setup" /\ todo[p] # {}
  <2>1. /\ pc'[p] = "clone" /\ result'[p] = "none" /\ cmd' = cmd
        /\ todo'[p] = todo[p] \ {repo'[p]}
    BY <1>0, <1>3 DEF RevisionReady, NextRepository, Continue, Goto, TypeOK
  <2>2. FlowOf(p)' /\ Verified(p)' /\ Restored(p)'
    BY <1>3, <2>1 DEF FlowOf, Verified, Restored, Unlinked
  <2>3. meddled[p] = "no" => Cloned(p)'
    BY <1>3, <2>1 DEF Cloned
  <2> QED
    BY <2>2, <2>3
<1>4. cmd[p] = "start-lab" => todo[p] = {}
  BY DEF FlowOf
<1> QED
  BY <1>1, <1>2, <1>3, <1>4 DEF TypeOK

LEMMA CleanReady ==
  ASSUME TypeOK, NEW p \in Procs, ReadyInv(p), Clean(p)
  PROVE  ReadyInv(p)'
<1> USE DEF cloneVars, jobVars
<1>1. CASE present[repo[p]]
  <2>1. /\ RevisionReady(p) /\ UNCHANGED <<present, head, lock, trees, fresh>>
        /\ dirt'[repo[p]] = dirt[repo[p]] \ {"untracked"}
        /\ at' = [i \in Items |-> IF i \in InClone(repo[p]) THEN "lost" ELSE at[i]]
        /\ meddled'[p] = meddled[p] /\ pc[p] = "clean"
    BY <1>1, MeddlesTells DEF Clean, TypeOK
  <2>2. \A i \in Items : i.repo = repo[p] => at'[i] # "clone"
    BY <2>1 DEF InClone
  <2>3. cmd[p] # "setup" => repo'[p] = repo[p] /\ rev'[p] = rev[p]
    <3>1. cmd[p] = "start-lab" => todo[p] = {}
      BY DEF ReadyInv, FlowOf
    <3> QED
      BY <2>1, <3>1 DEF RevisionReady, TypeOK
  <2>4. ASSUME meddled[p] = "no", cmd[p] # "setup" PROVE Pristine(p, {"ignored"})'
    <3>1. head[repo[p]] = rev[p] /\ ~ lock[repo[p]] /\ "edits" \notin dirt[repo[p]]
      BY <2>1, <2>4 DEF ReadyInv, Restored
    <3>2. dirt[repo[p]] \subseteq Debris
      BY DEF TypeOK
    <3>3. dirt'[repo[p]] \subseteq {"ignored"}
      BY <2>1, <3>1, <3>2 DEF Debris
    <3>4. InClone(repo[p])' = {}
      BY <2>2, <2>3, <2>4 DEF InClone
    <3> QED
      BY <1>1, <2>1, <2>3, <2>4, <3>1, <3>3, <3>4 DEF Pristine
  <2>5. meddled[p] = "no" /\ cmd[p] = "reset" => NoTrees(repo[p])
    BY <2>1 DEF ReadyInv, Restored, Unlinked
  <2> QED
    BY <1>1, <2>1, <2>4, <2>5, ReadyGoesOn
<1>2. CASE ~ present[repo[p]]
  <2>1. Finish(p, "error") /\ UNCHANGED jobVars
    BY <1>2 DEF Clean
  <2> QED
    BY <2>1, ErrorReady DEF Finish, Goto, TypeOK, ReadyInv
<1> QED
  BY <1>1, <1>2

\* Step 7 and 8 of reset.
LEMMA VerifyReady ==
  ASSUME TypeOK, NEW p \in Procs, ReadyInv(p), Verify(p) \/ HealthCheck(p)
  PROVE  ReadyInv(p)'
<1> USE DEF cloneVars, workVars, jobVars
<1>1. /\ UNCHANGED <<cloneVars, workVars, jobVars, fresh>> /\ pc[p] \in {"verify", "health"}
      /\ result[p] = "none" /\ cmd[p] = "reset"
      /\ meddled'[p] = "no" => meddled[p] = "no"
  BY DEF Verify, HealthCheck, ReadyInv, FlowOf, TypeOK
<1>2. CASE Finish(p, "error")
  BY <1>1, <1>2, ErrorReady DEF Finish, Goto, TypeOK, ReadyInv
<1>3. CASE ~ Finish(p, "error")
  <2>1. /\ \/ pc'[p] = "health" /\ result'[p] = "none"
           \/ pc'[p] = "idle" /\ result'[p] = "ok"
        /\ meddled'[p] # "late" => head[repo[p]] = rev[p]
    BY <1>1, <1>3
    DEF Verify, HealthCheck, Continue, Finish, Goto, TypeOK, ReadyInv, Verified
  <2>2. FlowOf(p)' /\ Cloned(p)' /\ (meddled'[p] # "late" => Verified(p)')
    BY <1>1, <2>1 DEF ReadyInv, FlowOf, Cloned, Verified
  <2>3. ASSUME meddled[p] = "no" PROVE Restored(p)'
    <3>1. Pristine(p, {"ignored"}) /\ NoTrees(repo[p])
      BY <1>1, <2>3 DEF ReadyInv, Restored, Unlinked
    <3>2. Pristine(p, {"ignored"})' /\ NoTrees(repo[p])'
      BY <1>1, <3>1 DEF Pristine, NoTrees, InClone
    <3> QED
      BY <1>1, <2>1, <3>2 DEF Restored
  <2> QED
    BY <1>1, <2>2, <2>3 DEF ReadyInv
<1> QED
  BY <1>2, <1>3

LEMMA CloneReady ==
  ASSUME TypeOK, NEW p \in Procs, ReadyInv(p), CloneCheck(p) \/ GitClone(p)
  PROVE  ReadyInv(p)'
<1> USE DEF cloneVars, workVars, jobVars
<1>0. /\ pc[p] \in {"clone", "gitclone"} /\ cmd[p] # "reset" /\ result[p] = "none"
  BY DEF CloneCheck, GitClone, ReadyInv, FlowOf, TypeOK
<1>1. CASE CloneCheck(p) /\ present[repo[p]]
  <2>1. RevisionReady(p) /\ UNCHANGED <<cloneVars, meddled>> /\ pc[p] = "clone"
    BY <1>1 DEF CloneCheck
  <2>2. meddled[p] = "no" => cmd[p] = "setup"
    BY <1>0, <1>1, <2>1 DEF ReadyInv, Restored, TypeOK
  <2> QED
    BY <1>0, <1>1, <2>1, <2>2, ReadyGoesOn
<1>2. CASE CloneCheck(p) /\ ~ present[repo[p]]
  <2>1. /\ UNCHANGED <<cloneVars, jobVars, meddled>>
        /\ pc'[p] = "gitclone" /\ result'[p] = result[p]
    BY <1>2 DEF CloneCheck, Continue, Goto, TypeOK
  <2> QED
    BY <1>0, <2>1, GoesOn DEF Unlinked
<1>3. CASE GitClone(p) /\ present[repo[p]]
  <2>1. Finish(p, "error") /\ UNCHANGED jobVars
    BY <1>3 DEF GitClone
  <2> QED
    BY <2>1, ErrorReady DEF Finish, Goto, TypeOK, ReadyInv
<1>4. CASE GitClone(p) /\ ~ present[repo[p]]
  <2>1. /\ Continue(p, "has") /\ present' = [present EXCEPT ![repo[p]] = TRUE]
        /\ Meddles(p) /\ UNCHANGED jobVars
    BY <1>4 DEF GitClone
  <2>2. /\ pc'[p] = "has" /\ result'[p] = "none" /\ meddled'[p] = meddled[p]
        /\ \A r \in Repos : present[r] => present'[r]
    BY <1>0, <2>1, MeddlesTells DEF Continue, Goto, TypeOK
  <2>3. FlowOf(p)' /\ Verified(p)' /\ Restored(p)'
    BY <1>0, <2>1, <2>2 DEF ReadyInv, FlowOf, Verified, Restored
  <2>4. meddled[p] = "no" => Cloned(p)'
    BY <1>0, <2>1, <2>2, NamedNotEmpty DEF ReadyInv, Cloned
  <2> QED
    BY <2>2, <2>3, <2>4 DEF ReadyInv
<1> QED
  BY <1>1, <1>2, <1>3, <1>4

LEMMA StepReady ==
  ASSUME TypeOK, NEW p \in Procs, ReadyInv(p), Step(p)
  PROVE  ReadyInv(p)'
  BY ArchiveReady, WorktreesReady, RevisionFound, AtRevision, CleanReady, VerifyReady,
     CloneReady DEF Step

\* A command that begins has done nothing yet, and one that is interrupted
\* fails.
LEMMA BeginReady ==
  ASSUME TypeOK, NEW p \in Procs, BeginCommand(p)
  PROVE  ReadyInv(p)' /\ \A q \in Procs \ {p} : Quiet(q)
<1>1. ASSUME NEW c \in {"setup", "reset", "start-lab"}, NEW r, NEW v, NEW rest,
             NEW step, NEW res, Begin(p, c, r, v, rest, step, res)
      PROVE  /\ \A q \in Procs \ {p} : Quiet(q)
             /\ pc'[p] = step /\ result'[p] = res /\ cmd'[p] = c /\ repo'[p] = r
             /\ todo'[p] = rest /\ present' = present
  <2>1. \A q \in Procs \ {p} : Spared(q)
    BY <1>1, Untouching DEF Begin, cloneVars, workVars
  <2> QED
    BY <1>1, <2>1 DEF Begin, Quiet, TypeOK, cloneVars
<1> USE DEF ReadyInv, FlowOf, Restored, Cloned, Verified, Unlinked
<1>2. CASE BeginReset(p)
  <2>1. PICK r, v : \/ Begin(p, "reset", r, v, {}, "archive", "none")
                    \/ Begin(p, "reset", r, v, {}, "idle", "error")
    BY <1>2 DEF BeginReset
  <2> QED
    BY <1>1, <2>1
<1>3. CASE BeginLab(p)
  <2>1. PICK l \in Labs : Begin(p, "start-lab", l.repository, l.revision, {},
                                IF present[l.repository] THEN "archive" ELSE "clone", "none")
    BY <1>3 DEF BeginLab
  <2> QED
    BY <1>1, <2>1
<1>4. CASE BeginSetup(p)
  <2>1. PICK r, v : Begin(p, "setup", r, v, Named \ {r}, "clone", "none")
    BY <1>4 DEF BeginSetup
  <2> QED
    BY <1>1, <2>1
<1> QED
  BY <1>2, <1>3, <1>4 DEF BeginCommand

LEMMA InterruptReady ==
  ASSUME TypeOK, NEW p \in Procs, ReadyInv(p), Interrupt(p)
  PROVE  ReadyInv(p)' /\ \A q \in Procs \ {p} : Quiet(q)
<1>1. /\ Finish(p, "error") /\ UNCHANGED <<jobVars, wts, fresh>>
      /\ UNCHANGED <<cloneVars, workVars, meddled>> \/ Meddles(p)
  BY DEF Interrupt
<1>2. ReadyInv(p)'
  BY <1>1, ErrorReady DEF Finish, Goto, TypeOK, ReadyInv, jobVars
<1>3. ASSUME NEW q \in Procs \ {p} PROVE Quiet(q)
  <2>1. pc'[q] = pc[q] /\ result'[q] = result[q]
    BY <1>1 DEF Finish, Goto, TypeOK
  <2> QED
    BY <1>1, <2>1, Untouching, MeddlesTells DEF Quiet, jobVars, cloneVars, workVars
<1> QED
  BY <1>2, <1>3

\* The student tells every command what may disturb it.
LEMMA EnvironmentQuiet ==
  ASSUME TypeOK, Environment, NEW q \in Procs
  PROVE  Quiet(q)
<1> USE DEF procVars, jobVars, cloneVars, workVars
<1>1. UNCHANGED procVars /\ fresh[q] \subseteq fresh'[q]
  BY DEF Environment, Write, StudentMoves, Edit, MoveHead, AddTree, DeleteClone, Unlock,
         UnlockTree, Publish, Tick, TypeOK
<1>2. meddled'[q] = "late" \/ (meddled' = meddled /\ Spared(q))
  <2>1. ASSUME NEW i \in Items, Write(i) PROVE meddled' = meddled /\ Spared(q)
    BY <2>1 DEF Write, Spared, InClone, TypeOK
  <2>2. CASE StudentMoves
    BY <2>2 DEF StudentMoves
  <2>3. ASSUME NEW r \in Repos, Unlock(r) PROVE meddled' = meddled /\ Spared(q)
    BY <2>3 DEF Unlock, Spared, InClone, TypeOK
  <2>4. ASSUME NEW r \in Repos, UnlockTree(r) PROVE meddled' = meddled /\ Spared(q)
    <3>1. PICK t \in Trees : /\ trees[r][t] = "locked"
                             /\ trees' = [trees EXCEPT ![r][t] = "linked"]
      BY <2>4 DEF UnlockTree
    <3>2. \A s \in Repos, u \in Trees : trees'[s][u] = "none" <=> trees[s][u] = "none"
      BY <3>1 DEF TypeOK
    <3> QED
      BY <2>4, <3>2 DEF UnlockTree, Spared, InClone
  <2>5. ASSUME Tick \/ \E r \in Repos : Publish(r) PROVE meddled' = meddled /\ Spared(q)
    BY <2>5, Untouching DEF Tick, Publish
  <2> QED
    BY <2>1, <2>2, <2>3, <2>4, <2>5 DEF Environment, Edit, MoveHead, AddTree, DeleteClone
<1> QED
  BY <1>1, <1>2 DEF Quiet

LEMMA AlwaysReady == Spec => [](\A p \in Procs : ReadyInv(p))
<1>1. Init => \A p \in Procs : ReadyInv(p)
  <2> SUFFICES ASSUME Init, NEW p \in Procs PROVE ReadyInv(p)
    OBVIOUS
  <2>1. pc[p] = "idle" /\ result[p] = "none" /\ cmd[p] = "setup"
    BY DEF Init
  <2> QED
    BY <2>1 DEF ReadyInv, FlowOf, Restored, Cloned, Verified, Unlinked
<1>2. TypeOK /\ (\A p \in Procs : ReadyInv(p)) /\ [Next]_vars
        => (\A p \in Procs : ReadyInv(p))'
  <2> SUFFICES ASSUME TypeOK, \A p \in Procs : ReadyInv(p), [Next]_vars, NEW q \in Procs
               PROVE  ReadyInv(q)'
    OBVIOUS
  <2>1. CASE UNCHANGED vars
    BY <2>1, Untouching, QuietKeeps
    DEF vars, cloneVars, workVars, envVars, jobVars, Quiet
  <2>2. CASE Next
    <3>1. ASSUME NEW p \in Procs, Process(p) PROVE ReadyInv(q)'
      BY <3>1, BeginReady, StepReady, StepQuiet, InterruptReady, QuietKeeps DEF Process
    <3> QED
      BY <2>2, <3>1, EnvironmentQuiet, QuietKeeps DEF Next
  <2> QED
    BY <2>1, <2>2
<1> QED
  BY TypeCorrect, <1>1, <1>2, PTL DEF Spec

\* A reset that reports success and was not disturbed leaves the clone at the
\* module's revision, clean, with no worktree linked (Reset, its eight steps),
\* whatever commands stopped halfway before it had left.
THEOREM ResetsRestore == Spec => []ResetRestores
<1>1. (\A p \in Procs : ReadyInv(p)) => ResetRestores
  BY DEF ReadyInv, Restored, NoTrees, ResetRestores, Done
<1> QED
  BY <1>1, AlwaysReady, PTL

\* So does a start-lab, on both its paths (runStartLab).
THEOREM LabsRestore == Spec => []LabRestores
<1>1. (\A p \in Procs : ReadyInv(p)) => LabRestores
  BY DEF ReadyInv, Restored, LabRestores, Done
<1> QED
  BY <1>1, AlwaysReady, PTL

\* Whatever others did before step 7, a reset that reports success saw HEAD at
\* its revision.
THEOREM ResetsVerify == Spec => []ResetVerified
<1>1. (\A p \in Procs : ReadyInv(p)) => ResetVerified
  BY DEF ReadyInv, Verified, ResetVerified, Done
<1> QED
  BY <1>1, AlwaysReady, PTL

\* A setup that reports success has cloned every repository of the map
\* (runSetup).
THEOREM SetupsClone == Spec => []SetupClones
<1>1. (\A p \in Procs : ReadyInv(p)) => SetupClones
  BY DEF ReadyInv, Cloned, SetupClones, Done
<1> QED
  BY <1>1, AlwaysReady, PTL

=============================================================================
