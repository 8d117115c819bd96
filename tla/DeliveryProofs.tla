---------------------------- MODULE DeliveryProofs ----------------------------
(***************************************************************************)
(* Proofs about Delivery, for any workflows, patches, workers and          *)
(* reviewers: it implements the stage graphs and the pull-request boundary *)
(* it is composed of, and delivers only what was judged.                   *)
(***************************************************************************)
EXTENDS Delivery, DeliveryPartsProofs, FiniteSetTheorems,
        SequenceTheorems, WellFoundedInduction

-----------------------------------------------------------------------------
(* What a step of the composition is to each of its parts.                 *)

LEMMA StepOfStages == [Next]_vars => [StagesNext]_stageVars
  <1> SUFFICES ASSUME [Next]_vars PROVE [StagesNext]_stageVars
    OBVIOUS
  <1>1. ASSUME NEW w \in Workflows, NEW target \in Stage \cup MultiStage, Advance(w, target)
        PROVE  StagesNext
    BY <1>1 DEF Advance, StagesNext
  <1>2. CASE UNCHANGED stageVars
    BY <1>2
  <1> QED
    BY <1>1, <1>2 DEF Next, Work, Report, Package, Outside, Lever, vars

\* The keys of a workflow's pull requests.
LEMMA KeysOf ==
  ASSUME NEW w \in Workflows, NEW v \in 1 .. MaxPatches
  PROVE  <<w, v>> \in Keys /\ w \in Clients
  BY DeliveryAssumption

LEMMA StepOfPulls ==
  ASSUME patch \in [Workflows -> 0 .. MaxPatches], [Next]_vars
  PROVE  [PullNext]_pullVars
  <1>1. ASSUME NEW w \in Workflows, Package(w) PROVE PullNext
    <2>1. patch[w] \in 1 .. MaxPatches
      BY <1>1, DeliveryAssumption DEF Package
    <2>2. <<w, patch[w]>> \in Keys /\ w \in Clients
      BY <2>1, KeysOf
    <2> QED
      BY <1>1, <2>2 DEF Package, PullNext
  <1>2. ASSUME NEW w \in Workflows, Outside(w) PROVE PullNext
    <2>1. w \in Clients
      BY DeliveryAssumption
    <2>2. CASE patch[w] > 0 /\ DoubleSend(w, <<w, patch[w]>>, FALSE)
      <3>1. patch[w] \in 1 .. MaxPatches
        BY <2>2, DeliveryAssumption
      <3>2. <<w, patch[w]>> \in Keys
        BY <3>1, KeysOf
      <3> QED
        BY <2>1, <2>2, <3>2 DEF PullNext, Send
    <2>3. ASSUME NEW draft \in BOOLEAN, DoubleSend(w, NoKey, draft) PROVE PullNext
      BY <2>1, <2>3, PullAssumption DEF PullNext, Send
    <2> QED
      BY <1>2, <2>2, <2>3 DEF Outside
  <1>3. CASE UNCHANGED pullVars
    BY <1>3
  <1> QED
    BY <1>1, <1>2, <1>3 DEF Next, Work, Report, Advance, Lever, PullNext, vars

-----------------------------------------------------------------------------
(* Type correctness.                                                       *)

WorkTypeOK ==
    /\ patch \in [Workflows -> 0 .. MaxPatches]
    /\ judged \in [Workflows -> [Judging -> 0 .. MaxPatches]]
    /\ round \in [Workflows -> 1 .. MaxRounds]

LEMMA WorkTypes == WorkTypeOK /\ [Next]_vars => WorkTypeOK'
  <1> SUFFICES ASSUME WorkTypeOK, [Next]_vars PROVE WorkTypeOK'
    OBVIOUS
  <1> USE DEF WorkTypeOK
  <1>1. ASSUME NEW w \in Workflows, Work(w) PROVE WorkTypeOK'
    <2>1. patch[w] \in 0 .. MaxPatches /\ patch[w] < MaxPatches
      BY <1>1 DEF Work, Change
    <2>2. patch[w] + 1 \in 0 .. MaxPatches
      BY <2>1, DeliveryAssumption
    <2> QED
      BY <1>1, <2>2 DEF Work, Change
  <1>2. ASSUME NEW w \in Workflows, NEW target, Advance(w, target) PROVE WorkTypeOK'
    <2>1. judged' \in [Workflows -> [Judging -> 0 .. MaxPatches]]
      BY <1>2 DEF Advance
    <2>2. round[w] \in 1 .. MaxRounds
      OBVIOUS
    <2>3. round[w] < MaxRounds => round[w] + 1 \in 1 .. MaxRounds
      BY <2>2, DeliveryAssumption
    <2>4. round' \in [Workflows -> 1 .. MaxRounds]
      BY <1>2, <2>3 DEF Advance
    <2> QED
      BY <1>2, <2>1, <2>4 DEF Advance
  <1>3. CASE UNCHANGED workVars
    BY <1>3 DEF workVars
  <1>4. ASSUME NEW w \in Workflows, Report(w) PROVE WorkTypeOK'
    BY <1>4 DEF Report
  <1> QED
    BY <1>1, <1>2, <1>3, <1>4 DEF Next, Package, Outside, Lever, vars

-----------------------------------------------------------------------------
(* Only what was judged is delivered.                                      *)

\* A patch changes only in a stage that writes: the tools of the others do not.
LEMMA OnlyWritersWrite ==
  ASSUME NEW w \in Workflows, Work(w)
  PROVE  stage[w] \in Writing
  <1>1. \A tool \in ToSet(BuildInvestigationRegistry) \cup ReviewerContract.allowed :
           ~ Writes(tool)
    BY DEF BuildInvestigationRegistry, ReviewerContract, READ_ONLY_CAPABILITIES, ToSet,
       Writes, SideEffectClass
  <1> QED
    BY <1>1 DEF Work, Hands, Writing

\* While a stage judges or the workflow is done, the stages that have judged
\* since the last one that wrote have judged the patch as it is.
Undone == TERMINAL_STAGES \ {"completed"}
JudgedNow ==
    \A w \in Workflows :
        stage[w] \notin Writing \cup Undone =>
            \A s \in Judging \cap passed[w] : judged[w][s] = patch[w]

\* Whatever has been opened is of a workflow that completed with this patch.
OpenedNow ==
    \A pr \in opened : pr.key # NoKey =>
        \E w \in Workflows : pr.key = <<w, patch[w]>> /\ stage[w] = "completed"

LEMMA JudgedStays ==
  StagesTypeOK /\ WorkTypeOK /\ JudgedNow /\ [Next]_vars => JudgedNow'
  <1> SUFFICES ASSUME StagesTypeOK, WorkTypeOK, JudgedNow, [Next]_vars PROVE JudgedNow'
    OBVIOUS
  <1>1. ASSUME NEW w \in Workflows, Work(w) PROVE JudgedNow'
    <2>1. /\ stage[w] \in Writing /\ UNCHANGED <<stage, passed, judged>>
          /\ \A v \in Workflows : v # w => patch'[v] = patch[v]
      BY <1>1, OnlyWritersWrite DEF Work, Change, stageVars, WorkTypeOK
    <2> QED
      BY <2>1 DEF JudgedNow
  <1>2. ASSUME NEW w \in Workflows, NEW target, Advance(w, target) PROVE JudgedNow'
    <2>1. \A v \in Workflows : v # w => /\ stage'[v] = stage[v] /\ passed'[v] = passed[v]
                                        /\ judged'[v] = judged[v]
      BY <1>2 DEF Advance, Move, StagesTypeOK, WorkTypeOK
    <2>2. /\ stage'[w] = target /\ patch' = patch
          /\ target \notin Undone =>
               passed'[w] = (IF stage[w] \in Writing THEN passed[w] \ Judging ELSE passed[w])
                              \cup {stage[w]}
          /\ \A s \in Judging : judged'[w][s] = IF s = stage[w] THEN patch[w] ELSE judged[w][s]
      BY <1>2 DEF Advance, Move, StagesTypeOK, WorkTypeOK, Undone
    <2>3. stage[w] \notin Undone
      BY <1>2 DEF Advance, Move, ValidateTransition, TRANSITIONS, MULTI_TRANSITIONS,
         Undone, TERMINAL_STAGES
    <2>4. ASSUME target \notin Writing \cup Undone, NEW s \in Judging \cap passed'[w]
          PROVE  judged'[w][s] = patch[w]
      <3>1. CASE s = stage[w]
        BY <2>2, <3>1
      <3>2. CASE s # stage[w]
        BY <2>2, <2>3, <2>4, <3>2 DEF JudgedNow
      <3> QED
        BY <3>1, <3>2
    <2> QED
      BY <2>1, <2>2, <2>4 DEF JudgedNow
  <1>3. CASE UNCHANGED <<stage, passed, judged, patch>>
    BY <1>3 DEF JudgedNow
  <1> QED
    BY <1>1, <1>2, <1>3
    DEF Next, Report, Package, Outside, Lever, vars, workVars, stageVars

LEMMA OpenedStays ==
  ASSUME StagesTypeOK, WorkTypeOK, OpenedNow, [Next]_vars
  PROVE  OpenedNow'
  <1>1. ASSUME UNCHANGED opened,
               \A w \in Workflows : stage[w] = "completed" =>
                                      stage'[w] = "completed" /\ patch'[w] = patch[w]
        PROVE  OpenedNow'
    BY <1>1 DEF OpenedNow
  <1>2. ASSUME NEW w \in Workflows, Work(w) PROVE OpenedNow'
    <2>1. stage[w] # "completed"
      BY <1>2, OnlyWritersWrite DEF Writing
    <2> QED
      BY <1>1, <1>2, <2>1 DEF Work, Change, stageVars, pullVars, WorkTypeOK
  <1>3. ASSUME NEW w \in Workflows, NEW target, Advance(w, target) PROVE OpenedNow'
    <2>1. stage[w] # "completed"
      BY <1>3 DEF Advance, Move, ValidateTransition, TRANSITIONS, MULTI_TRANSITIONS,
         TERMINAL_STAGES
    <2> QED
      BY <1>1, <1>3, <2>1 DEF Advance, Move, pullVars, StagesTypeOK
  <1>4. ASSUME NEW key, NEW w \in Workflows,
               \/ opened' = opened
               \/ \E n : opened' = opened \cup {[key |-> key, number |-> n]},
               key = NoKey \/ (key = <<w, patch[w]>> /\ stage[w] = "completed"),
               UNCHANGED <<stage, patch>>
        PROVE  OpenedNow'
    BY <1>4 DEF OpenedNow
  <1>5. ASSUME NEW w \in Workflows, Package(w) \/ Outside(w) PROVE OpenedNow'
    <2>1. stage[w] = "completed" /\ UNCHANGED <<stage, patch>>
      BY <1>5 DEF Package, Outside, stageVars, workVars
    <2>2. \E key \in {NoKey, <<w, patch[w]>>} :
             opened' = opened \/ \E n : opened' = opened \cup {[key |-> key, number |-> n]}
      BY <1>5 DEF Package, Outside, Send, DoubleSend, LiveSend, OpenNext, DoubleTimesOut,
         DoubleDeduplicates, DoubleRefuses, DoubleCreates, LiveAnswered, LiveHTTPError, LiveLost
    <2> QED
      BY <1>4, <2>1, <2>2
  <1>6. CASE UNCHANGED <<stage, patch, opened>>
    BY <1>1, <1>6
  <1> QED
    BY <1>2, <1>3, <1>5, <1>6
    DEF Next, Report, Lever, SetTimeout, vars, workVars, stageVars, pullVars

DeliveryInv == WorkTypeOK /\ JudgedNow /\ OpenedNow

LEMMA DeliveredWhole ==
  StagesInv /\ PullInv /\ DeliveryInv => TypeOK /\ DeliveredIsReviewed
  <1> SUFFICES ASSUME StagesInv, PullInv, DeliveryInv PROVE TypeOK /\ DeliveredIsReviewed
    OBVIOUS
  <1>1. TypeOK
    BY DEF StagesInv, PullInv, DeliveryInv, WorkTypeOK, TypeOK
  <1>2. ASSUME NEW pr \in opened, pr.key # NoKey, NEW w, w = pr.key[1]
        PROVE  /\ stage[w] = "completed" /\ pr.key[2] = patch[w]
               /\ \A s \in Judging \cap Gates(w) : judged[w][s] = patch[w]
    <2>1. PICK v \in Workflows : pr.key = <<v, patch[v]>> /\ stage[v] = "completed"
      BY <1>2 DEF DeliveryInv, OpenedNow
    <2>2. w = v /\ pr.key[2] = patch[w]
      BY <1>2, <2>1
    <2>3. Gates(w) \subseteq passed[w]
      BY <2>1, <2>2, GatesImply DEF CompletedIsReviewed
    <2>4. stage[w] \notin Writing \cup Undone
      BY <2>1, <2>2 DEF Writing, Undone
    <2> QED
      BY <2>1, <2>2, <2>3, <2>4 DEF DeliveryInv, JudgedNow
  <1>3. DeliveredIsReviewed
    BY <1>2 DEF DeliveredIsReviewed
  <1> QED
    BY <1>1, <1>3

-----------------------------------------------------------------------------
(* Results.                                                                *)

LEMMA Starts == Init => StagesInit /\ PullInit /\ DeliveryInv
  <1> SUFFICES ASSUME Init PROVE DeliveryInv
    BY DEF Init
  <1>1. WorkTypeOK
    <2>1. 0 \in 0 .. MaxPatches /\ 1 \in 1 .. MaxRounds
      BY DeliveryAssumption
    <2> QED
      BY <2>1 DEF Init, WorkTypeOK
  <1>2. JudgedNow /\ OpenedNow
    BY DEF Init, StagesInit, PullInit, JudgedNow, OpenedNow
  <1> QED
    BY <1>1, <1>2 DEF DeliveryInv

\* The composition moves every workflow along its own table, whatever its
\* workers do with their tools, what its reviewers answer and what is sent.
THEOREM DeliveryFollowsStages == Spec => StagesSpec
  <1>1. Init => StagesInit
    BY DEF Init
  <1> QED
    BY <1>1, StepOfStages, PTL DEF Spec, StagesSpec

LEMMA WorkTyped == Spec => []WorkTypeOK
  <1>1. Init => WorkTypeOK
    BY Starts DEF DeliveryInv
  <1> QED
    BY <1>1, WorkTypes, PTL DEF Spec

\* What it sends to open a pull request is what the boundary takes.
THEOREM DeliverySendsRequests == Spec => PullSpec
  <1>1. Init => PullInit
    BY DEF Init
  <1>2. WorkTypeOK /\ [Next]_vars => [PullNext]_pullVars
    BY StepOfPulls DEF WorkTypeOK
  <1> QED
    BY <1>1, <1>2, WorkTyped, PTL DEF Spec, PullSpec

LEMMA DeliveryHolds == Spec => [](StagesInv /\ PullInv /\ DeliveryInv)
  <1>1. Init => DeliveryInv
    BY Starts
  <1>2. StagesInv /\ DeliveryInv /\ [Next]_vars => DeliveryInv'
    BY WorkTypes, JudgedStays, OpenedStays DEF StagesInv, DeliveryInv
  <1>3. Spec => []StagesInv /\ []PullInv
    BY DeliveryFollowsStages, DeliverySendsRequests, StagesInvariant, PullInvariant, PTL
  <1> QED
    BY <1>1, <1>2, <1>3, PTL DEF Spec

\* Every reachable state of the composition is well typed.
THEOREM DeliveryTypes == Spec => []TypeOK
  BY DeliveryHolds, DeliveredWhole, PTL

\* No pull request is opened but for the patch a completed workflow has, and
\* that very version was validated and, where there are several workers,
\* reviewed and consolidated - however many fix rounds, retries and requests
\* of others came between.
THEOREM DeliveriesAreReviewed == Spec => []DeliveredIsReviewed
  BY DeliveryHolds, DeliveredWhole, PTL

\* What the parts promise alone they promise together.
THEOREM DeliveryKeepsPromises ==
  Spec => []CompletedIsReviewed /\ TerminalForever /\ []AnswersHold /\ []OnePerKey /\ OpensOnce
  BY DeliveryFollowsStages, DeliverySendsRequests, ResultsAreReviewed, EndsAreFinal,
     AnswersAreTrue, NoDuplicates, DoubleKeepsLedger, PTL

-----------------------------------------------------------------------------
(* What a reader makes of an answer, line by line.                         *)

LEMMA LeastOf ==
  ASSUME NEW R \in SUBSET Nat, R # {}
  PROVE  \E n \in R : \A m \in R : n <= m
  <1>1. PICK n \in R : \A m \in R : ~ (<<m, n>> \in OpToRel(<, Nat))
    BY NatLessThanWellFounded, WFMin, Zenon
  <1>2. \A m \in R : ~ (m < n)
    BY <1>1 DEF OpToRel
  <1> QED
    BY <1>2

\* f[n] is what the first n lines give.
Reads(f, text, length) ==
  f = [n \in 0 .. length |-> IF n = 0 THEN NothingRead
                             ELSE ReadLine(f[n - 1], text[n])]

LEMMA ReadsSome ==
  ASSUME NEW text, NEW length \in Nat
  PROVE  \E f : Reads(f, text, length)
  <1> DEFINE R == {n \in Nat : ~ \E f : Reads(f, text, n)}
  <1>1. SUFFICES ASSUME R # {} PROVE FALSE
    OBVIOUS
  <1>2. PICK k \in R : \A m \in R : k <= m
    BY <1>1, LeastOf
  <1>3. k # 0
    <2> DEFINE f == [n \in 0 .. 0 |-> NothingRead]
    <2>1. Reads(f, text, 0)
      BY DEF Reads
    <2> QED
      BY <1>2, <2>1
  <1>4. PICK f : Reads(f, text, k - 1)
    BY <1>2, <1>3
  <1> DEFINE g == [n \in 0 .. k |-> IF n = k THEN ReadLine(f[k - 1], text[k]) ELSE f[n]]
  <1>5. \A n \in 0 .. k - 1 : f[n] = IF n = 0 THEN NothingRead
                                     ELSE ReadLine(f[n - 1], text[n])
    BY <1>2, <1>3, <1>4 DEF Reads
  <1>6. \A n \in 0 .. k : g[n] = IF n = 0 THEN NothingRead
                                 ELSE ReadLine(g[n - 1], text[n])
    BY <1>2, <1>3, <1>5
  <1>7. Reads(g, text, k)
    BY <1>6 DEF Reads
  <1> QED
    BY <1>2, <1>7

\* The lines that report among the first n, and what holds after them.
IsReport(text, i) == text[i].prefix = "FINDING: "
Reporting(text, n) == {i \in 1 .. n : IsReport(text, i)}
Number(text, i) == Cardinality(Reporting(text, i))

FindingsOf(text) ==
  [id : Nat, of : {text[i].json : i \in DOMAIN text}, status : {"proposed"}]

ReadSoFar(text, n, r) ==
  /\ r \in [raised : {"", "FindingSchemaError", "TypeError"}, findings : Seq(FindingsOf(text))]
  /\ r.raised = "" =>
        /\ Len(r.findings) = Number(text, n)
        /\ \A i \in Reporting(text, n) :
              /\ Number(text, i) \in 1 .. Len(r.findings)
              /\ r.findings[Number(text, i)].id = Number(text, i)
              /\ r.findings[Number(text, i)].of = text[i].json
  /\ r.raised # "" => r.findings = <<>>

LEMMA NumberGrows ==
  ASSUME NEW text, NEW n \in Nat
  PROVE  /\ IsFiniteSet(Reporting(text, n)) /\ Number(text, n) \in Nat
         /\ Number(text, n + 1) = IF IsReport(text, n + 1)
                                  THEN Number(text, n) + 1 ELSE Number(text, n)
  <1>1. IsFiniteSet(Reporting(text, n))
    <2>1. IsFiniteSet(1 .. n)
      BY FS_Interval
    <2> QED
      BY <2>1, FS_Subset DEF Reporting
  <1>2. Number(text, n) \in Nat
    BY <1>1, FS_CardinalityType DEF Number
  <1>3. CASE IsReport(text, n + 1)
    <2>1. Reporting(text, n + 1) = Reporting(text, n) \cup {n + 1}
      BY <1>3 DEF Reporting
    <2>2. n + 1 \notin Reporting(text, n)
      BY DEF Reporting
    <2> QED
      BY <1>1, <1>2, <1>3, <2>1, <2>2, FS_AddElement DEF Number
  <1>4. CASE ~ IsReport(text, n + 1)
    <2>1. Reporting(text, n + 1) = Reporting(text, n)
      BY <1>4 DEF Reporting
    <2> QED
      BY <1>1, <1>2, <1>4, <2>1 DEF Number
  <1> QED
    BY <1>1, <1>2, <1>3, <1>4

\* A line that reports raises, or gives one finding more.
LEMMA LineRead ==
  ASSUME NEW acc, NEW line
  PROVE  \/ ReadLineStrict(acc, line) \in {FindingSchemaError, TypeError}
         \/ ReadLineStrict(acc, line) =
               [acc EXCEPT !.findings = Append(@,
                  [id |-> Len(@) + 1, of |-> line.json, status |-> "proposed"])]
  BY DEF ReadLineStrict

LEMMA ReadOnce ==
  ASSUME NEW S, NEW text \in Seq(S), NEW n \in Nat, n + 1 <= Len(text),
         NEW r, ReadSoFar(text, n, r)
  PROVE  ReadSoFar(text, n + 1, ReadLine(r, text[n + 1]))
  <1>1. n + 1 \in DOMAIN text /\ Len(text) \in Nat
    BY LenProperties
  <1>2. /\ Number(text, n) \in Nat
        /\ Number(text, n + 1) = IF IsReport(text, n + 1)
                                 THEN Number(text, n) + 1 ELSE Number(text, n)
    BY NumberGrows
  <1>3. \A i \in Reporting(text, n + 1) :
           i \in Reporting(text, n) \/ (i = n + 1 /\ IsReport(text, n + 1))
    <2>1. SUFFICES ASSUME NEW i \in Reporting(text, n + 1)
                   PROVE  i \in Reporting(text, n) \/ (i = n + 1 /\ IsReport(text, n + 1))
      OBVIOUS
    <2>2. i \in 1 .. n + 1 /\ IsReport(text, i)
      BY DEF Reporting
    <2>3. i \in 1 .. n \/ i = n + 1
      BY <2>2
    <2>4. i \in 1 .. n => i \in Reporting(text, n)
      BY <2>2 DEF Reporting
    <2>5. CASE i = n + 1
      BY <2>2, <2>5, Zenon
    <2> QED
      BY <2>3, <2>4, <2>5
  <1>4. CASE r.raised # ""
    <2>1. ReadLine(r, text[n + 1]) = r
      BY <1>4 DEF ReadLine
    <2> QED
      BY <1>4, <2>1 DEF ReadSoFar
  <1>5. CASE r.raised = "" /\ ~ IsReport(text, n + 1)
    <2>1. ReadLine(r, text[n + 1]) = r
      BY <1>5 DEF ReadLine, IsReport
    <2> QED
      BY <1>2, <1>3, <1>5, <2>1 DEF ReadSoFar
  <1>6. CASE r.raised = "" /\ IsReport(text, n + 1)
    <2> DEFINE read == ReadLine(r, text[n + 1])
               new == [id |-> Len(r.findings) + 1, of |-> text[n + 1].json,
                       status |-> "proposed"]
    <2>1. read = ReadLineStrict(r, text[n + 1])
      BY <1>6 DEF ReadLine, IsReport
    <2>2. CASE read \in {FindingSchemaError, TypeError}
      <3>1. <<>> \in Seq(FindingsOf(text))
        BY EmptySeq
      <3>2. /\ read.findings = <<>> /\ read.raised \in {"FindingSchemaError", "TypeError"}
            /\ read \in [raised : {"", "FindingSchemaError", "TypeError"},
                         findings : Seq(FindingsOf(text))]
        <4>1. CASE read = FindingSchemaError
          BY <3>1, <4>1 DEF FindingSchemaError
        <4>2. CASE read = TypeError
          BY <3>1, <4>2 DEF TypeError
        <4> QED
          BY <2>2, <4>1, <4>2
      <3>3. read.raised # ""
        BY <3>2
      <3> QED
        BY <3>2, <3>3 DEF ReadSoFar
    <2>3. CASE read = [r EXCEPT !.findings = Append(@, new)]
      <3>1. r.findings \in Seq(FindingsOf(text)) /\ Len(r.findings) \in Nat
        BY LenProperties DEF ReadSoFar
      <3>2. new \in FindingsOf(text)
        BY <1>1, <3>1 DEF FindingsOf
      <3>3. /\ Append(r.findings, new) \in Seq(FindingsOf(text))
            /\ Len(Append(r.findings, new)) = Len(r.findings) + 1
            /\ \A i \in 1 .. Len(r.findings) : Append(r.findings, new)[i] = r.findings[i]
            /\ Append(r.findings, new)[Len(r.findings) + 1] = new
        BY <3>1, <3>2, AppendProperties
      <3>4. new.id = Len(r.findings) + 1 /\ new.of = text[n + 1].json
        OBVIOUS
      <3> HIDE DEF new
      <3>5. read.raised = "" /\ read.findings = Append(r.findings, new)
            /\ read \in [raised : {"", "FindingSchemaError", "TypeError"},
                         findings : Seq(FindingsOf(text))]
        BY <1>6, <2>3, <3>3 DEF ReadSoFar
      <3> HIDE DEF read
      <3>8. /\ Len(read.findings) = Len(r.findings) + 1
            /\ \A i \in 1 .. Len(r.findings) : read.findings[i] = r.findings[i]
            /\ read.findings[Len(r.findings) + 1] = new
        BY <3>3, <3>5
      <3>6. Len(r.findings) = Number(text, n) /\ Number(text, n + 1) = Len(r.findings) + 1
        BY <1>2, <1>6 DEF ReadSoFar
      <3>7. ASSUME NEW i \in Reporting(text, n + 1)
            PROVE  /\ Number(text, i) \in 1 .. Len(read.findings)
                   /\ read.findings[Number(text, i)].id = Number(text, i)
                   /\ read.findings[Number(text, i)].of = text[i].json
        <4>1. CASE i \in Reporting(text, n)
          <5>1. /\ Number(text, i) \in 1 .. Len(r.findings)
                /\ r.findings[Number(text, i)].id = Number(text, i)
                /\ r.findings[Number(text, i)].of = text[i].json
            BY <1>6, <4>1 DEF ReadSoFar
          <5>2. read.findings[Number(text, i)] = r.findings[Number(text, i)]
            BY <3>8, <5>1
          <5>3. Number(text, i) \in 1 .. Len(read.findings)
            BY <3>1, <3>8, <5>1
          <5> QED
            BY <5>1, <5>2, <5>3
        <4>2. CASE i = n + 1
          <5>1. Number(text, i) = Len(r.findings) + 1
            BY <3>6, <4>2
          <5>2. Number(text, i) \in 1 .. Len(read.findings)
            BY <3>1, <3>8, <5>1
          <5> QED
            BY <3>4, <3>8, <4>2, <5>1, <5>2
        <4> QED
          BY <1>3, <4>1, <4>2
      <3> QED
        <4>1. Len(read.findings) = Number(text, n + 1)
          BY <3>6, <3>8
        <4>2. \A i \in Reporting(text, n + 1) :
                 /\ Number(text, i) \in 1 .. Len(read.findings)
                 /\ read.findings[Number(text, i)].id = Number(text, i)
                 /\ read.findings[Number(text, i)].of = text[i].json
          BY <3>7
        <4>3. ReadSoFar(text, n + 1, read)
          BY <3>5, <4>1, <4>2, Zenon DEF ReadSoFar
        <4> QED
          BY <4>3 DEF read
    <2> QED
      BY <2>1, <2>2, <2>3, LineRead
  <1> QED
    BY <1>4, <1>5, <1>6

LEMMA AnswerRead ==
  ASSUME NEW S, NEW text \in Seq(S)
  PROVE  ReadSoFar(text, Len(text), FindingsFromText(text))
  <1>1. Len(text) \in Nat
    BY LenProperties
  <1>2. PICK f : Reads(f, text, Len(text)) /\ FindingsFromText(text) = f[Len(text)]
    <2>1. \E f : Reads(f, text, Len(text))
      BY <1>1, ReadsSome
    <2> DEFINE read == CHOOSE f : Reads(f, text, Len(text))
    <2>2. Reads(read, text, Len(text))
      BY <2>1
    <2>3. FindingsFromText(text) = read[Len(text)]
      BY DEF FindingsFromText, Reads
    <2> QED
      BY <2>2, <2>3
  <1>3. \A n \in 0 .. Len(text) : f[n] = IF n = 0 THEN NothingRead
                                         ELSE ReadLine(f[n - 1], text[n])
    BY <1>2 DEF Reads
  <1> DEFINE R == {n \in Nat : n <= Len(text) /\ ~ ReadSoFar(text, n, f[n])}
  <1>4. SUFFICES ASSUME R # {} PROVE FALSE
    BY <1>1, <1>2
  <1>5. PICK k \in R : \A m \in R : k <= m
    BY <1>4, LeastOf
  <1>6. CASE k = 0
    <2>1. f[0] = NothingRead
      BY <1>1, <1>3
    <2>2. Reporting(text, 0) = {}
      BY DEF Reporting
    <2>3. Number(text, 0) = 0
      BY <2>2, FS_EmptySet DEF Number
    <2>4. <<>> \in Seq(FindingsOf(text)) /\ Len(<<>>) = 0
      BY EmptySeq
    <2>5. ReadSoFar(text, 0, f[0])
      <3>1. /\ NothingRead.raised = "" /\ NothingRead.findings = <<>>
            /\ NothingRead \in [raised : {"", "FindingSchemaError", "TypeError"},
                                findings : Seq(FindingsOf(text))]
        BY <2>4 DEF NothingRead
      <3> QED
        BY <2>1, <2>2, <2>3, <2>4, <3>1 DEF ReadSoFar
    <2> QED
      BY <1>5, <1>6, <2>5
  <1>7. CASE k # 0
    <2>1. k - 1 \in Nat /\ k \in 0 .. Len(text) /\ k - 1 \notin R
      BY <1>1, <1>5, <1>7
    <2>2. ReadSoFar(text, k - 1, f[k - 1])
      BY <1>1, <1>5, <2>1
    <2>3. (k - 1) + 1 = k /\ k <= Len(text)
      BY <1>1, <2>1
    <2>4. ReadSoFar(text, k, ReadLine(f[k - 1], text[k]))
      BY <2>1, <2>2, <2>3, ReadOnce
    <2>5. f[k] = ReadLine(f[k - 1], text[k])
      BY <1>3, <1>7, <2>1
    <2> QED
      BY <1>5, <2>4, <2>5
  <1> QED
    BY <1>6, <1>7

\* g[n] is the conclusion of the first n lines.
Concluding(g, text, length) ==
  g = [n \in 0 .. length |-> IF n = 0 THEN NothingConcluded
                             ELSE ConcludeLine(g[n - 1], text[n])]

LEMMA ConcludesSome ==
  ASSUME NEW text, NEW length \in Nat
  PROVE  \E g : Concluding(g, text, length)
  <1> DEFINE R == {n \in Nat : ~ \E g : Concluding(g, text, n)}
  <1>1. SUFFICES ASSUME R # {} PROVE FALSE
    OBVIOUS
  <1>2. PICK k \in R : \A m \in R : k <= m
    BY <1>1, LeastOf
  <1>3. k # 0
    <2> DEFINE g == [n \in 0 .. 0 |-> NothingConcluded]
    <2>1. Concluding(g, text, 0)
      BY DEF Concluding
    <2> QED
      BY <1>2, <2>1
  <1>4. PICK f : Concluding(f, text, k - 1)
    BY <1>2, <1>3
  <1> DEFINE g == [n \in 0 .. k |-> IF n = k THEN ConcludeLine(f[k - 1], text[k]) ELSE f[n]]
  <1>5. \A n \in 0 .. k - 1 :
           f[n] = IF n = 0 THEN NothingConcluded ELSE ConcludeLine(f[n - 1], text[n])
    BY <1>2, <1>3, <1>4 DEF Concluding
  <1>6. \A n \in 0 .. k :
           g[n] = IF n = 0 THEN NothingConcluded ELSE ConcludeLine(g[n - 1], text[n])
    BY <1>2, <1>3, <1>5
  <1>7. Concluding(g, text, k)
    BY <1>6 DEF Concluding
  <1> QED
    BY <1>2, <1>7

\* The first n lines approve by the last conclusion among them.
Approves(text, n) ==
  \E i \in 1 .. n : /\ text[i].prefix = "CONCLUSION: " /\ text[i].word = "approved"
                    /\ \A j \in 1 .. n : text[j].prefix = "CONCLUSION: " => j <= i

LEMMA ApprovesNext ==
  ASSUME NEW text, NEW n \in Nat
  PROVE  Approves(text, n + 1) <=>
            IF text[n + 1].prefix = "CONCLUSION: " THEN text[n + 1].word = "approved"
            ELSE Approves(text, n)
  <1>1. CASE text[n + 1].prefix = "CONCLUSION: "
    <2>1. n + 1 \in 1 .. n + 1 /\ \A j \in 1 .. n + 1 : j <= n + 1
      OBVIOUS
    <2>2. ASSUME Approves(text, n + 1) PROVE text[n + 1].word = "approved"
      <3>1. PICK i \in 1 .. n + 1 :
                    /\ text[i].prefix = "CONCLUSION: " /\ text[i].word = "approved"
                    /\ \A j \in 1 .. n + 1 : text[j].prefix = "CONCLUSION: " => j <= i
        BY <2>2 DEF Approves
      <3>2. n + 1 <= i
        BY <1>1, <2>1, <3>1
      <3>3. i = n + 1
        BY <3>2
      <3> QED
        BY <3>1, <3>3
    <2>3. text[n + 1].word = "approved" => Approves(text, n + 1)
      BY <1>1, <2>1, Zenon DEF Approves
    <2> QED
      BY <1>1, <2>2, <2>3
  <1>2. CASE text[n + 1].prefix # "CONCLUSION: "
    <2>1. ASSUME Approves(text, n + 1) PROVE Approves(text, n)
      <3>1. PICK i \in 1 .. n + 1 :
                    /\ text[i].prefix = "CONCLUSION: " /\ text[i].word = "approved"
                    /\ \A j \in 1 .. n + 1 : text[j].prefix = "CONCLUSION: " => j <= i
        BY <2>1 DEF Approves
      <3>2. i # n + 1
        BY <1>2, <3>1
      <3>3. i \in 1 .. n /\ \A j \in 1 .. n : j \in 1 .. n + 1
        BY <3>2
      <3> QED
        BY <3>1, <3>3 DEF Approves
    <2>2. ASSUME Approves(text, n) PROVE Approves(text, n + 1)
      <3>1. PICK i \in 1 .. n :
                    /\ text[i].prefix = "CONCLUSION: " /\ text[i].word = "approved"
                    /\ \A j \in 1 .. n : text[j].prefix = "CONCLUSION: " => j <= i
        BY <2>2 DEF Approves
      <3>2. i \in 1 .. n + 1 /\ \A j \in 1 .. n + 1 : j \in 1 .. n \/ j = n + 1
        OBVIOUS
      <3>3. \A j \in 1 .. n + 1 : text[j].prefix = "CONCLUSION: " => j <= i
        BY <1>2, <3>1, <3>2
      <3> QED
        BY <3>1, <3>2, <3>3 DEF Approves
    <2> QED
      BY <1>2, <2>1, <2>2
  <1> QED
    BY <1>1, <1>2

LEMMA AnswerConcluded ==
  ASSUME NEW S, NEW text \in Seq(S)
  PROVE  ConclusionFromText(text) = "approved" <=> Approves(text, Len(text))
  <1>1. Len(text) \in Nat
    BY LenProperties
  <1>2. PICK g : Concluding(g, text, Len(text)) /\ ConclusionFromText(text) = g[Len(text)]
    <2>1. \E g : Concluding(g, text, Len(text))
      BY <1>1, ConcludesSome
    <2> DEFINE concluded == CHOOSE g : Concluding(g, text, Len(text))
    <2>2. Concluding(concluded, text, Len(text))
      BY <2>1
    <2>3. ConclusionFromText(text) = concluded[Len(text)]
      BY DEF ConclusionFromText, Concluding
    <2> QED
      BY <2>2, <2>3
  <1>3. \A n \in 0 .. Len(text) :
           g[n] = IF n = 0 THEN NothingConcluded ELSE ConcludeLine(g[n - 1], text[n])
    BY <1>2 DEF Concluding
  <1> DEFINE R == {n \in Nat : n <= Len(text) /\ ~ (g[n] = "approved" <=> Approves(text, n))}
  <1>4. SUFFICES ASSUME R # {} PROVE FALSE
    BY <1>1, <1>2
  <1>5. PICK k \in R : \A m \in R : k <= m
    BY <1>4, LeastOf
  <1>6. CASE k = 0
    <2>1. g[0] = NothingConcluded
      BY <1>1, <1>3
    <2>2. ~ Approves(text, 0)
      <3>1. 1 .. 0 = {}
        OBVIOUS
      <3> QED
        BY <3>1, Zenon DEF Approves
    <2>3. NothingConcluded # "approved"
      BY DEF NothingConcluded
    <2> QED
      BY <1>5, <1>6, <2>1, <2>2, <2>3
  <1>7. CASE k # 0
    <2>1. k - 1 \in Nat /\ k \in 0 .. Len(text) /\ (k - 1) + 1 = k
      BY <1>1, <1>5, <1>7
    <2>2. g[k - 1] = "approved" <=> Approves(text, k - 1)
      BY <1>1, <1>5, <2>1
    <2>3. Approves(text, k) <=>
            IF text[k].prefix = "CONCLUSION: " THEN text[k].word = "approved"
            ELSE Approves(text, k - 1)
      BY <2>1, ApprovesNext
    <2>4. g[k] = ConcludeLine(g[k - 1], text[k])
      BY <1>3, <1>7, <2>1
    <2>5. g[k] = "approved" <=> Approves(text, k)
      BY <2>2, <2>3, <2>4 DEF ConcludeLine, REVIEW_CONCLUSIONS
    <2> QED
      BY <1>5, <2>5
  <1> QED
    BY <1>6, <1>7

\* What is heard is a reading of an answer.
HeardInv ==
  heard \in [Workflows -> Readings \cup {NotHeard}]

LEMMA HeardReads ==
  ASSUME HeardInv, NEW w \in Workflows
  PROVE  \E text \in Seq(Lines) :
            /\ heard[w].text = text /\ heard[w].read = FindingsFromText(text)
            /\ \/ heard[w].conclusion = ConclusionFromText(text)
               \/ heard[w].conclusion = "none" /\ text = <<>>
  <1>1. heard[w] \in Readings \/ heard[w] = NotHeard
    BY DEF HeardInv
  <1>2. CASE heard[w] = NotHeard
    <2>1. <<>> \in Seq(Lines)
      BY EmptySeq
    <2>2. /\ heard[w].text = <<>> /\ heard[w].read = FindingsFromText(<<>>)
          /\ heard[w].conclusion = "none"
      BY <1>2 DEF NotHeard
    <2> QED
      BY <2>1, <2>2, Zenon
  <1>3. CASE heard[w] \in Readings
    <2>1. PICK text \in SeqOf(Lines, MaxLines) :
                  heard[w] = [text |-> text, read |-> FindingsFromText(text),
                              conclusion |-> ConclusionFromText(text)]
      BY <1>3 DEF Readings
    <2>2. text \in Seq(Lines)
      BY DeliveryAssumption DEF SeqOf
    <2> QED
      BY <2>1, <2>2
  <1> QED
    BY <1>1, <1>2, <1>3

LEMMA HeardStays == HeardInv /\ [Next]_vars => HeardInv'
  <1> SUFFICES ASSUME HeardInv, [Next]_vars PROVE HeardInv'
    OBVIOUS
  <1> USE DEF HeardInv
  <1>1. ASSUME NEW w \in Workflows, Report(w) PROVE HeardInv'
    <2>1. PICK reading \in Readings : heard' = [heard EXCEPT ![w] = reading]
      BY <1>1 DEF Report
    <2> QED
      BY <2>1
  <1>2. ASSUME NEW w \in Workflows, NEW target, Advance(w, target) PROVE HeardInv'
    BY <1>2 DEF Advance
  <1>3. CASE UNCHANGED heard
    BY <1>3
  <1> QED
    BY <1>1, <1>2, <1>3 DEF Next, Work, Package, Outside, Lever, vars, workVars

LEMMA UpTo ==
  ASSUME NEW n \in Nat, NEW i \in 1 .. n
  PROVE  /\ i \in Nat
         /\ \A j \in 1 .. n : j <= i => j \in 1 .. i
         /\ \A j \in 1 .. i : j \in 1 .. n /\ j <= i
  OBVIOUS

LEMMA HeardWhole == HeardInv => AnswersReadWhole
  <1> SUFFICES ASSUME HeardInv, NEW w \in Workflows, w \in Multis
               PROVE  LET text == heard[w].text
                          read == heard[w].read
                          reported == {i \in DOMAIN text : text[i].prefix = "FINDING: "}
                          concluded == {i \in DOMAIN text : text[i].prefix = "CONCLUSION: "}
                      IN /\ read.raised = "" =>
                              /\ Len(read.findings) = Cardinality(reported)
                              /\ \A i \in reported :
                                    LET number == Cardinality({j \in reported : j <= i})
                                    IN /\ read.findings[number].id = number
                                       /\ read.findings[number].of = text[i].json
                         /\ read.raised # "" => read.findings = <<>>
                         /\ heard[w].conclusion = "approved" <=>
                              \E i \in concluded :
                                 text[i].word = "approved" /\ \A j \in concluded : j <= i
    BY DEF AnswersReadWhole, Workflows
  <1> DEFINE text == heard[w].text
             read == heard[w].read
             reported == {i \in DOMAIN text : text[i].prefix = "FINDING: "}
             concluded == {i \in DOMAIN text : text[i].prefix = "CONCLUSION: "}
  <1>1. /\ text \in Seq(Lines) /\ read = FindingsFromText(text)
        /\ \/ heard[w].conclusion = ConclusionFromText(text)
           \/ heard[w].conclusion = "none" /\ text = <<>>
    BY HeardReads
  <1> HIDE DEF text, read
  <1>2. Len(text) \in Nat /\ DOMAIN text = 1 .. Len(text)
    BY <1>1, LenProperties
  <1>3. ReadSoFar(text, Len(text), read)
    BY <1>1, AnswerRead
  <1>4. \A i : i \in reported <=> i \in Reporting(text, Len(text))
    BY <1>2 DEF Reporting, IsReport
  <1>5. reported = Reporting(text, Len(text))
    BY <1>4
  <1>6. ASSUME NEW i \in reported
        PROVE  {j \in reported : j <= i} = Reporting(text, i) /\ i \in Nat
    <2>1. i \in 1 .. Len(text)
      BY <1>2
    <2>2. /\ \A j \in 1 .. Len(text) : j <= i => j \in 1 .. i
          /\ \A j \in 1 .. i : j \in 1 .. Len(text) /\ j <= i
      BY <1>2, <2>1, UpTo, Zenon
    <2>3. \A j : j \in reported /\ j <= i <=> j \in Reporting(text, i)
      <3>1. ASSUME NEW j \in reported, j <= i PROVE j \in Reporting(text, i)
        <4>1. j \in 1 .. Len(text) /\ text[j].prefix = "FINDING: "
          BY <1>2
        <4> QED
          BY <2>2, <3>1, <4>1 DEF Reporting, IsReport
      <3>2. ASSUME NEW j \in Reporting(text, i) PROVE j \in reported /\ j <= i
        <4>1. j \in 1 .. i /\ text[j].prefix = "FINDING: "
          BY DEF Reporting, IsReport
        <4>2. j \in 1 .. Len(text) /\ j <= i
          BY <2>2, <4>1
        <4> QED
          BY <1>2, <4>1, <4>2
      <3> QED
        BY <3>1, <3>2
    <2>4. i \in Nat
      BY <1>2, <2>1, UpTo, Zenon
    <2> HIDE DEF reported
    <2> QED
      BY <2>3, <2>4
  <1>7. read.raised = "" =>
           /\ Len(read.findings) = Cardinality(reported)
           /\ \A i \in reported :
                 LET number == Cardinality({j \in reported : j <= i})
                 IN /\ read.findings[number].id = number
                    /\ read.findings[number].of = text[i].json
    <2> HIDE DEF reported
    <2> QED
      BY <1>3, <1>5, <1>6 DEF ReadSoFar, Number
  <1>8. read.raised # "" => read.findings = <<>>
    BY <1>3 DEF ReadSoFar
  <1>9. heard[w].conclusion = "approved" <=> Approves(text, Len(text))
    <2>1. CASE heard[w].conclusion = ConclusionFromText(text)
      BY <1>1, <2>1, AnswerConcluded
    <2>2. CASE heard[w].conclusion = "none" /\ text = <<>>
      <3>1. Len(text) = 0
        BY <2>2, EmptySeq
      <3>2. ~ Approves(text, Len(text))
        BY <3>1 DEF Approves
      <3> QED
        BY <2>2, <3>2
    <2> QED
      BY <1>1, <2>1, <2>2
  <1>10. Approves(text, Len(text)) <=>
            \E i \in concluded : text[i].word = "approved" /\ \A j \in concluded : j <= i
    BY <1>2 DEF Approves
  <1> QED
    BY <1>7, <1>8, <1>9, <1>10 DEF text, read

\* An answer of any length is read whole or not at all: findings are numbered
\* in order, one for each line that reports, or an exception leaves none; and
\* it approves only by its last conclusion.
THEOREM ReadersReadWhole == Spec => []AnswersReadWhole
  <1>1. Init => HeardInv
    BY DEF Init, HeardInv
  <1> QED
    BY <1>1, HeardStays, HeardWhole, PTL DEF Spec

-----------------------------------------------------------------------------
(* The names of what is kept.                                              *)

\* What the stages of either workflow keep, by kind.
TaskKinds == {"task_spec", "task_graph", "investigation", "plan", "result"}
RoundKinds == {"integration", "integrated_validation", "consolidated_review"}
WorkerKinds == {"patch", "validation"}
Rounds == 1 .. MaxRounds

Thing(a) ==
    /\ a = [kind |-> a.kind, worker |-> a.worker, stage |-> a.stage, n |-> a.n]
    /\ \/ a.kind \in TaskKinds /\ a.worker = <<>> /\ a.stage = "" /\ a.n = 0
       \/ a.kind \in RoundKinds /\ a.worker = <<>> /\ a.stage = "" /\ a.n \in Rounds
       \/ a.kind \in WorkerKinds /\ a.worker \in WorkerIds \cup {<<>>}
            /\ a.stage = "" /\ a.n \in Rounds
       \/ a.kind \in {"findings", "trace"} /\ a.worker \in WorkerIds
            /\ a.stage = "" /\ a.n \in Rounds
       \/ a.kind = "invocation" /\ a.worker \in WorkerIds
            /\ a.stage \in {"implement", "review", "fix"} /\ a.n \in Rounds

LEMMA ArtifactThings ==
  ASSUME NEW kind, NEW worker, NEW during, NEW n
  PROVE  /\ kind \in TaskKinds => Thing(Artifact(kind, <<>>, 0))
         /\ n \in Rounds =>
              /\ kind \in RoundKinds \cup WorkerKinds => Thing(Artifact(kind, <<>>, n))
              /\ worker \in WorkerIds =>
                   /\ kind \in WorkerKinds \cup {"findings", "trace"}
                        => Thing(Artifact(kind, worker, n))
                   /\ during \in {"implement", "review", "fix"}
                        => Thing(Invocation(worker, during, n))
  <1>1. kind \in TaskKinds => Thing(Artifact(kind, <<>>, 0))
    BY DEF Thing, Artifact
  <1>2. n \in Rounds /\ kind \in RoundKinds \cup WorkerKinds => Thing(Artifact(kind, <<>>, n))
    BY DEF Thing, Artifact
  <1>3. n \in Rounds /\ worker \in WorkerIds /\ kind \in WorkerKinds \cup {"findings", "trace"}
          => Thing(Artifact(kind, worker, n))
    BY DEF Thing, Artifact
  <1>4. n \in Rounds /\ worker \in WorkerIds /\ during \in {"implement", "review", "fix"}
          => Thing(Invocation(worker, during, n))
    BY DEF Thing, Invocation
  <1> QED
    BY <1>1, <1>2, <1>3, <1>4

LEMMA SavesThings ==
  ASSUME NEW w \in Workflows, NEW s \in Stage \cup MultiStage, NEW n \in Rounds,
         NEW a \in Saves(w, s, n)
  PROVE  Thing(a)
  <1>1. 1 \in Rounds
    BY DeliveryAssumption DEF Rounds
  <1>2. CASE s \in {"intake", "investigate", "plan", "prepare_result"}
    <2>1. \E kind \in TaskKinds : a = Artifact(kind, <<>>, 0)
      BY <1>2 DEF Saves, TaskKinds
    <2> QED
      BY <2>1, ArtifactThings
  <1>3. CASE s \in {"implement", "integrate", "validate", "consolidate"}
    <2>1. \E kind \in RoundKinds \cup WorkerKinds, m \in Rounds : a = Artifact(kind, <<>>, m)
      BY <1>1, <1>3 DEF Saves, RoundKinds, WorkerKinds
    <2> QED
      BY <2>1, ArtifactThings
  <1>4. CASE s \in {"fan_out", "review", "fix"}
    <2>1. PICK i \in WorkerIds :
             \/ \E kind \in WorkerKinds \cup {"findings", "trace"}, m \in Rounds :
                   a = Artifact(kind, i, m)
             \/ \E during \in {"implement", "review", "fix"}, m \in Rounds :
                   a = Invocation(i, during, m)
      BY <1>1, <1>4 DEF Saves, WorkerKinds, WorkerIds
    <2> QED
      BY <2>1, ArtifactThings
  <1> QED
    BY <1>2, <1>3, <1>4 DEF Saves

\* The pieces of a name.  To the provers a text need not be a STRING, so those
\* that are written here are named.
Pieces ==
    STRING \cup {"-", "_", "round", ".jsonl", "integrated", "implement", "review", "fix",
                "task", "spec", "graph", "patch", "validation", "invocation",
                "investigation", "plan", "integration", "findings", "consolidated",
                "result"}
Names == Seq(Pieces)

\* Two names put together with a dash: what is at either end, and that they can
\* be told apart.
LEMMA DashedName ==
  ASSUME NEW a \in Names, NEW b \in Names
  PROVE  /\ Dashed(a, b) \in Names
         /\ Len(Dashed(a, b)) = Len(a) + 1 + Len(b)
         /\ a # <<>> => Dashed(a, b)[1] = a[1]
         /\ b # <<>> => Dashed(a, b)[Len(Dashed(a, b))] = b[Len(b)]
  <1> DEFINE d == a \o <<"-">>
  <1>1. <<"-">> \in Seq(Pieces) /\ Len(<<"-">>) = 1
    BY DEF Pieces
  <1>2. /\ d \in Seq(Pieces) /\ Len(d) = Len(a) + 1
        /\ \A i \in 1 .. Len(a) : d[i] = a[i]
    BY <1>1, ConcatProperties DEF Names
  <1> HIDE DEF d
  <1>3. /\ d \o b \in Seq(Pieces) /\ Len(d \o b) = Len(d) + Len(b)
        /\ \A i \in 1 .. Len(d) + Len(b) :
              (d \o b)[i] = IF i <= Len(d) THEN d[i] ELSE b[i - Len(d)]
    <2>1. d \in Seq(Pieces) /\ b \in Seq(Pieces)
      BY <1>2 DEF Names
    <2> QED
      BY <2>1, ConcatProperties
  <1>4. Dashed(a, b) = d \o b
    BY DEF Dashed, d
  <1>5. Len(a) \in Nat /\ Len(b) \in Nat /\ (a # <<>> => Len(a) # 0) /\ (b # <<>> => Len(b) # 0)
    BY DEF Names
  <1> QED
    BY <1>2, <1>3, <1>4, <1>5 DEF Names

LEMMA DashedApart ==
  ASSUME NEW a \in Names, NEW b \in Names, NEW c \in Names
  PROVE  /\ Dashed(a, b) = Dashed(a, c) => b = c
         /\ Dashed(a, c) = Dashed(b, c) => a = b
  <1>1. a \o <<"-">> \in Names /\ b \o <<"-">> \in Names /\ <<"-">> \in Names
    <2>1. <<"-">> \in Seq(Pieces)
      BY DEF Pieces
    <2> QED
      BY <2>1, ConcatProperties DEF Names
  <1>2. Dashed(a, b) = Dashed(a, c) => b = c
    BY <1>1, ConcatSimplifications DEF Dashed, Names
  <1>3. ASSUME Dashed(a, c) = Dashed(b, c) PROVE a = b
    <2>1. a \o <<"-">> = b \o <<"-">>
      BY <1>1, <1>3, ConcatSimplifications DEF Dashed, Names
    <2> QED
      BY <1>1, <2>1, ConcatSimplifications DEF Names
  <1> QED
    BY <1>2, <1>3

LEMMA OnePiece ==
  ASSUME NEW x \in Pieces
  PROVE  <<x>> \in Names /\ <<x>> # <<>> /\ Len(<<x>>) = 1 /\ <<x>>[1] = x
  BY DEF Names

LEMMA NumberedApart ==
  ASSUME NEW a \in Names, NEW b \in Names, NEW x \in Pieces, NEW y \in Pieces,
         Dashed(a, <<x>>) = Dashed(b, <<y>>)
  PROVE  a = b /\ x = y
  <1>1. x = y
    BY OnePiece, DashedName
  <1> QED
    BY <1>1, OnePiece, DashedApart

LEMMA TextsArePieces == ASSUME NEW s \in Seq(STRING) PROVE s \in Names
  <1>1. STRING \subseteq Pieces
    BY DEF Pieces
  <1> QED
    BY <1>1, SeqMonotonic DEF Names

LEMMA NumbersArePieces ==
  ASSUME NEW n \in Rounds
  PROVE  ToString(n) \in Pieces /\ ToString(n) # ".jsonl"
  BY NumbersApart DEF Rounds, Pieces

\* Name, with its abbreviations written out.
Numbered(name, n) == Dashed(name, <<ToString(n)>>)
OfWorker(name, worker) == IF worker = <<>> THEN name ELSE Dashed(name, worker)
Prefix(kind) ==
    CASE kind = "task_spec" -> <<"task", "-", "spec">>
      [] kind = "task_graph" -> <<"task", "-", "graph">>
      [] kind = "consolidated_review" -> <<"consolidated", "-", "review">>
      [] kind = "patch" -> <<"patch">>
      [] kind \in {"validation", "integrated_validation"} -> <<"validation">>
      [] kind = "investigation" -> <<"investigation">>
      [] kind = "plan" -> <<"plan">>
      [] kind = "integration" -> <<"integration">>
      [] kind = "findings" -> <<"findings">>
      [] kind = "result" -> <<"result">>
      [] kind = "invocation" -> <<"invocation">>

LEMMA ThingNames ==
  ASSUME NEW a, Thing(a)
  PROVE  LET of == Dashed(Prefix(a.kind), Task)
         IN /\ a.kind \in TaskKinds => Name(Task, a) = of
            /\ a.kind \in WorkerKinds \cup {"findings", "integration", "consolidated_review"}
                 => Name(Task, a) = Numbered(OfWorker(of, a.worker), a.n)
            /\ a.kind = "integrated_validation"
                 => Name(Task, a) = Numbered(OfWorker(of, <<"integrated">>), a.n)
            /\ a.kind = "invocation"
                 => Name(Task, a) =
                      Numbered(Dashed(Dashed(Prefix(a.kind), a.worker), <<a.stage>>), a.n)
            /\ a.kind = "trace" => Name(Task, a) = WorkerTraceFilename(a.worker, a.n)
  <1> DEFINE of == Dashed(Prefix(a.kind), Task)
  <1>1. a.kind \in TaskKinds => Name(Task, a) = of
    BY DEF TaskKinds, Name, Prefix
  <1>2. a.kind \in WorkerKinds \cup {"findings"}
           => Name(Task, a) = Numbered(OfWorker(of, a.worker), a.n)
    BY DEF WorkerKinds, Name, Prefix, Numbered, OfWorker
  <1>3. a.kind \in {"integration", "consolidated_review"}
           => Name(Task, a) = Numbered(OfWorker(of, a.worker), a.n)
    BY DEF Thing, TaskKinds, WorkerKinds, RoundKinds, Name, Prefix, Numbered, OfWorker
  <1>4. a.kind = "integrated_validation"
           => Name(Task, a) = Numbered(OfWorker(of, <<"integrated">>), a.n)
    BY DEF Name, Prefix, Numbered, OfWorker
  <1>5. a.kind = "invocation"
           => Name(Task, a) =
                Numbered(Dashed(Dashed(Prefix(a.kind), a.worker), <<a.stage>>), a.n)
    BY DEF Name, Prefix, Numbered
  <1>6. a.kind = "trace" => Name(Task, a) = WorkerTraceFilename(a.worker, a.n)
    BY DEF Name
  <1> QED
    BY <1>1, <1>2, <1>3, <1>4, <1>5, <1>6

LEMMA PrefixNames ==
  ASSUME NEW a, Thing(a), a.kind # "trace"
  PROVE  Prefix(a.kind) \in Names /\ Prefix(a.kind) # <<>>
  <1>1. a.kind \in TaskKinds \cup RoundKinds \cup WorkerKinds \cup {"findings", "invocation"}
    BY DEF Thing
  <1>2. /\ <<"task", "-", "spec">> \in Names /\ <<"task", "-", "graph">> \in Names
        /\ <<"consolidated", "-", "review">> \in Names
    BY DEF Names, Pieces
  <1>3. /\ <<"patch">> \in Names /\ <<"validation">> \in Names /\ <<"investigation">> \in Names
        /\ <<"plan">> \in Names /\ <<"integration">> \in Names /\ <<"findings">> \in Names
        /\ <<"result">> \in Names /\ <<"invocation">> \in Names
    BY DEF Names, Pieces
  <1> QED
    BY <1>1, <1>2, <1>3 DEF Prefix, TaskKinds, RoundKinds, WorkerKinds

\* The worker and the number can be read off a name.
LEMMA OfWorkerName ==
  ASSUME NEW name \in Names, NEW worker \in Names, name # <<>>
  PROVE  /\ OfWorker(name, worker) \in Names
         /\ OfWorker(name, worker) # <<>>
         /\ OfWorker(name, worker)[1] = name[1]
  <1>1. Dashed(name, worker) # <<>>
    BY DashedName DEF Names
  <1> QED
    BY <1>1, DashedName DEF OfWorker

LEMMA OfWorkerApart ==
  ASSUME NEW name \in Names, NEW v \in Names, NEW w \in Names,
         OfWorker(name, v) = OfWorker(name, w)
  PROVE  v = w
  <1>1. Len(Dashed(name, v)) > Len(name) /\ Len(Dashed(name, w)) > Len(name)
    BY DashedName DEF Names
  <1> QED
    BY <1>1, DashedApart DEF OfWorker

LEMMA NumberedName ==
  ASSUME NEW name \in Names, NEW n \in Rounds, name # <<>>
  PROVE  /\ Numbered(name, n) \in Names
         /\ Numbered(name, n)[1] = name[1]
         /\ Numbered(name, n)[Len(Numbered(name, n))] = ToString(n)
  BY OnePiece, DashedName, NumbersArePieces DEF Numbered

LEMMA NumbersTold ==
  ASSUME NEW a \in Names, NEW b \in Names, NEW n \in Rounds, NEW m \in Rounds,
         Numbered(a, n) = Numbered(b, m)
  PROVE  a = b /\ n = m
  <1>1. a = b /\ ToString(n) = ToString(m)
    BY NumbersArePieces, NumberedApart DEF Numbered
  <1> QED
    BY <1>1, NumbersApart DEF Rounds

\* What the ids give a proof.
LEMMA IdsArePieces ==
  ASSUME IdsApart
  PROVE  /\ Task \in Names /\ Task # <<>> /\ Task[Len(Task)] # ".jsonl"
         /\ \A i \in WorkerIds : i \in Names /\ i # <<>> /\ i # <<"integrated">>
         /\ <<>> \in Names /\ <<"integrated">> \in Names
         /\ \A x \in {"implement", "review", "fix"} : x \in Pieces
  <1>1. Task \in Names /\ Task # <<>> /\ Task[Len(Task)] # ".jsonl"
    BY TextsArePieces DEF IdsApart
  <1>2. \A i \in WorkerIds : i \in Names /\ i # <<>> /\ i # <<"integrated">>
    BY TextsArePieces DEF IdsApart
  <1>3. /\ <<>> \in Names /\ <<"integrated">> \in Names
        /\ \A x \in {"implement", "review", "fix"} : x \in Pieces
    BY DEF Names, Pieces
  <1> QED
    BY <1>1, <1>2, <1>3

\* The names of anything but a trace begin with a word for the kind and do not
\* end like a trace's.
LEMMA NameEnds ==
  ASSUME IdsApart, NEW a, Thing(a), a.kind # "trace"
  PROVE  /\ Name(Task, a) \in Names
         /\ Name(Task, a)[1] = Prefix(a.kind)[1]
         /\ Name(Task, a)[Len(Name(Task, a))] # ".jsonl"
  <1> DEFINE of == Dashed(Prefix(a.kind), Task)
  <1>1. Prefix(a.kind) \in Names /\ Prefix(a.kind) # <<>>
    BY PrefixNames
  <1>2. /\ of \in Names /\ of[1] = Prefix(a.kind)[1] /\ of[Len(of)] # ".jsonl"
        /\ of # <<>>
    BY <1>1, IdsArePieces, DashedName DEF Names
  <1> HIDE DEF of
  <1>3. CASE a.kind \in TaskKinds
    BY <1>2, <1>3, ThingNames DEF of
  <1>4. ASSUME NEW name \in Names, name # <<>>, name[1] = Prefix(a.kind)[1],
               a.n \in Rounds, Name(Task, a) = Numbered(name, a.n)
        PROVE  /\ Name(Task, a) \in Names
               /\ Name(Task, a)[1] = Prefix(a.kind)[1]
               /\ Name(Task, a)[Len(Name(Task, a))] # ".jsonl"
    BY <1>4, NumberedName, NumbersArePieces
  <1>5. CASE a.kind \in WorkerKinds \cup {"findings", "integration", "consolidated_review"}
    <2>1. a.worker \in Names /\ a.n \in Rounds
      BY <1>5, IdsArePieces DEF Thing, TaskKinds, RoundKinds, WorkerKinds
    <2>2. Name(Task, a) = Numbered(OfWorker(of, a.worker), a.n)
      BY <1>5, ThingNames DEF of
    <2> QED
      BY <1>2, <1>4, <2>1, <2>2, OfWorkerName
  <1>6. CASE a.kind = "integrated_validation"
    <2>1. a.n \in Rounds
      BY <1>6 DEF Thing, TaskKinds, WorkerKinds
    <2>2. Name(Task, a) = Numbered(OfWorker(of, <<"integrated">>), a.n)
      BY <1>6, ThingNames DEF of
    <2> QED
      BY <1>2, <1>4, <2>1, <2>2, IdsArePieces, OfWorkerName
  <1>7. CASE a.kind = "invocation"
    <2>1. a.worker \in Names /\ a.n \in Rounds /\ a.stage \in Pieces
      BY <1>7, IdsArePieces DEF Thing, TaskKinds, RoundKinds, WorkerKinds
    <2> DEFINE d == Dashed(Prefix(a.kind), a.worker)
    <2>2. d \in Names /\ d # <<>> /\ d[1] = Prefix(a.kind)[1]
      BY <1>1, <2>1, DashedName DEF Names
    <2>3. Name(Task, a) = Numbered(Dashed(d, <<a.stage>>), a.n)
      BY <1>7, ThingNames
    <2> HIDE DEF d
    <2>4. /\ Dashed(d, <<a.stage>>) \in Names
          /\ Dashed(d, <<a.stage>>)[1] = Prefix(a.kind)[1]
          /\ Dashed(d, <<a.stage>>) # <<>>
      <3>1. <<a.stage>> \in Names
        BY <2>1, OnePiece
      <3>2. /\ Dashed(d, <<a.stage>>) \in Names
            /\ Dashed(d, <<a.stage>>)[1] = d[1]
            /\ Len(Dashed(d, <<a.stage>>)) = Len(d) + 1 + Len(<<a.stage>>)
        BY <2>2, <3>1, DashedName
      <3>3. Len(d) \in Nat /\ Len(<<a.stage>>) \in Nat
        BY <2>2, <3>1 DEF Names
      <3> QED
        BY <2>2, <3>2, <3>3
    <2> QED
      BY <1>4, <2>1, <2>3, <2>4
  <1> QED
    BY <1>3, <1>5, <1>6, <1>7 DEF Thing, RoundKinds

\* A trace file ends in .jsonl, and its worker and round can be read off it.
LEMMA StemName ==
  ASSUME NEW i \in Names
  PROVE  Stem(i) \in Names
  <1>1. Len(i) \in Nat /\ DOMAIN i = 1 .. Len(i) /\ \A k \in DOMAIN i : i[k] \in Pieces
    BY DEF Names
  <1>2. Stem(i) \in [1 .. Len(i) -> Pieces]
    BY <1>1 DEF Stem, Pieces
  <1> QED
    BY <1>1, <1>2 DEF Names

LEMMA FourPieces ==
  ASSUME NEW w \in Pieces, NEW x \in Pieces, NEW y \in Pieces, NEW z \in Pieces
  PROVE  /\ <<w, x, y, z>> \in Names /\ Len(<<w, x, y, z>>) = 4 /\ <<w, x, y, z>>[4] = z
  BY DEF Names

LEMMA RoundName ==
  ASSUME NEW n \in Rounds
  PROVE  RoundOf(n) \in Names /\ Len(RoundOf(n)) = 4 /\ RoundOf(n)[4] = ToString(n)
  <1>1. ToString(n) \in Pieces /\ "_" \in Pieces /\ "round" \in Pieces
    BY NumbersArePieces DEF Pieces
  <1> QED
    BY <1>1, FourPieces DEF RoundOf

LEMMA TraceName ==
  ASSUME NEW i \in Names, NEW n \in Rounds
  PROVE  LET stem == IF n = 1 THEN Stem(i) ELSE Stem(i) \o RoundOf(n)
         IN /\ stem \in Names
            /\ WorkerTraceFilename(i, n) = stem \o <<".jsonl">>
            /\ WorkerTraceFilename(i, n)[Len(WorkerTraceFilename(i, n))] = ".jsonl"
  <1> DEFINE stem == IF n = 1 THEN Stem(i) ELSE Stem(i) \o RoundOf(n)
  <1>1. stem \in Seq(Pieces)
    BY StemName, RoundName, ConcatProperties DEF Names
  <1>2. WorkerTraceFilename(i, n) = stem \o <<".jsonl">>
    BY DEF WorkerTraceFilename
  <1> HIDE DEF stem
  <1>3. <<".jsonl">> \in Seq(Pieces) /\ Len(<<".jsonl">>) = 1
    BY DEF Pieces
  <1>4. /\ Len(stem \o <<".jsonl">>) = Len(stem) + 1 /\ Len(stem) \in Nat
        /\ (stem \o <<".jsonl">>)[Len(stem) + 1] = ".jsonl"
    BY <1>1, <1>3
  <1>5. WorkerTraceFilename(i, n)[Len(WorkerTraceFilename(i, n))] = ".jsonl"
    BY <1>2, <1>4
  <1> QED
    BY <1>1, <1>2, <1>5 DEF stem, Names

LEMMA EndOfNames ==
  ASSUME NEW s \in Names, NEW e \in Names, NEW x, Len(e) = 4, e[4] = x
  PROVE  Len(s \o e) = Len(s) + 4 /\ Len(s) \in Nat /\ (s \o e)[Len(s) + 4] = x
  <1>1. s \in Seq(Pieces) /\ e \in Seq(Pieces) /\ Len(s) \in Nat
    BY DEF Names
  <1>2. /\ Len(s \o e) = Len(s) + Len(e)
        /\ \A i \in 1 .. Len(s) + Len(e) :
              (s \o e)[i] = IF i <= Len(s) THEN s[i] ELSE e[i - Len(s)]
    BY <1>1, ConcatProperties
  <1>3. Len(s) + 4 \in 1 .. Len(s) + Len(e) /\ ~ (Len(s) + 4 <= Len(s))
        /\ Len(s) + 4 - Len(s) = 4
    BY <1>1
  <1> QED
    BY <1>1, <1>2, <1>3

LEMMA TracesApart ==
  ASSUME IdsApart, NEW i \in WorkerIds, NEW j \in WorkerIds,
         NEW n \in Rounds, NEW m \in Rounds,
         WorkerTraceFilename(i, n) = WorkerTraceFilename(j, m)
  PROVE  i = j /\ n = m
  <1> DEFINE stemI == IF n = 1 THEN Stem(i) ELSE Stem(i) \o RoundOf(n)
             stemJ == IF m = 1 THEN Stem(j) ELSE Stem(j) \o RoundOf(m)
  <1>1. i \in Names /\ j \in Names /\ Stem(i) \in Names /\ Stem(j) \in Names
    BY IdsArePieces, StemName
  <1>2. /\ stemI \in Names /\ WorkerTraceFilename(i, n) = stemI \o <<".jsonl">>
        /\ stemJ \in Names /\ WorkerTraceFilename(j, m) = stemJ \o <<".jsonl">>
    BY <1>1, TraceName
  <1>3. stemI = stemJ
    <2>1. <<".jsonl">> \in Seq(Pieces)
      BY DEF Pieces
    <2> HIDE DEF stemI, stemJ
    <2> QED
      BY <1>2, <2>1, ConcatSimplifications DEF Names
  <1>4. \A k \in Rounds : k # 1 => k \in 2 .. MaxRounds
    BY DeliveryAssumption DEF Rounds
  <1>5. CASE n = 1 \/ m = 1
    BY <1>3, <1>4, <1>5 DEF IdsApart
  <1>6. CASE n # 1 /\ m # 1
    <2>1. Stem(i) \o RoundOf(n) = Stem(j) \o RoundOf(m)
      BY <1>3, <1>6
    <2>2. /\ RoundOf(n) \in Names /\ Len(RoundOf(n)) = 4 /\ RoundOf(n)[4] = ToString(n)
          /\ RoundOf(m) \in Names /\ Len(RoundOf(m)) = 4 /\ RoundOf(m)[4] = ToString(m)
      BY RoundName
    <2>3. /\ Len(Stem(i) \o RoundOf(n)) = Len(Stem(i)) + 4 /\ Len(Stem(i)) \in Nat
          /\ (Stem(i) \o RoundOf(n))[Len(Stem(i)) + 4] = ToString(n)
      <3>1. Stem(i) \in Names /\ RoundOf(n) \in Names /\ Len(RoundOf(n)) = 4
        BY <1>1, <2>2
      <3>2. RoundOf(n)[4] = ToString(n)
        BY <2>2
      <3> QED
        BY <3>1, <3>2, EndOfNames, SMTT(30)
    <2>4. /\ Len(Stem(j) \o RoundOf(m)) = Len(Stem(j)) + 4 /\ Len(Stem(j)) \in Nat
          /\ (Stem(j) \o RoundOf(m))[Len(Stem(j)) + 4] = ToString(m)
      <3>1. Stem(j) \in Names /\ RoundOf(m) \in Names /\ Len(RoundOf(m)) = 4
        BY <1>1, <2>2
      <3>2. RoundOf(m)[4] = ToString(m)
        BY <2>2
      <3> QED
        BY <3>1, <3>2, EndOfNames, SMTT(30)
    <2>5. ToString(n) = ToString(m)
      <3>1. Len(Stem(i) \o RoundOf(n)) = Len(Stem(j) \o RoundOf(m))
        BY <2>1
      <3>2. Len(Stem(i)) + 4 = Len(Stem(j)) + 4
        BY <2>3, <2>4, <3>1
      <3>3. (Stem(i) \o RoundOf(n))[Len(Stem(i)) + 4]
              = (Stem(j) \o RoundOf(m))[Len(Stem(j)) + 4]
        BY <2>1, <3>2
      <3> QED
        BY <2>3, <2>4, <3>3
    <2>6. n = m
      BY <2>5, NumbersApart DEF Rounds
    <2>7. Stem(i) = Stem(j)
      BY <1>1, <2>1, <2>2, <2>6, ConcatSimplifications DEF Names
    <2> QED
      BY <2>6, <2>7 DEF IdsApart
  <1> QED
    BY <1>5, <1>6

\* The word a name begins with tells the kind, but for two pairs of kinds.
LEMMA KindsApart ==
  ASSUME NEW a, NEW b, Thing(a), Thing(b), a.kind # "trace", b.kind # "trace",
         Prefix(a.kind)[1] = Prefix(b.kind)[1]
  PROVE  \/ a.kind = b.kind
         \/ {a.kind, b.kind} = {"task_spec", "task_graph"}
         \/ {a.kind, b.kind} = {"validation", "integrated_validation"}
  <1> DEFINE Kinds == TaskKinds \cup RoundKinds \cup WorkerKinds \cup {"findings", "invocation"}
             Word(kind) == CASE kind \in {"task_spec", "task_graph"} -> "task"
                             [] kind = "consolidated_review" -> "consolidated"
                             [] kind = "integrated_validation" -> "validation"
                             [] OTHER -> kind
  <1>1. a.kind \in Kinds /\ b.kind \in Kinds
    BY DEF Thing
  <1>2. \A kind \in Kinds : Prefix(kind)[1] = Word(kind)
    BY DEF Prefix, TaskKinds, RoundKinds, WorkerKinds
  <1>3. Word(a.kind) = Word(b.kind)
    BY <1>1, <1>2
  <1> QED
    BY <1>1, <1>3 DEF TaskKinds, RoundKinds, WorkerKinds

\* Two things of one name are one thing.
LEMMA NamesApart ==
  ASSUME IdsApart, NEW a, NEW b, Thing(a), Thing(b), Name(Task, a) = Name(Task, b)
  PROVE  a = b
  <1> SUFFICES a.kind = b.kind /\ a.worker = b.worker /\ a.stage = b.stage /\ a.n = b.n
    BY DEF Thing
  <1>1. CASE a.kind = "trace" /\ b.kind = "trace"
    <2>0. a.stage = b.stage
      BY <1>1 DEF Thing, TaskKinds, RoundKinds, WorkerKinds
    <2>1. /\ a.worker \in WorkerIds /\ a.n \in Rounds
          /\ b.worker \in WorkerIds /\ b.n \in Rounds
      BY <1>1 DEF Thing, TaskKinds, RoundKinds, WorkerKinds
    <2>2. /\ Name(Task, a) = WorkerTraceFilename(a.worker, a.n)
          /\ Name(Task, b) = WorkerTraceFilename(b.worker, b.n)
      BY <1>1, ThingNames
    <2>3. a.worker = b.worker /\ a.n = b.n
      <3>1. WorkerTraceFilename(a.worker, a.n) = WorkerTraceFilename(b.worker, b.n)
        BY <2>2
      <3>2. \A i, j \in WorkerIds, n, m \in Rounds :
               WorkerTraceFilename(i, n) = WorkerTraceFilename(j, m) => i = j /\ n = m
        BY TracesApart
      <3> QED
        BY <2>1, <3>1, <3>2
    <2> QED
      BY <1>1, <2>0, <2>3
  <1>2. ASSUME NEW c, NEW d, Thing(c), Thing(d), c.kind = "trace", d.kind # "trace"
        PROVE  Name(Task, c) # Name(Task, d)
    <2>1. c.worker \in Names /\ c.n \in Rounds
      BY <1>2, IdsArePieces DEF Thing, TaskKinds, RoundKinds, WorkerKinds
    <2>2. Name(Task, c) = WorkerTraceFilename(c.worker, c.n)
      BY <1>2, ThingNames
    <2>3. Name(Task, c)[Len(Name(Task, c))] = ".jsonl"
      BY <2>1, <2>2, TraceName
    <2> QED
      BY <1>2, <2>3, NameEnds
  <1>3. CASE a.kind # "trace" /\ b.kind # "trace"
    <2>1. Prefix(a.kind)[1] = Prefix(b.kind)[1]
      BY <1>3, NameEnds
    <2> DEFINE of == Dashed(Prefix(a.kind), Task)
    <2>2. /\ Prefix(a.kind) \in Names /\ of \in Names /\ of # <<>>
          /\ Prefix(b.kind) \in Names
      BY <1>3, PrefixNames, IdsArePieces, DashedName DEF Names
    <2>3. \/ a.kind = b.kind
          \/ {a.kind, b.kind} = {"task_spec", "task_graph"}
          \/ {a.kind, b.kind} = {"validation", "integrated_validation"}
      BY <1>3, <2>1, KindsApart
    <2>4. ASSUME NEW c, NEW d, Thing(c), Thing(d), Name(Task, c) = Name(Task, d),
                 c.kind = "task_spec", d.kind = "task_graph"
          PROVE  FALSE
      <3>1. Prefix(c.kind) \in Names /\ Prefix(d.kind) \in Names
        BY <2>4, PrefixNames
      <3>2. /\ Name(Task, c) = Dashed(Prefix(c.kind), Task)
            /\ Name(Task, d) = Dashed(Prefix(d.kind), Task)
        BY <2>4, ThingNames DEF TaskKinds
      <3>3. Prefix(c.kind) = Prefix(d.kind)
        BY <2>4, <3>1, <3>2, IdsArePieces, DashedApart
      <3> QED
        BY <2>4, <3>3 DEF Prefix
    <2>5. ASSUME NEW c, NEW d, Thing(c), Thing(d), Name(Task, c) = Name(Task, d),
                 c.kind = "validation", d.kind = "integrated_validation"
          PROVE  FALSE
      <3> DEFINE under == Dashed(Prefix("validation"), Task)
      <3>1. /\ c.worker \in Names /\ c.worker # <<"integrated">>
            /\ c.n \in Rounds /\ d.n \in Rounds
        <4>1. c.worker \in WorkerIds \cup {<<>>} /\ c.n \in Rounds /\ d.n \in Rounds
          BY <2>5 DEF Thing, TaskKinds, RoundKinds, WorkerKinds
        <4>2. <<>> # <<"integrated">>
          OBVIOUS
        <4> QED
          BY <4>1, <4>2, IdsArePieces
      <3>2. under \in Names /\ under # <<>>
        BY <2>5, PrefixNames, IdsArePieces, DashedName DEF Names
      <3>3. Name(Task, c) = Numbered(OfWorker(under, c.worker), c.n)
        BY <2>5, ThingNames DEF WorkerKinds
      <3>4. Prefix(d.kind) = Prefix("validation")
        BY <2>5 DEF Prefix
      <3>5. Name(Task, d) = Numbered(OfWorker(under, <<"integrated">>), d.n)
        BY <2>5, <3>4, ThingNames
      <3> HIDE DEF under
      <3>6. OfWorker(under, c.worker) \in Names /\ OfWorker(under, <<"integrated">>) \in Names
        BY <3>1, <3>2, IdsArePieces, OfWorkerName
      <3>7. OfWorker(under, c.worker) = OfWorker(under, <<"integrated">>)
        BY <2>5, <3>1, <3>3, <3>5, <3>6, NumbersTold
      <3> QED
        BY <3>1, <3>2, <3>7, IdsArePieces, OfWorkerApart
    <2>6. CASE a.kind = b.kind
      <3>1. CASE a.kind \in TaskKinds
        BY <2>6, <3>1 DEF Thing, TaskKinds, RoundKinds, WorkerKinds
      <3>2. CASE a.kind = "integrated_validation"
        <4>1. /\ a.worker = <<>> /\ a.n \in Rounds /\ a.stage = ""
              /\ b.worker = <<>> /\ b.n \in Rounds /\ b.stage = ""
          BY <2>6, <3>2 DEF Thing, TaskKinds, RoundKinds, WorkerKinds
        <4>2. Name(Task, a) = Numbered(OfWorker(of, <<"integrated">>), a.n)
          BY <3>2, ThingNames
        <4>3. Name(Task, b) = Numbered(OfWorker(of, <<"integrated">>), b.n)
          BY <2>6, <3>2, ThingNames
        <4> HIDE DEF of
        <4>4. OfWorker(of, <<"integrated">>) \in Names
          BY <2>2, IdsArePieces, OfWorkerName
        <4>5. Numbered(OfWorker(of, <<"integrated">>), a.n)
                = Numbered(OfWorker(of, <<"integrated">>), b.n)
          BY <4>2, <4>3
        <4>6. a.n = b.n
          BY <4>1, <4>4, <4>5, NumbersTold
        <4> QED
          BY <2>6, <4>1, <4>6
      <3>3. CASE a.kind \in WorkerKinds \cup {"findings", "integration", "consolidated_review"}
        <4>0. a.stage = b.stage
          BY <2>6, <3>3 DEF Thing, TaskKinds, RoundKinds, WorkerKinds
        <4>1. /\ a.worker \in Names /\ a.n \in Rounds
              /\ b.worker \in Names /\ b.n \in Rounds
          BY <2>6, <3>3, IdsArePieces DEF Thing, TaskKinds, RoundKinds, WorkerKinds
        <4>2. Name(Task, a) = Numbered(OfWorker(of, a.worker), a.n)
          BY <3>3, ThingNames
        <4>3. Name(Task, b) = Numbered(OfWorker(of, b.worker), b.n)
          BY <2>6, <3>3, ThingNames
        <4> HIDE DEF of
        <4>4. OfWorker(of, a.worker) \in Names /\ OfWorker(of, b.worker) \in Names
          BY <2>2, <4>1, OfWorkerName
        <4>5. OfWorker(of, a.worker) = OfWorker(of, b.worker) /\ a.n = b.n
          <5>1. Numbered(OfWorker(of, a.worker), a.n) = Numbered(OfWorker(of, b.worker), b.n)
            BY <4>2, <4>3
          <5>2. \A c, d \in Names, n, m \in Rounds :
                   Numbered(c, n) = Numbered(d, m) => c = d /\ n = m
            BY NumbersTold
          <5> QED
            BY <4>1, <4>4, <5>1, <5>2
        <4> QED
          BY <2>2, <2>6, <4>0, <4>1, <4>5, OfWorkerApart
      <3>4. CASE a.kind = "invocation"
        <4>1. /\ a.worker \in Names /\ a.n \in Rounds /\ a.stage \in Pieces
              /\ b.worker \in Names /\ b.n \in Rounds /\ b.stage \in Pieces
          BY <2>6, <3>4, IdsArePieces DEF Thing, TaskKinds, RoundKinds, WorkerKinds
        <4> DEFINE byA == Dashed(Prefix(a.kind), a.worker)
                   byB == Dashed(Prefix(a.kind), b.worker)
        <4>2. Name(Task, a) = Numbered(Dashed(byA, <<a.stage>>), a.n)
          BY <3>4, ThingNames
        <4>3. Name(Task, b) = Numbered(Dashed(byB, <<b.stage>>), b.n)
          BY <2>6, <3>4, ThingNames
        <4>4. byA \in Names /\ byB \in Names
          BY <2>2, <4>1, DashedName
        <4>5. byA = byB => a.worker = b.worker
          BY <2>2, <4>1, DashedApart
        <4> HIDE DEF byA, byB
        <4>6. Dashed(byA, <<a.stage>>) \in Names /\ Dashed(byB, <<b.stage>>) \in Names
          BY <4>1, <4>4, OnePiece, DashedName
        <4>7. Dashed(byA, <<a.stage>>) = Dashed(byB, <<b.stage>>) /\ a.n = b.n
          <5>1. Numbered(Dashed(byA, <<a.stage>>), a.n) = Numbered(Dashed(byB, <<b.stage>>), b.n)
            BY <4>2, <4>3
          <5> QED
            BY <4>1, <4>6, <5>1, NumbersTold
        <4>8. byA = byB /\ a.stage = b.stage
          BY <4>1, <4>4, <4>7, NumberedApart
        <4> QED
          BY <2>6, <4>5, <4>7, <4>8
      <3> QED
        BY <1>3, <3>1, <3>2, <3>3, <3>4 DEF Thing, RoundKinds
    <2> QED
      BY <2>3, <2>4, <2>5, <2>6
  <1> QED
    BY <1>1, <1>2, <1>3

\* With such ids nothing a workflow keeps is overwritten by something else,
\* whatever stages, rounds and workers it goes through.
THEOREM NamesAreKept == IdsApart => (Spec => []ArtifactsKept)
  <1> SUFFICES ASSUME IdsApart PROVE Spec => []ArtifactsKept
    OBVIOUS
  <1>1. Clashes = {}
    <2> SUFFICES ASSUME NEW pair \in Clashes PROVE FALSE
      OBVIOUS
    <2>1. PICK a, b : /\ a # b /\ Name(Task, a) = Name(Task, b)
                      /\ \E w \in Workflows, s \in Stage \cup MultiStage, n \in Rounds :
                            a \in Saves(w, s, n)
                      /\ \E w \in Workflows, s \in Stage \cup MultiStage, n \in Rounds :
                            b \in Saves(w, s, n)
      BY DEF Clashes, Rounds
    <2> QED
      BY <2>1, SavesThings, NamesApart
  <1>2. ArtifactsKept
    BY <1>1 DEF ArtifactsKept
  <1> QED
    BY <1>2, PTL
=============================================================================
