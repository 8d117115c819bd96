------------------------------- MODULE Delivery -------------------------------
(***************************************************************************)
(* From a task to a draft pull request: workflows move along their stage   *)
(* graphs, their workers change and judge a patch with the tools they are  *)
(* given and keep what they make under its name, reviewers' answers are    *)
(* read, and the patch of a completed workflow is packaged into a draft    *)
(* pull request, again after every failure.                                *)
(*                                                                         *)
(* What happens inside a stage is not implemented in the repository: a     *)
(* worker uses any tool it holds, a reviewer answers anything, a stage     *)
(* ends at any time.  What it saves is named by the functions of Workers.  *)
(***************************************************************************)
EXTENDS WorkflowStages, PullRequests, ReviewText, Workers, FiniteSets

CONSTANTS
    Task,          \* the id of the task, in pieces
    Implementers,  \* the ids of the workers, in pieces
    Reviewers,
    Fixers,
    Lines,         \* the lines reviewers write
    MaxLines,      \* bound: lines of an answer
    MaxPatches,    \* bound: changes of a patch that are told apart
    MaxRounds      \* bound: review rounds that are told apart

ASSUME DeliveryAssumption ==
    /\ Clients = Workflows
    /\ {<<w, v>> : w \in Workflows, v \in 1 .. MaxPatches} \cup {NoKey} = Keys
    /\ MaxPatches \in Nat /\ MaxRounds \in Nat \ {0} /\ MaxLines \in Nat

\* The registries hold what the contracts allow, in the same order.
ASSUME HandsMatchContracts ==
    /\ BuildInvestigationRegistry = READ_ONLY_CAPABILITIES
    /\ BuildImplementationRegistry = WRITE_CAPABILITIES

\* What a proof has to know of the text of a number.
ASSUME NumbersApart ==
    \A n, m \in 1 .. MaxRounds :
        /\ ToString(n) \in STRING /\ ToString(n) # ".jsonl"
        /\ ToString(n) = ToString(m) => n = m

VARIABLES
    patch,    \* the version of each workflow's patch, 0 when there is none
    judged,   \* the version each judging stage passed last
    heard,    \* the answer of the reviewer, while it is read
    round,    \* the review round, from 1
    store     \* the artifacts and traces each workflow kept

workVars == <<patch, judged, heard, round, store>>
vars == <<stageVars, pullVars, workVars>>

\* No answer yet.
NotHeard == [text |-> <<>>, read |-> FindingsFromText(<<>>), conclusion |-> "none"]

Init ==
    /\ StagesInit
    /\ PullInit
    /\ patch = [w \in Workflows |-> 0]
    /\ judged = [w \in Workflows |-> [s \in Judging |-> 0]]
    /\ heard = [w \in Workflows |-> NotHeard]
    /\ round = [w \in Workflows |-> 1]
    /\ store = [w \in Workflows |-> {}]

\* The tools at hand in a stage.
Hands(s) ==
    CASE s = "investigate" -> ToSet(BuildInvestigationRegistry)
      [] s = "implement" -> ToSet(BuildImplementationRegistry)
      [] s = "fan_out" -> ImplementerContract.allowed
      [] s = "review" -> ReviewerContract.allowed
      [] s = "fix" -> FixWorkerContract.allowed
      [] OTHER -> {}

\* A faulty change for the mutant check: the patch is counted without end.
ChangeOn(w) == patch[w] <= MaxPatches /\ patch' = [patch EXCEPT ![w] = @ + 1]

Change(w) == patch[w] < MaxPatches /\ patch' = [patch EXCEPT ![w] = @ + 1]

\* A worker uses a tool that may write, or integration applies a patch.
Work(w) ==
    /\ (\E tool \in Hands(stage[w]) : Writes(tool)) \/ stage[w] = "integrate"
    /\ Change(w)
    /\ UNCHANGED <<stageVars, pullVars, judged, heard, round, store>>

\* A reviewer answers, and the answer is read.
Readings ==
    {[text |-> text, read |-> FindingsFromText(text),
      conclusion |-> ConclusionFromText(text)] : text \in SeqOf(Lines, MaxLines)}

Report(w) ==
    /\ stage[w] = "review"
    /\ heard[w] = NotHeard
    /\ \E reading \in Readings : heard' = [heard EXCEPT ![w] = reading]
    /\ UNCHANGED <<stageVars, pullVars, patch, judged, round, store>>

\* What a stage keeps in round n.  The engine's patch and validation are of
\* no worker.
Saves(w, s, n) ==
    CASE s = "intake" ->
           {Artifact("task_spec", <<>>, 0)} \cup
           IF w \in Multis THEN {Artifact("task_graph", <<>>, 0)} ELSE {}
      [] s = "investigate" -> {Artifact("investigation", <<>>, 0)}
      [] s = "plan" -> {Artifact("plan", <<>>, 0)}
      [] s = "implement" -> {Artifact("patch", <<>>, 1)}
      [] s = "fan_out" ->
           UNION {{Artifact("patch", i, 1), Artifact("validation", i, 1),
                   Invocation(i, "implement", 1), Artifact("trace", i, 1)} :
                  i \in Implementers}
      [] s = "integrate" -> {Artifact("integration", <<>>, n)}
      [] s = "validate" ->
           {Artifact(IF w \in Multis THEN "integrated_validation" ELSE "validation",
                     <<>>, n)}
      [] s = "review" ->
           UNION {{Artifact("findings", r, n), Invocation(r, "review", n),
                   Artifact("trace", r, n)} : r \in Reviewers}
      [] s = "consolidate" -> {Artifact("consolidated_review", <<>>, n)}
      [] s = "fix" ->
           UNION {{Artifact("patch", x, n), Artifact("validation", x, n),
                   Invocation(x, "fix", n), Artifact("trace", x, n)} : x \in Fixers}
      [] s = "prepare_result" -> {Artifact("result", <<>>, 0)}
      [] OTHER -> {}

\* A stage ends.  A review goes on only if its answer could be read.
Advance(w, target) ==
    /\ Move(w, target)
    /\ (stage[w] = "review" /\ target = "consolidate")
         => heard[w] # NotHeard /\ heard[w].read.raised = ""
    /\ judged' = [judged EXCEPT ![w] =
          IF stage[w] \in Judging THEN [@ EXCEPT ![stage[w]] = patch[w]] ELSE @]
    /\ heard' = [heard EXCEPT ![w] = NotHeard]
    /\ round' = [round EXCEPT ![w] =
          IF stage[w] = "fix" /\ @ < MaxRounds THEN @ + 1 ELSE @]
    /\ store' = [store EXCEPT ![w] = @ \cup Saves(w, stage[w], round[w])]
    /\ UNCHANGED <<pullVars, patch>>

\* draft_pr_from_workflow_result: without a patch it raises and sends nothing.
\* The key is made of the workflow and the version of its patch.
Package(w) ==
    /\ stage[w] = "completed"
    /\ patch[w] > 0
    /\ Send(w, <<w, patch[w]>>, TRUE)
    /\ UNCHANGED <<stageVars, workVars>>

\* Somebody else asks the double: for the pull request of the workflow as one
\* that is no draft, or for one without a key.
Outside(w) ==
    /\ stage[w] = "completed"
    /\ \/ patch[w] > 0 /\ DoubleSend(w, <<w, patch[w]>>, FALSE)
       \/ \E draft \in BOOLEAN : DoubleSend(w, NoKey, draft)
    /\ UNCHANGED <<stageVars, workVars>>

Lever ==
    /\ \E w \in Workflows : stage[w] = "completed"
    /\ SetTimeout
    /\ UNCHANGED <<stageVars, workVars>>

Next ==
    \/ \E w \in Workflows :
          \/ Work(w) \/ Report(w) \/ Package(w) \/ Outside(w)
          \/ \E target \in Stage \cup MultiStage : Advance(w, target)
    \/ Lever

\* Every stage ends: a worker's run is bounded by the iterations of its
\* contract, and both run loops go on until a terminal stage.  A stage that
\* is not terminal can always be left, the review for a failure at least, so
\* it is enough to ask for some move.
Moves(w) == \E target \in Stage \cup MultiStage : Move(w, target)
Spec == Init /\ [][Next]_vars /\ \A w \in Workflows : WF_stageVars(Moves(w))

(***************************************************************************)
(* Properties                                                              *)
(***************************************************************************)
TypeOK ==
    /\ StagesTypeOK
    /\ PullTypeOK
    /\ patch \in [Workflows -> 0 .. MaxPatches]
    /\ judged \in [Workflows -> [Judging -> 0 .. MaxPatches]]
    /\ round \in [Workflows -> 1 .. MaxRounds]

\* Every pull request is of a workflow that completed, for the patch it has
\* now, and that very version was validated and, in a multi-worker workflow,
\* reviewed and consolidated: no reviewer's tool, no fix round and no late
\* retry lets anything else out.
DeliveredIsReviewed ==
    \A pr \in {pr \in opened : pr.key # NoKey} :
        LET w == pr.key[1]
        IN /\ stage[w] = "completed"
           /\ pr.key[2] = patch[w]
           /\ \A s \in Judging \cap Gates(w) : judged[w][s] = patch[w]

\* A reviewer's answer is read whole or not at all: one finding for every
\* line that reports one, numbered in order, or an exception; and it approves
\* only by its last conclusion, spelt as it must be.
AnswersReadWhole ==
    \A w \in Multis :
        LET text == heard[w].text
            read == heard[w].read
            reported == {i \in DOMAIN text : text[i].prefix = "FINDING: "}
            concluded == {i \in DOMAIN text : text[i].prefix = "CONCLUSION: "}
        IN /\ read.raised = "" =>
                 /\ Len(read.findings) = Cardinality(reported)
                 /\ \A i \in reported :
                       LET number == Cardinality({j \in reported : j <= i})
                       IN /\ read.findings[number].id = number
                          /\ read.findings[number].of = text[i].json
           /\ read.raised # "" => read.findings = <<>>
           /\ heard[w].conclusion = "approved" <=>
                 \E i \in concluded :
                    text[i].word = "approved" /\ \A j \in concluded : j <= i

\* The pairs of things a workflow may keep that would have one name.
Clashes ==
    LET all == UNION {Saves(w, s, n) : w \in Workflows, s \in Stage \cup MultiStage,
                                     n \in 1 .. MaxRounds}
        Clash(a, b) == a # b /\ Name(Task, a) = Name(Task, b)
    IN UNION {IF Clash(a, b) THEN {{a, b}} ELSE {} : a \in all, b \in all}

\* What the ids must be for that never to happen: no two workers have one id, in
\* whatever part, nor ids that differ in - and _ only; no id is that of another
\* with a round at its end, and none is the word for the integrated patch.
WorkerIds == Implementers \cup Reviewers \cup Fixers
IdsApart ==
    /\ Implementers \cap Reviewers = {} /\ Implementers \cap Fixers = {}
    /\ Reviewers \cap Fixers = {}
    /\ Task \in Seq(STRING) /\ Task # <<>> /\ Task[Len(Task)] # ".jsonl"
    /\ \A i \in WorkerIds : i \in Seq(STRING) /\ i # <<>> /\ i # <<"integrated">>
    /\ \A i, j \in WorkerIds :
          /\ Stem(i) = Stem(j) => i = j
          /\ \A n \in 2 .. MaxRounds : Stem(i) # Stem(j) \o RoundOf(n)

\* Nothing that was kept is overwritten by something else: the artifacts and
\* traces of every worker, round and stage of a workflow have their own names.
ArtifactsKept == \A w \in Workflows, pair \in Clashes : ~ pair \subseteq store[w]

\* Every workflow ends, or is fixed for ever: nothing else in the tables goes
\* round.
EndsOrFixes ==
    \A w \in Workflows : <>(stage[w] \in TERMINAL_STAGES) \/ []<>(stage[w] = "fix")
=============================================================================
