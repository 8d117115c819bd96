------------------------------ MODULE Evaluation ------------------------------
(***************************************************************************)
(* Runs of an evaluation matrix (evaluation/runner.py, graders.py): a      *)
(* fresh clone of the target, an attempt in a sandbox of that clone, its   *)
(* patch applied to a second fresh clone, and a grader run there.  The     *)
(* runs repeat at the same paths, as when a matrix is run again in its     *)
(* directory, and the process can be killed at any point.                  *)
(*                                                                         *)
(* EvaluationRunner.run and the sandbox manager are not implemented in the *)
(* repository; they enter by the contract of their callers.  The attempt   *)
(* is one worker's, or an integration of several (module Patches).         *)
(***************************************************************************)
EXTENDS Patches

CONSTANTS
    Graders,      \* the ids of the graders supplied
    Declared,     \* those a task may declare
    Solved,       \* the trees a grader passes, line ends aside
    MaxAttempts   \* bound on the runs

VARIABLES
    clones,    \* what is at the paths of the "attempt" and the "grade" clone
    dest,      \* the one fresh_clone is called for
    sandbox,   \* is there a worktree for the run
    left,      \* history: did somebody fail to remove it, or die before
    at,        \* where the run is
    outcome,   \* what the executor returned last
    made,      \* history: the tree of the attempt
    verdict,   \* the GraderResult
    attempts   \* the runs so far

runVars == <<clones, dest, sandbox, left, at, outcome, made, verdict, attempts>>
vars == <<runVars, patchVars>>

Missing == [is |-> "missing"]
Half == [is |-> "half"]
CloneOf(content) == [is |-> "clone", tree |-> content]

LFTree(content) == [p \in Paths |-> LF(content[p])]
Solves(content) == \E solved \in Solved : LFTree(content) = LFTree(solved)

\* AttemptOutcome; a patch that is None is the empty set.
Attempted(completed, patches) == [completed |-> completed, patches |-> patches]
NotAttempted == Attempted(FALSE, {})

\* The integration worktree is gone with its attempt.
Discard ==
    /\ tree' = Base /\ unmerged' = {} /\ captured' = NoPatch
    /\ kept' = NotKept /\ applied' = {} /\ rejected' = NotRejected
    /\ restored' = TRUE

\* An exception leaves the run; so does its end.
Leave ==
    /\ at' = "idle"
    /\ Discard

(***************************************************************************)
(* GraderResult: a verdict or an infrastructure error, never both.         *)
(***************************************************************************)
Graded(passed) == [passed |-> IF passed THEN "pass" ELSE "fail", infrastructure |-> FALSE]
InfrastructureResult == [passed |-> "none", infrastructure |-> TRUE]
NotGraded == [passed |-> "none", infrastructure |-> FALSE]

ResultFromExitCode(code) ==
    CASE code = 0 -> Graded(TRUE)
      [] code = 1 -> Graded(FALSE)
      [] OTHER -> InfrastructureResult

\* The program exits with its judgement of the tree, or crashes.
ExitCodes(content) == {IF Solves(content) THEN 0 ELSE 1, 2}

Init ==
    /\ PatchesInit
    /\ clones = [d \in {"attempt", "grade"} |-> Missing]
    /\ dest = "attempt"
    /\ sandbox = FALSE /\ left = FALSE
    /\ at = "new"
    /\ outcome = NotAttempted
    /\ made = Base
    /\ verdict = NotGraded
    /\ attempts = 0

\* Every grader a task declares must have been supplied.
Construct ==
    /\ at = "new"
    /\ \E declared \in SUBSET Declared :
          at' = IF declared \subseteq Graders THEN "idle" ELSE "refused"
    /\ UNCHANGED <<clones, dest, sandbox, left, outcome, made, verdict, attempts, patchVars>>

Begin ==
    /\ at = "idle" /\ attempts < MaxAttempts
    /\ at' = "remove"
    /\ dest' = "attempt"
    /\ attempts' = attempts + 1
    /\ outcome' = NotAttempted /\ made' = Base /\ verdict' = NotGraded
    /\ UNCHANGED <<clones, sandbox, left, patchVars>>

(***************************************************************************)
(* fresh_clone: what is there is removed, then git clones the source.      *)
(***************************************************************************)
AfterClone == IF dest = "attempt" THEN "create" ELSE "apply"

\* A faulty step for the mutant check: a clone that is there is used.
RemoveDestKept ==
    /\ at = "remove"
    /\ at' = IF clones[dest].is = "clone" THEN AfterClone ELSE "clone"
    /\ clones' = IF clones[dest].is = "clone" THEN clones
                 ELSE [clones EXCEPT ![dest] = Missing]
    /\ UNCHANGED <<dest, sandbox, left, outcome, made, verdict, attempts, patchVars>>

RemoveDest ==
    /\ at = "remove"
    /\ at' = "clone"
    /\ clones' = [clones EXCEPT ![dest] = Missing]
    /\ UNCHANGED <<dest, sandbox, left, outcome, made, verdict, attempts, patchVars>>

\* shutil.rmtree raises over a file it cannot remove.
RemoveFails ==
    /\ at = "remove" /\ clones[dest] # Missing
    /\ clones' = [clones EXCEPT ![dest] = Half]
    /\ Leave
    /\ UNCHANGED <<dest, sandbox, left, outcome, made, verdict, attempts>>

GitClone ==
    /\ at = "clone"
    /\ \/ /\ clones' = [clones EXCEPT ![dest] = CloneOf(Base)]
          /\ at' = AfterClone
          /\ UNCHANGED patchVars
       \/ Leave /\ UNCHANGED clones
    /\ UNCHANGED <<dest, sandbox, left, outcome, made, verdict, attempts>>

(***************************************************************************)
(* write_task_executor: the sandbox is created before the try, and         *)
(* destroyed in its finally.                                               *)
(***************************************************************************)
CreateSandbox ==
    /\ at = "create"
    /\ \/ /\ ~ sandbox
          /\ sandbox' = TRUE
          /\ at' = "run"
          /\ UNCHANGED patchVars
       \/ Leave /\ UNCHANGED sandbox
    /\ UNCHANGED <<clones, dest, left, outcome, made, verdict, attempts>>

\* The tools and the loop at work: module Patches' steps.
Work ==
    /\ at = "run"
    /\ Integrate
    /\ UNCHANGED runVars

\* What the runtime ends with: the integrated patch, none, or that of a worker
\* who was alone.
Results ==
    {[patches |-> {captured}, tree |-> kept.tree], [patches |-> {}, tree |-> Base]}
    \cup IF <<tree, rejected, kept>> # <<Base, NotRejected, NotKept>> THEN {}
         ELSE {[patches |-> {AsText(Diff(Base, e))}, tree |-> e] :
                  e \in {e \in Edited : ~ Undecodable(Diff(Base, e))}}

\* A faulty executor for the mutant check: no finally around the run.
AttemptUnguarded ==
    /\ at = "run"
    /\ \/ /\ \E result \in Results, completed \in BOOLEAN :
                /\ outcome' = Attempted(completed, result.patches)
                /\ made' = result.tree
          /\ at' = "destroy"
          /\ Discard
       \/ Leave /\ UNCHANGED <<outcome, made>>
    /\ UNCHANGED <<clones, dest, sandbox, left, verdict, attempts>>

\* The tools, the trace file, the adapter factory and the loop can all raise.
Attempt ==
    /\ at = "run"
    /\ \/ /\ \E result \in Results, completed \in BOOLEAN :
                /\ outcome' = Attempted(completed, result.patches)
                /\ made' = result.tree
          /\ at' = "destroy"
       \/ /\ at' = "raising"
          /\ UNCHANGED <<outcome, made>>
    /\ Discard
    /\ UNCHANGED <<clones, dest, sandbox, left, verdict, attempts>>

\* An exception of destroy takes the place of the outcome.
Destroy ==
    /\ at \in {"destroy", "raising"}
    /\ \/ /\ sandbox' = FALSE
          /\ at' = IF at = "destroy" THEN "attempted" ELSE "idle"
          /\ UNCHANGED left
       \/ /\ left' = TRUE
          /\ at' = "idle"
          /\ UNCHANGED sandbox
    /\ UNCHANGED <<clones, dest, outcome, made, verdict, attempts, patchVars>>

(***************************************************************************)
(* The runner's steps 3 and 4: a completed attempt with a patch is graded  *)
(* in a second clone.                                                      *)
(***************************************************************************)
Judge ==
    /\ at = "attempted"
    /\ IF outcome.completed /\ outcome.patches # {}
       THEN at' = "remove" /\ dest' = "grade"
       ELSE at' = "idle" /\ UNCHANGED dest
    /\ UNCHANGED <<clones, sandbox, left, outcome, made, verdict, attempts, patchVars>>

ApplyForGrade ==
    /\ at = "apply"
    /\ LET patch == CHOOSE p \in outcome.patches : TRUE
           there == clones["grade"].tree
       IN IF Taken(there, patch)
          THEN /\ clones' = [clones EXCEPT !["grade"] =
                                CloneOf(Patched(there, DOMAIN patch, patch))]
               /\ at' = "grade"
               /\ UNCHANGED verdict
          ELSE /\ verdict' = InfrastructureResult
               /\ at' = "idle"
               /\ UNCHANGED clones
    /\ UNCHANGED <<dest, sandbox, left, outcome, made, attempts, patchVars>>

\* A timeout or a program that cannot be started is an infrastructure error;
\* output that is no UTF-8 raises.
Grade ==
    /\ at = "grade"
    /\ \/ \E code \in ExitCodes(clones["grade"].tree) : verdict' = ResultFromExitCode(code)
       \/ verdict' = InfrastructureResult
       \/ UNCHANGED verdict
    /\ at' = "idle"
    /\ UNCHANGED <<clones, dest, sandbox, left, outcome, made, attempts, patchVars>>

(***************************************************************************)
(* The rest of the world: kill -9, a person who tidies up, and one who     *)
(* works the task out in a clone between two runs.                         *)
(***************************************************************************)
Kill ==
    /\ at \notin {"new", "refused", "idle"}
    /\ clones' = IF at \in {"remove", "clone"} THEN [clones EXCEPT ![dest] = Half] ELSE clones
    /\ left' = (left \/ sandbox)
    /\ Leave
    /\ UNCHANGED <<dest, sandbox, outcome, made, verdict, attempts>>

TidyUp ==
    /\ at = "idle" /\ sandbox
    /\ sandbox' = FALSE /\ left' = FALSE
    /\ UNCHANGED <<clones, dest, at, outcome, made, verdict, attempts, patchVars>>

Meddle ==
    /\ at = "idle"
    /\ \E d \in DOMAIN clones, e \in Solved :
          /\ clones[d].is = "clone"
          /\ clones' = [clones EXCEPT ![d] = CloneOf(e)]
    /\ UNCHANGED <<dest, sandbox, left, at, outcome, made, verdict, attempts, patchVars>>

Next ==
    \/ Construct \/ Begin
    \/ RemoveDest \/ RemoveFails \/ GitClone
    \/ CreateSandbox \/ Work \/ Attempt \/ Destroy
    \/ Judge \/ ApplyForGrade \/ Grade
    \/ Kill \/ TidyUp \/ Meddle

Spec == Init /\ [][Next]_vars

(***************************************************************************)
(* Properties                                                              *)
(***************************************************************************)
\* A pass or a fail is the grader's own judgement of the tree the attempt
\* made: neither what an earlier run left in a clone, nor a crash of the
\* grader, nor a patch that lost something on its way decides it.
GradesStand ==
    verdict.passed # "none" => (verdict.passed = "pass") = Solves(made)

\* A run leaves no worktree behind, whatever raised in it; only a destroy that
\* fails and a killed process do.
SandboxesGo ==
    sandbox => left \/ at \in {"run", "destroy", "raising"}
=============================================================================
