---------------------------- MODULE WorkflowStages ----------------------------
(***************************************************************************)
(* The stage graphs of the two workflows: the feature task of the engine   *)
(* (Module 5) and the multi-worker task of the orchestrator (Module 6).    *)
(* Every step of a workflow is a transition its table allows; what drives  *)
(* it from stage to stage (WorkflowEngine.run, MultiWorkerOrchestrator.run *)
(* and both cancels) is not implemented in the repository, so any allowed  *)
(* transition may come next.                                               *)
(***************************************************************************)
EXTENDS Naturals

CONSTANTS
    Features,   \* the workflows driven by the engine
    Multis      \* the workflows driven by the orchestrator

ASSUME KindsAssumption == Features \cap Multis = {}

Workflows == Features \cup Multis

TERMINAL_STAGES == {"completed", "failed", "cancelled", "escalated"}

Stage ==
    {"intake", "investigate", "plan", "plan_approval", "implement", "validate",
     "prepare_result"} \cup TERMINAL_STAGES

MultiStage ==
    {"intake", "fan_out", "integrate", "validate", "review", "consolidate",
     "fix", "prepare_result"} \cup TERMINAL_STAGES

\* A faulty table for the mutant check: a failed task can be taken up again.
TRANSITIONS_Retried ==
         ({"intake"} \X {"investigate", "cancelled"})
    \cup ({"investigate"} \X {"plan", "failed", "escalated", "cancelled"})
    \cup ({"failed"} \X {"intake"})

\* The tables, as sets of pairs of a stage and a stage it may be left for.
TRANSITIONS ==
         ({"intake"} \X {"investigate", "cancelled"})
    \cup ({"investigate"} \X {"plan", "failed", "escalated", "cancelled"})
    \cup ({"plan"} \X {"plan_approval", "failed", "escalated", "cancelled"})
    \cup ({"plan_approval"} \X {"implement", "cancelled"})
    \cup ({"implement"} \X {"validate", "failed", "escalated", "cancelled"})
    \cup ({"validate"} \X {"prepare_result", "failed", "cancelled"})
    \cup ({"prepare_result"} \X {"completed", "failed", "cancelled"})

\* A faulty table for the mutant check: a fix goes straight to the reviewers.
MULTI_TRANSITIONS_Unvalidated ==
         ({"intake"} \X {"fan_out", "cancelled"})
    \cup ({"fan_out"} \X {"integrate", "failed", "escalated", "cancelled"})
    \cup ({"integrate"} \X {"validate", "failed", "escalated", "cancelled"})
    \cup ({"validate"} \X {"review", "failed", "cancelled"})
    \cup ({"review"} \X {"consolidate", "failed", "escalated", "cancelled"})
    \cup ({"consolidate"} \X {"fix", "prepare_result", "escalated", "cancelled"})
    \cup ({"fix"} \X {"review", "failed", "escalated", "cancelled"})
    \cup ({"prepare_result"} \X {"completed", "failed", "cancelled"})

\* A faulty table for the mutant check: a review can be repeated at once.
MULTI_TRANSITIONS_Circling ==
    (MULTI_TRANSITIONS_Unvalidated \ {<<"fix", "review">>})
        \cup {<<"fix", "validate">>, <<"consolidate", "review">>}

MULTI_TRANSITIONS ==
         ({"intake"} \X {"fan_out", "cancelled"})
    \cup ({"fan_out"} \X {"integrate", "failed", "escalated", "cancelled"})
    \cup ({"integrate"} \X {"validate", "failed", "escalated", "cancelled"})
    \cup ({"validate"} \X {"review", "failed", "cancelled"})
    \cup ({"review"} \X {"consolidate", "failed", "escalated", "cancelled"})
    \cup ({"consolidate"} \X {"fix", "prepare_result", "escalated", "cancelled"})
    \cup ({"fix"} \X {"validate", "failed", "escalated", "cancelled"})
    \cup ({"prepare_result"} \X {"completed", "failed", "cancelled"})

\* The stages that change the patch, and those that judge it as it stands.
Writing == {"implement", "fan_out", "integrate", "fix"}
Judging == {"validate", "review", "consolidate"}

\* What a workflow must have gone through to be complete.
Gates(w) ==
    IF w \in Features THEN {"plan_approval", "implement", "validate"}
    ELSE {"fan_out", "integrate", "validate", "review", "consolidate"}

VARIABLES
    stage,    \* current_stage of each workflow
    passed    \* the stages each one has passed, judgements of an older patch
              \* not counted

stageVars == <<stage, passed>>

ValidateTransition(w, current, target) ==
    \/ w \in Features /\ <<current, target>> \in TRANSITIONS
    \/ w \in Multis /\ <<current, target>> \in MULTI_TRANSITIONS

StagesInit ==
    /\ stage = [w \in Workflows |-> "intake"]
    /\ passed = [w \in Workflows |-> {}]

\* A stage is passed when it is left for one that goes on.
Move(w, target) ==
    /\ ValidateTransition(w, stage[w], target)
    /\ stage' = [stage EXCEPT ![w] = target]
    /\ passed' = [passed EXCEPT ![w] =
          IF target \in TERMINAL_STAGES \ {"completed"} THEN @
          ELSE (IF stage[w] \in Writing THEN @ \ Judging ELSE @) \cup {stage[w]}]

StagesNext == \E w \in Workflows, target \in Stage \cup MultiStage : Move(w, target)

StagesSpec == StagesInit /\ [][StagesNext]_stageVars

(***************************************************************************)
(* Properties                                                              *)
(***************************************************************************)
StagesTypeOK ==
    /\ stage \in [Workflows -> Stage \cup MultiStage]
    /\ \A w \in Features : stage[w] \in Stage
    /\ \A w \in Multis : stage[w] \in MultiStage
    /\ passed \in [Workflows -> SUBSET (Stage \cup MultiStage)]

\* A workflow prepares or has completed a result only if its patch, as it
\* stands, went through every gate: no way through the tables, no fix round
\* and no order of them leads around validation or review.
CompletedIsReviewed ==
    \A w \in Workflows :
        stage[w] \in {"prepare_result", "completed"} => Gates(w) \subseteq passed[w]

\* A workflow that has ended stays as it ended.
TerminalForever ==
    [][\A w \in Workflows :
          stage[w] \in TERMINAL_STAGES => UNCHANGED <<stage[w], passed[w]>>]_stageVars
=============================================================================
