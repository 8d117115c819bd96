--------------------------- MODULE StoredRecords ---------------------------
(***************************************************************************)
(* The records the harness writes to disk and reads back: workflow states, *)
(* the artifacts of its stages, evaluation files, audit records, traces    *)
(* and configuration.  One schema per class, then the life of one record:  *)
(* saved, perhaps changed by hand or written by another version, loaded,   *)
(* saved and loaded again by a resumed run.                                *)
(***************************************************************************)
EXTENDS Payloads, SequencesExt

(***************************************************************************)
(* Workflow states (workflows/state.py).                                   *)
(***************************************************************************)
WorkflowStatus == {"pending", "running", "awaiting_approval", "completed",
                   "failed", "cancelled", "escalated"}
TaskRef == [task_id |-> Str, specification_artifact_id |-> Maybe]
StatusBlock == [state |-> Key(Word(WorkflowStatus)), current_stage |-> Str,
                termination_reason |-> Maybe]
PoliciesBlock == [termination_policy |-> Str, approval_policy |-> Str]
ArtifactsBlock ==
    [plan |-> Maybe, patches |-> Strs, validation_reports |-> Strs,
     review_findings |-> Strs, consolidated_review |-> Maybe,
     pull_request |-> Maybe]
WorkerInvocation ==
    [run_id |-> Str, worker_type |-> Str, stage |-> Str, status |-> Str]
BudgetsBlock ==
    [monetary_used |-> Number, token_used |-> Number,
     elapsed_seconds |-> Number, worker_count |-> Number, retry_count |-> Number]
ApprovalRecord == [action |-> Str, stage |-> Str, decision |-> Str]
FailureEvent == [stage |-> Str, reason |-> Str]
CheckpointsBlock == [latest |-> Maybe]

ListOf(schema) == Get(Each(Block(schema)), List(<<>>))
WorkflowState ==
    [schema_version |-> Get(Word({"1"}), NullValue),
     workflow_id |-> Str, workflow_type |-> Str, workflow_version |-> Str,
     task |-> Key(Block(TaskRef)), status |-> Key(Block(StatusBlock)),
     policies |-> Key(Block(PoliciesBlock)),
     artifacts |-> Key(Block(ArtifactsBlock)),
     workers |-> Key(Block([invocations |-> ListOf(WorkerInvocation)])),
     budgets |-> Key(Block(BudgetsBlock)),
     approvals |-> Key(Block([pending |-> ListOf(ApprovalRecord),
                              resolved |-> ListOf(ApprovalRecord)])),
     failures |-> Key(Block([events |-> ListOf(FailureEvent)])),
     checkpoints |-> Key(Block(CheckpointsBlock))]

(***************************************************************************)
(* The artifacts of the stages (workflows, workers, review).               *)
(***************************************************************************)
PlanArtifact ==
    [artifact_type |-> Derived, plan_id |-> Str, task_id |-> Str, goal |-> Str,
     assumptions |-> Strs, steps |-> Strs, validation_strategy |-> Strs,
     risks |-> Strs, expected_artifacts |-> Strs, stop_conditions |-> Strs]
TaskNode ==
    [worker_id |-> Str, description |-> Str, acceptance_criteria |-> Strs,
     owned_paths |-> Strs, depends_on |-> Strs,
     search_terms |-> OrNone(Get(Each(AText), NullValue))]
TaskGraph ==
    [artifact_type |-> Derived, task_id |-> Str, nodes |-> ListOf(TaskNode)]
ContextRequirements == [required |-> Strs, excluded |-> Strs]
WorkerContract ==
    [artifact_type |-> Derived, worker_type |-> Str, purpose |-> Str,
     input_schema |-> Strs, output_schema |-> Strs,
     context |-> Get(Block(ContextRequirements), Object(<<>>)),
     capabilities |-> Get(Block([allowed |-> Strs, prohibited |-> Strs]),
                          Object(<<>>)),
     model_policy |-> Str,
     limits |-> Get(Block([time_budget_seconds |-> Number,
                           cost_budget_usd |-> Number,
                           iteration_limit |-> Number]), Object(<<>>)),
     success_criteria |-> Strs, failure_criteria |-> Strs,
     escalation_conditions |-> Strs, trace_requirements |-> Str]
WorkerInvocationRecord ==
    [artifact_type |-> Derived, worker_invocation_id |-> Str,
     worker_type |-> Str, assigned_task |-> Str, model_configuration |-> Str,
     context_packet_id |-> Maybe, available_capabilities |-> Strs,
     status |-> Str, result |-> Maybe, cost |-> Number,
     duration_seconds |-> Number, parent_workflow |-> Str,
     parent_worker |-> Maybe]

FindingStatus == {"proposed", "accepted", "rejected", "duplicate", "fixed",
                  "unresolved", "escalated"}
FindingEvidence ==
    [files |-> Strs, lines |-> Strs, tests |-> Strs, reasoning |-> StrOr("")]
ReviewFinding ==
    [finding_id |-> Str, reviewer_type |-> Str, category |-> Str,
     severity |-> Str, confidence |-> Str, summary |-> Str,
     evidence |-> Get(Block(FindingEvidence), Object(<<>>)),
     impact |-> StrOr(""), recommended_action |-> StrOr(""),
     deduplication_key |-> Str,
     status |-> Get(Word(FindingStatus), Text("proposed"))]

(***************************************************************************)
(* Failures and recovery (reliability).                                    *)
(***************************************************************************)
FailureClassification ==
    [failure_class |-> Str, boundary |-> Str, retryable |-> Key(ATruth),
     detail |-> Str]
FailureRecord ==
    [artifact_type |-> Derived, workflow_id |-> Str, task_id |-> Str,
     stage |-> Str, attempt |-> Number,
     classification |-> Key(Block(FailureClassification)),
     description |-> Derived]
RetryMode == {"same-input retry", "revised-context retry", "replanning",
              "alternative model", "human escalation"}
RetryDecision ==
    [artifact_type |-> Derived, action |-> Str, mode |-> Key(Word(RetryMode)),
     failure_class |-> Str, boundary |-> Str, failed_attempt |-> Number,
     next_attempt |-> MaybeNumber, reason |-> Str,
     observed_attempt_cost_usd |-> MaybeNumber]
EscalationRequest ==
    [artifact_type |-> Derived, workflow_id |-> Str, task_id |-> Str,
     requested_action |-> Str, repository |-> Str, revision |-> Str,
     artifact |-> Str, risk_classification |-> Str, validation_status |-> Str,
     cost_impact_usd |-> Number, reason |-> Str, expiration_policy |-> Str,
     failure_history |-> StrsKey, evidence_artifacts |-> StrsKey,
     trace_files |-> StrsKey]
AbortedRunReport ==
    [artifact_type |-> Derived, workflow_id |-> Str, task_id |-> Str,
     terminal_stage |-> Str, termination_reason |-> Str,
     failure_events |-> Key(Each(Section(FailureEvent))),
     budgets |-> Key(Block(BudgetsBlock)), surviving_artifacts |-> StrsKey,
     unaccounted_attempt_cost_usd |-> MaybeNumber]
INJECTION_FAILURE_KINDS ==
    {"model_timeout", "provider_error_retryable", "provider_error_permanent"}
InjectionSpec ==
    [boundary |-> Get(Word({"model"}), Text("model")), at_call |-> Number,
     failure |-> Key(Word(INJECTION_FAILURE_KINDS))]

(***************************************************************************)
(* Evaluation files.                                                       *)
(***************************************************************************)
PARTITIONS == {"practice", "development", "held-out"}
\* Manifests are written by their authors; the harness only reads them.
TaskManifest ==
    [id |-> Str, title |-> Str, category |-> Str,
     partition |-> Key(Word(PARTITIONS)), modules |-> StrsKey, repository |-> Str,
     starting_revision |-> Str, description |-> Str,
     baseline_configuration |-> Str, hidden_validation |-> Str,
     visible_validation |-> Key(Each(Dict))]
DatasetDescriptor ==
    [dataset_id |-> Str, description |-> Str, task_ids |-> StrsKey,
     expected_partition |-> Key(Word(PARTITIONS))]
GraderResult ==
    [grader_id |-> Str, grader_version |-> Str, passed |-> OrNone(Key(ATruth)),
     exit_code |-> OrNone(Number), output |-> Str, infrastructure |-> Key(ATruth)]
EvalTask ==
    [task_id |-> Str, description |-> Str, grader_id |-> Str,
     validation_commands |-> Get(Each(Each(AText)), List(<<>>))]
EvalConfiguration ==
    [config_id |-> Str, baseline |-> Str, description |-> Str,
     prompt_template |-> StrOr("{description}")]
EVALUATION_MODES == {"scripted", "replay", "live"}
EvalMatrix ==
    [matrix_id |-> Str, mode |-> Key(Word(EVALUATION_MODES)),
     tasks |-> Key(Each(Section(EvalTask))),
     configurations |-> Key(Each(Section(EvalConfiguration))),
     repetitions |-> Number]
RUN_STATUSES == {"completed", "failed", "infrastructure"}
RunRecord ==
    [task_id |-> Str, config_id |-> Str, baseline |-> Str, repetition |-> Number,
     mode |-> Key(Word(EVALUATION_MODES)), status |-> Key(Word(RUN_STATUSES)),
     graded_pass |-> OrNone(Key(ATruth)), failure_class |-> OrNone(Str),
     grader_id |-> Str, grader_version |-> Str, cost_usd |-> Number,
     duration_seconds |-> Number, tool_calls |-> Number,
     patch_sha256 |-> OrNone(Str), trace_ref |-> Str]
RunRecords == [records |-> Key(Each(Section(RunRecord)))]

(***************************************************************************)
(* External actions, hardened configuration, traces and model messages.    *)
(***************************************************************************)
AUDIT_OUTCOMES == {"completed", "deduplicated", "rejected", "cancelled", "failed"}
ExternalActionAudit ==
    [artifact_type |-> Derived, artifact_id |-> Derived, action |-> Str,
     method |-> Str, path |-> Str, idempotency_key |-> Key(AsItIs),
     approved |-> Key(ATruth), outcome |-> Key(Word(AUDIT_OUTCOMES)),
     status |-> MaybeNumber, detail |-> StrOr("")]
PROTOCOL_OPTIONS == {"direct_function_call", "local_process", "rest_api", "mcp",
                     "agent_to_agent"}
LOCAL_PROTOCOL_OPTIONS == {"direct_function_call", "local_process"}
PROTOCOL_JUSTIFICATIONS ==
    {"process_isolation", "independent_deployment", "external_ownership",
     "technology_boundary", "ecosystem_interoperability",
     "reusable_capability_discovery"}
ProtocolDecisionRecord ==
    [artifact_type |-> Derived, capability |-> Str,
     chosen |-> Key(Word(PROTOCOL_OPTIONS)),
     justifications |-> Get(Each(Word(PROTOCOL_JUSTIFICATIONS)), List(<<>>)),
     rejected_alternatives |-> Get(Each(Word(PROTOCOL_OPTIONS)), List(<<>>)),
     rationale |-> StrOr("")]

AuditRetention ==
    [max_age_days |-> Number, retained_event_types |-> Key(Each(AsItIs))]
Capabilities ==
    <<"class-0-observation", "class-1-local-reversible",
      "class-2-local-consequential", "class-3-external-reversible",
      "class-4-external-consequential", "class-5-prohibited">>
CapabilityClass == ToSet(Capabilities)
RepoClassification == {"trusted-internal", "untrusted-external"}
MatrixDecision == {"allow", "approve", "deny"}
MatrixRow ==
    [capability |-> Key(Word(CapabilityClass)),
     repo |-> Key(Word(RepoClassification)),
     decision |-> Key(Word(MatrixDecision)), audit_required |-> Key(ATruth)]
HardenedConfig ==
    [repository_classification |-> Key(Entries(Word(RepoClassification))),
     policy_matrix |-> Key(Each(Section(MatrixRow))),
     network_policy |-> Key(Section(
         [default |-> Str,
          allow_destinations |-> Get(Each(AsItIs), List(<<>>))])),
     credential_scopes |-> Key(Entries(Each(AsItIs))),
     env_allowlist |-> Key(Each(AsItIs)),
     capability_shutdown |-> Key(Section(
         [disabled |-> Get(Each(AsItIs), List(<<>>))])),
     audit_retention |-> Key(Section(AuditRetention))]

\* The default matrix: what each class of action needs in each repository.
DefaultDecision(capability, repo) ==
    LET untrusted == repo = "untrusted-external"
    IN CASE capability = "class-0-observation" -> "allow"
         [] capability = "class-1-local-reversible" ->
              IF untrusted THEN "approve" ELSE "allow"
         [] capability = "class-2-local-consequential" ->
              IF untrusted THEN "deny" ELSE "approve"
         [] capability = "class-3-external-reversible" -> "approve"
         [] OTHER -> "deny"
DefaultMatrix ==
    LET Row(c, r) == Object([capability |-> Text(c), repo |-> Text(r),
                             decision |-> Text(DefaultDecision(c, r)),
                             audit_required |-> Flag(c # "class-0-observation")])
        Rows(r) == [i \in DOMAIN Capabilities |-> Row(Capabilities[i], r)]
    IN Rows("trusted-internal") \o Rows("untrusted-external")

REPO_REGISTRY ==
    [bookit |-> "trusted-internal", bookit_platform |-> "trusted-internal",
     minefield |-> "untrusted-external"]
ClassifyRepo(name) ==
    IF name \in DOMAIN REPO_REGISTRY THEN REPO_REGISTRY[name] ELSE "untrusted-external"

\* security/capabilities.py:64-66, "an unregistered target can never be handled
\* more permissively than a known trusted one": no repository without an entry
\* gets a milder decision than one with an entry; the ranks are DECISION_RANK's.
DECISION_RANK == [allow |-> 0, approve |-> 1, deny |-> 2]
NeverMilder(name) ==
    \A c \in CapabilityClass, known \in DOMAIN REPO_REGISTRY :
        DECISION_RANK[DefaultDecision(c, ClassifyRepo(known))]
            <= DECISION_RANK[DefaultDecision(c, ClassifyRepo(name))]
ASSUME DefaultMatrixIsMonotone == NeverMilder("unregistered")

DefaultHardenedConfig ==
    LET Texts(words) == List([i \in DOMAIN words |-> Text(words[i])])
    IN Object(
        [repository_classification |->
             Object([name \in DOMAIN REPO_REGISTRY |-> Text(REPO_REGISTRY[name])]),
         policy_matrix |-> List(DefaultMatrix),
         network_policy |-> Object([default |-> Text("deny"),
                                    allow_destinations |-> List(<<>>)]),
         credential_scopes |->
             Object([github |-> Texts(<<"repo:status", "pull_request:write">>)]),
         env_allowlist |-> Texts(<<"GOCACHE", "GOPATH", "HOME", "LANG", "PATH">>),
         capability_shutdown |-> Object([disabled |->
             Texts(<<"class-3-external-reversible", "class-4-external-consequential">>)]),
         audit_retention |-> Object([max_age_days |-> Num(90), retained_event_types |->
             Texts(<<"policy_evaluated", "approval_resolved", "escalation_created">>)])])

EVENT_TYPES ==
    {"run_started", "run_completed", "run_failed", "model_requested",
     "model_responded", "model_failed", "context_packet_created",
     "tool_requested", "policy_evaluated", "approval_requested",
     "approval_resolved", "tool_completed", "tool_failed",
     "state_transitioned", "worker_started", "worker_completed",
     "worker_failed", "validation_started", "validation_completed",
     "checkpoint_created", "retry_scheduled", "escalation_created",
     "budget_updated", "budget_exhausted", "artifact_created"}
SENSITIVITY_LEVELS == {"public", "sensitive"}
TraceEvent ==
    [timestamp |-> Str, event_id |-> Str, run_id |-> Str, workflow_id |-> Str,
     component |-> Str, event_type |-> Key(Word(EVENT_TYPES)), status |-> Str,
     parent_event_id |-> Maybe, payload |-> Get(Dict, Object(<<>>)),
     sensitivity |-> Get(Word(SENSITIVITY_LEVELS), Text("public")),
     sensitive_keys |-> Get(Each(AsItIs), List(<<>>))]

ToolCall == [id |-> Str, name |-> Str, arguments |-> Get(Dict, Object(<<>>))]
ToolCalls == Get(Each(Section(ToolCall)), List(<<>>))
Message ==
    [role |-> Key(TextOf(<<"assistant", "tool">>)), content |-> Str, tool_call_id |-> Spare(Maybe),
     tool_calls |-> Spare(ToolCalls)]
ModelResponse ==
    [text |-> StrOr(""), tool_calls |-> ToolCalls, structured_output |-> Maybe,
     usage |-> Get(Section([input_tokens |-> Get(ANumber, Num(0)),
                            output_tokens |-> Get(ANumber, Num(0))]),
                   Object(<<>>)),
     stop_reason |-> StrOr("end_turn")]
ScriptStep ==
    [response |-> Key(Section(ModelResponse)), expect_substring |-> Maybe]

(***************************************************************************)
(* The classes by name, and what their constructors check beyond the types *)
(* of their fields (for a protocol decision: what from_payload validates). *)
(***************************************************************************)
Schemas ==
    [WorkflowState |-> WorkflowState, PlanArtifact |-> PlanArtifact,
     TaskGraph |-> TaskGraph, WorkerContract |-> WorkerContract,
     WorkerInvocationRecord |-> WorkerInvocationRecord,
     ReviewFinding |-> ReviewFinding, FailureRecord |-> FailureRecord,
     RetryDecision |-> RetryDecision, EscalationRequest |-> EscalationRequest,
     AbortedRunReport |-> AbortedRunReport, InjectionSpec |-> InjectionSpec,
     TaskManifest |-> TaskManifest,
     DatasetDescriptor |-> DatasetDescriptor, GraderResult |-> GraderResult,
     EvalMatrix |-> EvalMatrix, RunRecords |-> RunRecords,
     ExternalActionAudit |-> ExternalActionAudit,
     ProtocolDecisionRecord |-> ProtocolDecisionRecord,
     HardenedConfig |-> HardenedConfig, TraceEvent |-> TraceEvent,
     Message |-> Message, ScriptStep |-> ScriptStep]

Sound(class, object) ==
    LET f == object[2]
        At(k) == f[k][2]
    IN CASE class = "InjectionSpec" -> At("at_call") >= 1
         [] class = "DatasetDescriptor" ->
              /\ At("task_ids") # <<>>
              /\ \A i, j \in DOMAIN At("task_ids") :
                    At("task_ids")[i] = At("task_ids")[j] => i = j
         [] class = "GraderResult" ->
              At("infrastructure") = (f["passed"] = NullValue)
         [] class = "EvalMatrix" ->
              /\ At("repetitions") >= 1
              /\ At("tasks") # <<>> /\ At("configurations") # <<>>
         [] class = "ProtocolDecisionRecord" ->
              /\ At("rationale") # ""
              /\ (At("chosen") \in LOCAL_PROTOCOL_OPTIONS \/ At("justifications") # <<>>)
         [] class = "Message" ->
              At("tool_calls") = <<>> \/ At("role") = "assistant"
         [] OTHER -> TRUE

Read(class, file) ==
    LET object == Decode(Schemas[class], file)
    IN IF object = Refused \/ ~ Sound(class, object) THEN Refused ELSE object

(***************************************************************************)
(* Any program's objects and anybody's files.                              *)
(***************************************************************************)
CONSTANTS
    Objects,  \* of each class, the objects a program can have built
    Files     \* of each class, the files its loader can be given

ASSUME SchemasFit == \A c \in DOMAIN Schemas : Fits(Schemas[c])
ASSUME ObjectsAreBuilt ==
    \A c \in DOMAIN Schemas : \A o \in Objects[c] :
        IsObject(Schemas[c], o) /\ Sound(c, o)

(***************************************************************************)
(* The life of one record.                                                 *)
(***************************************************************************)
VARIABLES
    class,    \* which class
    object,   \* in memory, Refused when there is none or a load raised
    saved,    \* the object this program last wrote, Refused when none
    disk,     \* the file
    stage,    \* "built", "saved", "edited", "loaded", "salvaged" from an edit
    loads     \* how often it was loaded

vars == <<class, object, saved, disk, stage, loads>>

Init ==
    /\ class \in DOMAIN Schemas
    /\ object \in Objects[class]
    /\ saved = object
    /\ disk = NullValue
    /\ stage = "built"
    /\ loads = 0

\* to_payload, json.dumps, write_text
Save ==
    /\ stage \in {"built", "loaded", "salvaged"}
    /\ object # Refused
    /\ loads < 2
    /\ disk' = Encode(Schemas[class], object)
    /\ saved' = object
    /\ stage' = "saved"
    /\ UNCHANGED <<class, object, loads>>

\* The next process finds a file changed by hand, or by another version of the
\* course; of the one that wrote it nothing is left.
Edit ==
    /\ stage = "saved"
    /\ loads = 0
    /\ disk' \in Files[class]
    /\ object' = Refused
    /\ saved' = Refused
    /\ stage' = "edited"
    /\ UNCHANGED <<class, loads>>

\* read_text, json.loads, from_payload
Load ==
    /\ stage \in {"saved", "edited"}
    /\ object' = Read(class, disk)
    /\ stage' = IF stage = "saved" THEN "loaded" ELSE "salvaged"
    /\ loads' = loads + 1
    /\ UNCHANGED <<class, saved, disk>>

Next == Save \/ Edit \/ Load
Spec == Init /\ [][Next]_vars

(***************************************************************************)
(* Properties                                                              *)
(***************************************************************************)
\* What the program wrote and nobody changed is read as it was written: no
\* class loses a field, a None or an empty list on the way through the file,
\* and what a load made of a changed file is stable from then on.
RoundTrip == stage = "loaded" => object = saved

\* Whatever the file held, what was loaded has the types its class declares
\* and passes its constructor's checks; every other file is refused.  The
\* fields copied as they are (data.get without a conversion) are exempt.
TypesHonoured ==
    stage \in {"loaded", "salvaged"} /\ object # Refused =>
        IsObject(Schemas[class], object) /\ Sound(class, object)
=============================================================================
