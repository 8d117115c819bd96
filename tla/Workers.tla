-------------------------------- MODULE Workers --------------------------------
(***************************************************************************)
(* The workers of a workflow: the tools there are, the registries they are *)
(* given, the contracts that say what they may hold, and the names under   *)
(* which their artifacts and traces are kept.  A name is the sequence of   *)
(* the pieces it is put together from.                                     *)
(***************************************************************************)
EXTENDS Naturals, Sequences, SequencesExt, TLC

(***************************************************************************)
(* Tools and registries.                                                   *)
(***************************************************************************)
SideEffectClass ==
    [list_files |-> 0, search_text |-> 0, read_file |-> 0,
     inspect_git_status |-> 0, run_read_only_command |-> 0, inspect_diff |-> 0,
     create_file |-> 1, replace_text |-> 1, run_validation_command |-> 1,
     delete_file |-> 2]

BuildInvestigationRegistry ==
    <<"list_files", "search_text", "read_file", "inspect_git_status",
      "run_read_only_command">>

BuildImplementationRegistry ==
    <<"list_files", "search_text", "read_file", "inspect_git_status",
      "create_file", "replace_text", "delete_file", "inspect_diff",
      "run_validation_command">>

(***************************************************************************)
(* Contracts.                                                              *)
(***************************************************************************)
READ_ONLY_CAPABILITIES ==
    <<"list_files", "search_text", "read_file", "inspect_git_status",
      "run_read_only_command">>

WRITE_CAPABILITIES ==
    <<"list_files", "search_text", "read_file", "inspect_git_status",
      "create_file", "replace_text", "delete_file", "inspect_diff",
      "run_validation_command">>

WRITE_ONLY_CAPABILITIES ==
    SelectSeq(WRITE_CAPABILITIES,
              LAMBDA name : name \notin ToSet(READ_ONLY_CAPABILITIES))

MayWrite == [allowed |-> ToSet(WRITE_CAPABILITIES),
             prohibited |-> {"merge", "push", "create_pull_request"}]
ImplementerContract == MayWrite
FixWorkerContract == MayWrite

\* A faulty contract for the mutant check: a reviewer that runs the tests.
ReviewerContractRunning ==
    [allowed |-> ToSet(READ_ONLY_CAPABILITIES) \cup {"run_validation_command"},
     prohibited |-> ToSet(WRITE_ONLY_CAPABILITIES) \ {"run_validation_command"}]

ReviewerContract ==
    [allowed |-> ToSet(READ_ONLY_CAPABILITIES),
     prohibited |-> ToSet(WRITE_ONLY_CAPABILITIES)]

\* Whether a tool may change the worktree it runs in.
Writes(tool) == SideEffectClass[tool] >= 1

(***************************************************************************)
(* Names of artifacts and of trace files.  What is kept is a record of its *)
(* kind, the worker it is of and its number; task is the task's id.        *)
(***************************************************************************)
Invocation(worker, during, n) ==
    [kind |-> "invocation", worker |-> worker, stage |-> during, n |-> n]
Artifact(kind, worker, n) ==
    [kind |-> kind, worker |-> worker, stage |-> "", n |-> n]

Dashed(name, piece) == name \o <<"-">> \o piece

\* An id as it is in the name of a file.
Stem(worker) == [i \in DOMAIN worker |-> IF worker[i] = "-" THEN "_" ELSE worker[i]]
RoundOf(attempt) == <<"_", "round", "_", ToString(attempt)>>

\* A faulty name for the mutant check: every round under one name.
WorkerTraceFilenameOnce(worker, attempt) == Stem(worker) \o <<".jsonl">>

WorkerTraceFilename(worker, attempt) ==
    (IF attempt = 1 THEN Stem(worker) ELSE Stem(worker) \o RoundOf(attempt))
        \o <<".jsonl">>

\* The artifacts of the engine are of no worker, and their ids say so.
Name(task, a) ==
    LET n == <<ToString(a.n)>>
        Of(prefix) == Dashed(prefix, task)
        By(prefix, worker) ==
            Dashed(IF worker = <<>> THEN Of(prefix) ELSE Dashed(Of(prefix), worker), n)
    IN CASE a.kind = "task_spec" -> Of(<<"task", "-", "spec">>)
         [] a.kind = "task_graph" -> Of(<<"task", "-", "graph">>)
         [] a.kind = "patch" -> By(<<"patch">>, a.worker)
         [] a.kind = "validation" -> By(<<"validation">>, a.worker)
         [] a.kind = "invocation" ->
              Dashed(Dashed(Dashed(<<"invocation">>, a.worker), <<a.stage>>), n)
         [] a.kind = "investigation" -> Of(<<"investigation">>)
         [] a.kind = "plan" -> Of(<<"plan">>)
         [] a.kind = "integration" -> By(<<"integration">>, <<>>)
         [] a.kind = "integrated_validation" -> By(<<"validation">>, <<"integrated">>)
         [] a.kind = "findings" -> By(<<"findings">>, a.worker)
         [] a.kind = "consolidated_review" ->
              By(<<"consolidated", "-", "review">>, <<>>)
         [] a.kind = "termination_report" -> Of(<<"termination", "-", "report">>)
         [] a.kind = "result" -> Of(<<"result">>)
         [] a.kind = "trace" -> WorkerTraceFilename(a.worker, a.n)
=============================================================================
