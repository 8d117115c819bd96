# A verification project for ai-native-sweng

TLA+ specifications of the two programs of this repository, their TLC
configurations and TLAPS proofs:

- **coursectl** (Go, `src/coursectl/`), the course's control utility. It clones
  the target repositories a student works in and resets them to the revision a
  module or a lab pins, without losing the student's reports and traces.
- **anse_harness** (Python, `src/src/anse_harness/`), the harness a student
  builds: models, tools, workflows, traces, evaluation, integrations.

Large parts of the Python package are a scaffold: a method that a student
implements in a later module raises `NotImplementedError`, with the contract as
its message, and the reference implementation is kept elsewhere
(`docs/checkpoints.md`). Only code that is there is modelled. Where the modelled
code is called by code that is not there, the caller is an environment, limited
to what the committed recordings under `traces/` and the tests show it does.

Paths below are relative to the repository.

## 1. The system

| Component | State | Operations | Modelled in |
|---|---|---|---|
| coursectl: target clones (`target.go`, `cli.go`, `checkpoints.go`) | clones under `workspace/`, archives under `workspace/.archive/` | `setup`, `reset`, `start-lab` | `Checkpoints`, `TargetClone`, `StudentWork` |
| coursectl: doctor, validate, status, model configuration | none (reads files and the PATH) | `ValidateModelConfig`; `doctor`, `validate`, `status` | `ModelCalls` (the first only) |
| tracing (`tracing/`) | the JSONL trace file | `TraceWriter.write`, `read_trace`, the recorders | `RunTrace` |
| model modes (`models/scripted.py`, `replay.py`) | position in the script or recording | `complete` | `RunTrace` |
| live adapters, configuration (`models/live_*.py`, `factory.py`) | the conversation, with its caller | `load_model_config`, `create_adapter`, `complete` | `ModelCalls` |
| stored records (`workflows/state.py` and every `to_payload`/`from_payload`) | a file | save, load | `Payloads`, `StoredRecords`, `RecordSamples` |
| workflow engine (`workflows/engine.py`) | stage, artifacts | transition table, registries, names, recorder; `run`, `resume`, `cancel` are stubs | `WorkflowStages`, `Delivery`, `RunTrace` |
| multi-worker orchestrator (`workflows/orchestrator.py`, `workers/`) | stage, round, artifacts | transition table, contracts, names; `run` is a stub | `WorkflowStages`, `Workers`, `Delivery` |
| patches (`workflows/integration.py`) | an integration worktree | `apply_patch`, `staged_diff`, `unmerged_paths`, `changed_paths`; `integrate_patches` is a stub | `Patches` |
| review (`review/findings.py`) | - | `findings_from_text`, `conclusion_from_text`; consolidation is a stub | `ReviewText`, `Delivery` |
| evaluation (`evaluation/`) | two clones, a worktree, a verdict | `fresh_clone`, `write_task_executor`, `CommandGrader`; `EvaluationRunner.run`, metrics and reports are stubs | `Evaluation` |
| reliability (`reliability/`) | - | records, `injection_error`; the controller and the breaker are stubs | `StoredRecords`, `RunTrace`, `ModelCalls` |
| MCP client and server (`integrations/mcp_client.py`, `tools/mcp_repo_server.py`) | two pipes, the last request id, the trace | `handle`, `main`, `gated_tools_call`, `close` | `McpSession` |
| GitHub integration (`integrations/github.py`, `local_double.py`) | pull requests | both `send`, `draft_pr_from_workflow_result`; the adapter's operations are stubs | `PullRequestLedger`, `PullRequests`, `Delivery` |
| security (`security/`) | a configuration file | the default matrix and configuration; the checks are stubs | `StoredRecords` |
| agent loops, sandbox, tools, policy, approvals, budgets | - | stubs | no |

How they interact. coursectl runs `git` and `go` as child processes, and shares
the clones with other coursectl processes, with the student and with the harness
(which links worktrees of a clone and writes reports and traces). Nothing is
locked: every process reads the file system, decides, and acts later. Inside the
harness the workflow engine owns one `TraceWriter`; every inner loop writes
through a `StageTraceWriter` view of it; a `ReplayAdapter` reads the file later,
or while it still grows, in place of a model.

A workflow moves from stage to stage; in a stage, workers hold the tools of their
contract, change or judge the patch, talk to a model through an adapter and keep
artifacts and traces under computed names; patches of several workers meet in one
worktree; the result of a completed workflow becomes a draft pull request. Every
record on the way is saved and may be read by a later process. An evaluation runs
all of this in a clone, and grades the patch in another.

What is hard:

- *coursectl*: a destructive step (`git clean --force -d`) follows a protective
  one (moving reports and traces away) with a dozen external commands in
  between, any of which can fail or be killed; commands overlap; archives are
  named with the resolution of a second; a later command starts from whatever
  an earlier one left.
- *MCP*: two processes that share nothing but two pipes without framing other than
  lines; replies are matched by position alone; the server can die of a request.
- *traces*: several recorders that all count from zero share one file; the
  process can die over a line; a second process can append; the replay must
  pair what was recorded and refuse everything else.
- *workflows*: a table with loops, and tool lists written down three times, must
  together keep a patch from changing after it was judged.
- *external actions*: a lost reply, a retry and a repeated key, in any order.
- *patches*: a diff is captured as text, and applied again after a conflict.
- *evaluation*: runs repeat at the same paths, after kills and after people.
- *records*: two hand-written directions for each of two dozen classes.
- *wire formats*: parallel results merged into one turn by two different rules.

PROJECT.json lists the hazards line by line.

Correctness, per component:

- *clones*: work is never lost except by the student, and a success that a
  command reports is true of the clone.
- *checkpoint map*: each repository is cloned at its lowest module's revision.
- *traces*: identifiers are unique in a run's file; reading gives back what
  happened, or an error.
- *replay*: an answer only to the request that got it, in order.
- *MCP*: a reply answers its own request; no consequential call without an
  approval; the trace tells how a call ended.
- *workflows*: a result only from a patch that went through every gate as it
  stands; an end is final; every workflow ends or is fixed for ever.
- *external actions*: a number a client was told is true, and one key opens one
  pull request at the double.
- *patches*: what was captured comes back after a rollback; no conflict without an
  overlap of paths.
- *evaluation*: a verdict is the grader's, on what the attempt made; no worktree
  stays without a reason.
- *records*: a round trip loses nothing; a load gives the declared types or refuses.
- *model calls*: what is said reaches the model whole and in order; setup accepts
  the configurations the harness accepts.

## 2. Modules

### StudentWork - what coursectl promises

The abstract specification: each file a student writes is unwritten, in the
clone, in the archive, lost or discarded. A command may archive (`Preserve`) or
lose (`Lose`) files, but lose only those that were written while a command ran
(`exposed`). Forty lines, no commands, no git.

### Checkpoints - the map

`configs/checkpoints.json` as `LoadCheckpoints` and `TargetRepos` read it: a
function from module numbers to a repository and a revision; the repositories
in order of name, each at its lowest module's revision.

### TargetClone - the commands

One action per external command and per directory operation, for any number of
processes:

| Code | Actions |
|---|---|
| `runReset`, `runStartLab`, `runSetup` up to their first call | `BeginReset`, `BeginLab`, `BeginSetup` |
| `Manager.Archive` (reports, then traces) | `ArchiveRead`, `ArchiveMove` |
| `Manager.removeWorktrees` | `WorktreeList`, `WorktreeRemove`, `WorktreePrune` |
| `Manager.Restore`, `checkoutRevision` | `Restore`, `HasCommit`, `Fetch`, `FetchFails`, `Recheck`, `Checkout`, `HardReset`, `Clean` |
| steps 7 and 8 of `Manager.Reset` | `Verify`, `HealthCheck` |
| `Manager.Clone` | `CloneCheck`, `GitClone`, then as `checkoutRevision` |
| a command that fails or is killed (`execRunner`, Ctrl-C) | `Interrupt`, with `HalfCloned`, `HalfCheckedOut`, `HalfCleaned` for what a killed git leaves |
| the student | `Write`, `Edit`, `MoveHead`, `AddTree`, `DeleteClone`, `Unlock`, `UnlockTree` |
| upstream, the clock | `Publish`, `Tick` |

Per repository the state is: whether there is a `.git` entry (`present`, all
that `Exists` looks at), HEAD, the local objects, a stale `index.lock`, what
kinds of files differ from the commit, the linked worktrees. Per file: where it
is and under which second it was archived. Per process: the step it is at and
its local variables (`now` is the archive name computed before the rename,
`wts` the list of worktrees read before they are removed, `todo` the rest of
setup's loop). `fresh` and `meddled` are history variables: what was written
since a command began, and whether anybody else touched the clones before or
after it verified HEAD. No action of the code depends on them.

`git clean` removes untracked files, `reports/` and `traces/` with them (that is
why they are archived first), and leaves ignored ones. `os.Rename` onto an
existing directory fails unless that one is empty, and archives are never empty.

`Write` is enabled only before the last tick of the bounded clock. Without that
a student could write in the last second there is, and a retry in a fresh second
- which real time always grants - would not exist in the model.

### RunTrace - record and replay

The file is a sequence of lines, events or `Bad`, and whether the last one lacks
its newline. `Write` is `TraceWriter.write`: one flushed line, or the death of
the process with nothing, a part of the line or all of it but the newline in the
file; what is appended to such a line makes it `Bad`. `Open` is a new process
(an engine, or a loop that writes to the file directly) that appends and counts
from zero; `BeginStage` is a stage's view, which puts the stage's run id before
`event_id` and `parent_event_id`. `Ask`, `Answer` and `CallFails` are a model
call, answered by a `ScriptedAdapter` that stays where it is when it raises.
`Load` is `ReplayAdapter.__init__` at any moment, also while the file grows;
`Complete` asks it for any request at all. `answered` and `served` are history.

The stages' loops and the engine's own stages are stubs here: the order of their
events (one request, then its answer or its failure; stages one after another,
each with its own run id) is taken from `traces/m05` and `traces/m06`.

### McpSession - a client, a server, two pipes

The pipes are bounded sequences. The server (`Handle`) takes a line at a time:
`initialize`, `tools/list` and a good `tools/call` succeed, an unknown tool, a
missing argument and an unknown method get an error, the initialized notification
gets nothing, and a query that is not a string raises out of `main`: the server
dies. It can also be killed at any moment (`Killed`), over half a reply too. The
client's `_rpc` is a stub; `Request` and `Notify` follow its docstring and tests.
`gated_tools_call` is four actions: `BeginCall` up to the question to the gate,
`Decide` (any of the approval outcomes), `SendCall`, `ReadReply`; a write to a
dead server and a read from one raise, and end the call without another event.

### Payloads and StoredRecords - what is written and read back

`Payloads` is JSON as the records use it (null, text, number, flag, list, object)
and the conversions of the `from_payload` methods as *field schemas*: `Str` is
`str(data[k])`, `Maybe` a value or null, `Word(S)` an enumeration, `Get` a key with
a default, `Block`, `Each`, `Entries` what they contain. Conversions do what Python
does: `str` turns null into the text None, `bool` takes every text but the empty
one for true, `int` refuses a text that is no number. A schema is read in two ways:
`Decode` (load) and `Encode` (save), and `IsObject` is the type it declares. All
three are unrolled by level (`Convert0` to `Convert5`, `Write0` to `Write5`, `IsA0`
to `IsA5`): the deepest class has five levels of blocks and lists, `Fits` says that a
schema has no more, and what a schema of one level does with the values inside it is
stated once (`Converted`, `Written`, `Shaped`).

`StoredRecords` has one schema per class and the life of one record: built,
saved, loaded, saved and loaded again, or found as any other file by a process
that has nothing else (`Edit`). Which objects a program builds and which files a
loader meets are the constants `Objects` and `Files`. The default policy matrix and
the default hardened configuration are data of the same form. `NeverMilder` is the
sentence of `capabilities.py` that no unregistered repository is treated more mildly
than a registered one; TLC evaluates it for one name, the proof has it for all.

### ModelCalls - a configuration, an adapter, a conversation

`ValidateModelConfig` (coursectl's line scanner) and `LoadModelConfig` with
`CreateAdapter` (the harness) judge the same record of what a file holds: quotes,
repeated keys, mode, model, provider, the file the mode needs, the SDK. `Say`,
`Answer`, `Complete`, `Fail` and `Inject` grow a conversation as the `Message` type
allows it, with parallel calls. What is said is the place it was said at, and the
id of a call is the place of its message and its own place in it: a provider gives
no id twice. `SplitMessages`, `ToWire` and `ToContents` are the three wire formats;
the first and the last are loops over the messages, written as recursive functions of
the number of messages read, so that the proofs can speak of one message more.

### WorkflowStages, Workers, ReviewText, PullRequests, Delivery

`WorkflowStages` has both transition tables as sets of pairs; `Move` takes any
allowed one, and `passed` records which stages a workflow has behind it, forgetting
judgements when the patch may have changed. `Workers` has the registries, the
capability lists and contracts, and the names of artifacts and traces, composed as
the f-strings of the code compose them (`Stem`, the round, the worker's id behind a
dash), so that two different things can get one name. `ReviewText` reads a
reviewer's answer line by line, with the result of the first n lines a function of n.
`PullRequests` is both transports: the double's
timeout, deduplication, refusal and creation in their order, and the live one,
where a request that was lost may have been carried out; `PullRequestLedger` is what
the double promises. `Delivery` composes them: `Work` (a worker uses any tool it
holds), `Report` (a reviewer writes any lines), `Advance` (a stage ends and keeps
what it made), `Package` (`draft_pr_from_workflow_result` and the send), `Outside`
and `Lever` (other clients, and the test lever `raise_timeout`).

### Patches and Evaluation

A file has two places that can be edited apart and a form: LF, CRLF, or bytes that
are no UTF-8. A patch maps paths to what was there and what is now. `Capture` reads
git's output as text, as `staged_diff` does; `ChangedPaths` reads headers, which git
does not write for an empty file or a pure move. `Evaluation` adds the two clones
(missing, half made, or with a tree), the sandbox that must not exist twice, the
executor's `try`/`finally` (`CreateSandbox`, `Work`, `Attempt`, `Destroy`), the
grader with its exit codes, and `Kill`, `TidyUp`, `Meddle` around them. `Work` is any
step of `Patches`; `made` and `left` are history.

### MC modules

`MCTargetClone`, `MCRunTrace`, `MCMcpSession`, `MCDelivery` and `MCEvaluation` define
the checkpoint maps, scripts, tools, worker names, review lines and trees the
configurations use. `MCStoredRecords` gives every class its objects and files, which
`RecordSamples` builds from the schemas: an `Example` of each, those one field away
from it (`Near`), and the files after one edit of a hand (`HandWritten`).
`ModelCalls` needs none.

## 3. Runs

| Run | Question | Instance |
|---|---|---|
| `clone_work` | Is student work only ever archived, whatever commands, faults and timing? `WorkKept` (refinement of `StudentWork`), `CustodyInv`, `ArchivesSealed` | 2 processes, all commands, 2 reports in one directory, 2 seconds, 1 fault |
| `clone_ready` | Is the success of a reset or start-lab true? `ResetRestores`, `LabRestores`, and again `WorkKept` | 1 process, a report and a trace, 1 worktree, 2 revisions, 1 fault, 2 student moves |
| `clone_pair` | Is the success of a setup or a reset true with another process at work? `SetupClones`, `ResetVerified` | 2 processes, setup and reset, 2 repositories, 2 revisions, 1 fault |
| `clone_retry` | Do retries get there? `RetrySucceeds` | 1 process, 1 fault, 1 student move, fairness |
| `trace_replay` | Does a file read back as what happened, and is it served so? | 1 session, 2 stages, 2 requests, 2 answers, 6 lines |
| `mcp_session` | Do replies line up, are unapproved calls held back, does the trace tell, does every request end? | 3 messages, a class 0 and a class 3 tool, 3 approval outcomes, 2 lines a pipe |
| `stored` | Does every record class survive save and load, and edits? `RoundTrip`, `TypesHonoured` | all classes, one field away from an example, one edit |
| `model_calls` | Do setup and harness agree, and does a conversation reach each provider whole? `ConfigAgreement`, `WireKeepsConversation`, `ResultsTogether` | every configuration, conversations of 5 messages, 2 tools, 2 calls a turn |
| `delivery` | Does only a validated, reviewed patch get out, once, and does every workflow end? `CompletedIsReviewed`, `DeliveredIsReviewed`, `AnswersReadWhole`, `ArtifactsKept`, `AnswersHold`, `TerminalForever`, `EndsOrFixes`, `OpensOnce` | a workflow of each kind, 2 patch versions, 2 rounds, answers of 2 lines of 8 kinds, 2 requests, both transports |
| `evaluation` | Is a verdict the grader's on what was made? `GradesStand`, `SandboxesGo`, `OverlapsSeen`, `RecoveryKeeps` | 2 runs, 3 files, 8 edited trees, 2 patches |
| `trace_reuse`, `patch_endings` | Two statements of the code's own comments that it does not keep | see section 5 |

Bounds, and why they are enough:

- `MaxClock = 1`: two seconds, so two archives can share one or not. Names
  collide only within a second; a third adds no case.
- `MaxFaults = 1`: one failure per behaviour, at any step, and the commands after
  it start from what it left. A second failure starts from a state the first
  could leave too.
- `MaxStudent`: two moves combine any two disturbances (a locked worktree and a
  moved HEAD, a deleted clone and an edit).
- Two processes suffice for every pairwise race; properties are about one command
  and the rest of the world. `SYMMETRY` is used only where no liveness is checked
  and the processes are interchangeable.
- `MaxLines = 6`: an engine call and one in each of two stages, or three calls in
  a row with one that fails.
- `MaxSends = 3` (`mcp_session`): a notification or a request, one more, and the
  call whose reply would be the wrong one.
- `stored`: conversions look at one field at a time, so one field away from an
  example reaches every branch of a schema.
- `MaxMessages = 5` and `MaxCalls = 2`: a request, two parallel calls, their results
  with an instruction in between; or two rounds of a call and its result.
- `delivery`: two versions of a patch tell a judged one from a changed one; two
  rounds show a name used again; two requests are an action and its retry, or two
  clients; a first line and a last one are all a reader tells apart. The models of
  `MaxPatches` and `MaxRounds` stop counting at the bound; the workflow does not
  stop, so the fix loop is infinite as in the tables.
- `evaluation`: the second run starts from whatever the first left; two patches
  are one that applies and one that conflicts.

`trace_replay`, `mcp_session`, `delivery` and `evaluation` set
`CHECK_DEADLOCK FALSE`: a session that is over, a client that is closed, a workflow
that ended with its requests sent and a matrix that was run are ends, as `stored`
and `model_calls` set it for a record read twice and a conversation at its bound.

Fairness. In `clone_retry`: weak fairness of `Step(p)`: a command that runs
goes on, since its children end or are killed by its context. Strong fairness of
`BeginReset` and `BeginSetup`: the student tries again. Weak fairness of
`Unlock`, `UnlockTree` and `Publish`: a stale lock is removed and a worktree
unlocked, as git's message asks, and the pinned commits are upstream. None of
`Interrupt`, of the student's other moves or of the clock is fair. In
`mcp_session`: weak fairness of `Handle` and `ReadReply`, two processes that are
scheduled; a server need not die for a request to end.

## 4. Proofs

Eight modules hold the proofs, one per component. Each theorem is of the form
`Spec => []P` (or an action property, or a refinement) and holds for every value of
the constants; the assumptions on them are named, stand in the module that declares
them, and say only what shape the constants have. The bounds may be any natural
numbers.

### Target clones

`TargetCloneProofs`, for any set of processes, repositories, revisions, files and
worktrees and any checkpoint map, from `CheckpointAssumption`, `RankAssumption` and
`CloneAssumption` (an entry of the map names a repository and a revision, as
`LoadCheckpoints` ensures; names are distinct).

- `TypeCorrect`: `Spec => []TypeOK`.
- `CustodyHolds`: `Spec => []CustodyInv`. The promise about work is not
  inductive by itself: that `Clean` loses nothing but fresh files depends on what
  happened many steps before. `CustodyInv` is what carries it: *past the step
  that deals with a directory, a command finds only fresh files in it*
  (`ArchivedFirst`, for every point of the program after it, so that another
  command's archive or a write in between preserves it); *a missing clone has no
  files* (`MissingIsEmpty`, for the path through `git clone`, which does not
  archive); *reset never clones* (`ResetNeverClones`, so that the two paths do
  not mix).
- `WorkIsKept`: `Spec => WorkKept`, the refinement: every step of every process
  maps to a step of `StudentWork` or to a stutter. `Clean` maps to `Lose` by
  `CustodyInv`; `ArchiveMove` to `Preserve`.
- `ArchivesStaySealed`: `Spec => ArchivesSealed`, from the type invariant and the
  guard of `ArchiveMove`.
- `ResetsRestore`, `LabsRestore`, `ResetsVerify`, `SetupsClone`:
  `Spec => []ResetRestores` and the same of `LabRestores`, `ResetVerified` and
  `SetupClones`. What holds at the end is the sum of what the steps did, so
  `ReadyInv(p)` says it for every point of the program: which worktrees are still
  to be removed, that the clone is unlocked and at the revision before `git clean`
  (`Restored`), which repositories setup has behind it (`Cloned`), that HEAD was
  verified before the health check (`Verified`). It is proved for one process; every
  step of another, of the student and of upstream is *quiet* for it: it touches
  nothing of its own, and either leaves the clones as they are or shows in `meddled`.

### Tracing and replay

`RunTraceProofs`, for any stages, scripts, requests, answers and bounds, from
`TraceAssumption` (the names of recorders and stages differ).

- `TraceTypes`: `Spec => []TypeOK`.
- `RefusalsAreDamage`: `Spec => []RefusesOnlyDamage`. Its invariant: *while a request
  waits for its answer it is in the file, under the id the answer will name, or the
  file cannot be read any more* (`Pending`), so that a readable file is always paired.
- `ReplaysInOrder`: `Spec => []ReplayInOrder`.
- `IdsAreUnique`, `RecordingsAreFaithful`, `ReplaysAreHonest`:
  `Spec => [](sessions <= 1 => P)` for `UniqueIds`, `RecordingFaithful` and
  `ReplayHonest`: they hold until a second recording is opened on the file, and
  `trace_reuse` shows that the last of them fails after that. `FirstSession` says
  that every id in the file is *past*: below its recorder's counter, or of a stage
  that is over. What the reader collects is a function of the number of lines read,
  and one more line is the step of the induction.

### MCP

`McpSessionProofs`, for any tools, side-effect classes, approval outcomes, pipe size
and number of messages, from `SessionAssumption` (the notifications are no request
methods; the null value is no tool and no number):

- `SessionTypes`: `Spec => []TypeOK`, and `CallsAreApproved`:
  `Spec => []ApprovedOnly`. Their invariant adds to both *a gated call is under way
  exactly while it is asked for or sent* (`CallUnderWay`), *what is being sent was
  approved if it had to be* (`Consented`), and *a dead server's pipe is empty*
  (`Lines`).
- `TracesTell`: `Spec => []TraceTells`. The property is about calls that are over;
  the invariant adds what is true of the one under way (`Telling`: its request is in
  the trace once it waits, nothing that ends it is) and *a torn line comes only from
  a dead server* (`Torn`), since the client takes it for the end.
- `RepliesLineUp`: `Spec => []ReplyMatches`, and `SuccessIsEarned`:
  `Spec => []RepliesAreEarned`, if the only notification sent is the one the server
  knows (`OneNotification`; without it both fail, see section 5). That the next line
  read is the right reply says nothing of the lines behind it; the inductive
  `Lockstep` speaks of both pipes at once: *only the last line to the server wants
  an answer, and it is the request waited over* (`RequestOnly`), *an answer in the
  pipe is the only one, and then the other pipe is empty* (`ReplyOnly`).

### Model calls

`ModelCallsProofs`, for any tools, calls of a reply and messages of a conversation,
from `BoundsAssumption`.

- `SetupAndHarnessAgree`: `Spec => []ConfigAgreement`, by cases of the configuration.
- `FormatsKeepConversation`: `Spec => []WireKeepsConversation`. `ConversationInv`
  says of each format that it reads back as what was said, that its values are typed,
  that every call is known by its place (`WellSaid`), and, for Gemini, which calls the
  loop knows by name (`Known`) and which turn it collects in. The proof is one
  message more: what a message adds to a format is what it adds to the spoken
  conversation, whether it begins a turn or is merged into one.
- `ResultsStandTogether`: `Spec => []ResultsTogether`. The property speaks of
  conversations without open calls, and the message that closes the last one is only
  the last of several. `GroupInv` says of any moment: *either nothing is open, or the
  first d calls of one message have their results* (`Waiting`), *they stand in the
  turn after it, in order, and every turn of calls before is paired* (`Pending`) - and
  a turn is being collected exactly when d is not 0, which is what an instruction in
  between must not change.

### Workflows, pull requests, delivery

`DeliveryPartsProofs`, of the two components on their own. Of the stages, for any
number of workflows of both kinds, from `KindsAssumption` (no workflow is of both):

- `ResultsAreReviewed`: `StagesSpec => []CompletedIsReviewed`. The property speaks
  of the last two stages only; the inductive invariant `StagesInv` says for every
  stage which gates lie behind it (`GatesBehind`). A fix clears the judgements, and
  the only way on from it leads through validation, where none is asked for yet.
- `EndsAreFinal`: `StagesSpec => TerminalForever`: no pair of either table starts in
  a terminal stage.

Of the pull requests, for any clients, keys and number of requests, from
`PullAssumption`:

- `AnswersAreTrue`: `PullSpec => []AnswersHold`, at both transports.
- `DoubleKeepsLedger`: `PullSpec => OpensOnce`, the refinement of
  `PullRequestLedger`. Both rest on one inductive invariant, `PullInv`: types, *the
  next number is above all given ones* (`NumbersBelow`), *keys and numbers are apart
  at the double* (`OnePerKey`), and `AnswersHold`.

`DeliveryProofs`, the composition, for any workflows, worker names, lines and bounds,
from these and `DeliveryAssumption` (a workflow is a client, and its keys are its
patches' versions):

- `DeliveryFollowsStages`: `Spec => StagesSpec`, and `DeliverySendsRequests`:
  `Spec => PullSpec`: the composition implements both components, each step being a
  step of each or a stutter. `DeliveryKeepsPromises` draws what was proved of the
  components: `CompletedIsReviewed`, `TerminalForever`, `AnswersHold`, `OnePerKey` and
  `OpensOnce` hold in the composition.
- `DeliveryTypes`: `Spec => []TypeOK`.
- `DeliveriesAreReviewed`: `Spec => []DeliveredIsReviewed`. Two facts carry it:
  *what has been judged since the last writing stage was judged as it stands*
  (`JudgedNow`, which needs that the tools of the judging workers do not write) and
  *whatever is opened is of a completed workflow and of the patch it has*
  (`OpenedNow`); with the gates behind a completed workflow they give the property.
- `ReadersReadWhole`: `Spec => []AnswersReadWhole`, for answers of any length, by
  induction over the lines: what the first n lines give is one finding for each of
  them that reports (`ReadSoFar`), numbered by how many there are up to it.
- `NamesAreKept`: `IdsApart => (Spec => []ArtifactsKept)`, where `IdsApart` says of
  the worker ids what their names need: no id has two parts in a workflow, none
  differs from another in `-` and `_` only, none is another one followed by a round
  (`impl-round-2` would share the trace of the second round of `impl`), none is the
  word `integrated`. The names themselves check nothing of this. TLC evaluates it for the ids of the course (`CourseIdsApart`), as it does
  `NumbersApart`, that two numbers are never written alike. No reachable state is
  needed: of any two things a stage may keep, different kinds have different first
  pieces or ends (`SavesThings`, `NamesApart`), and within a kind worker, stage and
  round can be read back from the name (`NumberedApart`, `DashedApart`,
  `OfWorkerApart`; `TracesApart`, where round 1 is not written).

### Patches and evaluation

`EvaluationProofs`, for any paths, trees, patches and number of runs, from
`PatchesAssumption` (a tree is a content for every path):

- `ConflictsOverlap`: `Spec => []OverlapsSeen`: *a path that is not as in the base
  was changed by an applied patch* (`Touched`), so a patch that fits the base and does
  not fit the tree shares a path with one of them (`RejectedOver`).
- `RecoveryHolds`: `Spec => []RecoveryKeeps`: what is captured is the text of the
  difference, which for LF files is the difference, and the difference fits the base
  and leads to the tree.
- `VerdictsStand`: `Spec => []GradesStand`: the tree that is graded is, up to line
  ends, the one the attempt made (`Grading`), the outcome holds its text (`Outcome`),
  and neither is of an earlier run.
- `SandboxesAreGone`: `Spec => []SandboxesGo`. `EvaluationInv` is the conjunction of
  all these.

### Stored records

`StoredRecordsProofs`, for any objects of the classes, with lists and mappings of any
length, and any files, from `SchemasFit` (no class is deeper than the unrolling; TLC
evaluates it on the schemas) and `ObjectsAreBuilt` (an object is of its class and its
constructor accepted it):

- `RecordsRoundTrip`: `Spec => []RoundTrip`. The invariant `RecordInv` says that what
  was saved was an object of the class, and that an unchanged file is its text; that
  reading what was written gives the object back is one lemma about one level of a
  schema and one per level (`ReadsBack0` to `ReadsBack5`), with what a field that is
  left out reads as (`LeftOut0` to `LeftOut5`).
- `LoadsAreTyped`: `Spec => []TypesHonoured`, from any file: `Typed0` to `Typed5`.
- `UnregisteredNeverMilder`: `NeverMilder(name)` for every name without an entry.

### How inductions over data are done

The library's induction theorems take an operator as a parameter, which the provers
cannot instantiate. The proofs that need induction over lines, messages or turns take
the least number for which the statement fails, from the well-foundedness of the
numbers (`NatLessThanWellFounded`) or from the least element of a set of numbers
(`LeastOf`), and show that there is none.

### Only model-checked

- `ReplayHonest` with more than one recording in a file: it is false, section 5.
- The liveness properties `RetrySucceeds`, `RequestEnds` and `EndsOrFixes`: liveness
  under fairness is out of the prover's reach.

## 5. Where documentation and code disagree

Two of them are runs that TLC finds violated, with one property that states the
quoted sentence.

- `trace_reuse`, `ReplayHonest`: *"a mismatch or an extra request fails loudly so
  replayed demonstrations and regression tests stay honest"* (`models/replay.py`).
  Two sessions in one file repeat event ids, the later request of an id wins, and
  the first session's answers are served to the second one's requests. With one
  session per file, as `docs/trace-events.md` asks, it holds (`trace_replay`). The
  evaluation runner pins the name of an attempt's trace, and a resumed engine keeps
  its run id and counts from zero: both write such files.
- `patch_endings`, `RecoveryKeepsAll`: *"a later conflict must not lose the patches
  already applied"* (`workflows/integration.py:308-309`). `staged_diff` reads git's
  output as text, so CRLF becomes LF, and the captured diff of a file with CRLF line
  ends does not apply after the rollback. For LF it does (`RecoveryKeeps`).

Others met while modelling, visible in the modules:

- `coursectl setup` (`docs/checkpoints.md:91-92`, "at its pinned revision"):
  `Manager.Clone` takes any directory with a `.git` entry for a finished clone. A
  setup that fails between `git clone` and the checkout is followed by one that
  reports success at the tip of the default branch. `SetupClones` is what holds.
- `coursectl reset`, step 5 (`docs/checkpoints.md:85`, "Confirms local state matches
  the revision"): it runs nothing; ignored files stay. `ResetRestores` is what holds.
- Step 1 of it (`docs/checkpoints.md:76-77`, "Preserves any student `reports/`"): a
  report written after the archive step and before the clean is deleted. `WorkKept`
  is what holds.
- The MCP server answers a notification it does not know with an error
  (`tools/mcp_repo_server.py:97`; its docstring promises none), which the client,
  as `tests/integrations/test_mcp_client.py:79-80` describes it, takes for the reply
  to its next request. `ReplyMatches` holds for the one notification it knows.
- The double's `raise_timeout` (`local_double.py:41-43`) fails every send until it is
  cleared, not only the next.
- A finding line without the space after its prefix is dropped in silence, and one
  whose evidence is null raises `TypeError` instead of `FindingSchemaError`
  (`ReviewText`). `AnswersReadWhole` holds for lines with the whole prefix.
- `changed_paths` does not see an empty file that is created or a pure move
  (`OverlapsSeen` excepts them).
- The exit code of a Python grader that crashes is 1, a failed attempt; the model's
  graders crash with another code. A grader whose output is no UTF-8 raises out of
  `grade`. Its version is a hash taken when it is constructed, of a script read when
  it runs.
- A killed evaluation leaves its worktree behind, which `fresh_clone` does not
  remove, so the next run of that name cannot create its sandbox (`TidyUp`).
- `ProtocolDecisionRecord` validates when it is loaded, not when it is saved.
- `str` of a null in a file gives the text None, and `bool` of the text false gives
  true: loads that could refuse and do not (`Payloads`; the types are honoured).
- A timeout of the Gemini SDK's transport and a reply of OpenAI that is cut inside a
  call's arguments leave `complete` as foreign exceptions (`Raised`, `Undecodable`).
- The live transport does not send the idempotency key.
- coursectl accepts what the harness refuses in files that are not written like
  `default.toml`: an unknown provider, a repeated key, a script that does not parse
  (`ConfigAgreement` says for which files they agree).
- `corrupt_latest_snapshot` takes the last name for the latest version; from version
  10000 on it is not.

## 6. Not modelled

Everything that raises `NotImplementedError`: the loops, the sandbox manager, the
policy engine, approvals, budgets, `WorkflowEngine.run`, `MultiWorkerOrchestrator.run`,
`integrate_patches`, the consolidation, the retry controller and the circuit breaker,
`EvaluationRunner.run`, metrics, reports, and the operations of `GitHubAdapter`. Where
modelled code is called by them they are an environment that may do whatever the
contract in their docstring allows.

In coursectl: children of a killed git; a `.git` that is not a repository, where
git would walk up to the course repository; symlinked roots (the comparison that
skips the main worktree is by path); two repositories whose names end in the same
slug; slicing of a revision shorter than twelve characters; doctor, validate and
status, which read and report.

In tracing: payload contents, redaction, `parent_event_id` of events that are not
about model calls, timestamps. In MCP: stderr, an exception of the approval resolver,
the contents of search results, the error reply to a notification in the passing
run. In the records: payloads that are only written (context packets, reports,
comparisons), renderings, dates. In model calls: token counts, cost tables, tool
schemas. In the patches: three-way merges that succeed where a plain apply does not,
binary files, and quoting of non-ASCII paths in headers. In the double: reading
checks and issues, which changes nothing. Security properties are out of scope.

## 7. What could come next

1. A request-reply specification that `McpSession` implements.
2. When the stubs are implemented: the engine's `run` and `resume` in place of `Move`,
   the integration loop in place of the free order of `Patches`, the retry controller
   over the injected errors, and the adapter's audit in front of `PullRequests`.
