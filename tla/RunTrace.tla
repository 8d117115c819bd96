------------------------------ MODULE RunTrace ------------------------------
(***************************************************************************)
(* The trace of a run and its replay.  A workflow engine, or a single agent *)
(* loop, records its model calls in a JSONL file through TraceWriter        *)
(* (tracing/jsonl.py); several stages of one workflow share the file        *)
(* through StageTraceWriter views (workflows/engine.py); the model that     *)
(* answers is a ScriptedAdapter (models/scripted.py); ReplayAdapter         *)
(* (models/replay.py) pairs the recorded events and serves them again.      *)
(* The reliability controller (reliability/controller.py) and the adapter   *)
(* of external actions (integrations/contracts.py) may write to that file   *)
(* too; an orchestrator (workflows/orchestrator.py) has one of its own, for *)
(* its events only.                                                         *)
(*                                                                         *)
(* The recording process can die at any write, leaving a torn last line,    *)
(* and another one can append to the same file.                             *)
(***************************************************************************)
EXTENDS Naturals, Sequences, SequencesExt

CONSTANTS
  Requests,    \* message histories sent to a model
  Answers,     \* model responses
  Scripts,     \* scripts: sequences of [accepts : SUBSET Requests, answer]
  Stages,      \* run ids of the stages of a workflow
  Bare,        \* the name of an id that carries no run id
  Recorders,   \* ... of an id of a recorder with a name of its own: evt-wf
               \* (engine or orchestrator), evt-rel (reliability controller),
               \* evt-int (adapter of external actions)
  None,
  Bad,         \* a line that is not JSON
  MaxSessions, \* bound: recordings appended to the file
  MaxLines,    \* bound: lines of the file
  MaxNotes     \* bound: events of the controller, and of the adapter

Id == [run : Stages \cup Recorders \cup {Bare}, n : Nat]
Bodies(kind) == CASE kind = "requested" -> Requests
                  [] kind = "responded" -> Answers
                  [] kind = "other" -> {None}
EventOf(kind) == [id : Id, parent : Id \cup {None}, kind : {kind}, body : Bodies(kind)]
Event == EventOf("requested") \cup EventOf("responded") \cup EventOf("other")
Interaction == [request : Requests, answer : Answers]

ASSUME TraceAssumption ==
  /\ Scripts \subseteq Seq([accepts : SUBSET Requests, answer : Answers])
  /\ Recorders = {"evt-wf", "evt-rel", "evt-int"}
  /\ Bare \notin Stages \cup Recorders /\ Stages \cap Recorders = {}
  /\ None \notin Stages \cup {Bare} \cup Requests \cup Answers \cup Id
  /\ MaxSessions \in Nat /\ MaxLines \in Nat /\ MaxNotes \in Nat

VARIABLES
  lines,       \* the file: events, or Bad for a line that is not JSON
  torn,        \* its last line has no newline
  writer,      \* whose file it is: "closed", "engine", "orchestrator" or "loop"
  seq,         \* every recorder's next number
  stage,       \* the run id of the stage that records, None between stages
  inner,       \* the stage's own recorder's next number
  used,        \* the stages this session has run
  asked,       \* the request that waits for an answer: [id, request] or None
  script, pos, \* the scripted model, and how far it is
  sessions,
  answered,    \* history: the interactions of all sessions
  replay,      \* the replay adapter: "none", "refused" (not built) or "ready"
  interactions, at,   \* what it serves, and how far it is
  served       \* history: the interactions it has served

fileVars   == <<lines, torn>>
modelVars  == <<script, pos, answered>>
recorderVars == <<seq, stage, inner, used, asked>>
replayVars == <<replay, interactions, at, served>>
vars == <<fileVars, writer, recorderVars, modelVars, sessions, replayVars>>

TypeOK ==
  /\ lines \in Seq(Event \cup {Bad}) /\ torn \in BOOLEAN
  /\ writer \in {"closed", "engine", "orchestrator", "loop"}
  /\ seq \in [Recorders -> Nat] /\ inner \in Nat
  /\ stage \in Stages \cup {Bare, None}
  /\ used \in SUBSET Stages
  /\ asked \in [id : Id, request : Requests] \cup {None}
  /\ script \in Scripts /\ pos \in 0..Len(script)
  /\ sessions \in 0..MaxSessions
  /\ answered \in Seq(Interaction)
  /\ replay \in {"none", "refused", "ready"}
  /\ interactions \in Seq(Interaction)
  /\ at \in 0..Len(interactions)
  /\ served \in Seq(Interaction)

Init ==
  /\ lines = <<>> /\ torn = FALSE
  /\ writer = "closed" /\ sessions = 0
  /\ seq = [r \in Recorders |-> 0] /\ stage = None /\ inner = 0 /\ used = {} /\ asked = None
  /\ script \in Scripts /\ pos = 0 /\ answered = <<>>
  /\ replay = "none" /\ interactions = <<>> /\ at = 0 /\ served = <<>>

-----------------------------------------------------------------------------
(* The file.                                                               *)

\* What is written after a line without a newline ends up on that line, and
\* two objects on a line are not JSON.
Append1(l) == IF torn THEN [lines EXCEPT ![Len(lines)] = Bad]
              ELSE Append(lines, l)

\* TraceWriter.write: one line, flushed; the process may die over it, with
\* nothing, a part of the line or all of it but the newline in the file.
Write(e) ==
  /\ Len(lines) < MaxLines
  /\ \/ /\ lines' = Append1(e) /\ torn' = FALSE
        /\ UNCHANGED writer
     \/ /\ \/ UNCHANGED fileVars
           \/ lines' \in {Append1(e), Append1(Bad)} /\ torn' = TRUE
        /\ writer' = "closed"

\* TraceWriter.__init__ opens for appending; every new recorder counts its
\* events from zero, and a new scripted model starts its script.
Open(who) ==
  /\ writer = "closed" /\ sessions < MaxSessions
  /\ writer' = who /\ sessions' = sessions + 1
  /\ seq' = [r \in Recorders |-> 0] /\ inner' = 0 /\ used' = {} /\ asked' = None
  /\ stage' = IF who = "loop" THEN Bare ELSE None
  /\ script' \in Scripts /\ pos' = 0
  /\ UNCHANGED <<fileVars, answered, replayVars>>

\* An engine is made, anew or for a state to resume: its recorder starts at
\* zero either way.
EngineOpens == Open("engine")

Close ==
  /\ writer # "closed" /\ asked = None /\ stage \in {Bare, None}
  /\ writer' = "closed"
  /\ UNCHANGED <<fileVars, recorderVars, modelVars, sessions, replayVars>>

-----------------------------------------------------------------------------
(* Recorders and stage views.                                              *)

\* Faulty variant: the view leaves the inner loop's ids as they are.
Unprefixed(id) == id

\* StageTraceWriter: an inner loop's id, under the stage's run id; a loop
\* that writes to the TraceWriter itself keeps its ids.
View(id) == IF stage = Bare THEN id ELSE [id EXCEPT !.run = stage]

\* Faulty variant: only event_id is rewritten.
ParentKept(id) == IF stage = None THEN id ELSE [id EXCEPT !.run = Bare]

\* The parent_event_id that goes with it.
ViewParent(id) == IF stage = None THEN id ELSE View(id)

\* _Recorder.emit of the engine, or the inner loop's: the next id of whoever
\* calls the model now.
NextId == IF stage = None THEN [run |-> "evt-wf", n |-> seq["evt-wf"]]
          ELSE [run |-> Bare, n |-> inner]
Count(recorder) == seq' = [seq EXCEPT ![recorder] = @ + 1]
Emit(kind, parent, body) ==
  /\ writer \in {"engine", "loop"}
  /\ Write([id |-> IF stage = None THEN NextId ELSE View(NextId),
            parent |-> IF parent = None THEN None ELSE ViewParent(parent),
            kind |-> kind, body |-> body])
  /\ IF stage = None THEN Count("evt-wf") /\ UNCHANGED inner
     ELSE inner' = inner + 1 /\ UNCHANGED seq
  /\ UNCHANGED <<stage, used>>

\* A note under an id of the recorder's own, past the stage views.
Note(recorder) ==
  /\ Write([id |-> [run |-> recorder, n |-> seq[recorder]], parent |-> None,
            kind |-> "other", body |-> None])
  /\ Count(recorder)
  /\ UNCHANGED <<stage, inner, used, asked, modelVars, sessions, replayVars>>

\* An orchestrator's events; its workers write to files of their own.
OrchestratorEmits == writer = "orchestrator" /\ Note("evt-wf")

\* A controller supervises an engine's attempts, between its stages.
ControllerEmits ==
  writer = "engine" /\ stage = None /\ seq["evt-rel"] < MaxNotes /\ Note("evt-rel")

\* The adapter of external actions, given the writer of whatever run.
AdapterEmits == writer # "closed" /\ seq["evt-int"] < MaxNotes /\ Note("evt-int")

\* The engine gives every stage run a view of its own; the stage's loop
\* counts from zero.
BeginStage(run) ==
  /\ writer = "engine" /\ stage = None /\ asked = None /\ run \notin used
  /\ stage' = run /\ inner' = 0 /\ used' = used \cup {run}
  /\ UNCHANGED <<fileVars, writer, seq, asked, modelVars, sessions, replayVars>>

EndStage ==
  /\ stage \in Stages /\ asked = None /\ writer = "engine"
  /\ stage' = None
  /\ UNCHANGED <<fileVars, writer, seq, inner, used, asked, modelVars, sessions,
                 replayVars>>

\* Any event that is not about a model call.
OtherEvent ==
  /\ asked = None
  /\ Emit("other", None, None)
  /\ UNCHANGED <<asked, modelVars, sessions, replayVars>>

-----------------------------------------------------------------------------
(* Model calls, answered by the scripted model.                            *)

\* model_requested; its id is the parent of the answer.
Ask(r) ==
  /\ asked = None
  /\ Emit("requested", None, r)
  /\ asked' = [id |-> NextId, request |-> r]
  /\ UNCHANGED <<modelVars, sessions, replayVars>>

\* ScriptedAdapter.complete serves its next step to a request that meets the
\* step's expectation.
Serves(r) == pos < Len(script) /\ r \in script[pos + 1].accepts

Answer ==
  /\ asked # None
  /\ Serves(asked.request)
  /\ LET a == script[pos + 1].answer
     IN  /\ Emit("responded", asked.id, a)
         /\ answered' = Append(answered, [request |-> asked.request, answer |-> a])
  /\ pos' = pos + 1 /\ asked' = None
  /\ UNCHANGED <<script, sessions, replayVars>>

\* Faulty variant: the script moves on when it fails.
FailsAndAdvances ==
  /\ asked # None
  /\ ~Serves(asked.request)
  /\ Emit("other", asked.id, None)
  /\ pos' = pos + 1 /\ asked' = None
  /\ UNCHANGED <<script, answered, sessions, replayVars>>

\* A script that is exhausted or does not expect the request raises and stays
\* where it is; the loop records model_failed.
CallFails ==
  /\ asked # None
  /\ ~Serves(asked.request)
  /\ Emit("other", asked.id, None)
  /\ asked' = None
  /\ UNCHANGED <<modelVars, sessions, replayVars>>

-----------------------------------------------------------------------------
(* Replay.                                                                 *)

Lines(kind) == {i \in DOMAIN lines : lines[i] # Bad /\ lines[i].kind = kind}

\* read_trace parses every line.
Readable == \A i \in DOMAIN lines : lines[i] # Bad

\* The requests by event id: of two with one id, the later one stays.
RequestLines(id) == {i \in Lines("requested") : lines[i].id = id}
RequestOf(id) ==
  lines[CHOOSE i \in RequestLines(id) : \A j \in RequestLines(id) : j <= i].body

\* _pair_interactions: every response with the request its parent names.
Paired == \A i \in Lines("responded") : RequestLines(lines[i].parent) # {}
IsResponse(l) == l # Bad /\ l.kind = "responded"
IsRequest(l) == l # Bad /\ l.kind = "requested"

\* Faulty variant: the n-th response goes with the n-th request.
PairedByPosition ==
  LET responses == SelectSeq(lines, IsResponse)
      requests == SelectSeq(lines, IsRequest)
  IN  [i \in DOMAIN responses |->
         [request |-> requests[i].body, answer |-> responses[i].body]]

\* What the first n lines give.
Pair(l) == [request |-> RequestOf(l.parent), answer |-> l.body]
Recorded[n \in 0 .. Len(lines)] ==
  IF n = 0 THEN <<>>
  ELSE IF IsResponse(lines[n]) THEN Append(Recorded[n - 1], Pair(lines[n]))
  ELSE Recorded[n - 1]

Interactions == Recorded[Len(lines)]

\* ReplayAdapter.__init__, on the file as it is now.
Load ==
  /\ replay = "none"
  /\ at' = 0
  /\ IF Readable /\ Paired
     THEN replay' = "ready" /\ interactions' = Interactions
     ELSE replay' = "refused" /\ UNCHANGED interactions
  /\ UNCHANGED <<fileVars, writer, recorderVars, modelVars, sessions, served>>

\* Faulty variant: a request that does not match is served all the same.
ServeNext(r) ==
  /\ replay = "ready"
  /\ IF at < Len(interactions)
     THEN /\ at' = at + 1
          /\ served' = Append(served, [request |-> r,
                                       answer |-> interactions[at + 1].answer])
     ELSE UNCHANGED <<at, served>>
  /\ UNCHANGED <<fileVars, writer, recorderVars, modelVars, sessions, replay,
                 interactions>>

\* Faulty variant: a request that does not match uses the interaction up.
SkipsMismatch(r) ==
  /\ replay = "ready"
  /\ at' = IF at < Len(interactions) THEN at + 1 ELSE at
  /\ IF at < Len(interactions) /\ interactions[at + 1].request = r
     THEN served' = Append(served, interactions[at + 1])
     ELSE UNCHANGED served
  /\ UNCHANGED <<fileVars, writer, recorderVars, modelVars, sessions, replay,
                 interactions>>

\* ReplayAdapter.complete: exhausted, or a request that differs from the
\* recorded one, raises and stays where it is.
Complete(r) ==
  /\ replay = "ready"
  /\ IF at < Len(interactions) /\ interactions[at + 1].request = r
     THEN /\ at' = at + 1
          /\ served' = Append(served, [request |-> r,
                                       answer |-> interactions[at + 1].answer])
     ELSE UNCHANGED <<at, served>>
  /\ UNCHANGED <<fileVars, writer, recorderVars, modelVars, sessions, replay,
                 interactions>>

-----------------------------------------------------------------------------
Record ==
  \/ EngineOpens
  \/ \E who \in {"orchestrator", "loop"} : Open(who)
  \/ \E run \in Stages : BeginStage(run)
  \/ \E r \in Requests : Ask(r)
  \/ OrchestratorEmits \/ ControllerEmits \/ AdapterEmits
  \/ EndStage \/ OtherEvent \/ Answer \/ CallFails \/ Close

Next == Record \/ Load \/ \E r \in Requests : Complete(r)

Spec == Init /\ [][Next]_vars

-----------------------------------------------------------------------------
(* Properties.                                                             *)

\* docs/trace-events.md, event_id: no two events of a run's file share an id,
\* however its stages and the engine alternate (StageTraceWriter).
UniqueIds ==
  \A i, j \in DOMAIN lines :
    lines[i] # Bad /\ lines[j] # Bad /\ lines[i].id = lines[j].id => i = j

\* A readable file pairs to the interactions that took place, in order, each
\* answer with the request it was given to; only one that the recording
\* process died over can be missing (TraceWriter flushes every line).
RecordingFaithful ==
  LET found == Interactions
  IN  Readable => /\ Paired
                  /\ IsPrefix(found, answered)
                  /\ Len(answered) <= Len(found) + 1
                  /\ writer # "closed" => found = answered

\* A file that no crash has damaged always replays: every recorded answer
\* names a request that is there, whichever recorder and view wrote the two.
RefusesOnlyDamage == replay = "refused" => \E i \in DOMAIN lines : lines[i] = Bad

\* models/replay.py, "a mismatch or an extra request fails loudly so replayed
\* demonstrations and regression tests stay honest": an answer is served only
\* to a request that the recorded model gave it to.
ReplayHonest == \A i \in DOMAIN served : served[i] \in Range(answered)

\* A replay serves the run from its start and in its order: wrong requests in
\* between, however many, cost nothing and skip nothing.
ReplayInOrder == IsPrefix(served, interactions)
=============================================================================
