---------------------------- MODULE RunTraceProofs ----------------------------
(***************************************************************************)
(* Proofs about RunTrace: type correctness; a file no crash has damaged    *)
(* always replays; and, of one recording session, unique ids, a faithful   *)
(* recording and an honest replay.                                         *)
(***************************************************************************)
EXTENDS RunTrace, SequenceTheorems, WellFoundedInduction, TLAPS

-----------------------------------------------------------------------------
(* What a reader of the file collects: a sequence, line by line.           *)

\* f[n] is what the first n lines give, when those in T give the pairs in P.
Collected(f, length, T, P) ==
  f = [n \in 0 .. length |-> IF n = 0 THEN <<>>
                             ELSE IF n \in T THEN Append(f[n - 1], P[n]) ELSE f[n - 1]]

LEMMA LeastOf ==
  ASSUME NEW R \in SUBSET Nat, R # {}
  PROVE  \E n \in R : \A m \in R : n <= m
  <1>1. PICK n \in R : \A m \in R : ~ (<<m, n>> \in OpToRel(<, Nat))
    BY NatLessThanWellFounded, WFMin, Zenon
  <1>2. \A m \in R : ~ (m < n)
    BY <1>1 DEF OpToRel
  <1> QED
    BY <1>2

\* There is such an f, whatever the length.
LEMMA CollectsSome ==
  ASSUME NEW T, NEW P, NEW length \in Nat
  PROVE  \E f : Collected(f, length, T, P)
  <1> DEFINE R == {n \in Nat : ~ \E f : Collected(f, n, T, P)}
  <1>1. SUFFICES ASSUME R # {} PROVE FALSE
    OBVIOUS
  <1>2. PICK k \in R : \A m \in R : k <= m
    BY <1>1, LeastOf
  <1>3. k # 0
    <2> DEFINE f == [n \in 0 .. 0 |-> <<>>]
    <2>1. Collected(f, 0, T, P)
      BY DEF Collected
    <2> QED
      BY <1>2, <2>1
  <1>4. PICK f : Collected(f, k - 1, T, P)
    BY <1>2, <1>3
  <1> DEFINE g == [n \in 0 .. k |-> IF n = k THEN IF k \in T THEN Append(f[k - 1], P[k])
                                                  ELSE f[k - 1]
                                    ELSE f[n]]
  <1>5. \A n \in 0 .. k - 1 : f[n] = IF n = 0 THEN <<>>
                                     ELSE IF n \in T THEN Append(f[n - 1], P[n]) ELSE f[n - 1]
    BY <1>2, <1>3, <1>4 DEF Collected
  <1>6. \A n \in 0 .. k : g[n] = IF n = 0 THEN <<>>
                                 ELSE IF n \in T THEN Append(g[n - 1], P[n]) ELSE g[n - 1]
    BY <1>2, <1>3, <1>5
  <1>7. Collected(g, k, T, P)
    BY <1>6 DEF Collected
  <1> QED
    BY <1>2, <1>7

LEMMA CollectedAt ==
  ASSUME NEW T, NEW P, NEW length \in Nat, NEW f, Collected(f, length, T, P)
  PROVE  /\ f[0] = <<>>
         /\ \A n \in 1 .. length : f[n] = IF n \in T THEN Append(f[n - 1], P[n]) ELSE f[n - 1]
  <1>1. \A n \in 0 .. length : f[n] = IF n = 0 THEN <<>>
                                      ELSE IF n \in T THEN Append(f[n - 1], P[n]) ELSE f[n - 1]
    BY DEF Collected
  <1> QED
    BY <1>1

\* Two readers of the same n lines have collected the same.
SameTo(n, T, P, U, Q) == \A i \in 1 .. n : (i \in T <=> i \in U) /\ (i \in T => P[i] = Q[i])

LEMMA CollectsAlike ==
  ASSUME NEW T, NEW P, NEW length \in Nat, NEW f, Collected(f, length, T, P),
         NEW U, NEW Q, NEW width \in Nat, NEW g, Collected(g, width, U, Q),
         NEW n \in Nat, n <= length, n <= width, SameTo(n, T, P, U, Q)
  PROVE  f[n] = g[n]
  <1> DEFINE R == {i \in Nat : i <= n /\ f[i] # g[i]}
  <1>1. SUFFICES ASSUME R # {} PROVE FALSE
    OBVIOUS
  <1>2. PICK k \in R : \A m \in R : k <= m
    BY <1>1, LeastOf
  <1>3. CASE k = 0
    <2>1. f[0] = <<>> /\ g[0] = <<>>
      <3>1. 0 \in 0 .. length /\ 0 \in 0 .. width
        OBVIOUS
      <3> QED
        BY <3>1 DEF Collected
    <2>2. f[k] # g[k]
      BY <1>2
    <2> QED
      BY <1>3, <2>1, <2>2
  <1>4. CASE k # 0
    <2>1. k \in 1 .. n /\ k - 1 \in Nat /\ k - 1 <= n
      BY <1>2, <1>4
    <2>2. f[k - 1] = g[k - 1]
      BY <1>2, <2>1
    <2>3. /\ f[k] = IF k \in T THEN Append(f[k - 1], P[k]) ELSE f[k - 1]
          /\ g[k] = IF k \in U THEN Append(g[k - 1], Q[k]) ELSE g[k - 1]
      BY <2>1, CollectedAt
    <2> QED
      BY <1>2, <2>1, <2>2, <2>3 DEF SameTo
  <1> QED
    BY <1>3, <1>4

\* What is collected is a sequence of the pairs.
LEMMA CollectsPairs ==
  ASSUME NEW T, NEW P, NEW length \in Nat, NEW f, Collected(f, length, T, P),
         NEW S, \A i \in 1 .. length : i \in T => P[i] \in S
  PROVE  f[length] \in Seq(S)
  <1> DEFINE R == {i \in Nat : i <= length /\ f[i] \notin Seq(S)}
  <1>1. SUFFICES ASSUME R # {} PROVE FALSE
    OBVIOUS
  <1>2. PICK k \in R : \A m \in R : k <= m
    BY <1>1, LeastOf
  <1>3. CASE k = 0
    <2>1. f[0] = <<>>
      BY CollectedAt
    <2>2. f[k] \notin Seq(S)
      BY <1>2
    <2> QED
      BY <1>3, <2>1, <2>2, EmptySeq
  <1>4. CASE k # 0
    <2>1. k \in 1 .. length /\ k - 1 \in Nat /\ k - 1 <= length
      BY <1>2, <1>4
    <2>2. f[k - 1] \in Seq(S)
      BY <1>2, <2>1
    <2>3. f[k] = IF k \in T THEN Append(f[k - 1], P[k]) ELSE f[k - 1]
      BY <2>1, CollectedAt
    <2>4. k \in T => Append(f[k - 1], P[k]) \in Seq(S)
      BY <2>1, <2>2, AppendProperties
    <2>5. f[k] \notin Seq(S)
      BY <1>2
    <2> QED
      BY <2>2, <2>3, <2>4, <2>5
  <1> QED
    BY <1>3, <1>4

\* _pair_interactions collects in this way.
Responses == Lines("responded")
Pairs == [n \in DOMAIN lines |-> Pair(lines[n])]

LEMMA RecordedCollects ==
  lines \in Seq(Event \cup {Bad}) => Collected(Recorded, Len(lines), Responses, Pairs)
  <1> SUFFICES ASSUME lines \in Seq(Event \cup {Bad})
               PROVE  Collected(Recorded, Len(lines), Responses, Pairs)
    OBVIOUS
  <1>1. Len(lines) \in Nat /\ DOMAIN lines = 1 .. Len(lines)
    BY LenProperties
  <1>2. ASSUME NEW f
        PROVE  Collected(f, Len(lines), Responses, Pairs)
               <=> f = [n \in 0 .. Len(lines) |->
                          IF n = 0 THEN <<>>
                          ELSE IF IsResponse(lines[n]) THEN Append(f[n - 1], Pair(lines[n]))
                          ELSE f[n - 1]]
    <2>1. \A n \in 0 .. Len(lines) :
             n # 0 => (n \in Responses <=> IsResponse(lines[n])) /\ Pairs[n] = Pair(lines[n])
      BY <1>1 DEF Responses, Lines, IsResponse, Pairs
    <2> QED
      BY <2>1 DEF Collected
  <1>3. \E f : f = [n \in 0 .. Len(lines) |->
                      IF n = 0 THEN <<>>
                      ELSE IF IsResponse(lines[n]) THEN Append(f[n - 1], Pair(lines[n]))
                      ELSE f[n - 1]]
    BY <1>1, <1>2, CollectsSome
  <1>4. Recorded = [n \in 0 .. Len(lines) |->
                      IF n = 0 THEN <<>>
                      ELSE IF IsResponse(lines[n]) THEN Append(Recorded[n - 1], Pair(lines[n]))
                      ELSE Recorded[n - 1]]
    BY <1>3 DEF Recorded
  <1> QED
    BY <1>2, <1>4

\* The request that goes with an answer.
LEMMA RequestOfTypes ==
  ASSUME lines \in Seq(Event \cup {Bad}), NEW id, RequestLines(id) # {}
  PROVE  /\ \E i \in RequestLines(id) : RequestOf(id) = lines[i].body
         /\ \A i \in RequestLines(id) : i \in DOMAIN lines /\ lines[i] \in Event
  <1>1. \A i \in RequestLines(id) : i \in 1 .. Len(lines) /\ lines[i] \in Event
    BY LenProperties, ElementOfSeq DEF RequestLines, Lines
  <1>2. Len(lines) \in Nat
    BY LenProperties
  <1> DEFINE R == {Len(lines) - i : i \in RequestLines(id)}
  <1>3. R \in SUBSET Nat /\ R # {}
    BY <1>1, <1>2
  <1>4. PICK n \in R : \A m \in R : n <= m
    BY <1>3, LeastOf
  <1>5. PICK i \in RequestLines(id) : n = Len(lines) - i
    BY <1>4
  <1>6. \A j \in RequestLines(id) : j <= i
    <2> SUFFICES ASSUME NEW j \in RequestLines(id) PROVE j <= i
      OBVIOUS
    <2>1. Len(lines) - j \in R
      OBVIOUS
    <2>2. Len(lines) - i <= Len(lines) - j
      BY <1>4, <1>5, <2>1
    <2> QED
      BY <1>1, <1>2, <2>2
  <1> QED
    BY <1>1, <1>6, LenProperties DEF RequestOf

LEMMA RequestBody ==
  ASSUME lines \in Seq(Event \cup {Bad}), NEW id, RequestLines(id) # {}
  PROVE  RequestOf(id) \in Requests
  <1>1. PICK i \in RequestLines(id) : RequestOf(id) = lines[i].body /\ lines[i] \in Event
    BY RequestOfTypes
  <1>2. lines[i].kind = "requested"
    BY DEF RequestLines, Lines
  <1> QED
    BY <1>1, <1>2 DEF Event, EventOf, Bodies

LEMMA InteractionsTypes ==
  ASSUME lines \in Seq(Event \cup {Bad}), Paired
  PROVE  Interactions \in Seq(Interaction)
  <1>1. Len(lines) \in Nat /\ DOMAIN lines = 1 .. Len(lines)
    BY LenProperties
  <1>2. ASSUME NEW i \in 1 .. Len(lines), i \in Responses
        PROVE  Pairs[i] \in Interaction
    <2>1. lines[i] \in Event /\ lines[i].kind = "responded"
      BY <1>2, ElementOfSeq DEF Responses, Lines
    <2>2. lines[i].body \in Answers
      BY <2>1 DEF Event, EventOf, Bodies
    <2>3. RequestOf(lines[i].parent) \in Requests
      BY <1>2, RequestBody DEF Paired, Responses
    <2> QED
      BY <1>1, <2>2, <2>3 DEF Pairs, Pair, Interaction
  <1> QED
    BY <1>1, <1>2, RecordedCollects, CollectsPairs DEF Interactions

-----------------------------------------------------------------------------
(* Type correctness.                                                       *)

LEMMA ScriptTypes ==
  ASSUME NEW s \in Scripts
  PROVE  /\ s \in Seq([accepts : SUBSET Requests, answer : Answers])
         /\ Len(s) \in Nat
  <1>1. s \in Seq([accepts : SUBSET Requests, answer : Answers])
    BY TraceAssumption
  <1> QED
    BY <1>1, LenProperties

LEMMA InitTypes == Init => TypeOK
  <1> SUFFICES ASSUME Init PROVE TypeOK
    OBVIOUS
  <1>1. /\ seq \in [Recorders -> Nat] /\ inner \in Nat /\ stage \in Stages \cup {Bare, None}
        /\ used \in SUBSET Stages /\ asked \in [id : Id, request : Requests] \cup {None}
        /\ sessions \in 0 .. MaxSessions /\ torn \in BOOLEAN
        /\ writer \in {"closed", "engine", "orchestrator", "loop"}
        /\ replay \in {"none", "refused", "ready"}
    <2>1. sessions \in 0 .. MaxSessions
      BY TraceAssumption DEF Init
    <2> QED
      BY <2>1 DEF Init
  <1>2. lines \in Seq(Event \cup {Bad}) /\ answered \in Seq(Interaction)
        /\ interactions \in Seq(Interaction) /\ served \in Seq(Interaction)
    BY EmptySeq DEF Init
  <1>3. script \in Scripts /\ pos \in 0 .. Len(script) /\ at \in 0 .. Len(interactions)
    <2>1. Len(script) \in Nat
      BY ScriptTypes DEF Init
    <2> QED
      BY <2>1 DEF Init
  <1> QED
    BY <1>1, <1>2, <1>3 DEF TypeOK

\* The file after a line more.
LEMMA Append1Types ==
  ASSUME TypeOK, NEW l \in Event \cup {Bad}
  PROVE  Append1(l) \in Seq(Event \cup {Bad})
  <1>1. lines \in Seq(Event \cup {Bad})
    BY DEF TypeOK
  <1>2. CASE torn
    <2>1. CASE lines = <<>>
      <3>1. [lines EXCEPT ![Len(lines)] = Bad] = lines
        BY <2>1
      <3> QED
        BY <1>1, <1>2, <3>1 DEF Append1
    <2>2. CASE lines # <<>>
      <3>1. Len(lines) \in 1 .. Len(lines)
        BY <1>1, <2>2, EmptySeq, LenProperties
      <3> QED
        BY <1>1, <1>2, <3>1, ExceptSeq DEF Append1
    <2> QED
      BY <2>1, <2>2
  <1>3. CASE ~ torn
    BY <1>1, <1>3, AppendProperties DEF Append1
  <1> QED
    BY <1>2, <1>3

LEMMA WriteTypes ==
  ASSUME TypeOK, NEW e \in Event, Write(e)
  PROVE  /\ lines' \in Seq(Event \cup {Bad}) /\ torn' \in BOOLEAN
         /\ writer' = writer \/ writer' = "closed"
  <1>1. Append1(e) \in Seq(Event \cup {Bad}) /\ Append1(Bad) \in Seq(Event \cup {Bad})
    BY Append1Types
  <1> QED
    BY <1>1 DEF Write, TypeOK, fileVars

\* Ids, through the view of a stage or not.
LEMMA NextIdTypes ==
  ASSUME TypeOK
  PROVE  /\ NextId \in Id
         /\ \A id \in Id : View(id) \in Id \/ stage = None
         /\ \A id \in Id : ViewParent(id) \in Id
  <1>1. "evt-wf" \in Recorders /\ seq["evt-wf"] \in Nat /\ inner \in Nat
    BY TraceAssumption DEF TypeOK
  <1> QED
    BY <1>1 DEF TypeOK, Id, NextId, View, ViewParent

\* An event of an engine or a loop.
Emitted(kind, parent, body) ==
  [id |-> IF stage = None THEN NextId ELSE View(NextId),
   parent |-> IF parent = None THEN None ELSE ViewParent(parent),
   kind |-> kind, body |-> body]

LEMMA EmittedTypes ==
  ASSUME TypeOK, NEW kind \in {"requested", "responded", "other"},
         NEW parent \in Id \cup {None}, NEW body \in Bodies(kind)
  PROVE  Emitted(kind, parent, body) \in Event
  <1>1. Emitted(kind, parent, body) \in EventOf(kind)
    BY NextIdTypes DEF Emitted, EventOf
  <1> QED
    BY <1>1 DEF Event

LEMMA EmitTypes ==
  ASSUME TypeOK, NEW kind \in {"requested", "responded", "other"},
         NEW parent \in Id \cup {None}, NEW body \in Bodies(kind), Emit(kind, parent, body)
  PROVE  /\ lines' \in Seq(Event \cup {Bad}) /\ torn' \in BOOLEAN
         /\ writer' \in {"closed", "engine", "orchestrator", "loop"}
         /\ seq' \in [Recorders -> Nat] /\ inner' \in Nat
         /\ UNCHANGED <<stage, used>>
  <1>1. Write(Emitted(kind, parent, body))
    BY DEF Emit, Emitted
  <1>2. /\ lines' \in Seq(Event \cup {Bad}) /\ torn' \in BOOLEAN
        /\ writer' \in {"closed", "engine", "orchestrator", "loop"}
    BY <1>1, EmittedTypes, WriteTypes DEF TypeOK
  <1>3. seq' \in [Recorders -> Nat] /\ inner' \in Nat
    <2>1. seq \in [Recorders -> Nat] /\ inner \in Nat /\ "evt-wf" \in Recorders
      BY TraceAssumption DEF TypeOK
    <2>2. \/ seq' = [seq EXCEPT !["evt-wf"] = @ + 1] /\ inner' = inner
          \/ inner' = inner + 1 /\ seq' = seq
      BY DEF Emit, Count
    <2> QED
      BY <2>1, <2>2
  <1> QED
    BY <1>2, <1>3 DEF Emit

LEMMA NoteTypes ==
  ASSUME TypeOK, NEW recorder \in Recorders, Note(recorder)
  PROVE  TypeOK'
  <1> DEFINE e == [id |-> [run |-> recorder, n |-> seq[recorder]], parent |-> None,
                   kind |-> "other", body |-> None]
  <1>1. e \in Event
    BY DEF Event, EventOf, Bodies, Id, TypeOK
  <1>2. /\ lines' \in Seq(Event \cup {Bad}) /\ torn' \in BOOLEAN
        /\ writer' \in {"closed", "engine", "orchestrator", "loop"}
    BY <1>1, WriteTypes DEF Note, TypeOK
  <1>3. seq' \in [Recorders -> Nat]
    BY DEF Note, Count, TypeOK
  <1> QED
    BY <1>2, <1>3 DEF Note, TypeOK, modelVars, replayVars

\* The step of the script that answers.
LEMMA AnswerTypes ==
  ASSUME TypeOK, Answer
  PROVE  pos + 1 \in 1 .. Len(script) /\ script[pos + 1].answer \in Answers
  <1>1. script \in Scripts /\ pos \in 0 .. Len(script) /\ pos < Len(script)
    BY DEF Answer, Serves, TypeOK
  <1>2. Len(script) \in Nat /\ script \in Seq([accepts : SUBSET Requests, answer : Answers])
    BY <1>1, ScriptTypes
  <1>3. pos + 1 \in 1 .. Len(script)
    BY <1>1, <1>2
  <1>4. script[pos + 1] \in [accepts : SUBSET Requests, answer : Answers]
    BY <1>2, <1>3, ElementOfSeq
  <1> QED
    BY <1>3, <1>4

LEMMA RecordTypes ==
  ASSUME TypeOK, Record
  PROVE  TypeOK'
  <1> USE DEF fileVars, modelVars, recorderVars, replayVars
  <1>1. ASSUME NEW who \in {"engine", "orchestrator", "loop"}, Open(who) PROVE TypeOK'
    <2>1. script' \in Scripts /\ Len(script') \in Nat
      BY <1>1, ScriptTypes DEF Open
    <2>2. seq' \in [Recorders -> Nat] /\ sessions' \in 0 .. MaxSessions
      BY <1>1, TraceAssumption DEF Open, TypeOK
    <2> QED
      BY <1>1, <2>1, <2>2 DEF Open, TypeOK
  <1>2. ASSUME NEW run \in Stages, BeginStage(run) PROVE TypeOK'
    BY <1>2 DEF BeginStage, TypeOK
  <1>3. ASSUME NEW r \in Requests, Ask(r) PROVE TypeOK'
    <2>1. asked' \in [id : Id, request : Requests]
      BY <1>3, NextIdTypes DEF Ask
    <2> QED
      BY <1>3, <2>1, EmitTypes DEF Ask, TypeOK, Bodies
  <1>4. ASSUME NEW recorder \in Recorders, Note(recorder) PROVE TypeOK'
    BY <1>4, NoteTypes
  <1>5. CASE EndStage
    BY <1>5 DEF EndStage, TypeOK
  <1>6. CASE OtherEvent
    BY <1>6, EmitTypes DEF OtherEvent, TypeOK, Bodies
  <1>7. CASE Answer
    <2>1. /\ asked.request \in Requests /\ asked.id \in Id
      BY <1>7 DEF Answer, TypeOK
    <2>2. pos + 1 \in 1 .. Len(script) /\ script[pos + 1].answer \in Answers
      BY <1>7, AnswerTypes
    <2>4. answered' \in Seq(Interaction)
      BY <1>7, <2>1, <2>2, AppendProperties DEF Answer, TypeOK, Interaction
    <2>5. pos' \in 0 .. Len(script') /\ script' = script /\ asked' = None
      BY <1>7, <2>2 DEF Answer, TypeOK
    <2>6. Emit("responded", asked.id, script[pos + 1].answer)
      BY <1>7 DEF Answer
    <2> QED
      BY <1>7, <2>1, <2>2, <2>4, <2>5, <2>6, EmitTypes DEF Answer, TypeOK, Bodies
  <1>8. CASE CallFails
    <2>1. asked.id \in Id
      BY <1>8 DEF CallFails, TypeOK
    <2> QED
      BY <1>8, <2>1, EmitTypes DEF CallFails, TypeOK, Bodies
  <1>9. CASE Close
    BY <1>9 DEF Close, TypeOK
  <1> QED
    BY <1>1, <1>2, <1>3, <1>4, <1>5, <1>6, <1>7, <1>8, <1>9, TraceAssumption
    DEF Record, EngineOpens, OrchestratorEmits, ControllerEmits, AdapterEmits

LEMMA NextTypes == TypeOK /\ [Next]_vars => TypeOK'
  <1> SUFFICES ASSUME TypeOK, [Next]_vars PROVE TypeOK'
    OBVIOUS
  <1> USE DEF fileVars, modelVars, recorderVars, replayVars
  <1>1. CASE Load
    <2>1. CASE Readable /\ Paired
      <3>1. Interactions \in Seq(Interaction)
        BY <2>1, InteractionsTypes DEF TypeOK
      <3> QED
        BY <1>1, <2>1, <3>1, LenProperties DEF Load, TypeOK
    <2>2. CASE ~ (Readable /\ Paired)
      BY <1>1, <2>2, LenProperties DEF Load, TypeOK
    <2> QED
      BY <2>1, <2>2
  <1>2. ASSUME NEW r \in Requests, Complete(r) PROVE TypeOK'
    <2>1. CASE at < Len(interactions) /\ interactions[at + 1].request = r
      <3>1. at + 1 \in 1 .. Len(interactions)
        BY <2>1, LenProperties DEF TypeOK
      <3>2. interactions[at + 1] \in Interaction
        BY <3>1, ElementOfSeq DEF TypeOK
      <3>3. served' \in Seq(Interaction)
        <4>1. [request |-> r, answer |-> interactions[at + 1].answer] \in Interaction
          BY <3>2 DEF Interaction
        <4>2. served' = Append(served, [request |-> r, answer |-> interactions[at + 1].answer])
          BY <1>2, <2>1 DEF Complete
        <4> QED
          BY <4>1, <4>2, AppendProperties DEF TypeOK
      <3> QED
        BY <1>2, <2>1, <3>1, <3>3 DEF Complete, TypeOK
    <2>2. CASE ~ (at < Len(interactions) /\ interactions[at + 1].request = r)
      BY <1>2, <2>2 DEF Complete, TypeOK
    <2> QED
      BY <2>1, <2>2
  <1>3. CASE UNCHANGED vars
    BY <1>3 DEF vars, TypeOK
  <1> QED
    BY <1>1, <1>2, <1>3, RecordTypes DEF Next

\* Every reachable state is well typed, whatever the scripts and however many
\* sessions write to the file.
THEOREM TraceTypes == Spec => []TypeOK
  BY InitTypes, NextTypes, PTL DEF Spec

-----------------------------------------------------------------------------
(* A file no crash has damaged always replays, whatever was appended to it. *)

\* The id of the pending request as the file has it.
PendingId == ViewParent(asked.id)

\* Only an engine runs stages, and only a loop keeps its ids.
Recording ==
  /\ stage = Bare => writer \in {"loop", "closed"}
  /\ stage \in Stages => stage \in used /\ writer \in {"engine", "closed"}
  /\ torn => lines # <<>>

\* While a request waits for its answer, it is in the file - if that can still
\* be read.
Awaited(i) == i \in RequestLines(PendingId) /\ lines[i].body = asked.request
Pending ==
  writer # "closed" /\ asked # None /\ Readable => \E i \in DOMAIN lines : Awaited(i)

FileInv ==
  /\ Recording /\ Pending
  /\ Readable => Paired
  /\ RefusesOnlyDamage

\* What a write does to the file: a line more, or damage, or nothing.
LEMMA WriteAdds ==
  ASSUME TypeOK, Recording, NEW e \in Event, Write(e)
  PROVE  /\ writer' # "closed" => writer' = writer /\ lines' = Append1(e) /\ ~ torn'
         /\ \/ lines' = lines
            \/ ~ torn /\ lines' \in {Append(lines, e), Append(lines, Bad)}
            \/ torn /\ lines # <<>> /\ lines' = [lines EXCEPT ![Len(lines)] = Bad]
         /\ torn' => lines' # <<>>
  <1>1. lines \in Seq(Event \cup {Bad}) /\ Len(lines) \in Nat
    BY LenProperties DEF TypeOK
  <1>2. \A l \in Event \cup {Bad} :
           \/ ~ torn /\ Append1(l) = Append(lines, l)
           \/ torn /\ lines # <<>> /\ Append1(l) = [lines EXCEPT ![Len(lines)] = Bad]
    BY DEF Append1, Recording
  <1>3. \A l \in Event \cup {Bad} : Append1(l) # <<>>
    <2> SUFFICES ASSUME NEW l \in Event \cup {Bad} PROVE Append1(l) # <<>>
      OBVIOUS
    <2>1. CASE ~ torn
      BY <1>1, <2>1, AppendProperties DEF Append1
    <2>2. CASE torn
      <3>1. lines # <<>> /\ Append1(l) = [lines EXCEPT ![Len(lines)] = Bad]
        BY <2>2 DEF Append1, Recording
      <3>2. Len(lines) \in 1 .. Len(lines)
        BY <1>1, <3>1, EmptySeq
      <3> QED
        BY <1>1, <3>1, <3>2, ExceptSeq, EmptySeq
    <2> QED
      BY <2>1, <2>2
  <1> QED
    BY <1>2, <1>3, SMTT(30) DEF Write, fileVars, TypeOK, Recording

\* A file that can still be read after a write has all the lines it had, and
\* at most the event that was written after them.
LEMMA ReadableAfter ==
  ASSUME TypeOK, Recording, NEW e \in Event, Write(e), Readable'
  PROVE  /\ Readable
         /\ lines' = lines \/ (lines' = Append(lines, e) /\ ~ torn)
         /\ writer' # "closed" => lines' = Append(lines, e)
  <1>1. lines \in Seq(Event \cup {Bad}) /\ Len(lines) \in Nat /\ DOMAIN lines = 1 .. Len(lines)
    BY LenProperties DEF TypeOK
  <1>2. ASSUME NEW l \in Event \cup {Bad}, lines' = Append(lines, l)
        PROVE  Readable /\ l # Bad
    <2>1. /\ DOMAIN lines' = 1 .. Len(lines) + 1 /\ lines'[Len(lines) + 1] = l
          /\ \A i \in 1 .. Len(lines) : lines'[i] = lines[i]
      BY <1>1, <1>2, AppendProperties, LenProperties
    <2> QED
      BY <1>1, <2>1 DEF Readable
  <1>3. ASSUME torn, lines # <<>>, lines' = [lines EXCEPT ![Len(lines)] = Bad] PROVE FALSE
    <2>1. Len(lines) \in DOMAIN lines
      BY <1>1, <1>3, EmptySeq
    <2>2. DOMAIN lines' = DOMAIN lines /\ lines'[Len(lines)] = Bad
      BY <1>3, <2>1
    <2> QED
      BY <2>1, <2>2 DEF Readable
  <1>4. CASE lines' = lines
    <2>1. writer' = "closed" \/ lines' = Append1(e)
      BY WriteAdds
    <2>2. Len(Append(lines, e)) = Len(lines) + 1
      BY <1>1, AppendProperties
    <2>3. writer' # "closed" => FALSE
      <3>1. SUFFICES ASSUME lines' = Append1(e) PROVE FALSE
        BY <2>1
      <3>2. CASE torn
        BY <1>3, <3>1, <3>2 DEF Append1, Recording
      <3>3. CASE ~ torn
        BY <1>1, <1>4, <2>2, <3>1, <3>3 DEF Append1
      <3> QED
        BY <3>2, <3>3
    <2>4. Readable
      BY <1>4 DEF Readable
    <2> QED
      BY <1>4, <2>3, <2>4
  <1>5. CASE lines' = Append(lines, e) /\ ~ torn
    BY <1>2, <1>5
  <1>6. CASE lines' = Append(lines, Bad)
    BY <1>2, <1>6
  <1> QED
    BY <1>3, <1>4, <1>5, <1>6, WriteAdds

LEMMA Appended ==
  ASSUME TypeOK, NEW e \in Event, lines' = Append(lines, e)
  PROVE  /\ Len(lines) \in Nat /\ DOMAIN lines = 1 .. Len(lines)
         /\ DOMAIN lines' = 1 .. Len(lines) + 1 /\ Len(lines') = Len(lines) + 1
         /\ \A i \in 1 .. Len(lines) : lines'[i] = lines[i]
         /\ lines'[Len(lines) + 1] = e
  <1>1. lines \in Seq(Event \cup {Bad})
    BY DEF TypeOK
  <1> QED
    BY <1>1, AppendProperties, LenProperties

\* What was in the file stays there, under the same numbers.
LEMMA LinesStay ==
  ASSUME TypeOK, NEW e \in Event, lines' = lines \/ lines' = Append(lines, e)
  PROVE  /\ \A i \in DOMAIN lines : i \in DOMAIN lines' /\ lines'[i] = lines[i]
         /\ \A id, i : i \in RequestLines(id) => i \in RequestLines(id)'
  <1>1. \A i \in DOMAIN lines : i \in DOMAIN lines' /\ lines'[i] = lines[i]
    BY Appended
  <1> QED
    BY <1>1 DEF RequestLines, Lines

LEMMA PairedAfter ==
  ASSUME TypeOK, FileInv, NEW e \in Event, Write(e),
         e.kind = "responded" /\ Readable => RequestLines(e.parent) # {}
  PROVE  Readable' => Paired'
  <1> SUFFICES ASSUME Readable' PROVE Paired'
    OBVIOUS
  <1>1. Readable /\ (lines' = lines \/ lines' = Append(lines, e))
    BY ReadableAfter DEF FileInv
  <1>2. Paired
    BY <1>1 DEF FileInv
  <1>3. SUFFICES ASSUME NEW i \in Lines("responded")', NEW id, id = lines'[i].parent
                 PROVE  \E j : j \in RequestLines(id)'
    BY DEF Paired
  <1>4. CASE i \in DOMAIN lines
    <2>1. lines'[i] = lines[i] /\ i \in Lines("responded")
      BY <1>1, <1>3, <1>4, LinesStay DEF Lines
    <2>2. PICK j : j \in RequestLines(id)
      BY <1>2, <1>3, <2>1 DEF Paired
    <2> QED
      BY <1>1, <2>2, LinesStay
  <1>5. CASE i \notin DOMAIN lines
    <2>1. lines' = Append(lines, e)
      BY <1>1, <1>3, <1>5 DEF Lines
    <2>2. lines'[i] = e
      BY <1>3, <1>5, <2>1, Appended DEF Lines
    <2> QED
      BY <1>1, <1>3, <2>2, LinesStay DEF Lines
  <1> QED
    BY <1>4, <1>5

\* Damage stays.
LEMMA DamageStays ==
  ASSUME TypeOK, FileInv, NEW e \in Event, Write(e), replay' = replay
  PROVE  RefusesOnlyDamage'
  <1> SUFFICES ASSUME replay = "refused" PROVE ~ Readable'
    BY DEF RefusesOnlyDamage, Readable
  <1>1. ~ Readable
    BY DEF FileInv, RefusesOnlyDamage, Readable
  <1> QED
    BY <1>1, ReadableAfter DEF FileInv

\* The request that waits still stands in the file after another line.
LEMMA PendingStays ==
  ASSUME TypeOK, FileInv, NEW e \in Event, Write(e), UNCHANGED <<asked, stage>>, writer # "closed"
  PROVE  Pending'
  <1> SUFFICES ASSUME writer' # "closed", asked # None, Readable'
               PROVE  (\E i \in DOMAIN lines : Awaited(i))'
    BY DEF Pending
  <1>1. Readable /\ (lines' = lines \/ lines' = Append(lines, e))
    BY ReadableAfter DEF FileInv
  <1>2. PICK i \in DOMAIN lines : Awaited(i)
    BY <1>1 DEF FileInv, Pending
  <1>3. PendingId' = PendingId
    BY DEF PendingId, ViewParent, View
  <1>4. i \in DOMAIN lines' /\ lines'[i] = lines[i] /\ i \in RequestLines(PendingId)'
    BY <1>1, <1>2, <1>3, LinesStay DEF Awaited
  <1> QED
    BY <1>2, <1>4 DEF Awaited

LEMMA RecordingStays ==
  ASSUME TypeOK, FileInv, NEW e \in Event, Write(e), UNCHANGED <<stage, used>>
  PROVE  Recording'
  BY WriteAdds DEF FileInv, Recording

\* A line of the engine or of a loop.
LEMMA EmitKeeps ==
  ASSUME TypeOK, FileInv, NEW kind \in {"requested", "responded", "other"},
         NEW parent \in Id \cup {None}, NEW body \in Bodies(kind), Emit(kind, parent, body),
         kind = "responded" => asked # None /\ parent = asked.id, replay' = replay
  PROVE  /\ Recording' /\ (Readable' => Paired') /\ RefusesOnlyDamage'
         /\ asked' = asked => Pending'
  <1> DEFINE e == Emitted(kind, parent, body)
  <1>1. e \in Event /\ Write(e) /\ writer # "closed" /\ UNCHANGED <<stage, used>>
    BY EmittedTypes DEF Emit, Emitted
  <1>2. e.kind = "responded" /\ Readable => RequestLines(e.parent) # {}
    <2> SUFFICES ASSUME kind = "responded", Readable PROVE RequestLines(e.parent) # {}
      BY DEF Emitted
    <2>1. parent # None /\ e.parent = PendingId
      BY TraceAssumption DEF Emitted, PendingId, TypeOK
    <2> QED
      BY <1>1, <2>1 DEF FileInv, Pending, Awaited
  <1> HIDE DEF e
  <1> QED
    BY <1>1, <1>2, PairedAfter, DamageStays, PendingStays, RecordingStays

LEMMA NoteKeeps ==
  ASSUME TypeOK, FileInv, NEW recorder \in Recorders, Note(recorder), writer # "closed"
  PROVE  FileInv'
  <1> DEFINE e == [id |-> [run |-> recorder, n |-> seq[recorder]], parent |-> None,
                   kind |-> "other", body |-> None]
  <1>1. e \in Event /\ Write(e) /\ UNCHANGED <<stage, used, asked, replay>> /\ e.kind = "other"
    BY DEF Event, EventOf, Bodies, Id, TypeOK, Note, replayVars
  <1> HIDE DEF e
  <1> QED
    BY <1>1, PairedAfter, DamageStays, PendingStays, RecordingStays DEF FileInv

LEMMA AskKeeps ==
  ASSUME TypeOK, FileInv, NEW r \in Requests, Ask(r)
  PROVE  FileInv'
  <1> DEFINE e == Emitted("requested", None, r)
  <1>1. Emit("requested", None, r) /\ replay' = replay /\ r \in Bodies("requested")
    BY DEF Ask, replayVars, Bodies
  <1>2. Recording' /\ (Readable' => Paired') /\ RefusesOnlyDamage'
    BY <1>1, EmitKeeps
  <1>3. e \in Event /\ Write(e) /\ stage' = stage
    BY <1>1, EmittedTypes DEF Emit, Emitted
  <1>4. ASSUME writer' # "closed", Readable'
        PROVE  (\E i \in DOMAIN lines : Awaited(i))'
    <2>1. lines' = Append(lines, e)
      BY <1>3, <1>4, ReadableAfter DEF FileInv
    <2>2. e.id = PendingId' /\ e.kind = "requested" /\ e.body = asked'.request
      BY <1>3 DEF Emitted, Ask, PendingId, ViewParent, View
    <2>3. PICK n : n \in DOMAIN lines' /\ lines'[n] = e
      BY <1>3, <2>1, Appended
    <2>4. e # Bad
      BY <1>4, <2>3 DEF Readable
    <2> HIDE DEF e
    <2>5. Awaited(n)'
      BY <2>2, <2>3, <2>4 DEF Awaited, RequestLines, Lines
    <2> QED
      BY <2>3, <2>5
  <1> QED
    BY <1>2, <1>4 DEF FileInv, Pending

LEMMA RecordKeeps ==
  ASSUME TypeOK, FileInv, Record
  PROVE  FileInv'
  <1> USE DEF modelVars, replayVars
  <1>1. ASSUME UNCHANGED fileVars, replay' = replay, Recording',
               asked' = None \/ writer' = "closed"
        PROVE  FileInv'
    BY <1>1 DEF fileVars, FileInv, Pending, Readable, Paired, Lines, RequestLines,
       RefusesOnlyDamage
  <1>2. ASSUME NEW who \in {"engine", "orchestrator", "loop"}, Open(who) PROVE FileInv'
    BY <1>1, <1>2, TraceAssumption DEF Open, Recording, FileInv, fileVars
  <1>3. ASSUME NEW run \in Stages, BeginStage(run) PROVE FileInv'
    BY <1>1, <1>3, TraceAssumption DEF BeginStage, Recording, FileInv, fileVars
  <1>4. CASE EndStage
    BY <1>1, <1>4, TraceAssumption DEF EndStage, Recording, FileInv, fileVars
  <1>5. CASE Close
    BY <1>1, <1>5 DEF Close, Recording, FileInv, fileVars, recorderVars
  <1>6. ASSUME NEW r \in Requests, Ask(r) PROVE FileInv'
    BY <1>6, AskKeeps
  <1>7. CASE OtherEvent
    BY <1>7, EmitKeeps DEF OtherEvent, Bodies, FileInv
  <1>8. CASE Answer
    <2>1. asked # None /\ asked.id \in Id /\ script[pos + 1].answer \in Answers
      BY <1>8, AnswerTypes DEF Answer, TypeOK
    <2>2. /\ Emit("responded", asked.id, script[pos + 1].answer)
          /\ asked' = None /\ replay' = replay
      BY <1>8 DEF Answer
    <2> QED
      BY <2>1, <2>2, EmitKeeps DEF Bodies, FileInv, Pending
  <1>9. CASE CallFails
    <2>1. asked.id \in Id
      BY <1>9 DEF CallFails, TypeOK
    <2> QED
      BY <1>9, <2>1, EmitKeeps DEF CallFails, Bodies, FileInv, Pending
  <1>10. CASE OrchestratorEmits \/ ControllerEmits \/ AdapterEmits
    BY <1>10, NoteKeeps, TraceAssumption DEF OrchestratorEmits, ControllerEmits, AdapterEmits
  <1> QED
    BY <1>2, <1>3, <1>4, <1>5, <1>6, <1>7, <1>8, <1>9, <1>10 DEF Record, EngineOpens

LEMMA FileHolds == Spec => []FileInv
  <1>1. Init => FileInv
    BY TraceAssumption
    DEF Init, FileInv, Recording, Pending, Readable, Paired, Lines, RefusesOnlyDamage
  <1>2. TypeOK /\ FileInv /\ [Next]_vars => FileInv'
    <2> SUFFICES ASSUME TypeOK, FileInv, [Next]_vars PROVE FileInv'
      OBVIOUS
    <2>1. ASSUME UNCHANGED <<fileVars, writer, recorderVars>>, RefusesOnlyDamage'
          PROVE  FileInv'
      BY <2>1 DEF fileVars, recorderVars, FileInv, Recording, Pending, Readable, Paired,
         Lines, RequestLines, Awaited, PendingId, ViewParent, View
    <2>2. CASE Load
      BY <2>1, <2>2 DEF Load, RefusesOnlyDamage, Readable, FileInv, fileVars
    <2>3. ASSUME NEW r \in Requests, Complete(r) PROVE FileInv'
      BY <2>1, <2>3 DEF Complete, RefusesOnlyDamage, FileInv, fileVars
    <2>4. CASE UNCHANGED vars
      BY <2>1, <2>4 DEF vars, replayVars, RefusesOnlyDamage, FileInv, fileVars
    <2> QED
      BY <2>2, <2>3, <2>4, RecordKeeps DEF Next
  <1> QED
    BY TraceTypes, <1>1, <1>2, PTL DEF Spec

\* ReplayAdapter.__init__ refuses a file only over a line that is not JSON:
\* whoever recorded it, under whatever views and in however many sessions,
\* every answer in it names a request that is there.
THEOREM RefusalsAreDamage == Spec => []RefusesOnlyDamage
  <1>1. FileInv => RefusesOnlyDamage
    BY DEF FileInv
  <1> QED
    BY <1>1, FileHolds, PTL

-----------------------------------------------------------------------------
(* A replay serves in order.                                               *)

\* Prefixes, element by element.
LEMMA PrefixOf ==
  ASSUME NEW S, NEW s \in Seq(S), NEW t \in Seq(S)
  PROVE  IsPrefix(s, t) <=> Len(s) <= Len(t) /\ \A i \in 1 .. Len(s) : s[i] = t[i]
  <1>1. Len(s) \in Nat /\ Len(t) \in Nat
    BY LenProperties
  <1>2. SubSeq(s, 1, Len(s)) = s
    BY SubSeqFull
  <1>3. ASSUME Len(s) <= Len(t)
        PROVE  /\ SubSeq(t, 1, Len(s)) \in Seq(S)
               /\ Len(SubSeq(t, 1, Len(s))) = Len(s)
               /\ \A i \in 1 .. Len(s) : SubSeq(t, 1, Len(s))[i] = t[i]
    <2>1. \A i \in 1 .. Len(s) : t[i] \in S
      BY <1>1, <1>3, ElementOfSeq
    <2> QED
      BY <1>1, <1>3, <2>1, SubSeqProperties
  <1>4. ASSUME Len(s) <= Len(t), \A i \in 1 .. Len(s) : s[i] = t[i]
        PROVE  s = SubSeq(t, 1, Len(s))
    BY <1>3, <1>4, SeqEqual
  <1> QED
    BY <1>2, <1>3, <1>4 DEF IsPrefix

InOrder ==
  /\ Len(served) = at
  /\ \A i \in 1 .. at : served[i] = interactions[i]
  /\ replay = "none" => at = 0

LEMMA OrderKept == TypeOK /\ InOrder /\ [Next]_vars => InOrder'
  <1> SUFFICES ASSUME TypeOK, InOrder, [Next]_vars PROVE InOrder'
    OBVIOUS
  <1> USE DEF replayVars
  <1>1. CASE UNCHANGED replayVars
    BY <1>1 DEF InOrder
  <1>2. CASE Load
    BY <1>2 DEF Load, InOrder
  <1>3. ASSUME NEW r \in Requests, Complete(r) PROVE InOrder'
    <2>1. CASE at < Len(interactions) /\ interactions[at + 1].request = r
      <3> DEFINE one == [request |-> r, answer |-> interactions[at + 1].answer]
      <3>1. at \in Nat /\ at + 1 \in 1 .. Len(interactions)
        BY <2>1, LenProperties DEF TypeOK
      <3>2. interactions[at + 1] \in Interaction
        BY <3>1, ElementOfSeq DEF TypeOK
      <3>3. interactions[at + 1] = one /\ one \in Interaction
        BY <2>1, <3>2 DEF Interaction
      <3>4. /\ at' = at + 1 /\ UNCHANGED <<replay, interactions>> /\ replay = "ready"
            /\ served' = Append(served, one)
        BY <1>3, <2>1 DEF Complete
      <3> HIDE DEF one
      <3>5. /\ Len(served') = at + 1 /\ served'[at + 1] = one
            /\ \A i \in 1 .. at : served'[i] = served[i]
        <4>1. served \in Seq(Interaction) /\ Len(served) = at
          BY DEF InOrder, TypeOK
        <4>2. /\ Len(Append(served, one)) = at + 1
              /\ Append(served, one)[at + 1] = one
              /\ \A i \in 1 .. at : Append(served, one)[i] = served[i]
          BY <3>3, <4>1, AppendProperties
        <4> QED
          BY <3>4, <4>2
      <3> QED
        BY <3>1, <3>3, <3>4, <3>5 DEF InOrder
    <2>2. CASE ~ (at < Len(interactions) /\ interactions[at + 1].request = r)
      BY <1>3, <2>2 DEF Complete, InOrder
    <2> QED
      BY <2>1, <2>2
  <1> QED
    BY <1>1, <1>2, <1>3
    DEF Next, Record, EngineOpens, Open, BeginStage, EndStage, Ask, OrchestratorEmits,
        ControllerEmits, AdapterEmits, Note, OtherEvent, Answer, CallFails, Close, vars

\* ReplayAdapter.complete serves the recorded interactions from the first on,
\* one after the other, whatever it is asked in between.
THEOREM ReplaysInOrder == Spec => []ReplayInOrder
  <1>1. Init => InOrder
    BY DEF Init, InOrder
  <1>2. TypeOK /\ InOrder => ReplayInOrder
    <2> SUFFICES ASSUME TypeOK, InOrder PROVE IsPrefix(served, interactions)
      BY DEF ReplayInOrder
    <2>1. /\ served \in Seq(Interaction) /\ interactions \in Seq(Interaction)
          /\ Len(served) = at /\ at \in 0 .. Len(interactions)
          /\ \A i \in 1 .. Len(served) : served[i] = interactions[i]
      BY DEF TypeOK, InOrder
    <2>2. Len(served) <= Len(interactions)
      BY <2>1, LenProperties
    <2> QED
      BY <2>1, <2>2, PrefixOf
  <1> QED
    BY TraceTypes, OrderKept, <1>1, <1>2, PTL DEF Spec

-----------------------------------------------------------------------------
(* One recording: ids.  What it has written stands before its recorders'   *)
(* counters, so that no id is given twice.                                 *)

Past(id) ==
  \/ id.run \in Recorders /\ id.n < seq[id.run]
  \/ id.run = Bare /\ writer = "loop" /\ id.n < inner
  \/ id.run \in used /\ (id.run = stage => id.n < inner)

FirstSession ==
  /\ sessions = 0 => lines = <<>> /\ writer = "closed" /\ answered = <<>>
  /\ writer # "closed" => ~ torn /\ \A i \in DOMAIN lines : lines[i] # Bad => Past(lines[i].id)

IdsInv == FirstSession /\ UniqueIds

\* A write under an id that is not past, and is when it is done.
LEMMA FreshWrite ==
  ASSUME TypeOK, FileInv, IdsInv, NEW e \in Event, Write(e), writer # "closed",
         sessions' = sessions, ~ Past(e.id),
         writer' # "closed" => Past(e.id)' /\ \A id \in Id : Past(id) => Past(id)'
  PROVE  IdsInv'
  <1>1. ~ torn /\ sessions # 0
    BY DEF IdsInv, FirstSession
  <1>2. /\ lines' = lines \/ \E l \in {e, Bad} : lines' = Append(lines, l)
        /\ writer' # "closed" => lines' = Append(lines, e) /\ ~ torn'
    BY <1>1, WriteAdds DEF FileInv, Append1
  <1>3. lines \in Seq(Event \cup {Bad}) /\ DOMAIN lines = 1 .. Len(lines) /\ Len(lines) \in Nat
    BY LenProperties DEF TypeOK
  <1>4. ASSUME NEW l \in {e, Bad}, lines' = Append(lines, l)
        PROVE  /\ DOMAIN lines' = 1 .. Len(lines) + 1 /\ lines'[Len(lines) + 1] = l
               /\ \A i \in DOMAIN lines : lines'[i] = lines[i]
    BY <1>3, <1>4, AppendProperties, LenProperties
  <1>5. UniqueIds'
    <2>1. CASE lines' = lines
      BY <2>1 DEF IdsInv, UniqueIds
    <2>2. ASSUME NEW l \in {e, Bad}, lines' = Append(lines, l) PROVE UniqueIds'
      <3>1. \A i \in DOMAIN lines : lines[i] # Bad => lines[i].id # e.id
        BY DEF IdsInv, FirstSession
      <3> QED
        BY <1>3, <1>4, <2>2, <3>1 DEF IdsInv, UniqueIds
    <2> QED
      BY <1>2, <2>1, <2>2
  <1>6. ASSUME writer' # "closed", NEW i \in DOMAIN lines', lines'[i] # Bad, NEW id, id = lines'[i].id
        PROVE  Past(id)'
    <2>1. lines' = Append(lines, e)
      BY <1>2, <1>6
    <2>2. CASE i \in DOMAIN lines
      <3>1. lines[i] = lines'[i] /\ lines[i] \in Event
        BY <1>3, <1>4, <1>6, <2>1, <2>2, ElementOfSeq
      <3>2. id \in Id /\ Past(id)
        BY <1>6, <2>2, <3>1 DEF IdsInv, FirstSession, Event, EventOf
      <3> QED
        BY <1>6, <3>2
    <2>3. CASE i \notin DOMAIN lines
      BY <1>3, <1>4, <1>6, <2>1, <2>3
    <2> QED
      BY <2>2, <2>3
  <1>7. writer' # "closed" => (\A i \in DOMAIN lines : lines[i] # Bad => Past(lines[i].id))'
    BY <1>6
  <1> QED
    BY <1>1, <1>2, <1>5, <1>7 DEF IdsInv, FirstSession

LEMMA EmitFresh ==
  ASSUME TypeOK, FileInv, IdsInv, NEW kind \in {"requested", "responded", "other"},
         NEW parent \in Id \cup {None}, NEW body \in Bodies(kind), Emit(kind, parent, body),
         sessions' = sessions
  PROVE  IdsInv'
  <1>1. PICK e \in Event : e = Emitted(kind, parent, body)
    BY EmittedTypes
  <1>2. Write(e) /\ writer # "closed" /\ UNCHANGED <<stage, used>>
    BY <1>1 DEF Emit, Emitted
  <1>3. seq \in [Recorders -> Nat] /\ inner \in Nat /\ "evt-wf" \in Recorders /\ used \subseteq Stages
    BY TraceAssumption DEF TypeOK
  <1>4. writer' # "closed" => writer' = writer
    BY <1>2, WriteTypes
  <1>5. CASE stage = None
    <2>1. e.id = [run |-> "evt-wf", n |-> seq["evt-wf"]]
      BY <1>1, <1>5 DEF Emitted, NextId
    <2>2. seq' = [seq EXCEPT !["evt-wf"] = @ + 1] /\ inner' = inner
      BY <1>5 DEF Emit, Count
    <2>3. ~ Past(e.id)
      BY <1>3, <2>1, TraceAssumption DEF Past
    <2>4. Past(e.id)'
      BY <1>3, <2>1, <2>2 DEF Past
    <2>5. ASSUME writer' # "closed", NEW id \in Id, Past(id) PROVE Past(id)'
      <3>1. id.n \in Nat
        BY DEF Id
      <3> QED
        BY <1>2, <1>3, <1>4, <2>2, <2>5, <3>1 DEF Past
    <2> QED
      BY <1>2, <2>3, <2>4, <2>5, FreshWrite
  <1>6. CASE stage # None
    <2>1. e.id.n = inner /\ e.id.run = stage
      BY <1>1, <1>6 DEF Emitted, NextId, View
    <2>2. seq' = seq /\ inner' = inner + 1
      BY <1>6 DEF Emit
    <2>3. stage \in Stages \cup {Bare} /\ stage \notin Recorders
      BY <1>6, TraceAssumption DEF TypeOK
    <2>4. ~ Past(e.id)
      BY <1>3, <2>1, <2>3, TraceAssumption DEF Past
    <2>5. writer' # "closed" => Past(e.id)'
      BY <1>2, <1>3, <1>4, <2>1, <2>2, <2>3 DEF Past, FileInv, Recording
    <2>6. ASSUME writer' # "closed", NEW id \in Id, Past(id) PROVE Past(id)'
      <3>1. id.n \in Nat
        BY DEF Id
      <3> QED
        BY <1>2, <1>3, <1>4, <2>2, <2>6, <3>1 DEF Past
    <2> QED
      BY <1>2, <2>4, <2>5, <2>6, FreshWrite
  <1> QED
    BY <1>5, <1>6

LEMMA NoteFresh ==
  ASSUME TypeOK, FileInv, IdsInv, NEW recorder \in Recorders, Note(recorder), writer # "closed"
  PROVE  IdsInv'
  <1>1. PICK e \in Event : e = [id |-> [run |-> recorder, n |-> seq[recorder]],
                               parent |-> None, kind |-> "other", body |-> None]
    BY DEF Event, EventOf, Bodies, Id, TypeOK
  <1>2. /\ Write(e) /\ UNCHANGED <<stage, inner, used, sessions>>
        /\ seq' = [seq EXCEPT ![recorder] = @ + 1]
    BY <1>1 DEF Note, Count
  <1>3. seq \in [Recorders -> Nat] /\ used \subseteq Stages
    BY DEF TypeOK
  <1>4. writer' # "closed" => writer' = writer
    BY <1>2, WriteTypes
  <1>5. ~ Past(e.id)
    BY <1>1, <1>3, TraceAssumption DEF Past
  <1>6. Past(e.id)'
    BY <1>1, <1>2, <1>3 DEF Past
  <1>7. ASSUME writer' # "closed", NEW id \in Id, Past(id) PROVE Past(id)'
    <2>1. id.n \in Nat
      BY DEF Id
    <2> QED
      BY <1>2, <1>3, <1>4, <1>7, <2>1 DEF Past
  <1> QED
    BY <1>2, <1>5, <1>6, <1>7, FreshWrite

LEMMA QuietIds ==
  ASSUME TypeOK, IdsInv, UNCHANGED <<lines, torn, sessions, answered>>,
         writer' \in {writer, "closed"},
         writer' # "closed" => \A id \in Id : Past(id) => Past(id)'
  PROVE  IdsInv'
  <1>1. ASSUME writer' # "closed", NEW i \in DOMAIN lines, lines[i] # Bad, NEW id, id = lines[i].id
        PROVE  Past(id)'
    <2>1. lines[i] \in Event
      BY <1>1, ElementOfSeq, LenProperties DEF TypeOK
    <2>2. id \in Id /\ Past(id)
      BY <1>1, <2>1 DEF IdsInv, FirstSession, Event, EventOf
    <2> QED
      BY <1>1, <2>2
  <1>2. writer' # "closed" => (\A i \in DOMAIN lines : lines[i] # Bad => Past(lines[i].id))'
    BY <1>1
  <1> QED
    BY <1>2 DEF IdsInv, FirstSession, UniqueIds

LEMMA RecordFresh ==
  ASSUME TypeOK, FileInv, IdsInv, Record, sessions' <= 1
  PROVE  IdsInv'
  <1> USE DEF fileVars, modelVars, recorderVars
  <1>1. ASSUME NEW who \in {"engine", "orchestrator", "loop"}, Open(who) PROVE IdsInv'
    <2>1. sessions = 0 /\ sessions' = 1
      BY <1>1 DEF Open, TypeOK
    <2>2. lines' = <<>> /\ ~ torn'
      BY <1>1, <2>1 DEF Open, IdsInv, FirstSession, FileInv, Recording, TypeOK
    <2> QED
      BY <2>1, <2>2 DEF IdsInv, FirstSession, UniqueIds
  <1>3. ASSUME NEW run \in Stages, BeginStage(run) PROVE IdsInv'
    <2>1. ASSUME NEW id \in Id, Past(id) PROVE Past(id)'
      BY <1>3, <2>1 DEF BeginStage, Past
    <2> QED
      BY <1>3, <2>1, QuietIds DEF BeginStage
  <1>4. CASE EndStage
    <2>1. used \subseteq Stages /\ None \notin Stages
      BY TraceAssumption DEF TypeOK
    <2>2. ASSUME NEW id \in Id, Past(id) PROVE Past(id)'
      BY <1>4, <2>1, <2>2 DEF EndStage, Past
    <2> QED
      BY <1>4, <2>2, QuietIds DEF EndStage
  <1>5. CASE Close
    BY <1>5, QuietIds DEF Close
  <1>6. ASSUME NEW r \in Requests, Ask(r) PROVE IdsInv'
    BY <1>6, EmitFresh DEF Ask, Bodies
  <1>7. CASE OtherEvent
    BY <1>7, EmitFresh DEF OtherEvent, Bodies
  <1>8. CASE Answer
    <2>1. asked.id \in Id /\ script[pos + 1].answer \in Answers
      BY <1>8, AnswerTypes DEF Answer, TypeOK
    <2>2. Emit("responded", asked.id, script[pos + 1].answer) /\ sessions' = sessions
      BY <1>8 DEF Answer
    <2> QED
      BY <2>1, <2>2, EmitFresh DEF Bodies
  <1>9. CASE CallFails
    <2>1. asked.id \in Id
      BY <1>9 DEF CallFails, TypeOK
    <2> QED
      BY <1>9, <2>1, EmitFresh DEF CallFails, Bodies
  <1>10. CASE OrchestratorEmits \/ ControllerEmits \/ AdapterEmits
    BY <1>10, NoteFresh, TraceAssumption DEF OrchestratorEmits, ControllerEmits, AdapterEmits
  <1> QED
    BY <1>1, <1>3, <1>4, <1>5, <1>6, <1>7, <1>8, <1>9, <1>10 DEF Record, EngineOpens

\* Over the whole run: what holds of a first recording holds until there is a
\* second one.
LEMMA SessionsGrow ==
  ASSUME TypeOK, [Next]_vars
  PROVE  sessions <= sessions'
  <1>1. sessions \in Int
    BY DEF TypeOK
  <1>2. ASSUME NEW who, Open(who) PROVE sessions' = sessions + 1
    BY <1>2 DEF Open
  <1>3. CASE sessions' = sessions
    BY <1>1, <1>3
  <1>4. CASE Record
    BY <1>1, <1>2, <1>3, <1>4
    DEF Record, EngineOpens, BeginStage, EndStage, Ask, OrchestratorEmits, ControllerEmits,
        AdapterEmits, Note, OtherEvent, Answer, CallFails, Close
  <1> QED
    BY <1>3, <1>4 DEF Next, Load, Complete, vars

LEMMA IdsHold == Spec => [](sessions <= 1 => IdsInv)
  <1>1. Init => IdsInv
    BY DEF Init, IdsInv, FirstSession, UniqueIds
  <1>2. ASSUME TypeOK, FileInv, IdsInv, [Next]_vars, sessions' <= 1 PROVE IdsInv'
    <2>1. ASSUME UNCHANGED <<fileVars, writer, recorderVars, sessions, answered>> PROVE IdsInv'
      <3>1. \A id \in Id : Past(id) => Past(id)'
        BY <2>1 DEF recorderVars, Past
      <3> QED
        BY <1>2, <2>1, <3>1, QuietIds DEF fileVars
    <2> QED
      BY <1>2, <2>1, RecordFresh DEF Next, Load, Complete, vars, modelVars
  <1>3. TypeOK /\ FileInv /\ (sessions <= 1 => IdsInv) /\ [Next]_vars
        => (sessions <= 1 => IdsInv)'
    <2> SUFFICES ASSUME TypeOK, FileInv, sessions <= 1 => IdsInv, [Next]_vars, sessions' <= 1
                 PROVE  IdsInv'
      OBVIOUS
    <2>1. sessions <= 1
      <3>1. sessions \in Int /\ sessions <= sessions'
        BY SessionsGrow DEF TypeOK
      <3>2. sessions' \in Int
        BY NextTypes DEF TypeOK
      <3> QED
        BY <3>1, <3>2
    <2> QED
      BY <1>2, <2>1
  <1> QED
    BY TraceTypes, FileHolds, <1>1, <1>3, PTL DEF Spec

\* docs/trace-events.md: until a second recording is appended to it, no two
\* events of a file have one id, whatever the stages, the recorders and the
\* order they write in.
THEOREM IdsAreUnique == Spec => [](sessions <= 1 => UniqueIds)
  <1>1. IdsInv => UniqueIds
    BY DEF IdsInv
  <1> QED
    BY <1>1, IdsHold, PTL

-----------------------------------------------------------------------------
(* One recording: what the file tells.                                     *)

\* Under unique ids, the request of an id is the one line that has it.
LEMMA OneRequest ==
  TypeOK /\ UniqueIds => \A id : \A i \in RequestLines(id) : RequestOf(id) = lines[i].body
  <1> SUFFICES ASSUME TypeOK, UniqueIds, NEW id, NEW i \in RequestLines(id)
               PROVE  RequestOf(id) = lines[i].body
    OBVIOUS
  <1>1. PICK j \in RequestLines(id) : RequestOf(id) = lines[j].body
    BY RequestOfTypes DEF TypeOK
  <1>2. i = j
    BY <1>1 DEF RequestLines, Lines, UniqueIds
  <1> QED
    BY <1>1, <1>2

\* An event more leaves what the lines before it gave, and adds its own pair.
LEMMA InteractionsGrow ==
  ASSUME TypeOK, TypeOK', UniqueIds, UniqueIds', Paired,
         NEW e \in Event, lines' = lines \/ lines' = Append(lines, e), Readable'
  PROVE  /\ \A i, p : i \in RequestLines(p) => RequestOf(p) = lines[i].body /\ RequestOf(p)' = lines[i].body
         /\ lines' = lines \/ e.kind # "responded" => Interactions' = Interactions
         /\ lines' # lines /\ e.kind = "responded" =>
              LET p == e.parent IN
              Interactions' = Append(Interactions, [request |-> RequestOf(p)', answer |-> e.body])
  <1>1. lines \in Seq(Event \cup {Bad}) /\ DOMAIN lines = 1 .. Len(lines) /\ Len(lines) \in Nat
    BY LenProperties DEF TypeOK
  <1>2. (\A id : \A i \in RequestLines(id) : RequestOf(id) = lines[i].body)'
    BY OneRequest, PTL
  <1>3. ASSUME NEW p, NEW i \in RequestLines(p)
        PROVE  RequestOf(p) = lines[i].body /\ RequestOf(p)' = lines[i].body
    <2>1. i \in RequestLines(p)' /\ lines'[i] = lines[i]
      BY <1>3, LinesStay DEF RequestLines, Lines
    <2> QED
      BY <1>2, <2>1, OneRequest
  <1>4. /\ Collected(Recorded, Len(lines), Responses, Pairs)
        /\ Collected(Recorded', Len(lines'), Responses', Pairs')
    <2>1. (lines \in Seq(Event \cup {Bad}))'
      BY DEF TypeOK
    <2>2. Collected(Recorded, Len(lines), Responses, Pairs)'
      BY <2>1, RecordedCollects, PTL
    <2> QED
      BY <1>1, <2>2, RecordedCollects
  <1>5. ASSUME NEW i \in 1 .. Len(lines)
        PROVE  (i \in Responses <=> i \in Responses') /\ (i \in Responses => Pairs[i] = Pairs'[i])
    <2>1. i \in DOMAIN lines' /\ lines'[i] = lines[i]
      BY <1>1, LinesStay
    <2>2. i \in Responses <=> i \in Responses'
      BY <1>1, <2>1 DEF Responses, Lines
    <2>3. ASSUME i \in Responses, NEW p, p = lines[i].parent PROVE Pairs[i] = Pairs'[i]
      <3>1. PICK j : j \in RequestLines(p)
        BY <2>3 DEF Paired, Responses
      <3>2. RequestOf(p) = RequestOf(p)'
        BY <1>3, <3>1
      <3>3. Pairs[i] = [request |-> RequestOf(p), answer |-> lines[i].body]
        BY <1>1, <2>3 DEF Pairs, Pair
      <3>4. p = lines'[i].parent
        BY <2>1, <2>3
      <3>5. Pairs'[i] = [request |-> RequestOf(p)', answer |-> lines'[i].body]
        BY <2>1, <3>4 DEF Pairs, Pair
      <3> QED
        BY <2>1, <3>2, <3>3, <3>5
    <2> QED
      BY <2>2, <2>3
  <1>6. Len(lines') \in Nat /\ Len(lines) <= Len(lines') /\ Len(lines) <= Len(lines)
    BY <1>1, Appended
  <1>7. Recorded[Len(lines)] = Recorded'[Len(lines)]
    <2>1. SameTo(Len(lines), Responses, Pairs, Responses', Pairs')
      BY <1>5 DEF SameTo
    <2> QED
      BY <1>1, <1>4, <1>6, <2>1, CollectsAlike
  <1>8. CASE lines' = lines
    BY <1>3, <1>7, <1>8 DEF Interactions
  <1>9. CASE lines' # lines
    <2> DEFINE n == Len(lines) + 1
    <2>1. lines' = Append(lines, e) /\ Len(lines') = n /\ lines'[n] = e
          /\ n \in DOMAIN lines' /\ n \in 1 .. Len(lines') /\ n - 1 = Len(lines)
      BY <1>9, Appended
    <2>2. Recorded'[n] = IF n \in Responses' THEN Append(Recorded'[n - 1], Pairs'[n])
                         ELSE Recorded'[n - 1]
      BY <1>4, <1>6, <2>1, CollectedAt
    <2>3. n \in Responses' <=> e.kind = "responded"
      BY <2>1 DEF Responses, Lines, Readable
    <2>4. ASSUME NEW p, p = e.parent PROVE Pairs'[n] = [request |-> RequestOf(p)', answer |-> e.body]
      BY <2>1, <2>4 DEF Pairs, Pair
    <2>5. Interactions' = Recorded'[n] /\ Interactions = Recorded'[n - 1]
      BY <1>7, <2>1 DEF Interactions
    <2> HIDE DEF n
    <2> QED
      BY <1>3, <1>9, <2>2, <2>3, <2>4, <2>5
  <1> QED
    BY <1>8, <1>9

LEMMA InteractionsStay ==
  ASSUME lines' = lines
  PROVE  Interactions' = Interactions /\ (Readable' <=> Readable) /\ (Paired' <=> Paired)
  BY DEF Interactions, Recorded, Pair, IsResponse, RequestOf, RequestLines, Lines, Readable, Paired

LEMMA EmptyFile ==
  ASSUME TypeOK, lines = <<>>
  PROVE  Interactions = <<>> /\ Paired
  <1>1. Collected(Recorded, 0, Responses, Pairs)
    BY RecordedCollects DEF TypeOK
  <1>2. 0 \in 0 .. 0
    OBVIOUS
  <1> QED
    BY <1>1, <1>2 DEF Collected, Interactions, Paired, Lines

\* A write keeps the file faithful: an answer follows the request it was given
\* to, and nothing else makes an interaction.
LEMMA WriteTells ==
  ASSUME TypeOK, TypeOK', FileInv, FileInv', IdsInv, IdsInv', RecordingFaithful,
         NEW e \in Event, Write(e), writer # "closed",
         \/ e.kind # "responded" /\ answered' = answered
         \/ /\ e.kind = "responded" /\ asked # None /\ e.parent = PendingId
            /\ answered' = Append(answered, [request |-> asked.request, answer |-> e.body])
  PROVE  RecordingFaithful'
  <1> SUFFICES ASSUME Readable'
               PROVE  /\ Paired'
                      /\ IsPrefix(Interactions', answered')
                      /\ Len(answered') <= Len(Interactions') + 1
                      /\ writer' # "closed" => Interactions' = answered'
    BY DEF RecordingFaithful
  <1>1. /\ Readable /\ Paired /\ Paired'
        /\ lines' = lines \/ lines' = Append(lines, e)
        /\ writer' # "closed" => lines' = Append(lines, e)
    BY ReadableAfter DEF FileInv
  <1>2. Interactions = answered
    BY <1>1 DEF RecordingFaithful
  <1>3. UniqueIds /\ UniqueIds'
    BY DEF IdsInv
  <1>4. answered \in Seq(Interaction) /\ answered' \in Seq(Interaction)
        /\ Len(answered) \in Nat /\ Len(answered') \in Nat
    BY LenProperties DEF TypeOK
  <1>5. ASSUME Interactions' = answered' PROVE IsPrefix(Interactions', answered')
    BY <1>4, <1>5, PrefixOf
  <1>6. CASE e.kind # "responded"
    <2>1. Interactions' = answered'
      BY <1>1, <1>2, <1>3, <1>6, InteractionsGrow
    <2> QED
      BY <1>1, <1>4, <1>5, <2>1
  <1>7. CASE e.kind = "responded" /\ lines' = Append(lines, e)
    <2>1. lines' # lines
      BY <1>7, Appended
    <2>2. PICK i : i \in RequestLines(e.parent) /\ lines[i].body = asked.request
      BY <1>1, <1>7 DEF FileInv, Pending, Awaited
    <2>3. PICK p : p = e.parent
      OBVIOUS
    <2>4. RequestOf(p)' = asked.request
      BY <1>1, <1>3, <2>2, <2>3, InteractionsGrow
    <2>5. Interactions' = Append(Interactions, [request |-> RequestOf(p)', answer |-> e.body])
      BY <1>1, <1>3, <1>7, <2>1, <2>3, InteractionsGrow
    <2>6. Interactions' = answered'
      BY <1>2, <1>7, <2>4, <2>5
    <2> QED
      BY <1>1, <1>4, <1>5, <2>6
  <1>8. CASE e.kind = "responded" /\ lines' # Append(lines, e)
    <2> DEFINE x == [request |-> asked.request, answer |-> e.body]
    <2>1. lines' = lines /\ writer' = "closed" /\ answered' = Append(answered, x)
      BY <1>1, <1>8
    <2>2. Interactions' = answered
      BY <1>2, <2>1, InteractionsStay
    <2>3. x \in Interaction
      BY <1>8 DEF TypeOK, Event, EventOf, Bodies, Interaction
    <2> HIDE DEF x
    <2>4. Len(answered') = Len(answered) + 1 /\ \A i \in 1 .. Len(answered) : answered'[i] = answered[i]
      BY <1>4, <2>1, <2>3, AppendProperties
    <2>5. IsPrefix(answered, answered')
      BY <1>4, <2>4, PrefixOf
    <2> QED
      BY <1>1, <1>4, <2>1, <2>2, <2>4, <2>5
  <1> QED
    BY <1>6, <1>7, <1>8

LEMMA EmitTells ==
  ASSUME TypeOK, TypeOK', FileInv, FileInv', IdsInv, IdsInv', RecordingFaithful,
         NEW kind \in {"requested", "responded", "other"},
         NEW parent \in Id \cup {None}, NEW body \in Bodies(kind), Emit(kind, parent, body),
         \/ kind # "responded" /\ answered' = answered
         \/ /\ kind = "responded" /\ asked # None /\ parent = asked.id
            /\ answered' = Append(answered, [request |-> asked.request, answer |-> body])
  PROVE  RecordingFaithful'
  <1>1. PICK e \in Event : e = Emitted(kind, parent, body)
    BY EmittedTypes
  <1>2. Write(e) /\ writer # "closed"
    BY <1>1 DEF Emit, Emitted
  <1>3. e.kind = kind /\ e.body = body
    BY <1>1 DEF Emitted
  <1>4. asked # None /\ parent = asked.id => e.parent = PendingId
    <2>1. asked # None => asked.id # None
      BY TraceAssumption DEF TypeOK
    <2> QED
      BY <1>1, <2>1 DEF Emitted, PendingId
  <1> QED
    BY <1>2, <1>3, <1>4, WriteTells

LEMMA RecordTells ==
  ASSUME TypeOK, TypeOK', FileInv, FileInv', IdsInv, IdsInv', RecordingFaithful,
         Record, sessions' <= 1
  PROVE  RecordingFaithful'
  <1> USE DEF fileVars, modelVars
  <1>1. ASSUME NEW who \in {"engine", "orchestrator", "loop"}, Open(who) PROVE RecordingFaithful'
    <2>1. lines' = <<>> /\ answered' = <<>>
      BY <1>1 DEF Open, TypeOK, IdsInv, FirstSession
    <2>2. (Interactions = <<>> /\ Paired)'
      <3>1. (TypeOK /\ lines = <<>> => Interactions = <<>> /\ Paired)'
        BY EmptyFile, PTL
      <3> QED
        BY <2>1, <3>1
    <2>3. IsPrefix(answered', answered') /\ Len(answered') <= Len(answered') + 1
      BY PrefixOf, LenProperties, SMTT(30) DEF TypeOK
    <2> QED
      BY <2>1, <2>2, <2>3 DEF RecordingFaithful
  <1>2. ASSUME UNCHANGED <<lines, answered>>, writer' \in {writer, "closed"}
        PROVE  RecordingFaithful'
    BY <1>2, InteractionsStay DEF RecordingFaithful
  <1>3. CASE (\E run \in Stages : BeginStage(run)) \/ EndStage \/ Close
    BY <1>2, <1>3 DEF BeginStage, EndStage, Close
  <1>4. ASSUME NEW r \in Requests, Ask(r) PROVE RecordingFaithful'
    BY <1>4, EmitTells DEF Ask, Bodies
  <1>5. CASE OtherEvent
    BY <1>5, EmitTells DEF OtherEvent, Bodies
  <1>6. CASE Answer
    <2>1. asked # None /\ asked.id \in Id /\ script[pos + 1].answer \in Answers
      BY <1>6, AnswerTypes DEF Answer, TypeOK
    <2>2. /\ Emit("responded", asked.id, script[pos + 1].answer)
          /\ answered' = Append(answered, [request |-> asked.request,
                                           answer |-> script[pos + 1].answer])
      BY <1>6 DEF Answer
    <2> QED
      BY <2>1, <2>2, EmitTells DEF Bodies
  <1>7. CASE CallFails
    <2>1. asked.id \in Id
      BY <1>7 DEF CallFails, TypeOK
    <2> QED
      BY <1>7, <2>1, EmitTells DEF CallFails, Bodies
  <1>8. ASSUME NEW recorder \in Recorders, Note(recorder), writer # "closed"
        PROVE  RecordingFaithful'
    <2>1. PICK e \in Event : e = [id |-> [run |-> recorder, n |-> seq[recorder]],
                                 parent |-> None, kind |-> "other", body |-> None]
      BY DEF Event, EventOf, Bodies, Id, TypeOK
    <2>2. Write(e) /\ answered' = answered /\ e.kind # "responded"
      BY <1>8, <2>1 DEF Note
    <2> QED
      BY <1>8, <2>2, WriteTells
  <1>9. CASE OrchestratorEmits \/ ControllerEmits \/ AdapterEmits
    BY <1>8, <1>9, TraceAssumption DEF OrchestratorEmits, ControllerEmits, AdapterEmits
  <1> QED
    BY <1>1, <1>3, <1>4, <1>5, <1>6, <1>7, <1>9 DEF Record, EngineOpens

LEMMA NextTells ==
  ASSUME TypeOK, TypeOK', FileInv, FileInv', IdsInv, IdsInv', RecordingFaithful,
         [Next]_vars, sessions' <= 1
  PROVE  RecordingFaithful'
  <1>1. ASSUME UNCHANGED <<fileVars, writer, answered>> PROVE RecordingFaithful'
    BY <1>1, InteractionsStay DEF RecordingFaithful, fileVars
  <1> QED
    BY <1>1, RecordTells DEF Next, Load, Complete, vars, modelVars

\* TraceWriter flushes every line, and _pair_interactions pairs by id: until a
\* second recording is appended, a file that can be read gives the
\* interactions that took place, in order, each answer with its request, and
\* only the one the process died over can be missing.
THEOREM RecordingsAreFaithful == Spec => [](sessions <= 1 => RecordingFaithful)
  <1>1. Init => RecordingFaithful
    <2> SUFFICES ASSUME Init PROVE RecordingFaithful
      OBVIOUS
    <2>1. TypeOK /\ lines = <<>> /\ answered = <<>>
      BY InitTypes DEF Init
    <2>2. Interactions = <<>> /\ Paired
      BY <2>1, EmptyFile
    <2>3. answered \in Seq(Interaction) /\ Len(answered) \in Nat
      BY <2>1, LenProperties DEF TypeOK
    <2>4. IsPrefix(answered, answered) /\ Len(answered) <= Len(answered) + 1
      BY <2>3, PrefixOf
    <2> QED
      BY <2>1, <2>2, <2>4 DEF RecordingFaithful
  <1>2. /\ TypeOK /\ FileInv /\ (sessions <= 1 => IdsInv) /\ (sessions <= 1 => RecordingFaithful)
        /\ TypeOK' /\ FileInv' /\ (sessions <= 1 => IdsInv)' /\ [Next]_vars
        => (sessions <= 1 => RecordingFaithful)'
    <2> SUFFICES ASSUME TypeOK, FileInv, sessions <= 1 => IdsInv, sessions <= 1 => RecordingFaithful,
                        TypeOK', FileInv', IdsInv', [Next]_vars, sessions' <= 1
                 PROVE  RecordingFaithful'
      OBVIOUS
    <2>1. sessions <= 1
      <3>1. sessions \in Int /\ sessions' \in Int /\ sessions <= sessions'
        BY SessionsGrow, SMTT(30) DEF TypeOK
      <3> QED
        BY <3>1
    <2> QED
      BY <2>1, NextTells
  <1> QED
    BY TraceTypes, FileHolds, IdsHold, <1>1, <1>2, PTL DEF Spec

-----------------------------------------------------------------------------
(* One recording: what is replayed took place.                             *)

Took == \A i \in DOMAIN interactions : interactions[i] \in Range(answered)

\* answered only grows.
LEMMA AnsweredGrows ==
  ASSUME TypeOK, [Next]_vars
  PROVE  \A x \in Range(answered) : x \in Range(answered)'
  <1> USE DEF modelVars
  <1>1. CASE answered' = answered
    BY <1>1
  <1>2. CASE Answer
    <2>1. PICK x \in Interaction : x = [request |-> asked.request, answer |-> script[pos + 1].answer]
      BY <1>2, AnswerTypes DEF Answer, TypeOK, Interaction
    <2>2. answered' = Append(answered, x)
      BY <1>2, <2>1 DEF Answer
    <2>3. /\ DOMAIN answered = 1 .. Len(answered) /\ DOMAIN answered' = 1 .. Len(answered) + 1
          /\ \A i \in DOMAIN answered : answered'[i] = answered[i] /\ Len(answered) \in Nat
      BY <2>1, <2>2, AppendProperties, LenProperties DEF TypeOK
    <2> QED
      BY <2>3 DEF Range
  <1> QED
    BY <1>1, <1>2
    DEF Next, Record, EngineOpens, Open, BeginStage, EndStage, Ask, OrchestratorEmits,
        ControllerEmits, AdapterEmits, Note, OtherEvent, CallFails, Close, Load, Complete, vars

LEMMA NextTook ==
  ASSUME TypeOK, TypeOK', RecordingFaithful, Took, [Next]_vars
  PROVE  Took'
  <1>1. CASE interactions' = interactions
    BY <1>1, AnsweredGrows DEF Took
  <1>2. CASE Load /\ interactions' # interactions
    <2>1. Readable /\ interactions' = Interactions /\ answered' = answered
      BY <1>2 DEF Load, modelVars
    <2>2. interactions' \in Seq(Interaction) /\ answered \in Seq(Interaction)
          /\ IsPrefix(interactions', answered)
      BY <2>1 DEF TypeOK, RecordingFaithful
    <2>3. /\ Len(interactions') \in Nat /\ Len(answered) \in Nat
          /\ DOMAIN interactions' = 1 .. Len(interactions') /\ DOMAIN answered = 1 .. Len(answered)
      BY <2>2, LenProperties
    <2>4. \A i \in DOMAIN interactions' : i \in DOMAIN answered /\ interactions'[i] = answered[i]
      BY <2>2, <2>3, PrefixOf
    <2> QED
      BY <2>1, <2>4 DEF Took, Range
  <1> QED
    BY <1>1, <1>2
    DEF Next, Record, EngineOpens, Open, BeginStage, EndStage, Ask, OrchestratorEmits,
        ControllerEmits, AdapterEmits, Note, OtherEvent, Answer, CallFails, Close, Complete, vars,
        replayVars

\* "a mismatch or an extra request fails loudly so replayed demonstrations and
\* regression tests stay honest": whenever the file is loaded, and whatever the
\* replay is asked, it serves a request only the answer the recorded model
\* gave it.
THEOREM ReplaysAreHonest == Spec => [](sessions <= 1 => ReplayHonest)
  <1>1. Init => InOrder /\ Took
    BY DEF Init, InOrder, Took
  <1>2. /\ TypeOK /\ (sessions <= 1 => RecordingFaithful) /\ (sessions <= 1 => Took)
        /\ TypeOK' /\ [Next]_vars
        => (sessions <= 1 => Took)'
    <2> SUFFICES ASSUME TypeOK, sessions <= 1 => RecordingFaithful, sessions <= 1 => Took,
                        TypeOK', [Next]_vars, sessions' <= 1
                 PROVE  Took'
      OBVIOUS
    <2>1. sessions <= 1
      <3>1. sessions \in Int /\ sessions' \in Int /\ sessions <= sessions'
        BY SessionsGrow, SMTT(30) DEF TypeOK
      <3> QED
        BY <3>1
    <2> QED
      BY <2>1, NextTook
  <1>3. TypeOK /\ InOrder /\ Took => ReplayHonest
    <2> SUFFICES ASSUME TypeOK, InOrder, Took, NEW i \in DOMAIN served
                 PROVE  served[i] \in Range(answered)
      BY DEF ReplayHonest
    <2>1. /\ DOMAIN served = 1 .. at /\ at \in 0 .. Len(interactions)
          /\ DOMAIN interactions = 1 .. Len(interactions) /\ Len(interactions) \in Nat
      BY LenProperties DEF TypeOK, InOrder
    <2>2. served[i] = interactions[i] /\ i \in DOMAIN interactions
      BY <2>1 DEF InOrder
    <2> QED
      BY <2>2 DEF Took
  <1> QED
    BY TraceTypes, RecordingsAreFaithful, OrderKept, <1>1, <1>2, <1>3, PTL DEF Spec

==============================================================================
