---------------------------- MODULE McpSessionProofs ----------------------------
(***************************************************************************)
(* Proofs about McpSession, for any tools, side-effect classes, approval   *)
(* outcomes, pipe size and number of messages.                             *)
(***************************************************************************)
EXTENDS McpSession, SequenceTheorems, TLAPS

Events == [type : EventTypes, call : 1..number]

\* What carries TypeOK and ApprovedOnly: a gated call is under way between its
\* beginning and its end; it is sent only after its approval; the lines of a
\* dead server are gone.
CallUnderWay ==
  /\ pc \in {"ready", "closed"} => call = None
  /\ pc \in {"asking", "sending"} =>
       /\ call \in [tool : Tools, argument : Arguments, number : 1..number]
       /\ call.number = number
Consented ==
  pc = "sending" /\ RequiresApproval(call.tool) => call.number \in granted
Lines ==
  /\ \A i \in DOMAIN toServer : toServer[i].call \in 1..number \cup {None}
  /\ server = "down" => toServer = <<>>

IInv ==
  TypeOK /\ id <= sends /\ CallUnderWay /\ Consented /\ Lines /\ ApprovedOnly

-----------------------------------------------------------------------------
(* Sequences.                                                              *)

LEMMA AppendFacts ==
  ASSUME NEW S, NEW s \in Seq(S), NEW e \in S
  PROVE  /\ Append(s, e) \in Seq(S)
         /\ Len(Append(s, e)) = Len(s) + 1
         /\ Append(s, e) # <<>>
         /\ DOMAIN Append(s, e) = DOMAIN s \cup {Len(s) + 1}
         /\ \A i \in DOMAIN s : Append(s, e)[i] = s[i]
         /\ Append(s, e)[Len(s) + 1] = e
  BY AppendProperties, LenProperties

LEMMA TailFacts ==
  ASSUME NEW S, NEW s \in Seq(S), s # <<>>
  PROVE  /\ Head(s) \in S /\ Head(s) = s[1] /\ 1 \in DOMAIN s
         /\ Tail(s) \in Seq(S)
         /\ Len(s) \in Nat \ {0}
         /\ Len(Tail(s)) = Len(s) - 1
         /\ \A i \in DOMAIN Tail(s) :
               i \in Nat \ {0} /\ i + 1 \in DOMAIN s /\ Tail(s)[i] = s[i + 1]
  BY HeadTailProperties, LenProperties, EmptySeq, ElementOfSeq

LEMMA TwoMore ==
  ASSUME NEW S, NEW s \in Seq(S), NEW a \in S, NEW b \in S
  PROVE  s \o <<a, b>> \in Seq(S)
  <1>1. <<a, b>> \in Seq(S)
    OBVIOUS
  <1> QED
    BY <1>1, ConcatProperties

LEMMA EmptyFacts ==
  ASSUME NEW S
  PROVE  <<>> \in Seq(S) /\ Len(<<>>) = 0 /\ DOMAIN <<>> = {}
  OBVIOUS

LEMMA MoreEvents ==
  ASSUME NEW m \in Nat, NEW n \in Nat, m <= n,
         NEW s \in Seq([type : EventTypes, call : 1..m])
  PROVE  s \in Seq([type : EventTypes, call : 1..n])
  <1>1. [type : EventTypes, call : 1..m] \subseteq [type : EventTypes, call : 1..n]
    OBVIOUS
  <1> HIDE DEF EventTypes
  <1> QED
    BY <1>1, SeqMonotonic, Zenon

-----------------------------------------------------------------------------
LEMMA InitIInv == Init => IInv
  BY SessionAssumption, EmptyFacts
  DEF Init, IInv, TypeOK, CallUnderWay, Consented, Lines, ApprovedOnly, Outcomes

\* A call that is over leaves the outcomes well typed.
LEMMA EndsTyped ==
  ASSUME TypeOK, NEW n \in 1..number, NEW o \in Outcomes, Ends(n, o)
  PROVE  /\ DOMAIN outcome' \subseteq 1..number
         /\ \A m \in DOMAIN outcome' : outcome'[m] \in Outcomes
         /\ outcome'[n] = o
         /\ \A m \in DOMAIN outcome : m # n => outcome'[m] = outcome[m]
         /\ DOMAIN outcome' = DOMAIN outcome \cup {n}
  BY DEF Ends, TypeOK

LEMMA RaisesTyped ==
  ASSUME TypeOK, Raises
  PROVE  /\ DOMAIN outcome' \subseteq 1..number
         /\ \A m \in DOMAIN outcome' : outcome'[m] \in Outcomes
         /\ call' = None /\ pc' = "ready"
  <1>1. CASE call = None
    BY <1>1 DEF Raises, TypeOK
  <1>2. CASE call # None
    <2>1. call.number \in 1..number /\ "exception" \in Outcomes
      BY <1>2 DEF TypeOK, Outcomes
    <2> QED
      BY <1>2, <2>1, EndsTyped DEF Raises
  <1> QED
    BY <1>1, <1>2

\* Whatever the client sends, the pipe takes it or the write raises.
LEMMA SendLineKeeps ==
  ASSUME IInv, NEW message \in Message, NEW next \in {"ready", "waiting"},
         SendLine(message, next),
         message.call \in 1..number \cup {None},
         (message.method = "tools/call" /\ SideEffect[message.tool] >= 3)
            => message.call \in granted,
         next = "ready" => call = None,
         id' \in Nat, id' <= id + 1, trace' \in Seq(Events)
  PROVE  IInv'
  <1> USE DEF IInv
  <1>1. /\ sends' = sends + 1 /\ sends' \in 0..MaxSends /\ id' \in 0..MaxSends
        /\ id' <= sends'
        /\ UNCHANGED <<server, toClient, number, granted, handled>>
    BY SessionAssumption DEF SendLine, TypeOK
  <1>2. trace' \in Seq([type : EventTypes, call : 1..number'])
    BY <1>1 DEF Events
  <1>3. CASE server = "down"
    <2>1. Raises /\ UNCHANGED toServer
      BY <1>3 DEF SendLine
    <2>2. TypeOK'
      BY <1>1, <1>2, <2>1, RaisesTyped DEF TypeOK
    <2> QED
      BY <1>1, <2>1, <2>2, RaisesTyped DEF CallUnderWay, Consented, Lines, ApprovedOnly
  <1>4. CASE server # "down"
    <2>1. /\ Len(toServer) < PipeSize
          /\ toServer' = Append(toServer, message)
          /\ pc' = next /\ UNCHANGED <<call, outcome>>
      BY <1>4 DEF SendLine
    <2>2. toServer \in Seq(Message) /\ Len(toServer) \in Nat
      BY LenProperties DEF TypeOK
    <2>3. /\ toServer' \in Seq(Message) /\ Len(toServer') = Len(toServer) + 1
          /\ DOMAIN toServer' = DOMAIN toServer \cup {Len(toServer) + 1}
          /\ \A i \in DOMAIN toServer : toServer'[i] = toServer[i]
          /\ toServer'[Len(toServer) + 1] = message
      BY <2>1, <2>2, AppendFacts
    <2>4. TypeOK'
      BY <1>1, <1>2, <2>1, <2>2, <2>3, SessionAssumption, SMTT(30) DEF TypeOK
    <2>5. CallUnderWay' /\ Consented'
      BY <1>1, <2>1 DEF CallUnderWay, Consented
    <2>6. Lines' /\ ApprovedOnly'
      BY <1>1, <1>4, <2>3 DEF Lines, ApprovedOnly
    <2> QED
      BY <1>1, <2>4, <2>5, <2>6
  <1> QED
    BY <1>3, <1>4

LEMMA NotifyKeeps == IInv /\ Notify => IInv'
  <1> SUFFICES ASSUME IInv, Notify PROVE IInv'
    OBVIOUS
  <1>1. PICK m \in Notifications :
          SendLine([method |-> m, id |-> None, tool |-> None, argument |-> None,
                    call |-> None], "ready")
    BY DEF Notify
  <1> DEFINE message == [method |-> m, id |-> None, tool |-> None,
                         argument |-> None, call |-> None]
  <1>2. message \in Message /\ message.call = None /\ message.method # "tools/call"
    BY SessionAssumption DEF Message
  <1>3. call = None /\ id' = id /\ id \in Nat /\ trace' \in Seq(Events)
    BY DEF Notify, IInv, CallUnderWay, TypeOK, Events
  <1> QED
    BY <1>1, <1>2, <1>3, SendLineKeeps

LEMMA AskKeeps == IInv /\ Ask => IInv'
  <1> SUFFICES ASSUME IInv, Ask PROVE IInv'
    OBVIOUS
  <1>1. PICK m \in {"initialize", "tools/list", "resources/list"} :
          Request(m, None, None, None)
    BY DEF Ask
  <1> DEFINE message == [method |-> m, id |-> id + 1, tool |-> None,
                         argument |-> None, call |-> None]
  <1>2. id \in Nat /\ id' = id + 1 /\ trace' \in Seq(Events)
    BY <1>1 DEF Ask, Request, IInv, TypeOK, Events
  <1>3. message \in Message /\ message.call = None /\ message.method # "tools/call"
    BY <1>2 DEF Message
  <1>4. SendLine(message, "waiting")
    BY <1>1 DEF Request
  <1> QED
    BY <1>2, <1>3, <1>4, SendLineKeeps

LEMMA EventTyped ==
  ASSUME number \in Nat, number > 0, NEW type \in EventTypes
  PROVE  Event(type) \in Events
  BY DEF Event, Events

LEMMA SendCallKeeps == IInv /\ SendCall => IInv'
  <1> SUFFICES ASSUME IInv, SendCall PROVE IInv'
    OBVIOUS
  <1> DEFINE message == [method |-> "tools/call", id |-> id + 1, tool |-> call.tool,
                         argument |-> call.argument, call |-> call.number]
  <1>1. /\ call \in [tool : Tools, argument : Arguments, number : 1..number]
        /\ call.number = number /\ number \in Nat /\ number > 0
        /\ RequiresApproval(call.tool) => call.number \in granted
        /\ id \in Nat /\ id' = id + 1
    BY DEF SendCall, Request, IInv, CallUnderWay, Consented, TypeOK
  <1>2. message \in Message
    BY <1>1 DEF Message
  <1>3. SendLine(message, "waiting")
    BY DEF SendCall, Request
  <1>4. trace \in Seq(Events) /\ Event("tool_requested") \in Events
    BY <1>1, EventTyped DEF IInv, TypeOK, Events, EventTypes
  <1>5. trace' \in Seq(Events)
    BY <1>4, AppendFacts DEF SendCall
  <1>6. message.call \in 1..number
    BY <1>1
  <1>7. SideEffect[message.tool] >= 3 => message.call \in granted
    BY <1>1 DEF RequiresApproval
  <1> QED
    BY <1>1, <1>2, <1>3, <1>5, <1>6, <1>7, SendLineKeeps

LEMMA BeginCallKeeps == IInv /\ BeginCall => IInv'
  <1> SUFFICES ASSUME IInv, BeginCall PROVE IInv'
    OBVIOUS
  <1>1. PICK t \in Tools, a \in Arguments :
          /\ call' = [tool |-> t, argument |-> a, number |-> number + 1]
          /\ LET policy == [type |-> "policy_evaluated", call |-> number + 1]
                 ask == [type |-> "approval_requested", call |-> number + 1]
             IN  IF RequiresApproval(t)
                 THEN pc' = "asking" /\ trace' = trace \o <<policy, ask>>
                 ELSE pc' = "sending" /\ trace' = Append(trace, policy)
    BY DEF BeginCall
  <1>2. /\ number \in Nat /\ number' = number + 1 /\ number' \in 0..MaxSends
        /\ call' \in [tool : Tools, argument : Arguments, number : 1..number']
        /\ call'.number = number' /\ call'.tool = t
        /\ UNCHANGED <<server, pipes, id, sends, granted, handled, outcome>>
    BY <1>1, SessionAssumption, SMTT(30) DEF BeginCall, IInv, TypeOK
  <1>3. trace' \in Seq([type : EventTypes, call : 1..number'])
    <2> DEFINE S == [type : EventTypes, call : 1..(number + 1)]
               policy == [type |-> "policy_evaluated", call |-> number + 1]
               ask == [type |-> "approval_requested", call |-> number + 1]
    <2>1. trace \in Seq(S)
      <3>1. number <= number + 1 /\ number + 1 \in Nat
        BY <1>2
      <3>2. trace \in Seq([type : EventTypes, call : 1..number])
        BY DEF IInv, TypeOK
      <3> QED
        BY <1>2, <3>1, <3>2, MoreEvents, Zenon
    <2>2. policy \in S /\ ask \in S
      BY <1>2 DEF EventTypes
    <2>3. trace' = trace \o <<policy, ask>> \/ trace' = Append(trace, policy)
      BY <1>1
    <2>4. trace' \in Seq(S)
      <3> HIDE DEF S, policy, ask
      <3>1. CASE trace' = trace \o <<policy, ask>>
        BY <2>1, <2>2, <3>1, TwoMore, Zenon
      <3>2. CASE trace' = Append(trace, policy)
        BY <2>1, <2>2, <3>2, AppendFacts, Zenon
      <3> QED
        BY <2>3, <3>1, <3>2
    <2> QED
      BY <1>2, <2>4
  <1>4. pc' \in {"asking", "sending"} /\ (pc' = "sending" => ~ RequiresApproval(t))
    BY <1>1
  <1>5. TypeOK'
    <2>1. 1..number \subseteq 1..number'
      BY <1>2
    <2> QED
      BY <1>2, <1>3, <1>4, <2>1 DEF IInv, TypeOK, pipes
  <1>6. CallUnderWay' /\ Consented'
    BY <1>2, <1>4 DEF CallUnderWay, Consented, RequiresApproval
  <1>7. Lines' /\ ApprovedOnly'
    BY <1>2 DEF IInv, Lines, ApprovedOnly, pipes
  <1> QED
    BY <1>2, <1>5, <1>6, <1>7 DEF IInv

LEMMA DecideKeeps == IInv /\ Decide => IInv'
  <1> SUFFICES ASSUME IInv, Decide PROVE IInv'
    OBVIOUS
  <1> USE DEF IInv
  <1>1. /\ pc = "asking" /\ number \in Nat /\ number > 0 /\ call.number = number
        /\ call \in [tool : Tools, argument : Arguments, number : 1..number]
        /\ UNCHANGED <<server, toServer, toClient, id, sends, number, handled>>
    <2>1. /\ pc = "asking"
          /\ UNCHANGED <<server, toServer, toClient, id, sends, number, handled>>
      BY DEF Decide, pipes
    <2>2. number \in Nat
      BY SessionAssumption DEF TypeOK
    <2>3. /\ call \in [tool : Tools, argument : Arguments, number : 1..number]
          /\ call.number = number
      BY <2>1 DEF CallUnderWay
    <2>4. number \in 1..number
      BY <2>3
    <2> QED
      BY <2>1, <2>2, <2>3, <2>4
  <1>2. /\ trace \in Seq(Events) /\ Event("approval_resolved") \in Events
        /\ Event("tool_failed") \in Events
    BY <1>1, EventTyped DEF TypeOK, Events, EventTypes
  <1>3. PICK d \in Decisions :
          IF d = Approved
          THEN /\ granted' = granted \cup {number}
               /\ pc' = "sending"
               /\ trace' = Append(trace, Event("approval_resolved"))
               /\ UNCHANGED <<call, outcome>>
          ELSE /\ pc' = "ready" /\ call' = None
               /\ Ends(number, "not approved")
               /\ trace' = trace \o <<Event("approval_resolved"), Event("tool_failed")>>
               /\ UNCHANGED granted
    BY DEF Decide
  <1>4. trace' \in Seq(Events)
    <2>1. CASE trace' = Append(trace, Event("approval_resolved"))
      BY <1>2, <2>1, AppendFacts, Zenon
    <2>2. CASE trace' = trace \o <<Event("approval_resolved"), Event("tool_failed")>>
      BY <1>2, <2>2, TwoMore, Zenon
    <2> QED
      BY <1>3, <2>1, <2>2
  <1>5. CASE d = Approved
    <2>1. TypeOK'
      BY <1>1, <1>3, <1>4, <1>5 DEF TypeOK, Events
    <2> QED
      BY <1>1, <1>3, <1>5, <2>1 DEF CallUnderWay, Consented, Lines, ApprovedOnly
  <1>6. CASE d # Approved
    <2>1. number \in 1..number /\ "not approved" \in Outcomes
      BY <1>1 DEF Outcomes
    <2>2. /\ DOMAIN outcome' \subseteq 1..number
          /\ \A m \in DOMAIN outcome' : outcome'[m] \in Outcomes
      BY <1>3, <1>6, <2>1, EndsTyped
    <2>3. TypeOK'
      BY <1>1, <1>3, <1>4, <1>6, <2>2 DEF TypeOK, Events
    <2> QED
      BY <1>1, <1>3, <1>6, <2>3 DEF CallUnderWay, Consented, Lines, ApprovedOnly
  <1> QED
    BY <1>5, <1>6

LEMMA RepliedTyped ==
  ASSUME IInv, NEW line \in Reply, Replied(line), UNCHANGED number
  PROVE  /\ DOMAIN outcome' \subseteq 1..number
         /\ \A m \in DOMAIN outcome' : outcome'[m] \in Outcomes
         /\ trace' \in Seq(Events)
         /\ call' = None /\ pc' = "ready"
  <1>1. CASE call = None
    BY <1>1 DEF Replied, IInv, TypeOK, Events
  <1>2. CASE call # None
    <2> DEFINE o == IF line.ok = "yes" THEN "reply" ELSE "error reply"
    <2>1. call.number \in 1..number /\ o \in Outcomes /\ Ends(call.number, o)
      BY <1>2 DEF Replied, IInv, TypeOK, Outcomes
    <2>2. number \in Nat /\ number > 0
      <3>1. number \in Nat
        BY SessionAssumption DEF IInv, TypeOK
      <3>2. PICK k \in 1..number : k = call.number
        BY <2>1
      <3>3. k \in Nat /\ 1 <= k /\ k <= number
        BY <3>1
      <3> QED
        BY <3>1, <3>3
    <2>3. trace \in Seq(Events) /\ Event("tool_completed") \in Events
      BY <2>2, EventTyped DEF IInv, TypeOK, Events, EventTypes
    <2>4. trace' = Append(trace, Event("tool_completed"))
      BY <1>2 DEF Replied
    <2>5. trace' \in Seq(Events)
      BY <2>3, <2>4, AppendFacts, Zenon
    <2> HIDE DEF o
    <2> QED
      BY <1>2, <2>1, <2>5, EndsTyped DEF Replied, IInv
  <1> QED
    BY <1>1, <1>2

LEMMA ReadReplyKeeps == IInv /\ ReadReply => IInv'
  <1> SUFFICES ASSUME IInv, ReadReply PROVE IInv'
    OBVIOUS
  <1>1. UNCHANGED <<server, toServer, id, sends, number, granted, handled>>
    BY DEF ReadReply
  <1>2. /\ toClient' \in Seq(Reply) /\ Len(toClient') <= PipeSize
        /\ DOMAIN outcome' \subseteq 1..number
        /\ \A m \in DOMAIN outcome' : outcome'[m] \in Outcomes
        /\ trace' \in Seq(Events)
        /\ call' = None /\ pc' = "ready"
    <2>1. CASE toClient # <<>> /\ toClient' = Tail(toClient)
      <3>1. /\ Head(toClient) \in Reply
            /\ toClient' \in Seq(Reply) /\ Len(toClient') <= PipeSize
        BY <2>1, TailFacts, SessionAssumption DEF IInv, TypeOK
      <3>2. CASE Raises /\ UNCHANGED trace
        BY <3>1, <3>2, RaisesTyped DEF IInv, TypeOK, Events
      <3>3. CASE Replied(Head(toClient))
        BY <1>1, <3>1, <3>3, RepliedTyped
      <3> QED
        BY <2>1, <3>2, <3>3 DEF ReadReply
    <2>2. CASE Raises /\ UNCHANGED <<toClient, trace>>
      BY <2>2, RaisesTyped DEF IInv, TypeOK, Events
    <2> QED
      BY <2>1, <2>2 DEF ReadReply
  <1>3. TypeOK'
    BY <1>1, <1>2 DEF IInv, TypeOK, Events
  <1> QED
    BY <1>1, <1>2, <1>3 DEF IInv, CallUnderWay, Consented, Lines, ApprovedOnly

LEMMA CloseKeeps == IInv /\ Close => IInv'
  <1> SUFFICES ASSUME IInv, Close PROVE IInv'
    OBVIOUS
  <1>1. TypeOK'
    BY EmptyFacts, SessionAssumption DEF Close, IInv, TypeOK, callVars
  <1> QED
    BY <1>1, EmptyFacts
    DEF Close, IInv, CallUnderWay, Consented, Lines, ApprovedOnly, callVars

\* The server takes the first line; the others move up.
LEMMA TailKept ==
  ASSUME IInv, toServer # <<>>, toServer' = Tail(toServer),
         UNCHANGED <<server, number, granted>>
  PROVE  /\ toServer' \in Seq(Message) /\ Len(toServer') <= PipeSize
         /\ Lines' /\ ApprovedOnly'
  <1>1. toServer \in Seq(Message) /\ Len(toServer) <= PipeSize
    BY DEF IInv, TypeOK
  <1>2. /\ toServer' \in Seq(Message) /\ Len(toServer) \in Nat \ {0}
        /\ Len(toServer') = Len(toServer) - 1
        /\ \A i \in DOMAIN toServer' :
              i + 1 \in DOMAIN toServer /\ toServer'[i] = toServer[i + 1]
    BY <1>1, TailFacts
  <1>3. server # "down"
    BY DEF IInv, Lines
  <1>4. Lines'
    BY <1>2, <1>3 DEF IInv, Lines
  <1>5. ApprovedOnly'
    BY <1>2 DEF IInv, ApprovedOnly
  <1> QED
    BY <1>1, <1>2, <1>4, <1>5, SessionAssumption

LEMMA HandleKeeps == IInv /\ Handle => IInv'
  <1> SUFFICES ASSUME IInv, Handle PROVE IInv'
    OBVIOUS
  <1> DEFINE m == Head(toServer)
  <1>1. /\ m \in Message /\ m = toServer[1] /\ 1 \in DOMAIN toServer
        /\ m.call \in 1..number \cup {None}
        /\ UNCHANGED <<pc, id, sends, call, number, granted, outcome, trace>>
    <2>1. m \in Message /\ m = toServer[1] /\ 1 \in DOMAIN toServer
      BY TailFacts DEF Handle, IInv, TypeOK
    <2> QED
      BY <2>1 DEF Handle, IInv, Lines, callVars
  <1>2. handled' \subseteq 1..number
    BY <1>1 DEF Handle, IInv, TypeOK
  <1>3. /\ toClient' \in Seq(Reply) /\ Len(toClient') <= PipeSize
    <2>1. toClient \in Seq(Reply) /\ Len(toClient) <= PipeSize /\ Len(toClient) \in Nat
      BY LenProperties DEF IInv, TypeOK
    <2>2. CASE UNCHANGED toClient
      BY <2>1, <2>2
    <2>3. CASE ~ UNCHANGED toClient
      <3> DEFINE r == [id |-> m.id, ok |-> IF Succeeds(m) THEN "yes" ELSE "no"]
      <3>1. Len(toClient) < PipeSize /\ toClient' = Append(toClient, r)
        BY <2>3 DEF Handle
      <3>2. r \in Reply
        BY <1>1 DEF Message, Reply
      <3> HIDE DEF r
      <3> QED
        BY <2>1, <3>1, <3>2, AppendFacts, SessionAssumption
    <2> QED
      BY <2>2, <2>3
  <1>4. /\ server' \in {"up", "down"}
        /\ toServer' \in Seq(Message) /\ Len(toServer') <= PipeSize
        /\ Lines' /\ ApprovedOnly'
    <2>1. CASE Dies
      BY <1>1, <2>1, EmptyFacts, SessionAssumption DEF Dies, Lines, ApprovedOnly
    <2>2. CASE toServer' = Tail(toServer) /\ UNCHANGED server
      BY <1>1, <2>2, TailKept DEF Handle, IInv, TypeOK
    <2> QED
      BY <2>1, <2>2 DEF Handle
  <1>5. TypeOK'
    BY <1>1, <1>2, <1>3, <1>4 DEF IInv, TypeOK
  <1> QED
    BY <1>1, <1>4, <1>5 DEF IInv, CallUnderWay, Consented

LEMMA KilledKeeps == IInv /\ Killed => IInv'
  <1> SUFFICES ASSUME IInv, Killed PROVE IInv'
    OBVIOUS
  <1>1. /\ server' = "down" /\ toServer' = <<>>
        /\ UNCHANGED <<pc, id, sends, call, number, granted, outcome, trace, handled>>
    BY DEF Killed, Dies, callVars
  <1>2. toClient' \in Seq(Reply) /\ Len(toClient') <= PipeSize
    <2>1. toClient \in Seq(Reply) /\ Len(toClient) <= PipeSize /\ Len(toClient) \in Nat
      BY LenProperties DEF IInv, TypeOK
    <2>2. CASE UNCHANGED toClient
      BY <2>1, <2>2
    <2>3. CASE ~ UNCHANGED toClient
      <3> DEFINE r == [id |-> Head(toServer).id, ok |-> "torn"]
      <3>1. /\ toServer # <<>> /\ Len(toClient) < PipeSize
            /\ toClient' = Append(toClient, r)
        BY <2>3 DEF Killed
      <3>2. Head(toServer) \in Message
        BY <3>1, TailFacts DEF IInv, TypeOK
      <3>3. r \in Reply
        BY <3>2 DEF Message, Reply
      <3> HIDE DEF r
      <3> QED
        BY <2>1, <3>1, <3>3, AppendFacts, SessionAssumption
    <2> QED
      BY <2>2, <2>3
  <1>3. TypeOK'
    BY <1>1, <1>2, EmptyFacts, SessionAssumption DEF IInv, TypeOK
  <1> QED
    BY <1>1, <1>3, EmptyFacts
    DEF IInv, CallUnderWay, Consented, Lines, ApprovedOnly

LEMMA NextIInv == IInv /\ [Next]_vars => IInv'
  <1> SUFFICES ASSUME IInv, [Next]_vars PROVE IInv'
    OBVIOUS
  <1>1. CASE Client
    BY <1>1, NotifyKeeps, AskKeeps, BeginCallKeeps, DecideKeeps, SendCallKeeps,
       ReadReplyKeeps, CloseKeeps DEF Client
  <1>2. CASE Handle
    BY <1>2, HandleKeeps
  <1>3. CASE Killed
    BY <1>3, KilledKeeps
  <1>4. CASE UNCHANGED vars
    <2>1. TypeOK'
      BY <1>4 DEF IInv, TypeOK, vars, pipes, callVars
    <2> QED
      BY <1>4, <2>1 DEF IInv, CallUnderWay, Consented, Lines, ApprovedOnly,
         vars, pipes, callVars
  <1> QED
    BY <1>1, <1>2, <1>3, <1>4 DEF Next

LEMMA Inductive == Spec => []IInv
  BY InitIInv, NextIInv, PTL DEF Spec

-----------------------------------------------------------------------------
(* The two pipes in step, when the one notification the client sends is the *)
(* one the server knows.                                                   *)

OneNotification == Notifications = {Initialized}

\* Only the last line to the server wants an answer, and it is the request
\* the client waits over; once it is answered that pipe is empty and the other
\* holds this one reply.
RequestOnly ==
  \A i \in DOMAIN toServer :
    \/ Silent(toServer[i])
    \/ /\ pc = "waiting" /\ i = Len(toServer) /\ toServer[i].id = id
       /\ call # None => toServer[i].call = call.number
ReplyOnly ==
  toClient # <<>> =>
    /\ pc = "waiting" /\ toServer = <<>> /\ Len(toClient) = 1
    /\ toClient[1].id = id
    /\ toClient[1].ok = "yes" /\ call # None => call.number \in handled

Lockstep == RequestOnly /\ ReplyOnly /\ RepliesAreEarned

LEMMA InitLockstep == Init => Lockstep
  BY EmptyFacts DEF Init, Lockstep, RequestOnly, ReplyOnly, RepliesAreEarned

\* What a call ends with is earned, unless it is a reply.
LEMMA EndsEarned ==
  ASSUME RepliesAreEarned, handled \subseteq handled', NEW n, NEW o, Ends(n, o),
         o = "reply" => n \in handled'
  PROVE  RepliesAreEarned'
  BY DEF Ends, RepliesAreEarned

LEMMA RaisesEarned ==
  ASSUME RepliesAreEarned, UNCHANGED handled, Raises
  PROVE  RepliesAreEarned'
  <1>1. CASE call = None
    BY <1>1 DEF Raises, RepliesAreEarned
  <1>2. CASE call # None
    BY <1>2, EndsEarned DEF Raises
  <1> QED
    BY <1>1, <1>2

LEMMA SendLineInStep ==
  ASSUME IInv, Lockstep, pc # "waiting",
         NEW message \in Message, NEW next \in {"ready", "waiting"},
         SendLine(message, next),
         \/ Silent(message)
         \/ /\ next = "waiting" /\ message.id = id'
            /\ call # None => message.call = call.number
  PROVE  Lockstep'
  <1>1. toClient' = <<>> /\ UNCHANGED handled /\ \A i \in DOMAIN toServer : Silent(toServer[i])
    BY DEF SendLine, Lockstep, RequestOnly, ReplyOnly
  <1>2. ReplyOnly'
    BY <1>1 DEF ReplyOnly
  <1>3. CASE server = "down"
    <2>1. Raises /\ toServer' = <<>>
      BY <1>3 DEF SendLine, IInv, Lines
    <2>2. RepliesAreEarned'
      BY <1>1, <2>1, RaisesEarned DEF Lockstep
    <2> QED
      BY <1>2, <2>1, <2>2, EmptyFacts DEF Lockstep, RequestOnly
  <1>4. CASE server # "down"
    <2>1. toServer' = Append(toServer, message) /\ pc' = next /\ UNCHANGED <<call, outcome>>
      BY <1>4 DEF SendLine
    <2>2. toServer \in Seq(Message) /\ Len(toServer) \in Nat
      BY LenProperties DEF IInv, TypeOK
    <2>3. /\ Len(toServer') = Len(toServer) + 1
          /\ DOMAIN toServer' = DOMAIN toServer \cup {Len(toServer) + 1}
          /\ \A i \in DOMAIN toServer : toServer'[i] = toServer[i]
          /\ toServer'[Len(toServer) + 1] = message
      BY <2>1, <2>2, AppendFacts
    <2>4. RequestOnly'
      BY <1>1, <2>1, <2>3 DEF RequestOnly, Silent
    <2>5. RepliesAreEarned'
      BY <1>1, <2>1 DEF Lockstep, RepliesAreEarned
    <2> QED
      BY <1>2, <2>4, <2>5 DEF Lockstep
  <1> QED
    BY <1>3, <1>4

LEMMA ClientInStep == OneNotification /\ IInv /\ Lockstep /\ Client => Lockstep'
  <1> SUFFICES ASSUME OneNotification, IInv, Lockstep, Client PROVE Lockstep'
    OBVIOUS
  <1>0. id \in Nat
    BY DEF IInv, TypeOK
  <1>1. CASE Notify
    <2> DEFINE message == [method |-> Initialized, id |-> None, tool |-> None,
                           argument |-> None, call |-> None]
    <2>1. SendLine(message, "ready") /\ pc # "waiting"
      BY <1>1 DEF Notify, OneNotification
    <2>2. message \in Message /\ Silent(message)
      BY SessionAssumption DEF Message, Silent
    <2> QED
      BY <2>1, <2>2, SendLineInStep
  <1>2. CASE Ask
    <2>1. PICK m \in {"initialize", "tools/list", "resources/list"} :
            Request(m, None, None, None)
      BY <1>2 DEF Ask
    <2> DEFINE message == [method |-> m, id |-> id + 1, tool |-> None,
                           argument |-> None, call |-> None]
    <2>2. SendLine(message, "waiting") /\ message.id = id' /\ pc # "waiting" /\ call = None
      BY <1>2, <2>1 DEF Ask, Request, IInv, CallUnderWay
    <2>3. message \in Message
      BY <1>0 DEF Message
    <2> QED
      BY <2>2, <2>3, SendLineInStep
  <1>3. CASE SendCall
    <2> DEFINE message == [method |-> "tools/call", id |-> id + 1, tool |-> call.tool,
                           argument |-> call.argument, call |-> call.number]
    <2>1. /\ SendLine(message, "waiting") /\ message.id = id' /\ pc # "waiting"
          /\ message.call = call.number
      BY <1>3 DEF SendCall, Request
    <2>2. message \in Message
      BY <1>0, <1>3 DEF SendCall, IInv, CallUnderWay, Message
    <2> QED
      BY <2>1, <2>2, SendLineInStep
  <1>4. CASE BeginCall
    BY <1>4 DEF BeginCall, pipes, Lockstep, RequestOnly, ReplyOnly, RepliesAreEarned, Silent
  <1>5. CASE Decide
    <2>1. /\ pc = "asking" /\ UNCHANGED <<toServer, toClient, id, handled>>
          /\ UNCHANGED outcome \/ Ends(number, "not approved")
      BY <1>5 DEF Decide, pipes
    <2>2. RepliesAreEarned'
      <3>1. CASE UNCHANGED outcome
        BY <2>1, <3>1 DEF Lockstep, RepliesAreEarned
      <3>2. CASE Ends(number, "not approved")
        BY <2>1, <3>2, EndsEarned DEF Lockstep
      <3> QED
        BY <2>1, <3>1, <3>2
    <2> QED
      BY <2>1, <2>2 DEF Lockstep, RequestOnly, ReplyOnly, Silent
  <1>6. CASE ReadReply
    <2>1. UNCHANGED <<toServer, handled>>
      BY <1>6 DEF ReadReply
    <2>2. toServer = <<>> /\ toClient' = <<>> /\ RepliesAreEarned'
      <3>1. CASE toClient # <<>> /\ toClient' = Tail(toClient)
        <4>1. /\ toServer = <<>> /\ Len(toClient) = 1
              /\ toClient[1].ok = "yes" /\ call # None => call.number \in handled
          BY <3>1 DEF Lockstep, ReplyOnly
        <4>2. Head(toClient) = toClient[1] /\ Tail(toClient) \in Seq(Reply) /\ Len(Tail(toClient)) = 0
          BY <3>1, <4>1, TailFacts DEF IInv, TypeOK
        <4>3. toClient' = <<>>
          BY <3>1, <4>2, EmptySeq
        <4>4. CASE Raises
          BY <2>1, <4>1, <4>3, <4>4, RaisesEarned DEF Lockstep
        <4>5. CASE Replied(Head(toClient))
          <5>1. CASE call = None
            <6>1. UNCHANGED outcome
              BY <4>5, <5>1 DEF Replied
            <6>2. RepliesAreEarned
              BY DEF Lockstep
            <6> QED
              BY <2>1, <6>1, <6>2, <4>1, <4>3 DEF RepliesAreEarned
          <5>2. CASE call # None
            <6> DEFINE o == IF Head(toClient).ok = "yes" THEN "reply" ELSE "error reply"
            <6>1. Ends(call.number, o) /\ (o = "reply" => call.number \in handled')
              BY <2>1, <4>1, <4>2, <4>5, <5>2 DEF Replied
            <6>2. RepliesAreEarned /\ handled \subseteq handled'
              BY <2>1 DEF Lockstep
            <6>3. RepliesAreEarned'
              <7> HIDE DEF o
              <7> QED
                BY <6>1, <6>2, EndsEarned
            <6> QED
              BY <4>1, <4>3, <6>3
          <5> QED
            BY <4>1, <4>3, <5>1, <5>2
        <4> QED
          BY <1>6, <3>1, <4>1, <4>3, <4>4, <4>5 DEF ReadReply
      <3>2. CASE toClient = <<>> /\ server = "down" /\ Raises /\ UNCHANGED toClient
        BY <2>1, <3>2, RaisesEarned DEF Lockstep, IInv, Lines
      <3> QED
        BY <1>6, <3>1, <3>2 DEF ReadReply
    <2> QED
      BY <2>1, <2>2, EmptyFacts DEF Lockstep, RequestOnly, ReplyOnly
  <1>7. CASE Close
    BY <1>7, EmptyFacts
    DEF Close, callVars, Lockstep, RequestOnly, ReplyOnly, RepliesAreEarned
  <1> QED
    BY <1>1, <1>2, <1>3, <1>4, <1>5, <1>6, <1>7 DEF Client

LEMMA HandleInStep == IInv /\ Lockstep /\ Handle => Lockstep'
  <1> SUFFICES ASSUME IInv, Lockstep, Handle PROVE Lockstep'
    OBVIOUS
  <1> DEFINE m == Head(toServer)
  <1>1. /\ toServer # <<>> /\ toClient = <<>> /\ toServer \in Seq(Message)
        /\ UNCHANGED <<pc, id, call, outcome>> /\ handled \subseteq handled'
    BY DEF Handle, callVars, Lockstep, ReplyOnly, IInv, TypeOK
  <1>2. RepliesAreEarned'
    BY <1>1 DEF Lockstep, RepliesAreEarned
  <1>3. CASE Dies /\ UNCHANGED toClient
    BY <1>1, <1>2, <1>3, EmptyFacts DEF Dies, Lockstep, RequestOnly, ReplyOnly
  <1>4. CASE toServer' = Tail(toServer)
    <2>1. /\ m = toServer[1] /\ 1 \in DOMAIN toServer /\ toServer' \in Seq(Message)
          /\ Len(toServer) \in Nat \ {0} /\ Len(toServer') = Len(toServer) - 1
          /\ \A i \in DOMAIN toServer' :
                i \in Nat /\ i + 1 \in DOMAIN toServer /\ toServer'[i] = toServer[i + 1]
      BY <1>1, <1>4, TailFacts
    <2>2. RequestOnly'
      <3> SUFFICES ASSUME NEW i \in DOMAIN toServer', ~ Silent(toServer'[i])
                   PROVE  /\ pc = "waiting" /\ i = Len(toServer') /\ toServer'[i].id = id
                          /\ call # None => toServer'[i].call = call.number
        BY <1>1 DEF RequestOnly, Silent
      <3>1. /\ pc = "waiting" /\ i + 1 = Len(toServer) /\ toServer[i + 1].id = id
            /\ call # None => toServer[i + 1].call = call.number
        BY <2>1 DEF Lockstep, RequestOnly, Silent
      <3> QED
        BY <2>1, <3>1
    <2>3. ReplyOnly'
      <3>1. CASE UNCHANGED toClient
        BY <1>1, <3>1 DEF ReplyOnly
      <3>2. CASE ~ UNCHANGED toClient
        <4> DEFINE r == [id |-> m.id, ok |-> IF Succeeds(m) THEN "yes" ELSE "no"]
        <4>1. ~ Silent(m) /\ toClient' = Append(toClient, r)
          BY <1>3, <1>4, <3>2 DEF Handle
        <4>2. /\ pc = "waiting" /\ 1 = Len(toServer) /\ m.id = id
              /\ call # None => m.call = call.number
          BY <2>1, <4>1 DEF Lockstep, RequestOnly
        <4>3. toServer' = <<>>
          <5>1. Len(toServer') = 0
            <6>1. Len(toServer) = 1
              BY <4>2
            <6>2. Len(toServer') = Len(toServer) - 1
              BY <2>1
            <6> QED
              BY <6>1, <6>2
          <5> QED
            BY <2>1, <5>1, EmptySeq
        <4>4. call # None => call.number \in handled'
          <5>1. call # None => call.number \in 1..number
            BY DEF IInv, TypeOK
          <5>2. call # None => m.call # None
            BY <4>2, <5>1, SessionAssumption
          <5> QED
            BY <4>2, <5>2 DEF Handle
        <4>5. toClient' = <<r>>
          BY <1>1, <4>1
        <4>6. r.id = id
          BY <4>2
        <4> HIDE DEF r
        <4> QED
          BY <1>1, <4>2, <4>3, <4>4, <4>5, <4>6 DEF ReplyOnly
      <3> QED
        BY <3>1, <3>2
    <2> QED
      BY <1>2, <2>2, <2>3 DEF Lockstep
  <1> QED
    BY <1>3, <1>4 DEF Handle

LEMMA KilledInStep == IInv /\ Lockstep /\ Killed => Lockstep'
  <1> SUFFICES ASSUME IInv, Lockstep, Killed PROVE Lockstep'
    OBVIOUS
  <1>1. toServer' = <<>> /\ UNCHANGED <<pc, id, call, outcome, handled>>
    BY DEF Killed, Dies, callVars
  <1>2. RequestOnly' /\ RepliesAreEarned'
    BY <1>1, EmptyFacts DEF Lockstep, RequestOnly, RepliesAreEarned
  <1>3. CASE UNCHANGED toClient
    BY <1>1, <1>2, <1>3 DEF Lockstep, ReplyOnly
  <1>4. CASE ~ UNCHANGED toClient
    <2> DEFINE r == [id |-> Head(toServer).id, ok |-> "torn"]
    <2>1. toServer # <<>> /\ ~ Silent(Head(toServer)) /\ toClient' = Append(toClient, r)
      BY <1>4 DEF Killed
    <2>2. toClient = <<>> /\ Head(toServer) = toServer[1] /\ 1 \in DOMAIN toServer
      BY <2>1, TailFacts DEF Lockstep, ReplyOnly, IInv, TypeOK
    <2>3. pc = "waiting" /\ Head(toServer).id = id
      BY <2>1, <2>2 DEF Lockstep, RequestOnly
    <2>4. toClient' = <<r>> /\ r.id = id /\ r.ok = "torn"
      BY <2>1, <2>2, <2>3
    <2> HIDE DEF r
    <2> QED
      BY <1>1, <1>2, <2>3, <2>4 DEF Lockstep, ReplyOnly
  <1> QED
    BY <1>3, <1>4

LEMMA InStep ==
  ASSUME OneNotification
  PROVE  Spec => []Lockstep
  <1>1. IInv /\ Lockstep /\ [Next]_vars => Lockstep'
    <2>1. CASE UNCHANGED vars
      BY <2>1 DEF vars, pipes, callVars, Lockstep, RequestOnly, ReplyOnly,
         RepliesAreEarned, Silent
    <2> QED
      BY <2>1, ClientInStep, HandleInStep, KilledInStep DEF Next
  <1> QED
    BY <1>1, InitLockstep, Inductive, PTL DEF Spec

-----------------------------------------------------------------------------
(* What the trace tells.                                                   *)

\* The gated call under way has its request in the trace once it waits, and no
\* event that ends one; a line is torn only by the death of the server.
Telling ==
  call # None =>
    /\ call.number = number /\ number \notin DOMAIN outcome
    /\ ~ Recorded("tool_completed", number) /\ ~ Recorded("tool_failed", number)
    /\ pc = "waiting" => Recorded("tool_requested", number)
Torn == \A i \in DOMAIN toClient : toClient[i].ok = "torn" => server = "down"

TellInv == TraceTells /\ Telling /\ Torn

\* Events of the types in ts, about call n, are all that the trace gains.
Gains(ts, n) == \A type, m : Recorded(type, m)' <=> Recorded(type, m) \/ (m = n /\ type \in ts)

LEMMA GainsNone ==
  ASSUME trace' = trace, NEW n
  PROVE  Gains({}, n)
  BY DEF Gains, Recorded

LEMMA GainsOne ==
  ASSUME NEW S, trace \in Seq(S), NEW type, NEW n, [type |-> type, call |-> n] \in S,
         trace' = Append(trace, [type |-> type, call |-> n])
  PROVE  Gains({type}, n)
  <1> DEFINE x == [type |-> type, call |-> n]
  <1>1. /\ DOMAIN trace' = DOMAIN trace \cup {Len(trace) + 1}
        /\ \A i \in DOMAIN trace : trace'[i] = trace[i]
        /\ trace'[Len(trace) + 1] = x
    BY AppendFacts
  <1>2. \A a, m : x = [type |-> a, call |-> m] <=> (m = n /\ a = type)
    OBVIOUS
  <1> HIDE DEF x
  <1> QED
    BY <1>1, <1>2 DEF Gains, Recorded

LEMMA GainsTwo ==
  ASSUME NEW S, trace \in Seq(S), NEW a, NEW b, NEW n,
         [type |-> a, call |-> n] \in S, [type |-> b, call |-> n] \in S,
         trace' = trace \o <<[type |-> a, call |-> n], [type |-> b, call |-> n]>>
  PROVE  Gains({a, b}, n)
  <1> DEFINE x == [type |-> a, call |-> n]
             y == [type |-> b, call |-> n]
  <1>1. Len(trace) \in Nat /\ DOMAIN trace = 1 .. Len(trace)
    BY LenProperties
  <1>2. <<x, y>> \in Seq(S) /\ Len(<<x, y>>) = 2
    OBVIOUS
  <1>3. \A c, m : /\ x = [type |-> c, call |-> m] <=> (m = n /\ c = a)
                  /\ y = [type |-> c, call |-> m] <=> (m = n /\ c = b)
    OBVIOUS
  <1>4. <<x, y>>[1] = x /\ <<x, y>>[2] = y
    OBVIOUS
  <1>5. trace' = trace \o <<x, y>>
    OBVIOUS
  <1> HIDE DEF x, y
  <1>6. /\ DOMAIN trace' = 1 .. Len(trace) + 2
        /\ \A i \in DOMAIN trace : trace'[i] = trace[i]
        /\ trace'[Len(trace) + 1] = x /\ trace'[Len(trace) + 2] = y
    BY <1>1, <1>2, <1>4, <1>5, ConcatProperties, LenProperties
  <1>7. \A i \in DOMAIN trace' : i \in DOMAIN trace \/ i = Len(trace) + 1 \/ i = Len(trace) + 2
    BY <1>1, <1>6
  <1>8. Len(trace) + 1 \in DOMAIN trace' /\ Len(trace) + 2 \in DOMAIN trace'
        /\ DOMAIN trace \subseteq DOMAIN trace'
    BY <1>1, <1>6
  <1> SUFFICES ASSUME NEW type, NEW m
               PROVE  Recorded(type, m)' <=> Recorded(type, m) \/ (m = n /\ type \in {a, b})
    BY DEF Gains
  <1>9. ASSUME Recorded(type, m)' PROVE Recorded(type, m) \/ (m = n /\ type \in {a, b})
    <2>1. PICK i \in DOMAIN trace' : trace'[i] = [type |-> type, call |-> m]
      BY <1>9 DEF Recorded
    <2> QED
      BY <1>3, <1>6, <1>7, <2>1 DEF Recorded
  <1>10. ASSUME Recorded(type, m) PROVE Recorded(type, m)'
    <2>1. PICK i \in DOMAIN trace : trace[i] = [type |-> type, call |-> m]
      BY <1>10 DEF Recorded
    <2> QED
      BY <1>6, <1>8, <2>1 DEF Recorded
  <1>11. ASSUME m = n, type \in {a, b} PROVE Recorded(type, m)'
    <2>1. [type |-> type, call |-> m] = x \/ [type |-> type, call |-> m] = y
      BY <1>3, <1>11
    <2> QED
      BY <1>6, <1>8, <2>1 DEF Recorded
  <1> QED
    BY <1>9, <1>10, <1>11

\* While no call ends, what is told of those that are over stands; and the one
\* that ends tells of itself.
LEMMA StillTold ==
  ASSUME TraceTells, NEW ts, NEW n, Gains(ts, n), server = "down" => server' = "down",
         \/ outcome' = outcome
         \/ /\ \E o : Ends(n, o)
            /\ /\ Recorded("tool_completed", n)' <=> outcome'[n] \in {"reply", "error reply"}
               /\ Recorded("tool_failed", n)' <=> outcome'[n] = "not approved"
               /\ outcome'[n] = "exception" => server' = "down" /\ Recorded("tool_requested", n)',
         n \notin DOMAIN outcome \/ ts = {}
  PROVE  TraceTells'
  <1> SUFFICES ASSUME NEW m \in DOMAIN outcome'
               PROVE  (/\ Recorded("tool_completed", m) <=> outcome[m] \in {"reply", "error reply"}
                       /\ Recorded("tool_failed", m) <=> outcome[m] = "not approved"
                       /\ outcome[m] = "exception" => server = "down" /\ Recorded("tool_requested", m))'
    BY DEF TraceTells
  <1>1. CASE m = n /\ outcome' # outcome
    BY <1>1
  <1>2. CASE m # n \/ outcome' = outcome
    <2>1. m \in DOMAIN outcome /\ outcome'[m] = outcome[m] /\ (m # n \/ ts = {})
      <3>1. CASE outcome' = outcome
        BY <3>1
      <3>2. CASE outcome' # outcome
        <4>1. PICK o : Ends(n, o)
          BY <3>2
        <4> QED
          BY <1>2, <3>2, <4>1 DEF Ends
      <3> QED
        BY <3>1, <3>2
    <2>2. /\ Recorded("tool_completed", m)' <=> Recorded("tool_completed", m)
          /\ Recorded("tool_failed", m)' <=> Recorded("tool_failed", m)
          /\ Recorded("tool_requested", m)' <=> Recorded("tool_requested", m)
      BY <2>1 DEF Gains
    <2> QED
      BY <2>1, <2>2 DEF TraceTells
  <1> QED
    BY <1>1, <1>2

\* A call that raises over a dead server, its request recorded.
LEMMA RaisesTold ==
  ASSUME IInv, TraceTells, Telling, NEW ts, Gains(ts, number), Raises, UNCHANGED <<server, number>>,
         server = "down", "tool_completed" \notin ts, "tool_failed" \notin ts,
         call = None => ts = {},
         call # None => Recorded("tool_requested", number)'
  PROVE  TraceTells' /\ Telling'
  <1>1. call' = None
    BY DEF Raises
  <1>2. CASE call = None
    BY <1>1, <1>2, StillTold DEF Raises, Telling
  <1>3. CASE call # None
    <2>1. /\ Ends(number, "exception") /\ number \notin DOMAIN outcome
          /\ ~ Recorded("tool_completed", number) /\ ~ Recorded("tool_failed", number)
      BY <1>3 DEF Raises, Telling
    <2>2. outcome'[number] = "exception"
      BY <2>1 DEF Ends
    <2>3. ~ Recorded("tool_completed", number)' /\ ~ Recorded("tool_failed", number)'
      BY <2>1 DEF Gains
    <2> QED
      BY <1>1, <1>3, <2>1, <2>2, <2>3, StillTold DEF Telling
  <1> QED
    BY <1>2, <1>3

LEMMA CallsAreSome ==
  ASSUME IInv, call \in [tool : Tools, argument : Arguments, number : 1..number]
  PROVE  call # None /\ number \in Nat /\ number > 0
  <1>1. number \in Nat
    BY SessionAssumption DEF IInv, TypeOK
  <1>2. call.number \in 1..number
    OBVIOUS
  <1>3. call \in [tool : Tools, argument : Arguments, number : Nat]
    BY <1>1
  <1>4. call # None
    BY <1>3, SessionAssumption
  <1> QED
    BY <1>1, <1>2, <1>4

LEMMA SendTells ==
  ASSUME IInv, TellInv, NEW message, NEW next \in {"ready", "waiting"}, SendLine(message, next),
         \/ call = None /\ trace' = trace
         \/ pc = "sending" /\ next = "waiting" /\ trace' = Append(trace, Event("tool_requested"))
  PROVE  TellInv'
  <1>1. UNCHANGED <<server, toClient, number>>
    BY DEF SendLine
  <1>2. Torn'
    BY <1>1 DEF TellInv, Torn
  <1>3. PICK ts :
          /\ Gains(ts, number) /\ (call = None => ts = {})
          /\ "tool_completed" \notin ts /\ "tool_failed" \notin ts
          /\ call # None => Recorded("tool_requested", number)'
    <2>1. CASE call = None /\ trace' = trace
      BY <2>1, GainsNone
    <2>2. CASE pc = "sending" /\ trace' = Append(trace, Event("tool_requested"))
      <3>1. call # None /\ number \in Nat /\ number > 0
        BY <2>2, CallsAreSome DEF IInv, CallUnderWay
      <3>2. trace \in Seq(Events) /\ Event("tool_requested") \in Events
        BY <3>1, EventTyped DEF IInv, TypeOK, Events, EventTypes
      <3>3. Gains({"tool_requested"}, number)
        BY <2>2, <3>2, GainsOne DEF Event
      <3> QED
        BY <1>1, <3>1, <3>3 DEF Gains
    <2> QED
      BY <2>1, <2>2
  <1>4. CASE server = "down"
    <2>1. Raises
      BY <1>4 DEF SendLine
    <2> QED
      BY <1>1, <1>2, <1>3, <1>4, <2>1, RaisesTold DEF TellInv
  <1>5. CASE server # "down"
    <2>1. pc' = next /\ UNCHANGED <<call, outcome>>
      BY <1>5 DEF SendLine
    <2>2. number \notin DOMAIN outcome \/ ts = {}
      BY <1>3 DEF TellInv, Telling
    <2>3. TraceTells'
      <3>1. server' = server /\ outcome' = outcome /\ Gains(ts, number) /\ TraceTells
        BY <1>1, <1>3, <2>1 DEF TellInv
      <3> QED
        BY <2>2, <3>1, StillTold
    <2>4. /\ Recorded("tool_completed", number)' <=> Recorded("tool_completed", number)
          /\ Recorded("tool_failed", number)' <=> Recorded("tool_failed", number)
      BY <1>1, <1>3 DEF Gains
    <2>5. Telling'
      BY <1>1, <1>3, <2>1, <2>4 DEF TellInv, Telling
    <2> QED
      BY <1>2, <2>3, <2>5 DEF TellInv
  <1> QED
    BY <1>4, <1>5

LEMMA BeginTells == IInv /\ TellInv /\ BeginCall => TellInv'
  <1> SUFFICES ASSUME IInv, TellInv, BeginCall PROVE TellInv'
    OBVIOUS
  <1> DEFINE n == number + 1
             S == [type : EventTypes, call : 1..n]
  <1>1. /\ number' = n /\ number \in Nat /\ n \in Nat /\ number <= n /\ number < n
        /\ UNCHANGED <<server, toClient, outcome>> /\ pc' \in {"asking", "sending"}
        /\ call'.number = n
    <2>1. number \in Nat
      BY SessionAssumption DEF IInv, TypeOK
    <2>2. /\ number' = n /\ UNCHANGED <<server, toClient, outcome>>
          /\ pc' \in {"asking", "sending"} /\ call'.number = n
      BY DEF BeginCall, pipes
    <2> QED
      BY <2>1, <2>2
  <1>2. trace \in Seq([type : EventTypes, call : 1..number]) /\ DOMAIN outcome \subseteq 1..number
    BY DEF IInv, TypeOK
  <1>3. trace \in Seq(S)
    BY <1>1, <1>2, MoreEvents, Zenon
  <1>4. [type |-> "policy_evaluated", call |-> n] \in S /\ [type |-> "approval_requested", call |-> n] \in S
    BY <1>1 DEF EventTypes
  <1>5. \/ trace' = trace \o <<[type |-> "policy_evaluated", call |-> n],
                               [type |-> "approval_requested", call |-> n]>>
        \/ trace' = Append(trace, [type |-> "policy_evaluated", call |-> n])
    BY DEF BeginCall
  <1>6. n \notin DOMAIN outcome
    BY <1>1, <1>2
  <1>7. \A type : ~ Recorded(type, n)
    <2> SUFFICES ASSUME NEW type, NEW i \in DOMAIN trace, trace[i] = [type |-> type, call |-> n] PROVE FALSE
      BY DEF Recorded
    <2>1. trace[i] \in [type : EventTypes, call : 1..number]
      BY <1>2, ElementOfSeq, LenProperties
    <2>2. trace[i].call = n /\ trace[i].call \in 1..number
      BY <2>1
    <2> QED
      BY <1>1, <2>2
  <1> HIDE DEF S, n
  <1>8. \E ts \in {{"policy_evaluated", "approval_requested"}, {"policy_evaluated"}} : Gains(ts, n)
    <2>1. CASE trace' = trace \o <<[type |-> "policy_evaluated", call |-> n],
                                   [type |-> "approval_requested", call |-> n]>>
      BY <1>3, <1>4, <2>1, GainsTwo
    <2>2. CASE trace' = Append(trace, [type |-> "policy_evaluated", call |-> n])
      BY <1>3, <1>4, <2>2, GainsOne
    <2> QED
      BY <1>5, <2>1, <2>2
  <1>9. PICK ts \in {{"policy_evaluated", "approval_requested"}, {"policy_evaluated"}} : Gains(ts, n)
    BY <1>8
  <1>10. TraceTells'
    BY <1>1, <1>6, <1>9, StillTold DEF TellInv
  <1>11. \A m : m = n => ~ Recorded("tool_completed", m)' /\ ~ Recorded("tool_failed", m)'
    BY <1>7, <1>9 DEF Gains
  <1>12. ~ Recorded("tool_completed", number)' /\ ~ Recorded("tool_failed", number)'
    BY <1>1, <1>11 DEF Recorded
  <1> QED
    BY <1>1, <1>6, <1>10, <1>12 DEF TellInv, Telling, Torn

LEMMA DecideTells == IInv /\ TellInv /\ Decide => TellInv'
  <1> SUFFICES ASSUME IInv, TellInv, Decide PROVE TellInv'
    OBVIOUS
  <1>1. /\ pc = "asking" /\ UNCHANGED <<server, toClient, number>>
        /\ call \in [tool : Tools, argument : Arguments, number : 1..number]
        /\ number \in Nat /\ number > 0 /\ call # None
    <2>1. pc = "asking" /\ UNCHANGED <<server, toClient, number>>
      BY DEF Decide, pipes
    <2>2. /\ call \in [tool : Tools, argument : Arguments, number : 1..number]
          /\ call.number = number /\ number \in Nat
      BY <2>1, SessionAssumption DEF IInv, CallUnderWay, TypeOK
    <2>3. call # None
      BY <2>2, CallsAreSome
    <2>4. number \in 1..number
      BY <2>2
    <2> QED
      BY <2>1, <2>2, <2>3, <2>4
  <1>2. /\ trace \in Seq(Events) /\ Event("approval_resolved") \in Events
        /\ Event("tool_failed") \in Events
    BY <1>1, EventTyped DEF IInv, TypeOK, Events, EventTypes
  <1>3. /\ number \notin DOMAIN outcome
        /\ ~ Recorded("tool_completed", number) /\ ~ Recorded("tool_failed", number)
    BY <1>1 DEF TellInv, Telling
  <1>4. \/ /\ pc' = "sending" /\ UNCHANGED <<call, outcome>>
           /\ trace' = Append(trace, Event("approval_resolved"))
        \/ /\ call' = None /\ Ends(number, "not approved")
           /\ trace' = trace \o <<Event("approval_resolved"), Event("tool_failed")>>
    BY DEF Decide
  <1>5. CASE UNCHANGED <<call, outcome>> /\ trace' = Append(trace, Event("approval_resolved")) /\ pc' = "sending"
    <2>1. Gains({"approval_resolved"}, number)
      BY <1>2, <1>5, GainsOne DEF Event
    <2>2. TraceTells'
      BY <1>1, <1>3, <1>5, <2>1, StillTold DEF TellInv
    <2>3. Telling'
      BY <1>1, <1>3, <1>5, <2>1 DEF TellInv, Telling, Gains
    <2> QED
      BY <1>1, <2>2, <2>3 DEF TellInv, Torn
  <1>6. CASE /\ call' = None /\ Ends(number, "not approved")
             /\ trace' = trace \o <<Event("approval_resolved"), Event("tool_failed")>>
    <2>1. Gains({"approval_resolved", "tool_failed"}, number)
      BY <1>2, <1>6, GainsTwo DEF Event
    <2>2. outcome'[number] = "not approved"
      BY <1>6 DEF Ends
    <2>3. ~ Recorded("tool_completed", number)' /\ Recorded("tool_failed", number)'
      BY <1>1, <1>3, <2>1 DEF Gains
    <2>4. TraceTells'
      BY <1>1, <1>3, <1>6, <2>1, <2>2, <2>3, StillTold DEF TellInv
    <2> QED
      BY <1>1, <1>6, <2>4 DEF TellInv, Telling, Torn
  <1> QED
    BY <1>4, <1>5, <1>6

LEMMA RepliedTells ==
  ASSUME IInv, TellInv, NEW line, line.ok # "torn", Replied(line), pc = "waiting",
         UNCHANGED <<server, number>>
  PROVE  TraceTells' /\ Telling'
  <1>1. call' = None
    BY DEF Replied
  <1>2. CASE call = None
    <2>1. Gains({}, number) /\ outcome' = outcome
      BY <1>2, GainsNone DEF Replied
    <2> QED
      BY <1>1, <2>1, StillTold DEF TellInv, Telling
  <1>3. CASE call # None
    <2>1. /\ call.number = number /\ number \notin DOMAIN outcome
          /\ ~ Recorded("tool_completed", number) /\ ~ Recorded("tool_failed", number)
      BY <1>3 DEF TellInv, Telling
    <2>2. number \in Nat /\ number > 0
      <3>1. number \in Nat /\ call.number \in 1..number
        BY <1>3, SessionAssumption DEF IInv, TypeOK
      <3> QED
        BY <2>1, <3>1
    <2>3. trace \in Seq(Events) /\ Event("tool_completed") \in Events
      BY <2>2, EventTyped DEF IInv, TypeOK, Events, EventTypes
    <2>4. trace' = Append(trace, Event("tool_completed"))
      BY <1>3 DEF Replied
    <2>5. Gains({"tool_completed"}, number)
      BY <2>3, <2>4, GainsOne DEF Event
    <2>6. PICK o \in {"reply", "error reply"} : Ends(number, o)
      BY <1>3, <2>1 DEF Replied
    <2>7. outcome'[number] = o
      BY <2>6 DEF Ends
    <2>8. Recorded("tool_completed", number)' /\ ~ Recorded("tool_failed", number)'
      BY <2>1, <2>5 DEF Gains
    <2> QED
      BY <1>1, <2>1, <2>5, <2>6, <2>7, <2>8, StillTold DEF TellInv, Telling
  <1> QED
    BY <1>2, <1>3

LEMMA ReadTells == IInv /\ TellInv /\ ReadReply => TellInv'
  <1> SUFFICES ASSUME IInv, TellInv, ReadReply PROVE TellInv'
    OBVIOUS
  <1>1. pc = "waiting" /\ UNCHANGED <<server, number>>
    BY DEF ReadReply
  <1>2. toClient \in Seq(Reply)
    BY DEF IInv, TypeOK
  <1>3. ASSUME Raises, UNCHANGED trace, server = "down" PROVE TraceTells' /\ Telling'
    <2>1. Gains({}, number)
      BY <1>3, GainsNone
    <2>2. call # None => Recorded("tool_requested", number)'
      BY <1>1, <2>1 DEF Gains, TellInv, Telling
    <2> QED
      BY <1>1, <1>3, <2>1, <2>2, RaisesTold DEF TellInv
  <1>4. CASE toClient # <<>> /\ toClient' = Tail(toClient)
    <2>1. /\ Head(toClient) = toClient[1] /\ 1 \in DOMAIN toClient
          /\ \A i \in DOMAIN toClient' : i + 1 \in DOMAIN toClient /\ toClient'[i] = toClient[i + 1]
      BY <1>2, <1>4, TailFacts
    <2>2. Torn'
      BY <1>1, <2>1 DEF TellInv, Torn
    <2>3. Head(toClient).ok = "torn" => server = "down"
      BY <2>1 DEF TellInv, Torn
    <2>4. IF Head(toClient).ok = "torn" THEN Raises /\ UNCHANGED trace ELSE Replied(Head(toClient))
      BY <1>4 DEF ReadReply
    <2> QED
      BY <1>1, <1>3, <2>2, <2>3, <2>4, RepliedTells DEF TellInv
  <1>5. CASE toClient = <<>> /\ server = "down" /\ Raises /\ UNCHANGED <<toClient, trace>>
    BY <1>1, <1>3, <1>5 DEF TellInv, Torn
  <1> QED
    BY <1>4, <1>5 DEF ReadReply

LEMMA ServerTells ==
  ASSUME IInv, TellInv, UNCHANGED <<callVars, pc>>, server = "down" => server' = "down",
         \/ toClient' \in {toClient, <<>>}
         \/ \E reply \in Reply : /\ toClient' = Append(toClient, reply)
                                 /\ reply.ok = "torn" => server' = "down"
  PROVE  TellInv'
  <1>1. toClient \in Seq(Reply)
    BY DEF IInv, TypeOK
  <1>2. Torn'
    <2>1. CASE toClient' \in {toClient, <<>>}
      BY <2>1, EmptyFacts DEF TellInv, Torn
    <2>2. ASSUME NEW reply \in Reply, toClient' = Append(toClient, reply),
                 reply.ok = "torn" => server' = "down"
          PROVE  Torn'
      BY <1>1, <2>2, AppendFacts DEF TellInv, Torn
    <2> QED
      BY <2>1, <2>2
  <1>3. Gains({}, number) /\ outcome' = outcome
    BY GainsNone DEF callVars
  <1>4. TraceTells'
    BY <1>3, StillTold DEF TellInv
  <1>5. Telling'
    BY <1>3 DEF TellInv, Telling, Gains, callVars
  <1> QED
    BY <1>2, <1>4, <1>5 DEF TellInv

LEMMA NextTells == IInv /\ TellInv /\ [Next]_vars => TellInv'
  <1> SUFFICES ASSUME IInv, TellInv, [Next]_vars PROVE TellInv'
    OBVIOUS
  <1>1. CASE Notify
    <2>1. PICK m \in Notifications :
            SendLine([method |-> m, id |-> None, tool |-> None, argument |-> None,
                      call |-> None], "ready")
      BY <1>1 DEF Notify
    <2>2. call = None /\ trace' = trace
      BY <1>1 DEF Notify, IInv, CallUnderWay
    <2> QED
      BY <2>1, <2>2, SendTells
  <1>2. CASE Ask
    <2>1. PICK m \in {"initialize", "tools/list", "resources/list"} :
            Request(m, None, None, None)
      BY <1>2 DEF Ask
    <2>2. call = None /\ trace' = trace
      BY <1>2 DEF Ask, IInv, CallUnderWay
    <2> QED
      BY <2>1, <2>2, SendTells DEF Request
  <1>3. CASE SendCall
    BY <1>3, SendTells DEF SendCall, Request
  <1>4. CASE Close
    <2>1. toClient' = <<>> /\ server' = "down" /\ UNCHANGED callVars /\ call = None
      BY <1>4 DEF Close, IInv, CallUnderWay
    <2>2. Gains({}, number) /\ outcome' = outcome
      BY <2>1, GainsNone DEF callVars
    <2>3. TraceTells'
      BY <2>1, <2>2, StillTold DEF TellInv
    <2> QED
      BY <2>1, <2>3, EmptyFacts DEF TellInv, Telling, Torn, callVars
  <1>5. CASE Handle
    <2>1. toServer \in Seq(Message) /\ toServer # <<>>
      BY <1>5 DEF Handle, IInv, TypeOK
    <2>2. Head(toServer).id \in Nat \cup {None}
      <3>1. Head(toServer) \in Message
        BY <2>1, TailFacts
      <3> QED
        BY <3>1 DEF Message
    <2>3. /\ UNCHANGED <<callVars, pc>> /\ server = "up"
          /\ \/ toClient' = toClient
             \/ \E ok \in {"yes", "no"} :
                  toClient' = Append(toClient, [id |-> Head(toServer).id, ok |-> ok])
      BY <1>5 DEF Handle
    <2>4. \A ok \in {"yes", "no"} : [id |-> Head(toServer).id, ok |-> ok] \in Reply
      BY <2>2 DEF Reply
    <2> QED
      BY <2>3, <2>4, ServerTells
  <1>6. CASE Killed
    <2>1. /\ UNCHANGED <<callVars, pc>> /\ server' = "down"
          /\ \/ toClient' = toClient
             \/ /\ toServer # <<>>
                /\ toClient' = Append(toClient, [id |-> Head(toServer).id, ok |-> "torn"])
      BY <1>6 DEF Killed, Dies
    <2>2. toServer # <<>> => [id |-> Head(toServer).id, ok |-> "torn"] \in Reply
      <3>1. toServer \in Seq(Message)
        BY DEF IInv, TypeOK
      <3>2. toServer # <<>> => Head(toServer) \in Message
        BY <3>1, TailFacts
      <3> QED
        BY <3>2 DEF Message, Reply
    <2> QED
      BY <2>1, <2>2, ServerTells
  <1>7. CASE UNCHANGED vars
    BY <1>7, ServerTells DEF vars, pipes
  <1> QED
    BY <1>1, <1>2, <1>3, <1>4, <1>5, <1>6, <1>7, BeginTells, DecideTells, ReadTells DEF Next, Client

-----------------------------------------------------------------------------
(* Results.                                                                *)

\* Every reachable state of a session is well typed: the pipes stay within
\* their size, the ids within the number of messages sent.
THEOREM SessionTypes == Spec => []TypeOK
  <1>1. IInv => TypeOK
    BY DEF IInv
  <1> QED
    BY <1>1, Inductive, PTL

\* gated_tools_call: whatever the client does in between, whatever the gate
\* answers and whenever the server dies, no call of class 3 or above is on its
\* way to the server without an approval.
THEOREM CallsAreApproved == Spec => []ApprovedOnly
  <1>1. IInv => ApprovedOnly
    BY DEF IInv
  <1> QED
    BY <1>1, Inductive, PTL

\* gated_tools_call: the trace of every call that is over tells how it ended,
\* wherever the client raised, whenever the server died, and whichever
\* notifications went with it.
THEOREM TracesTell == Spec => []TraceTells
  <1>1. Init => TellInv
    BY EmptyFacts DEF Init, TellInv, TraceTells, Telling, Torn
  <1>2. TellInv => TraceTells
    BY DEF TellInv
  <1> QED
    BY <1>1, <1>2, Inductive, NextTells, PTL DEF Spec

\* tests/integrations/test_mcp_client.py, "the next request still lines up
\* with its own response": the line a request reads is the reply to it, when
\* the only notification sent is the one the server knows. (It answers any
\* other, and the answer is then read as the reply to the next request.)
THEOREM RepliesLineUp ==
  ASSUME OneNotification
  PROVE  Spec => []ReplyMatches
  <1>1. IInv /\ Lockstep => ReplyMatches
    BY TailFacts DEF IInv, TypeOK, Lockstep, ReplyOnly, ReplyMatches
  <1> QED
    BY <1>1, Inductive, InStep, PTL

\* A gated call that ends with a reply of success was taken up by the server,
\* under the same condition.
THEOREM SuccessIsEarned ==
  ASSUME OneNotification
  PROVE  Spec => []RepliesAreEarned
  <1>1. Lockstep => RepliesAreEarned
    BY DEF Lockstep
  <1> QED
    BY <1>1, InStep, PTL
=============================================================================
