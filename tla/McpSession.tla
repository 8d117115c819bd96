----------------------------- MODULE McpSession -----------------------------
(***************************************************************************)
(* An MCP session: a client and the server subprocess it talks to over two  *)
(* pipes, one JSON-RPC message per line (integrations/mcp_client.py and     *)
(* tools/mcp_repo_server.py), and gated_tools_call, which asks for an       *)
(* approval before a consequential call and records what it does.           *)
(*                                                                         *)
(* The server dies of an argument it cannot search for, or is killed; the   *)
(* client finds out when it writes to it or reads from it.                  *)
(***************************************************************************)
EXTENDS Naturals, Sequences

CONSTANTS
  Tools,         \* tools a caller may ask for
  SideEffect,    \* side_effect_class of each
  RepoSearch,    \* the one tool the server has
  Decisions,     \* approval outcomes
  Approved,
  Notifications, \* methods of the notifications a client sends
  Initialized,   \* ... the one the server knows
  None,
  PipeSize,      \* lines a pipe holds
  MaxSends       \* bound: messages the client sends

Arguments == {"text", "missing", "number"}   \* of a tools/call: its query

ASSUME SessionAssumption ==
  /\ SideEffect \in [Tools -> 0..5]
  /\ Approved \in Decisions
  /\ None \notin Tools \cup Nat \cup [tool : Tools, argument : Arguments, number : Nat]
  /\ Initialized \in Notifications
  /\ Notifications \cap {"initialize", "tools/list", "tools/call", "resources/list"} = {}
  /\ PipeSize \in Nat \ {0} /\ MaxSends \in Nat

VARIABLES
  server,      \* "up" or "down"
  toServer,    \* its stdin
  toClient,    \* its stdout
  pc,          \* the client: "ready", "asking" for approval, "sending",
               \* "waiting" for a reply, "closed"
  id,          \* the client's last request id
  sends,       \* messages sent
  call,        \* the gated call under way: [tool, argument, number] or None
  number,      \* gated calls begun
  granted,     \* history: gated calls a human approved
  handled,     \* history: gated calls the server has taken up
  outcome,     \* of each gated call that is over
  trace        \* the events of gated calls: [type, call]

pipes == <<toServer, toClient>>
callVars == <<call, number, granted, outcome, trace>>
vars == <<server, pipes, pc, id, sends, callVars, handled>>

Outcomes == {"reply", "error reply", "not approved", "exception"}
EventTypes == {"policy_evaluated", "approval_requested", "approval_resolved",
               "tool_requested", "tool_completed", "tool_failed"}
Message == [method : {"initialize", "tools/list", "tools/call", "resources/list"}
                     \cup Notifications,
            id : Nat \cup {None}, tool : Tools \cup {None},
            argument : Arguments \cup {None}, call : Nat \cup {None}]
Reply == [id : Nat \cup {None}, ok : {"yes", "no", "torn"}]

TypeOK ==
  /\ server \in {"up", "down"}
  /\ toServer \in Seq(Message) /\ Len(toServer) <= PipeSize
  /\ toClient \in Seq(Reply) /\ Len(toClient) <= PipeSize
  /\ pc \in {"ready", "asking", "sending", "waiting", "closed"}
  /\ id \in 0..MaxSends /\ sends \in 0..MaxSends
  /\ call \in [tool : Tools, argument : Arguments, number : 1..number] \cup {None}
  /\ number \in 0..MaxSends
  /\ granted \subseteq 1..number /\ handled \subseteq 1..number
  /\ DOMAIN outcome \subseteq 1..number
  /\ \A n \in DOMAIN outcome : outcome[n] \in Outcomes
  /\ trace \in Seq([type : EventTypes, call : 1..number])

Init ==
  /\ server = "up" /\ toServer = <<>> /\ toClient = <<>>
  /\ pc = "ready" /\ id = 0 /\ sends = 0
  /\ call = None /\ number = 0 /\ granted = {} /\ handled = {}
  /\ outcome = <<>> /\ trace = <<>>

-----------------------------------------------------------------------------
(* The client's pipes.                                                     *)

Event(type) == [type |-> type, call |-> number]
Ends(n, o) == outcome' = [m \in DOMAIN outcome \cup {n} |->
                            IF m = n THEN o ELSE outcome[m]]

\* A gated call that raises ends without another event.
Raises ==
  /\ pc' = "ready" /\ call' = None
  /\ IF call = None THEN UNCHANGED outcome ELSE Ends(call.number, "exception")

\* _send_line: the pipe takes the line, or the write to a dead server raises.
SendLine(message, next) ==
  /\ sends < MaxSends /\ sends' = sends + 1
  /\ IF server = "down"
     THEN Raises /\ UNCHANGED toServer
     ELSE /\ Len(toServer) < PipeSize
          /\ toServer' = Append(toServer, message)
          /\ pc' = next /\ UNCHANGED <<call, outcome>>
  /\ UNCHANGED <<server, toClient, number, granted, handled>>

\* Faulty variant: the id is counted up twice.
CountsTwice(method, tool, argument, n) ==
  /\ id' = id + 2
  /\ SendLine([method |-> method, id |-> id + 2, tool |-> tool,
               argument |-> argument, call |-> n], "waiting")

\* _rpc: a request has the next id and waits for the reply; a notification
\* has none and goes on.
Request(method, tool, argument, n) ==
  /\ id' = id + 1
  /\ SendLine([method |-> method, id |-> id + 1, tool |-> tool,
               argument |-> argument, call |-> n], "waiting")
Notify ==
  /\ pc = "ready"
  /\ \E m \in Notifications :
       SendLine([method |-> m, id |-> None, tool |-> None, argument |-> None,
                 call |-> None], "ready")
  /\ UNCHANGED <<id, trace>>

\* initialize, tools_list, and a method the server does not have.
Ask ==
  /\ pc = "ready"
  /\ \E m \in {"initialize", "tools/list", "resources/list"} :
       Request(m, None, None, None)
  /\ UNCHANGED trace

-----------------------------------------------------------------------------
(* gated_tools_call.                                                       *)

RequiresApproval(tool) == SideEffect[tool] >= 3

BeginCall ==
  /\ pc = "ready" /\ sends < MaxSends /\ number < MaxSends
  /\ number' = number + 1
  /\ \E t \in Tools, a \in Arguments :
       /\ call' = [tool |-> t, argument |-> a, number |-> number + 1]
       /\ LET policy == [type |-> "policy_evaluated", call |-> number + 1]
              ask == [type |-> "approval_requested", call |-> number + 1]
          IN  IF RequiresApproval(t)
              THEN pc' = "asking" /\ trace' = trace \o <<policy, ask>>
              ELSE pc' = "sending" /\ trace' = Append(trace, policy)
  /\ UNCHANGED <<server, pipes, id, sends, granted, handled, outcome>>

\* Faulty variant: whatever is not a rejection lets the call through.
DecideByRejection ==
  /\ pc = "asking"
  /\ \E d \in Decisions :
       /\ granted' = IF d = Approved THEN granted \cup {number} ELSE granted
       /\ pc' = "sending"
       /\ trace' = Append(trace, Event("approval_resolved"))
  /\ UNCHANGED <<server, pipes, id, sends, call, number, handled, outcome>>

\* The human decides; anything but an approval fails the call.
Decide ==
  /\ pc = "asking"
  /\ \E d \in Decisions :
       IF d = Approved
       THEN /\ granted' = granted \cup {number}
            /\ pc' = "sending"
            /\ trace' = Append(trace, Event("approval_resolved"))
            /\ UNCHANGED <<call, outcome>>
       ELSE /\ pc' = "ready" /\ call' = None
            /\ Ends(number, "not approved")
            /\ trace' = trace \o <<Event("approval_resolved"), Event("tool_failed")>>
            /\ UNCHANGED granted
  /\ UNCHANGED <<server, pipes, id, sends, number, handled>>

\* Faulty variant: the event follows the call instead of preceding it.
RecordsAfterwards ==
  /\ pc = "sending"
  /\ Request("tools/call", call.tool, call.argument, call.number)
  /\ trace' = IF server = "up" THEN Append(trace, Event("tool_requested")) ELSE trace

SendCall ==
  /\ pc = "sending"
  /\ Request("tools/call", call.tool, call.argument, call.number)
  /\ trace' = Append(trace, Event("tool_requested"))

Replied(line) ==
  /\ pc' = "ready" /\ call' = None
  /\ IF call = None THEN UNCHANGED <<outcome, trace>>
     ELSE /\ Ends(call.number, IF line.ok = "yes" THEN "reply" ELSE "error reply")
          /\ trace' = Append(trace, Event("tool_completed"))

\* Faulty variant: a closed stream is not noticed.
ReadsOn ==
  /\ pc = "waiting"
  /\ toClient # <<>>
  /\ toClient' = Tail(toClient)
  /\ IF Head(toClient).ok = "torn" THEN Raises /\ UNCHANGED trace
     ELSE Replied(Head(toClient))
  /\ UNCHANGED <<server, toServer, id, sends, number, granted, handled>>

\* _read_line: the next line of the pipe, whatever it answers; a torn line
\* does not parse, and a closed stream raises.
ReadReply ==
  /\ pc = "waiting"
  /\ \/ /\ toClient # <<>>
        /\ toClient' = Tail(toClient)
        /\ IF Head(toClient).ok = "torn" THEN Raises /\ UNCHANGED trace
           ELSE Replied(Head(toClient))
     \/ /\ toClient = <<>> /\ server = "down"
        /\ Raises
        /\ UNCHANGED <<toClient, trace>>
  /\ UNCHANGED <<server, toServer, id, sends, number, granted, handled>>

\* close: the pipes go, and the server with them, killed if it must be.
Close ==
  /\ pc = "ready"
  /\ pc' = "closed" /\ server' = "down"
  /\ toServer' = <<>> /\ toClient' = <<>>
  /\ UNCHANGED <<id, sends, callVars, handled>>

-----------------------------------------------------------------------------
(* The server.                                                             *)

\* Faulty variant: every message is answered, notifications too.
NeverSilent(m) == FALSE

\* handle: the initialized notification alone has no reply.
Silent(m) == m.method = Initialized
Succeeds(m) ==
  \/ m.method \in {"initialize", "tools/list"}
  \/ m.method = "tools/call" /\ m.tool = RepoSearch /\ m.argument = "text"

\* _repo_search of something that is not a string raises, past main's loop.
Fatal(m) == m.method = "tools/call" /\ m.tool = RepoSearch /\ m.argument = "number"

Dies == server' = "down" /\ toServer' = <<>>

\* main: one line at a time.
Handle ==
  /\ server = "up" /\ toServer # <<>>
  /\ LET m == Head(toServer)
     IN  /\ handled' = IF m.call = None THEN handled ELSE handled \cup {m.call}
         /\ IF Fatal(m)
            THEN Dies /\ UNCHANGED toClient
            ELSE /\ toServer' = Tail(toServer)
                 /\ UNCHANGED server
                 /\ IF Silent(m) THEN UNCHANGED toClient
                    ELSE /\ Len(toClient) < PipeSize
                         /\ toClient' = Append(toClient, [id |-> m.id, ok |-> IF Succeeds(m) THEN "yes" ELSE "no"])
  /\ UNCHANGED <<pc, id, sends, callVars>>

\* The server is killed, perhaps over the reply it is writing.
Killed ==
  /\ server = "up" /\ pc # "closed"
  /\ Dies
  /\ \/ UNCHANGED toClient
     \/ /\ toServer # <<>> /\ ~Silent(Head(toServer)) /\ Len(toClient) < PipeSize
        /\ toClient' = Append(toClient, [id |-> Head(toServer).id, ok |-> "torn"])
  /\ UNCHANGED <<pc, id, sends, callVars, handled>>

-----------------------------------------------------------------------------
Client == Notify \/ Ask \/ BeginCall \/ Decide \/ SendCall \/ ReadReply \/ Close

Next == Client \/ Handle \/ Killed

Spec == Init /\ [][Next]_vars

\* The server reads what it is sent and the client what it is answered.
FairSpec == Spec /\ WF_vars(Handle) /\ WF_vars(ReadReply)

-----------------------------------------------------------------------------
(* Properties.                                                             *)

\* tests/integrations/test_mcp_client.py, "the next request still lines up
\* with its own response": the line a request reads is the reply to it.
ReplyMatches ==
  pc = "waiting" /\ toClient # <<>> => Head(toClient).id = id

\* gated_tools_call, "a consequential one requires it": the server never sees
\* a call of class 3 or above that no human approved, whatever else it is
\* told - an expired request, one passed on - in place of a rejection.
ApprovedOnly ==
  \A i \in DOMAIN toServer :
    toServer[i].method = "tools/call" /\ SideEffect[toServer[i].tool] >= 3
      => toServer[i].call \in granted

Recorded(type, n) == \E i \in DOMAIN trace : trace[i] = [type |-> type, call |-> n]

\* The trace of a call that is over tells how: completed if and only if a
\* reply came, failed if and only if it was not approved - and a call whose
\* request is recorded without either raised.
TraceTells ==
  \A n \in DOMAIN outcome :
    /\ Recorded("tool_completed", n) <=> outcome[n] \in {"reply", "error reply"}
    /\ Recorded("tool_failed", n) <=> outcome[n] = "not approved"
    /\ outcome[n] = "exception" => server = "down" /\ Recorded("tool_requested", n)

\* A reply that says a call succeeded is the reply to a call the server took up.
RepliesAreEarned ==
  \A n \in DOMAIN outcome : outcome[n] = "reply" => n \in handled

\* A request does not wait for ever: it is answered, or finds the server gone.
RequestEnds == pc = "waiting" ~> pc # "waiting"
=============================================================================
