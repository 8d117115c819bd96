------------------------- MODULE DeliveryPartsProofs -------------------------
(***************************************************************************)
(* Proofs about the parts a delivery is composed of, each by itself:       *)
(* WorkflowStages for any number of workflows, and PullRequests for any    *)
(* clients, keys and number of sends.                                      *)
(***************************************************************************)
EXTENDS WorkflowStages, PullRequests, TLAPS

(***************************************************************************)
(* WorkflowStages                                                          *)
(***************************************************************************)
\* The gates a workflow must have behind it at each stage.  CompletedIsReviewed
\* alone is not inductive: it says nothing of the stages before the last two.
GatesBehind ==
    /\ \A w \in Features :
         /\ stage[w] \in {"implement", "validate", "prepare_result", "completed"}
              => "plan_approval" \in passed[w]
         /\ stage[w] \in {"validate", "prepare_result", "completed"}
              => "implement" \in passed[w]
         /\ stage[w] \in {"prepare_result", "completed"} => "validate" \in passed[w]
    /\ \A w \in Multis :
         /\ stage[w] \in {"integrate", "validate", "review", "consolidate", "fix",
                          "prepare_result", "completed"}
              => "fan_out" \in passed[w]
         /\ stage[w] \in {"validate", "review", "consolidate", "fix",
                          "prepare_result", "completed"}
              => "integrate" \in passed[w]
         /\ stage[w] \in {"review", "consolidate", "prepare_result", "completed"}
              => "validate" \in passed[w]
         /\ stage[w] \in {"consolidate", "prepare_result", "completed"}
              => "review" \in passed[w]
         /\ stage[w] \in {"prepare_result", "completed"}
              => "consolidate" \in passed[w]

StagesInv == StagesTypeOK /\ GatesBehind

LEMMA InitStages == StagesInit => StagesInv
  BY DEF StagesInit, StagesInv, StagesTypeOK, GatesBehind, Stage, MultiStage,
         TERMINAL_STAGES, Workflows

\* A move stays within the stages of its workflow.
LEMMA MoveTypeOK ==
  ASSUME StagesTypeOK, NEW w \in Workflows, NEW target \in Stage \cup MultiStage,
         Move(w, target)
  PROVE  StagesTypeOK'
  <1>1. /\ w \in Features => target \in Stage
        /\ w \in Multis => target \in MultiStage
    BY KindsAssumption DEF Move, ValidateTransition, TRANSITIONS, MULTI_TRANSITIONS,
       Stage, MultiStage, TERMINAL_STAGES
  <1>2. /\ stage' \in [Workflows -> Stage \cup MultiStage]
        /\ \A v \in Workflows : stage'[v] = IF v = w THEN target ELSE stage[v]
    BY DEF StagesTypeOK, Move
  <1>3. passed' \in [Workflows -> SUBSET (Stage \cup MultiStage)]
    BY DEF StagesTypeOK, Move
  <1> QED
    BY <1>1, <1>2, <1>3 DEF StagesTypeOK, Workflows

LEMMA MoveGates ==
  ASSUME StagesInv, NEW w \in Workflows, NEW target \in Stage \cup MultiStage,
         Move(w, target)
  PROVE  GatesBehind'
  <1> USE DEF StagesInv
  <1>1. \A v \in Workflows \ {w} : stage'[v] = stage[v] /\ passed'[v] = passed[v]
    BY DEF Move, StagesTypeOK
  <1>2. /\ stage'[w] = target
        /\ passed'[w] = IF target \in TERMINAL_STAGES \ {"completed"} THEN passed[w]
                        ELSE (IF stage[w] \in Writing THEN passed[w] \ Judging
                              ELSE passed[w]) \cup {stage[w]}
    BY DEF Move, StagesTypeOK
  <1>3. CASE w \in Features
    <2>1. <<stage[w], target>> \in TRANSITIONS
      BY <1>3, KindsAssumption DEF Move, ValidateTransition
    <2>2. /\ target \in {"implement", "validate", "prepare_result", "completed"}
               => "plan_approval" \in passed'[w]
          /\ target \in {"validate", "prepare_result", "completed"}
               => "implement" \in passed'[w]
          /\ target \in {"prepare_result", "completed"} => "validate" \in passed'[w]
      BY <1>2, <1>3, <2>1 DEF GatesBehind, TRANSITIONS, TERMINAL_STAGES, Writing, Judging
    <2> QED
      BY <1>1, <1>2, <1>3, <2>2, KindsAssumption DEF GatesBehind, Workflows
  <1>4. CASE w \in Multis
    <2>1. <<stage[w], target>> \in MULTI_TRANSITIONS
      BY <1>4, KindsAssumption DEF Move, ValidateTransition
    <2>2. /\ target \in {"integrate", "validate", "review", "consolidate", "fix",
                         "prepare_result", "completed"}
               => "fan_out" \in passed'[w]
          /\ target \in {"validate", "review", "consolidate", "fix",
                         "prepare_result", "completed"}
               => "integrate" \in passed'[w]
      BY <1>2, <1>4, <2>1
      DEF GatesBehind, MULTI_TRANSITIONS, TERMINAL_STAGES, Writing, Judging
    <2>3. /\ target \in {"review", "consolidate", "prepare_result", "completed"}
               => "validate" \in passed'[w]
          /\ target \in {"consolidate", "prepare_result", "completed"}
               => "review" \in passed'[w]
          /\ target \in {"prepare_result", "completed"} => "consolidate" \in passed'[w]
      BY <1>2, <1>4, <2>1
      DEF GatesBehind, MULTI_TRANSITIONS, TERMINAL_STAGES, Writing, Judging
    <2> QED
      BY <1>1, <1>2, <1>4, <2>2, <2>3, KindsAssumption DEF GatesBehind, Workflows
  <1> QED
    BY <1>3, <1>4 DEF Workflows

LEMMA NextStages == StagesInv /\ [StagesNext]_stageVars => StagesInv'
  <1> SUFFICES ASSUME StagesInv, [StagesNext]_stageVars PROVE StagesInv'
    OBVIOUS
  <1>1. CASE StagesNext
    BY <1>1, MoveTypeOK, MoveGates DEF StagesNext, StagesInv
  <1>2. CASE UNCHANGED stageVars
    BY <1>2 DEF stageVars, StagesInv, StagesTypeOK, GatesBehind
  <1> QED
    BY <1>1, <1>2

THEOREM StagesInvariant == StagesSpec => []StagesInv
  BY InitStages, NextStages, PTL DEF StagesSpec

\* Every workflow is in a stage of its own graph (StagesTypeOK).
THEOREM StagesTyped == StagesSpec => []StagesTypeOK
  BY StagesInvariant, PTL DEF StagesInv

LEMMA GatesImply == StagesInv => CompletedIsReviewed
  BY DEF StagesInv, GatesBehind, CompletedIsReviewed, Gates, Workflows

\* The tables have no way around a gate, however many fix rounds there are
\* (TRANSITIONS, MULTI_TRANSITIONS, validate_multiworker_transition).
THEOREM ResultsAreReviewed == StagesSpec => []CompletedIsReviewed
  BY StagesInvariant, GatesImply, PTL

LEMMA EndedStays ==
  ASSUME NEW w \in Workflows, NEW target \in Stage \cup MultiStage, Move(w, target),
         NEW v \in Workflows, stage[v] \in TERMINAL_STAGES, StagesTypeOK
  PROVE  UNCHANGED <<stage[v], passed[v]>>
  <1>1. stage[w] \notin TERMINAL_STAGES
    BY DEF Move, ValidateTransition, TRANSITIONS, MULTI_TRANSITIONS, TERMINAL_STAGES
  <1> QED
    BY <1>1 DEF Move, StagesTypeOK

\* No transition leaves a terminal stage.
THEOREM EndsAreFinal == StagesSpec => TerminalForever
  <1>1. StagesInv /\ [StagesNext]_stageVars
          => [\A w \in Workflows :
                 stage[w] \in TERMINAL_STAGES => UNCHANGED <<stage[w], passed[w]>>]_stageVars
    BY EndedStays DEF StagesInv, StagesNext
  <1> QED
    BY <1>1, StagesInvariant, PTL DEF StagesSpec, TerminalForever

(***************************************************************************)
(* PullRequests                                                            *)
(***************************************************************************)
\* What makes OnePerKey inductive: the number given next is above all others.
NumbersBelow == \A pr \in opened : pr.number < nextPr

PullInv == PullTypeOK /\ NumbersBelow /\ OnePerKey /\ AnswersHold

\* Every part of the state a send may change.
LEMMA OpenNextFacts ==
  ASSUME PullInv, NEW key \in Keys, OpenNext(key)
  PROVE  /\ opened \subseteq opened'
         /\ opened' \subseteq [key : Keys, number : Nat]
         /\ nextPr' \in Nat
         /\ [key |-> key, number |-> nextPr] \in opened'
         /\ NumbersBelow'
  <1>1. /\ opened' = opened \cup {[key |-> key, number |-> nextPr]}
        /\ nextPr' = nextPr + 1
        /\ nextPr \in Nat
        /\ \A pr \in opened : pr.number < nextPr /\ pr.number \in Nat
        /\ opened \subseteq [key : Keys, number : Nat]
    BY DEF OpenNext, PullInv, PullTypeOK, NumbersBelow
  <1> QED
    BY <1>1 DEF NumbersBelow

\* An opening under a key nobody has keeps the keys and numbers apart.
LEMMA OpenNextApart ==
  ASSUME PullInv, NEW key \in Keys, OpenNext(key), \A pr \in opened : pr.key # key,
         UNCHANGED transport
  PROVE  OnePerKey'
  <1> SUFFICES ASSUME transport = "double",
                      NEW a \in opened', NEW b \in opened',
                      a.key = b.key \/ a.number = b.number
               PROVE  a = b
    BY DEF OnePerKey
  <1>1. \A pr \in opened : pr.number < nextPr /\ pr.number \in Nat /\ nextPr \in Nat
    BY DEF PullInv, NumbersBelow, PullTypeOK
  <1>2. opened' = opened \cup {[key |-> key, number |-> nextPr]}
    BY DEF OpenNext
  <1>3. CASE a \in opened /\ b \in opened
    BY <1>3 DEF PullInv, OnePerKey
  <1>4. CASE a \notin opened \/ b \notin opened
    BY <1>1, <1>2, <1>4
  <1> QED
    BY <1>3, <1>4

\* The answer of one client is replaced, the others still hold.
LEMMA AnswersKept ==
  ASSUME PullInv, opened \subseteq opened', NEW c \in Clients,
         NEW reply \in Answers, answer' = [answer EXCEPT ![c] = reply],
         reply.is = "response" => [key |-> reply.key, number |-> reply.number] \in opened'
  PROVE  AnswersHold' /\ answer' \in [Clients -> Answers]
  <1>1. answer \in [Clients -> Answers]
    BY DEF PullInv, PullTypeOK
  <1>2. \A d \in Clients : answer'[d] = IF d = c THEN reply ELSE answer[d]
    BY <1>1
  <1> QED
    BY <1>1, <1>2 DEF PullInv, AnswersHold

LEMMA ReplyTypes ==
  ASSUME NEW key \in Keys, NEW number \in Nat, NEW flag \in BOOLEAN
  PROVE  /\ Response(key, number, flag) \in Answers
         /\ Error(key, flag) \in Answers
         /\ Foreign(key) \in Answers
         /\ Response(key, number, flag).key = key
         /\ Response(key, number, flag).number = number
         /\ Error(key, flag).is # "response"
         /\ Foreign(key).is # "response"
  BY DEF Response, Error, Foreign, Answers

LEMMA InitPulls == PullInit => PullInv
  <1> SUFFICES ASSUME PullInit PROVE PullInv
    OBVIOUS
  <1>1. Unasked \in Answers /\ Unasked.is = "unasked"
    BY PullAssumption DEF Unasked, Error, Answers
  <1> QED
    BY <1>1, PullAssumption
    DEF PullInit, PullInv, PullTypeOK, NumbersBelow, OnePerKey, AnswersHold

\* A send that opens nothing and ends in some answer that holds.
LEMMA QuietStep ==
  ASSUME PullInv, NEW c \in Clients, NEW reply \in Answers, Count,
         answer' = [answer EXCEPT ![c] = reply],
         reply.is = "response" => [key |-> reply.key, number |-> reply.number] \in opened,
         UNCHANGED <<opened, nextPr, transport, raiseTimeout>>
  PROVE  PullInv'
  <1>1. AnswersHold' /\ answer' \in [Clients -> Answers]
    BY AnswersKept
  <1>2. sent' \in Nat
    BY DEF Count, PullInv, PullTypeOK
  <1> QED
    BY <1>1, <1>2 DEF PullInv, PullTypeOK, NumbersBelow, OnePerKey

\* A send that opens a pull request.
LEMMA OpeningStep ==
  ASSUME PullInv, NEW c \in Clients, NEW key \in Keys, NEW reply \in Answers, Count,
         answer' = [answer EXCEPT ![c] = reply], OpenNext(key),
         reply.is = "response" => reply.key = key /\ reply.number = nextPr,
         transport = "double" => \A pr \in opened : pr.key # key,
         UNCHANGED <<transport, raiseTimeout>>
  PROVE  PullInv'
  <1>1. /\ opened \subseteq opened'
        /\ opened' \subseteq [key : Keys, number : Nat]
        /\ nextPr' \in Nat
        /\ [key |-> key, number |-> nextPr] \in opened'
        /\ NumbersBelow'
    BY OpenNextFacts
  <1>2. AnswersHold' /\ answer' \in [Clients -> Answers]
    BY <1>1, AnswersKept
  <1>3. OnePerKey'
    <2>1. CASE transport = "double"
      BY <2>1, OpenNextApart
    <2>2. CASE transport # "double"
      BY <2>2 DEF OnePerKey
    <2> QED
      BY <2>1, <2>2
  <1>4. sent' \in Nat
    BY DEF Count, PullInv, PullTypeOK
  <1> QED
    BY <1>1, <1>2, <1>3, <1>4 DEF PullInv, PullTypeOK

LEMMA DoubleStep ==
  ASSUME PullInv, NEW c \in Clients, NEW key \in Keys, NEW draft \in BOOLEAN,
         DoubleSend(c, key, draft)
  PROVE  PullInv'
  <1>1. Count /\ transport = "double" /\ UNCHANGED <<transport, raiseTimeout>>
    BY DEF DoubleSend
  <1>2. nextPr \in Nat
    BY DEF PullInv, PullTypeOK
  <1>3. CASE DoubleTimesOut(c, key)
    BY <1>1, <1>2, <1>3, QuietStep, ReplyTypes DEF DoubleTimesOut
  <1>4. CASE DoubleDeduplicates(c, key)
    <2>1. PICK pr \in opened :
            /\ pr.key = key
            /\ answer' = [answer EXCEPT ![c] = Response(key, pr.number, TRUE)]
      BY <1>4 DEF DoubleDeduplicates
    <2>2. pr = [key |-> key, number |-> pr.number] /\ pr.number \in Nat
      BY <2>1 DEF PullInv, PullTypeOK
    <2>3. UNCHANGED <<opened, nextPr>>
      BY <1>4 DEF DoubleDeduplicates
    <2> DEFINE reply == Response(key, pr.number, TRUE)
    <2>4. reply \in Answers /\ reply.key = key /\ reply.number = pr.number
      BY <2>2, ReplyTypes
    <2> HIDE DEF reply
    <2> QED
      BY <1>1, <2>1, <2>2, <2>3, <2>4, QuietStep DEF reply
  <1>5. CASE DoubleRefuses(c, key, draft)
    BY <1>1, <1>2, <1>5, QuietStep, ReplyTypes DEF DoubleRefuses
  <1>6. CASE DoubleCreates(c, key, draft)
    <2> DEFINE reply == Response(key, nextPr, FALSE)
    <2>1. reply \in Answers /\ reply.key = key /\ reply.number = nextPr
      BY <1>2, ReplyTypes
    <2>2. answer' = [answer EXCEPT ![c] = reply] /\ OpenNext(key)
          /\ \A pr \in opened : pr.key # key
      BY <1>6 DEF DoubleCreates
    <2> HIDE DEF reply
    <2> QED
      BY <1>1, <2>1, <2>2, OpeningStep
  <1> QED
    BY <1>3, <1>4, <1>5, <1>6 DEF DoubleSend

LEMMA LiveStep ==
  ASSUME PullInv, NEW c \in Clients, NEW key \in Keys, LiveSend(c, key)
  PROVE  PullInv'
  <1>1. Count /\ transport = "live" /\ UNCHANGED <<transport, raiseTimeout>>
    BY DEF LiveSend
  <1>2. nextPr \in Nat
    BY DEF PullInv, PullTypeOK
  <1>3. CASE LiveAnswered(c, key)
    <2> DEFINE reply == Response(key, nextPr, FALSE)
    <2>1. reply \in Answers /\ reply.key = key /\ reply.number = nextPr
      BY <1>2, ReplyTypes
    <2>2. answer' = [answer EXCEPT ![c] = reply] /\ OpenNext(key)
      BY <1>3 DEF LiveAnswered
    <2> HIDE DEF reply
    <2> QED
      BY <1>1, <2>1, <2>2, OpeningStep
  <1>4. CASE LiveHTTPError(c, key)
    <2>1. PICK status \in Statuses :
            answer' = [answer EXCEPT ![c] = Error(key, Retryable(status))]
      BY <1>4 DEF LiveHTTPError
    <2>2. Error(key, Retryable(status)) \in Answers
          /\ Error(key, Retryable(status)).is # "response"
      BY DEF Error, Answers
    <2> QED
      BY <1>1, <1>4, <2>1, <2>2, QuietStep DEF LiveHTTPError
  <1>5. CASE LiveLost(c, key)
    <2>1. PICK reply \in {Error(key, TRUE), Foreign(key)} :
            answer' = [answer EXCEPT ![c] = reply]
      BY <1>5 DEF LiveLost
    <2>2. reply \in Answers /\ reply.is # "response"
      <3>1. CASE reply = Error(key, TRUE)
        BY <3>1, ReplyTypes
      <3>2. CASE reply = Foreign(key)
        BY <3>2, ReplyTypes
      <3> QED
        BY <2>1, <3>1, <3>2
    <2>3. CASE OpenNext(key)
      BY <1>1, <2>1, <2>2, <2>3, OpeningStep
    <2>4. CASE UNCHANGED <<opened, nextPr>>
      BY <1>1, <2>1, <2>2, <2>4, QuietStep
    <2> QED
      BY <1>5, <2>3, <2>4 DEF LiveLost
  <1> QED
    BY <1>3, <1>4, <1>5 DEF LiveSend

LEMMA NextPulls == PullInv /\ [PullNext]_pullVars => PullInv'
  <1> SUFFICES ASSUME PullInv, [PullNext]_pullVars PROVE PullInv'
    OBVIOUS
  <1>1. CASE \E c \in Clients, key \in Keys, draft \in BOOLEAN : Send(c, key, draft)
    BY <1>1, DoubleStep, LiveStep DEF Send
  <1>2. CASE SetTimeout
    BY <1>2 DEF SetTimeout, PullInv, PullTypeOK, NumbersBelow, OnePerKey, AnswersHold
  <1>3. CASE UNCHANGED pullVars
    BY <1>3 DEF pullVars, PullInv, PullTypeOK, NumbersBelow, OnePerKey, AnswersHold
  <1> QED
    BY <1>1, <1>2, <1>3 DEF PullNext

LEMMA PullInvariant == PullSpec => []PullInv
  BY InitPulls, NextPulls, PTL DEF PullSpec

\* The state of the boundary keeps its type (PullTypeOK).
THEOREM PullsTyped == PullSpec => []PullTypeOK
  BY PullInvariant, PTL DEF PullInv

\* A number a client was told is that of a pull request opened for its key,
\* at both transports (LocalGitHubDouble._create_draft_pr, LiveHTTPTransport).
THEOREM AnswersAreTrue == PullSpec => []AnswersHold
  BY PullInvariant, PTL DEF PullInv

\* The double never has two pull requests for one key, or of one number.
THEOREM NoDuplicates == PullSpec => []OnePerKey
  BY PullInvariant, PTL DEF PullInv

\* A send of the double opens one new entry of the ledger, or leaves it.
LEMMA SendOpensOnce ==
  ASSUME PullInv, NEW c \in Clients, NEW key \in Keys, NEW draft \in BOOLEAN,
         DoubleSend(c, key, draft)
  PROVE  \/ UNCHANGED opened
         \/ \E pr \in opened' :
               /\ \A old \in opened : old.key # pr.key /\ old.number # pr.number
               /\ opened' = opened \cup {pr}
  <1>1. CASE DoubleCreates(c, key, draft)
    <2> DEFINE pr == [key |-> key, number |-> nextPr]
    <2>1. opened' = opened \cup {pr}
      BY <1>1 DEF DoubleCreates, OpenNext
    <2>2. \A old \in opened : old.key # pr.key /\ old.number # pr.number
      BY <1>1 DEF DoubleCreates, PullInv, NumbersBelow, PullTypeOK
    <2> QED
      BY <2>1, <2>2
  <1> QED
    BY <1>1 DEF DoubleSend, DoubleTimesOut, DoubleDeduplicates, DoubleRefuses

\* The double implements the ledger of at most one pull request per key.
THEOREM DoubleKeepsLedger == PullSpec => OpensOnce
  <1>1. PullInit => Ledger!Init
    BY DEF PullInit, Ledger!Init
  <1>2. PullInv /\ [PullNext]_pullVars
          => [Ledger!Next]_(IF transport = "double" THEN opened ELSE {})
    <2> SUFFICES ASSUME PullInv, [PullNext]_pullVars
                 PROVE  \/ Ledger!Next
                        \/ UNCHANGED (IF transport = "double" THEN opened ELSE {})
      OBVIOUS
    <2>1. CASE \E c \in Clients, key \in Keys, draft \in BOOLEAN : DoubleSend(c, key, draft)
      <3>1. transport = "double" /\ transport' = transport
        BY <2>1 DEF DoubleSend
      <3>2. \/ UNCHANGED opened
            \/ \E pr \in opened' :
                  /\ \A old \in opened : old.key # pr.key /\ old.number # pr.number
                  /\ opened' = opened \cup {pr}
        BY <2>1, SendOpensOnce
      <3> QED
        BY <3>1, <3>2 DEF Ledger!Next, Ledger!Open
    <2>2. CASE \E c \in Clients, key \in Keys : LiveSend(c, key)
      BY <2>2 DEF LiveSend
    <2>3. CASE SetTimeout \/ UNCHANGED pullVars
      BY <2>3 DEF SetTimeout, pullVars
    <2> QED
      BY <2>1, <2>2, <2>3 DEF PullNext, Send
  <1> QED
    BY <1>1, <1>2, PullInvariant, PTL DEF PullSpec, OpensOnce, Ledger!Spec
=============================================================================
