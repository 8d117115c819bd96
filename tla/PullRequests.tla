----------------------------- MODULE PullRequests -----------------------------
(***************************************************************************)
(* External actions: requests to open a draft pull request, sent through a *)
(* transport that is either the in-process double of GitHub or the live    *)
(* one.  The adapter that shapes and gates the requests raises             *)
(* NotImplementedError in the repository (GitHubAdapter.create_draft_pr),  *)
(* so a client may send any request, as often as it likes.                 *)
(***************************************************************************)
EXTENDS Naturals

CONSTANTS
    Clients,      \* who sends requests
    Keys,         \* the idempotency keys; a request without a key counts as
    NoKey,        \* one with the key NoKey, the empty text
    Transports,   \* the transports tried
    MaxSends,     \* bound: requests sent, for TLC
    FirstNumber   \* the number of the double's first pull request, 101

ASSUME PullAssumption ==
    /\ NoKey \in Keys
    /\ Transports \subseteq {"double", "live"}
    /\ MaxSends \in Nat /\ FirstNumber \in Nat

VARIABLES
    transport,     \* LocalGitHubDouble or LiveHTTPTransport
    opened,        \* the pull requests there are: records of key and number
    nextPr,        \* the number the next one gets
    raiseTimeout,  \* the double's test lever
    sent,          \* how many requests reached the transport
    answer         \* how each client's last send ended

pullVars == <<transport, opened, nextPr, raiseTimeout, sent, answer>>

(***************************************************************************)
(* How a send ends: a response, with the number it names, an               *)
(* IntegrationError that is retryable or not, or another exception.        *)
(***************************************************************************)
Response(key, number, deduped) ==
    [is |-> "response", key |-> key, number |-> number, deduped |-> deduped]
Error(key, retryable) ==
    [is |-> IF retryable THEN "retryable" ELSE "refused",
     key |-> key, number |-> 0, deduped |-> FALSE]
Foreign(key) == [Error(key, TRUE) EXCEPT !.is = "foreign"]
Unasked == [Error(NoKey, TRUE) EXCEPT !.is = "unasked"]

Answers ==
    [is : {"response", "retryable", "refused", "foreign", "unasked"},
     key : Keys, number : Nat, deduped : BOOLEAN]

PullInit ==
    /\ transport \in Transports
    /\ opened = {}
    /\ nextPr = FirstNumber
    /\ raiseTimeout = FALSE
    /\ sent = 0
    /\ answer = [c \in Clients |-> Unasked]

\* A pull request is opened under the next number.
OpenNext(key) ==
    /\ opened' = opened \cup {[key |-> key, number |-> nextPr]}
    /\ nextPr' = nextPr + 1

Count == sent < MaxSends /\ sent' = sent + 1

(***************************************************************************)
(* LocalGitHubDouble.send of a create: timeout, deduplication, refusal of  *)
(* what is not a draft, creation, in this order.                           *)
(***************************************************************************)
DoubleTimesOut(c, key) ==
    /\ raiseTimeout
    /\ answer' = [answer EXCEPT ![c] = Error(key, TRUE)]
    /\ UNCHANGED <<opened, nextPr>>

\* A faulty lookup for the mutant check: any pull request will do.
DoubleDeduplicatesAny(c, key) ==
    /\ ~ raiseTimeout
    /\ \E pr \in opened : answer' = [answer EXCEPT ![c] = Response(key, pr.number, TRUE)]
    /\ UNCHANGED <<opened, nextPr>>

DoubleDeduplicates(c, key) ==
    /\ ~ raiseTimeout
    /\ \E pr \in opened :
          /\ pr.key = key
          /\ answer' = [answer EXCEPT ![c] = Response(key, pr.number, TRUE)]
    /\ UNCHANGED <<opened, nextPr>>

DoubleRefuses(c, key, draft) ==
    /\ ~ raiseTimeout
    /\ \A pr \in opened : pr.key # key
    /\ ~ draft
    /\ answer' = [answer EXCEPT ![c] = Error(key, FALSE)]
    /\ UNCHANGED <<opened, nextPr>>

\* A faulty creation for the mutant check: the keys are not looked at.
DoubleCreatesAgain(c, key, draft) ==
    /\ ~ raiseTimeout
    /\ draft
    /\ answer' = [answer EXCEPT ![c] = Response(key, nextPr, FALSE)]
    /\ OpenNext(key)

DoubleCreates(c, key, draft) ==
    /\ ~ raiseTimeout
    /\ \A pr \in opened : pr.key # key
    /\ draft
    /\ answer' = [answer EXCEPT ![c] = Response(key, nextPr, FALSE)]
    /\ OpenNext(key)

DoubleSend(c, key, draft) ==
    /\ transport = "double"
    /\ Count
    /\ \/ DoubleTimesOut(c, key)
       \/ DoubleDeduplicates(c, key)
       \/ DoubleRefuses(c, key, draft)
       \/ DoubleCreates(c, key, draft)
    /\ UNCHANGED <<transport, raiseTimeout>>

\* A test sets or clears the lever; send does not clear it.
SetTimeout ==
    /\ transport = "double"
    /\ raiseTimeout' = ~ raiseTimeout
    /\ UNCHANGED <<transport, opened, nextPr, sent, answer>>

(***************************************************************************)
(* LiveHTTPTransport.send of a create.  The key is not sent, and what the  *)
(* service does with a second request for one branch is its own affair: it *)
(* opens a pull request or refuses.                                        *)
(***************************************************************************)
Statuses == {400, 404, 422, 429, 500, 503}
Retryable(status) == status >= 500 \/ status = 429

LiveAnswered(c, key) ==
    /\ answer' = [answer EXCEPT ![c] = Response(key, nextPr, FALSE)]
    /\ OpenNext(key)

LiveHTTPError(c, key) ==
    /\ \E status \in Statuses :
          answer' = [answer EXCEPT ![c] = Error(key, Retryable(status))]
    /\ UNCHANGED <<opened, nextPr>>

\* The connection times out or breaks, before the service acted or after; a
\* break while the body is read, or a body that is not JSON, goes through as
\* it is.
LiveLost(c, key) ==
    /\ \E result \in {Error(key, TRUE), Foreign(key)} :
          answer' = [answer EXCEPT ![c] = result]
    /\ OpenNext(key) \/ UNCHANGED <<opened, nextPr>>

LiveSend(c, key) ==
    /\ transport = "live"
    /\ Count
    /\ LiveAnswered(c, key) \/ LiveHTTPError(c, key) \/ LiveLost(c, key)
    /\ UNCHANGED <<transport, raiseTimeout>>

Send(c, key, draft) == DoubleSend(c, key, draft) \/ LiveSend(c, key)

PullNext ==
    \/ \E c \in Clients, key \in Keys, draft \in BOOLEAN : Send(c, key, draft)
    \/ SetTimeout

PullSpec == PullInit /\ [][PullNext]_pullVars

(***************************************************************************)
(* Properties                                                              *)
(***************************************************************************)
PullTypeOK ==
    /\ transport \in {"double", "live"}
    /\ opened \subseteq [key : Keys, number : Nat]
    /\ nextPr \in Nat
    /\ raiseTimeout \in BOOLEAN
    /\ sent \in Nat
    /\ answer \in [Clients -> Answers]

\* A client that was given a number is right to believe it: the pull request
\* is there and, at the double, opened for the client's own key, however many
\* retries, timeouts, refusals and other clients came between.
AnswersHold ==
    \A c \in Clients :
        answer[c].is = "response" =>
            [key |-> answer[c].key, number |-> answer[c].number] \in opened

\* One pull request per key at the double: a repeated create, a retry after a
\* timeout or a second client with the same key opens nothing.
OnePerKey ==
    transport = "double" =>
        \A a, b \in opened : a.key = b.key \/ a.number = b.number => a = b

\* The double implements the ledger; the live transport is exempt.
Ledger == INSTANCE PullRequestLedger
              WITH ledger <- IF transport = "double" THEN opened ELSE {}
OpensOnce == Ledger!Spec
=============================================================================
