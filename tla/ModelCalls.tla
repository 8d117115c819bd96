----------------------------- MODULE ModelCalls -----------------------------
(***************************************************************************)
(* A run that talks to a model: the model configuration is checked by      *)
(* coursectl setup and read by the harness, the adapter it names is made,  *)
(* and a conversation goes through it, call by call.  A conversation is    *)
(* kept once, as Messages; each live adapter turns it into the wire format *)
(* of its provider at every call.                                          *)
(*                                                                         *)
(* What is said is a number, the place it was said at; 0 is the empty      *)
(* text.  The loops that own the conversation are not in this repository   *)
(* (runtime/loop.py raises NotImplementedError): they may say anything the *)
(* Message type allows, and answer calls in the order of the reply.        *)
(***************************************************************************)
EXTENDS Integers, Sequences, SequencesExt

CONSTANTS
    ToolNames,    \* tools the model may call
    MaxCalls,     \* bound: calls of one reply
    MaxMessages   \* bound: messages of a conversation

ASSUME BoundsAssumption == MaxCalls \in Nat /\ MaxMessages \in Nat

VARIABLES
    config,   \* configs/models/default.toml
    adapter,  \* "none" yet, "refused", or the adapter's name
    history,  \* the conversation, a sequence of Messages
    failure   \* what the last complete() raised: [kind, retryable], or NoFailure

vars == <<config, adapter, history, failure>>

NoFailure == [kind |-> "none", retryable |-> FALSE]

(***************************************************************************)
(* The model configuration.  A record of what the file holds: the mode,    *)
(* the file that mode needs ("absent" key, "missing", "broken" or "there"  *)
(* on disk), the live model and provider (or "absent"), whether strings    *)
(* are in single quotes, whether the line of the mode occurs twice, and    *)
(* whether the provider's SDK is "missing", "keyless" or "ready" to use.   *)
(***************************************************************************)
MODES == {"live", "scripted", "replay"}
PROVIDERS == {"anthropic", "openai", "gemini"}

ConfigFile ==
    [mode : MODES \cup {"absent"}, file : {"absent", "missing", "broken", "there"},
     model : {"absent", "opus"}, provider : PROVIDERS \cup {"absent", "unknown"},
     single : BOOLEAN, twice : BOOLEAN, sdk : {"missing", "keyless", "ready"}]

\* A faulty check for the mutant check: the live model is not asked for.
ValidateModeOnly(c) ==
    ~ c.single /\ c.mode \in MODES /\ (c.mode # "live" => c.file \in {"broken", "there"})

\* coursectl scans lines: the last one counts, only double quotes are quotes
\* and the provider is not looked at.
ValidateModelConfig(c) ==
    /\ ~ c.single
    /\ c.mode \in MODES
    /\ IF c.mode = "live" THEN c.model # "absent"
       ELSE c.file \in {"broken", "there"}

\* The harness parses TOML, where a key given twice is an error.
LoadModelConfig(c) == ~ c.twice /\ c.mode \in MODES

\* The adapters' constructors: without the SDK they raise; the SDK's client
\* asks for the API key when it is made, Anthropic's at the first call.
AnthropicAdapter(c) == c.sdk # "missing"
OpenAIAdapter(c) == c.sdk = "ready"
GeminiAdapter(c) == c.sdk = "ready"
Constructed(provider, c) ==
    \/ provider = "anthropic" /\ AnthropicAdapter(c)
    \/ provider = "openai" /\ OpenAIAdapter(c)
    \/ provider = "gemini" /\ GeminiAdapter(c)

CreateAdapter(c) ==
    LET provider == IF c.provider = "absent" THEN "anthropic" ELSE c.provider
    IN CASE ~ LoadModelConfig(c) -> "refused"
         [] c.mode \in {"scripted", "replay"} ->
              IF c.file = "there" THEN c.mode ELSE "refused"
         [] OTHER ->
              IF c.model # "absent" /\ Constructed(provider, c)
              THEN provider ELSE "refused"

(***************************************************************************)
(* Messages and replies.  A provider gives every call an id of its own:    *)
(* the place of the message and of the call in it.                         *)
(***************************************************************************)
Call(id, name) == [id |-> id, name |-> name]
NoCall == <<0, 0>>

\* The constructor allows calls on assistant messages only, and a call that is
\* answered on tool messages.
Message(role, text, calls, answers) ==
    [role |-> role, text |-> text, calls |-> calls, answers |-> answers]

\* The calls of the conversation that have no result yet, and their order.
Asked(messages) ==
    UNION {{<<i, k>> : k \in DOMAIN messages[i].calls} : i \in DOMAIN messages}
Unanswered(messages) == Asked(messages) \ {messages[i].answers : i \in DOMAIN messages}
NotAfter(a, b) == a[1] < b[1] \/ (a[1] = b[1] /\ a[2] <= b[2])

(***************************************************************************)
(* The wire formats.  A turn has a role and parts; a turn of the Anthropic *)
(* API has either one plain text or a list of parts.                       *)
(***************************************************************************)
TextPart(text) == [is |-> "text", text |-> text]
CallPart(call) == [is |-> "call", call |-> call]
ResultPart(of, text) == [is |-> "result", of |-> of, text |-> text]
Turn(role, parts, list) == [role |-> role, parts |-> parts, list |-> list]

Calls(m) == [i \in DOMAIN m.calls |-> CallPart(m.calls[i])]
SpokenAndCalls(m) == (IF m.text # 0 THEN <<TextPart(m.text)>> ELSE <<>>) \o Calls(m)

\* A faulty step for the mutant check: what is said along with calls is lost.
SplitStepMute(acc, m) ==
    CASE m.role = "system" -> [acc EXCEPT !.system = Append(@, TextPart(m.text))]
      [] m.role = "tool" ->
           [acc EXCEPT !.wire =
               Append(@, Turn("user", <<ResultPart(m.answers, m.text)>>, TRUE))]
      [] m.role = "assistant" /\ m.calls # <<>> ->
           [acc EXCEPT !.wire = Append(@, Turn("assistant", Calls(m), TRUE))]
      [] OTHER ->
           [acc EXCEPT !.wire = Append(@, Turn(m.role, <<TextPart(m.text)>>, FALSE))]

SplitStep(acc, m) ==
    LET wire == acc.wire
        result == ResultPart(m.answers, m.text)
    IN CASE m.role = "system" -> [acc EXCEPT !.system = Append(@, TextPart(m.text))]
         [] m.role = "tool" ->
              IF wire # <<>> /\ Last(wire).role = "user" /\ Last(wire).list
              THEN [acc EXCEPT !.wire[Len(wire)].parts = Append(@, result)]
              ELSE [acc EXCEPT !.wire = Append(@, Turn("user", <<result>>, TRUE))]
         [] m.role = "assistant" /\ m.calls # <<>> ->
              [acc EXCEPT !.wire =
                  Append(@, Turn("assistant", SpokenAndCalls(m), TRUE))]
         [] OTHER ->
              [acc EXCEPT !.wire =
                  Append(@, Turn(m.role, <<TextPart(m.text)>>, FALSE))]

NothingSplit == [system |-> <<>>, wire |-> <<>>]

\* _split_messages of the Anthropic adapter
SplitMessages(messages) ==
    LET split[n \in 0 .. Len(messages)] ==
            IF n = 0 THEN NothingSplit ELSE SplitStep(split[n - 1], messages[n])
    IN split[Len(messages)]

\* _to_wire of the OpenAI adapter: one message each, the content of a message
\* that calls is its text or null
WireTurn(m) ==
    Turn(m.role,
         IF m.role = "tool" THEN <<ResultPart(m.answers, m.text)>>
         ELSE IF m.role = "assistant" /\ m.calls # <<>> THEN SpokenAndCalls(m)
         ELSE <<TextPart(m.text)>>,
         FALSE)
ToWire(messages) == [i \in DOMAIN messages |-> WireTurn(messages[i])]

\* A faulty step for the mutant check: an instruction closes the turn that
\* collects the results.
ContentsStepParts(acc, m) ==
    LET named == {c \in acc.callNames : c.id = m.answers}
        result == ResultPart((CHOOSE c \in named : TRUE).name, m.text)
        added(role, parts) ==
            [acc EXCEPT !.contents = Append(@, Turn(role, parts, TRUE)),
                        !.toolTurn = 0]
    IN CASE m.role = "system" ->
              [acc EXCEPT !.system = Append(@, TextPart(m.text)), !.toolTurn = 0]
         [] m.role = "tool" ->
              IF acc.toolTurn = 0
              THEN [added("user", <<result>>) EXCEPT
                       !.toolTurn = Len(acc.contents) + 1]
              ELSE [acc EXCEPT !.contents[acc.toolTurn].parts = Append(@, result)]
         [] m.role = "assistant" /\ m.calls # <<>> ->
              [added("model", SpokenAndCalls(m)) EXCEPT
                  !.callNames = @ \cup ToSet(m.calls)]
         [] OTHER ->
              added(IF m.role = "assistant" THEN "model" ELSE "user",
                    <<TextPart(m.text)>>)

\* Results carry the name of the tool, looked up by the id of the call; the
\* turn that collects them is closed by any other message but a system one.
ContentsStep(acc, m) ==
    LET named == {c \in acc.callNames : c.id = m.answers}
        result == ResultPart((CHOOSE c \in named : TRUE).name, m.text)
        added(role, parts) ==
            [acc EXCEPT !.contents = Append(@, Turn(role, parts, TRUE)),
                        !.toolTurn = 0]
    IN CASE m.role = "system" -> [acc EXCEPT !.system = Append(@, TextPart(m.text))]
         [] m.role = "tool" ->
              IF acc.toolTurn = 0
              THEN [added("user", <<result>>) EXCEPT
                       !.toolTurn = Len(acc.contents) + 1]
              ELSE [acc EXCEPT !.contents[acc.toolTurn].parts = Append(@, result)]
         [] m.role = "assistant" /\ m.calls # <<>> ->
              [added("model", SpokenAndCalls(m)) EXCEPT
                  !.callNames = @ \cup ToSet(m.calls)]
         [] OTHER ->
              added(IF m.role = "assistant" THEN "model" ELSE "user",
                    <<TextPart(m.text)>>)

NoContents == [system |-> <<>>, contents |-> <<>>, toolTurn |-> 0, callNames |-> {}]

\* _to_contents of the Gemini adapter
ToContents(messages) ==
    LET contents[n \in 0 .. Len(messages)] ==
            IF n = 0 THEN NoContents ELSE ContentsStep(contents[n - 1], messages[n])
    IN contents[Len(messages)]

(***************************************************************************)
(* complete(): the SDK returns a reply or raises, the adapter normalises.  *)
(***************************************************************************)
RETRYABLE_STATUS_CODES == {408, 409, 429}
ClassifyRetryableStatus(status) == status \in RETRYABLE_STATUS_CODES \/ status >= 500

\* What the SDK can raise.  The Gemini SDK has no exception of its own for a
\* timeout or a lost connection: the transport's goes through.
Faults == {[kind |-> "status", status |-> s] : s \in {400, 401, 408, 409, 429, 500, 529}}
            \cup {[kind |-> k, status |-> 0] : k \in {"timeout", "connection"}}

Raised(provider, fault) ==
    CASE fault.kind = "status" ->
           [kind |-> "ProviderError",
            retryable |-> ClassifyRetryableStatus(fault.status)]
      [] provider = "gemini" -> [kind |-> "foreign", retryable |-> FALSE]
      [] fault.kind = "timeout" -> [kind |-> "ModelTimeoutError", retryable |-> TRUE]
      [] OTHER -> [kind |-> "ProviderError", retryable |-> TRUE]

\* A reply: its text (or none), its calls, and whether it was cut off at the
\* token limit.  The arguments of a cut call are not JSON any more: OpenAI
\* hands them over as text and the adapter's json.loads raises.
Replies == [text : BOOLEAN, calls : SeqOf(ToolNames, MaxCalls), cut : BOOLEAN]

Undecodable(provider, reply) ==
    provider = "openai" /\ reply.cut /\ reply.calls # <<>>

\* The error an injected failure stands for.
INJECTION_FAILURE_KINDS ==
    {"model_timeout", "provider_error_retryable", "provider_error_permanent"}
InjectionError(kind) ==
    CASE kind = "model_timeout" -> [kind |-> "ModelTimeoutError", retryable |-> TRUE]
      [] kind = "provider_error_retryable" -> [kind |-> "ProviderError", retryable |-> TRUE]
      [] OTHER -> [kind |-> "ProviderError", retryable |-> FALSE]

(***************************************************************************)
(* The run.                                                                *)
(***************************************************************************)
Init ==
    /\ config \in ConfigFile
    /\ adapter = "none"
    /\ history = <<>>
    /\ failure = NoFailure

\* create_adapter_from_file
Start ==
    /\ adapter = "none"
    /\ adapter' = CreateAdapter(config)
    /\ UNCHANGED <<config, history, failure>>

Room(n) == adapter \in PROVIDERS /\ Len(history) + n <= MaxMessages
Here == Len(history) + 1

\* A loop adds an instruction, at any time, or a request, once every call has
\* its result.
Say ==
    /\ Room(1)
    /\ \E role \in {"system", "user"} :
          /\ role = "user" => Unanswered(history) = {}
          /\ history' = Append(history, Message(role, Here, <<>>, NoCall))
    /\ UNCHANGED <<config, adapter, failure>>

Answer ==
    /\ Room(1)
    /\ \E id \in Unanswered(history) :
          /\ \A other \in Unanswered(history) : NotAfter(id, other)
          /\ history' = Append(history, Message("tool", Here, <<>>, id))
    /\ UNCHANGED <<config, adapter, failure>>

\* complete() returns and to_message puts the reply into the history.
Complete ==
    /\ Room(1)
    /\ Unanswered(history) = {}
    /\ history # <<>>
    /\ \E reply \in Replies :
          IF Undecodable(adapter, reply)
          THEN /\ failure' = [kind |-> "JSONDecodeError", retryable |-> FALSE]
               /\ UNCHANGED history
          ELSE /\ history' = Append(history,
                     Message("assistant", IF reply.text THEN Here ELSE 0,
                             [i \in DOMAIN reply.calls |->
                                 Call(<<Here, i>>, reply.calls[i])], NoCall))
               /\ failure' = NoFailure
    /\ UNCHANGED <<config, adapter>>

\* complete() raises; the caller still has its history and may try again.
Fail ==
    /\ Room(1)
    /\ Unanswered(history) = {}
    /\ history # <<>>
    /\ \E fault \in Faults : failure' = Raised(adapter, fault)
    /\ UNCHANGED <<config, adapter, history>>

\* A FailureInjectionAdapter around the adapter raises in its place.
Inject ==
    /\ Room(1)
    /\ Unanswered(history) = {}
    /\ history # <<>>
    /\ \E kind \in INJECTION_FAILURE_KINDS : failure' = InjectionError(kind)
    /\ UNCHANGED <<config, adapter, history>>

Next == Start \/ Say \/ Answer \/ Complete \/ Fail \/ Inject
Spec == Init /\ [][Next]_vars

(***************************************************************************)
(* Properties                                                              *)
(***************************************************************************)
\* coursectl's line scan and the harness's parser agree on every file written
\* like default.toml (double quotes, each key once) that names a provider the
\* harness can call and a file that can be read: setup passes exactly when the
\* adapter can be made.
ConfigAgreement ==
    /\ adapter # "none"
    /\ ~ config.single /\ ~ config.twice /\ config.file # "broken"
    /\ config.mode = "live" => config.sdk = "ready" /\ config.provider # "unknown"
    => (adapter # "refused" <=> ValidateModelConfig(config))

\* What was said, turn by turn: the speaker's name at the provider and the
\* part, a result under the name it is referred to by.
Parts(m, of) ==
    IF m.role = "tool" THEN <<ResultPart(of[m.answers], m.text)>>
    ELSE IF m.calls = <<>> THEN <<TextPart(m.text)>>
    ELSE SpokenAndCalls(m)

Voiced(role, parts) == [j \in DOMAIN parts |-> <<role, parts[j]>>]
Said(m, role, of) ==
    IF m.role \in DOMAIN role THEN Voiced(role[m.role], Parts(m, of)) ELSE <<>>

Spoken(messages, role, of) ==
    FlattenSeq([i \in DOMAIN messages |-> Said(messages[i], role, of)])
Heard(turns) ==
    FlattenSeq([i \in DOMAIN turns |-> Voiced(turns[i].role, turns[i].parts)])

\* The speakers each API knows; two of them take instructions apart.
AnthropicRole == [user |-> "user", assistant |-> "assistant", tool |-> "user"]
GeminiRole == [user |-> "user", assistant |-> "model", tool |-> "user"]
OpenAIRole == [user |-> "user", assistant |-> "assistant", tool |-> "tool",
               system |-> "system"]
Instructions == [system |-> "system"]

\* What a result is referred to by: the id of the call, or the tool's name.
ById(messages) == [id \in Asked(messages) |-> id]
ByName(messages) == [id \in Asked(messages) |-> messages[id[1]].calls[id[2]].name]

\* Every wire format reads back as the conversation: nothing is lost, doubled
\* or moved to another speaker by the merging of results, the dropping of
\* empty texts and the pulling out of system messages.
WireKeepsConversation ==
    LET split == SplitMessages(history)
        contents == ToContents(history)
        instructions == Spoken(history, Instructions, ById(history))
    IN /\ Heard(split.wire) = Spoken(history, AnthropicRole, ById(history))
       /\ Voiced("system", split.system) = instructions
       /\ Heard(contents.contents) = Spoken(history, GeminiRole, ByName(history))
       /\ Voiced("system", contents.system) = instructions
       /\ Heard(ToWire(history)) = Spoken(history, OpenAIRole, ById(history))

\* A turn of calls, after what is said along with them, and the turn of their
\* results: all of them, in the order of the calls.
Paired(turn, next, key) ==
    \E spoken \in 0 .. 1 :
        /\ \A j \in DOMAIN turn.parts :
              turn.parts[j].is = IF j <= spoken THEN "text" ELSE "call"
        /\ next.role = "user"
        /\ Len(turn.parts) = spoken + Len(next.parts)
        /\ \A k \in DOMAIN next.parts :
              /\ next.parts[k].is = "result"
              /\ next.parts[k].of = turn.parts[spoken + k].call[key]

HasCalls(turn) == \E j \in DOMAIN turn.parts : turn.parts[j].is = "call"
Grouped(turns, key) ==
    \A i \in DOMAIN turns :
        HasCalls(turns[i]) => i < Len(turns) /\ Paired(turns[i], turns[i + 1], key)

\* Both APIs that demand it get the results of one turn's calls in the very
\* next turn, all of them, in the order of the calls (the Gemini format has
\* no other way to tell two results of one tool apart), whatever instruction
\* was put in between.
ResultsTogether ==
    Unanswered(history) = {} =>
        /\ Grouped(SplitMessages(history).wire, "id")
        /\ Grouped(ToContents(history).contents, "name")
=============================================================================
