--------------------------- MODULE ModelCallsProofs ---------------------------
(***************************************************************************)
(* Proofs about ModelCalls: setup and harness agree on every configuration *)
(* file; a conversation of any length, with any number of parallel calls,  *)
(* goes whole through the three wire formats, the results of a turn's      *)
(* calls together.                                                         *)
(***************************************************************************)
EXTENDS ModelCalls, SequenceTheorems, WellFoundedInduction, TLAPS

-----------------------------------------------------------------------------
(* The configuration.                                                      *)

ConfigInv ==
  config \in ConfigFile /\ (adapter = "none" \/ adapter = CreateAdapter(config))

LEMMA ConstructedReady ==
  ASSUME NEW c \in ConfigFile, c.sdk = "ready", NEW provider \in PROVIDERS
  PROVE  Constructed(provider, c)
  BY DEF Constructed, AnthropicAdapter, OpenAIAdapter, GeminiAdapter, PROVIDERS

LEMMA Agrees == ConfigInv => ConfigAgreement
  <1> SUFFICES ASSUME config \in ConfigFile, adapter = CreateAdapter(config),
                      ~ config.single, ~ config.twice, config.file # "broken",
                      config.mode = "live" => config.sdk = "ready" /\ config.provider # "unknown"
               PROVE  adapter # "refused" <=> ValidateModelConfig(config)
    BY DEF ConfigInv, ConfigAgreement
  <1>1. LoadModelConfig(config) <=> config.mode \in MODES
    BY DEF LoadModelConfig
  <1>2. CASE config.mode \notin MODES
    BY <1>1, <1>2 DEF CreateAdapter, ValidateModelConfig, MODES
  <1>3. CASE config.mode \in {"scripted", "replay"}
    <2>1. config.file \in {"absent", "missing", "there"}
      BY DEF ConfigFile
    <2>2. adapter = IF config.file = "there" THEN config.mode ELSE "refused"
      BY <1>1, <1>3 DEF CreateAdapter, MODES
    <2> QED
      BY <1>3, <2>1, <2>2 DEF ValidateModelConfig, MODES
  <1>4. CASE config.mode = "live"
    <2> DEFINE provider == IF config.provider = "absent" THEN "anthropic" ELSE config.provider
    <2>1. provider \in PROVIDERS
      BY <1>4 DEF ConfigFile, PROVIDERS
    <2>2. Constructed(provider, config)
      BY <1>4, <2>1, ConstructedReady
    <2>3. adapter = IF config.model # "absent" THEN provider ELSE "refused"
      BY <1>1, <1>4, <2>2 DEF CreateAdapter, MODES
    <2> QED
      BY <1>4, <2>1, <2>3 DEF ValidateModelConfig, MODES, PROVIDERS
  <1> QED
    BY <1>2, <1>3, <1>4 DEF MODES

\* On every file written like default.toml that names a known provider and a
\* file that can be read, setup passes exactly when the adapter can be made.
THEOREM SetupAndHarnessAgree == Spec => []ConfigAgreement
  <1>1. Init => ConfigInv
    BY DEF Init, ConfigInv
  <1>2. ConfigInv /\ [Next]_vars => ConfigInv'
    <2> SUFFICES ASSUME ConfigInv, [Next]_vars PROVE ConfigInv'
      OBVIOUS
    <2>1. CASE Start
      BY <2>1 DEF ConfigInv, Start
    <2>2. CASE UNCHANGED <<config, adapter>>
      BY <2>2 DEF ConfigInv
    <2> QED
      BY <2>1, <2>2 DEF Next, Say, Answer, Complete, Fail, Inject, vars
  <1> QED
    BY <1>1, <1>2, Agrees, PTL DEF Spec

-----------------------------------------------------------------------------
(* What is flattened, element by element.                                  *)

LEMMA LeastOf ==
  ASSUME NEW R \in SUBSET Nat, R # {}
  PROVE  \E n \in R : \A m \in R : n <= m
  <1>1. PICK n \in R : \A m \in R : ~ (<<m, n>> \in OpToRel(<, Nat))
    BY NatLessThanWellFounded, WFMin, Zenon
  <1>2. \A m \in R : ~ (m < n)
    BY <1>1 DEF OpToRel
  <1> QED
    BY <1>2

\* f[n] is what the first n sequences are together.
Flattens(f, seqs, length) ==
  f = [n \in 1 .. length |-> IF n = 1 THEN seqs[n] ELSE f[n - 1] \o seqs[n]]

LEMMA FlattensSome ==
  ASSUME NEW seqs, NEW length \in Nat
  PROVE  \E f : Flattens(f, seqs, length)
  <1> DEFINE R == {n \in Nat : ~ \E f : Flattens(f, seqs, n)}
  <1>1. SUFFICES ASSUME R # {} PROVE FALSE
    OBVIOUS
  <1>2. PICK k \in R : \A m \in R : k <= m
    BY <1>1, LeastOf
  <1>3. k # 0
    <2> DEFINE f == [n \in 1 .. 0 |-> <<>>]
    <2>1. Flattens(f, seqs, 0)
      BY DEF Flattens
    <2> QED
      BY <1>2, <2>1
  <1>4. PICK f : Flattens(f, seqs, k - 1)
    BY <1>2, <1>3
  <1> DEFINE g == [n \in 1 .. k |-> IF n = k THEN IF k = 1 THEN seqs[k]
                                                  ELSE f[k - 1] \o seqs[k]
                                    ELSE f[n]]
  <1>5. \A n \in 1 .. k - 1 : f[n] = IF n = 1 THEN seqs[n] ELSE f[n - 1] \o seqs[n]
    BY <1>2, <1>3, <1>4 DEF Flattens
  <1>6. \A n \in 1 .. k : g[n] = IF n = 1 THEN seqs[n] ELSE g[n - 1] \o seqs[n]
    BY <1>2, <1>3, <1>5
  <1>7. Flattens(g, seqs, k)
    BY <1>6 DEF Flattens
  <1> QED
    BY <1>2, <1>7

LEMMA FlattensAlike ==
  ASSUME NEW s, NEW n \in Nat, NEW f, Flattens(f, s, n),
         NEW t, NEW k \in Nat, NEW g, Flattens(g, t, k),
         NEW j \in 1 .. n, j <= k, \A i \in 1 .. j : s[i] = t[i]
  PROVE  f[j] = g[j]
  <1>1. /\ \A i \in 1 .. n : f[i] = IF i = 1 THEN s[i] ELSE f[i - 1] \o s[i]
        /\ \A i \in 1 .. k : g[i] = IF i = 1 THEN t[i] ELSE g[i - 1] \o t[i]
    BY DEF Flattens
  <1> DEFINE R == {i \in Nat : i \in 1 .. j /\ f[i] # g[i]}
  <1>2. SUFFICES ASSUME R # {} PROVE FALSE
    OBVIOUS
  <1>3. PICK i \in R : \A m \in R : i <= m
    BY <1>2, LeastOf
  <1>4. CASE i = 1
    BY <1>1, <1>3, <1>4
  <1>5. CASE i # 1
    <2>1. i - 1 \in 1 .. j /\ i - 1 \in Nat /\ i \in 1 .. n /\ i \in 1 .. k
      BY <1>3, <1>5
    <2>2. f[i - 1] = g[i - 1]
      BY <1>3, <2>1
    <2> QED
      BY <1>1, <1>3, <1>5, <2>1, <2>2
  <1> QED
    BY <1>4, <1>5

LEMMA FlattenAt ==
  ASSUME NEW S, NEW s \in Seq(S), s # <<>>
  PROVE  \E f : Flattens(f, s, Len(s)) /\ FlattenSeq(s) = f[Len(s)]
  <1>1. Len(s) \in Nat /\ Len(s) # 0
    BY EmptySeq, LenProperties
  <1> DEFINE flat == CHOOSE f : Flattens(f, s, Len(s))
  <1>2. Flattens(flat, s, Len(s))
    BY <1>1, FlattensSome
  <1>3. FlattenSeq(s) = flat[Len(s)]
    BY <1>1 DEF FlattenSeq, Flattens
  <1> QED
    BY <1>2, <1>3

LEMMA FlattenTypes ==
  ASSUME NEW S, NEW s \in Seq(Seq(S))
  PROVE  FlattenSeq(s) \in Seq(S)
  <1>1. CASE s = <<>>
    <2>1. FlattenSeq(s) = <<>>
      BY <1>1, EmptySeq DEF FlattenSeq
    <2> QED
      BY <2>1, EmptySeq
  <1>2. CASE s # <<>>
    <2>1. Len(s) \in Nat /\ Len(s) # 0
      BY <1>2, EmptySeq, LenProperties
    <2>2. PICK f : Flattens(f, s, Len(s)) /\ FlattenSeq(s) = f[Len(s)]
      BY <1>2, FlattenAt
    <2>3. \A i \in 1 .. Len(s) : f[i] = IF i = 1 THEN s[i] ELSE f[i - 1] \o s[i]
      BY <2>2 DEF Flattens
    <2>4. \A i \in 1 .. Len(s) : s[i] \in Seq(S)
      BY ElementOfSeq
    <2> DEFINE R == {i \in Nat : i \in 1 .. Len(s) /\ f[i] \notin Seq(S)}
    <2>5. SUFFICES ASSUME R # {} PROVE FALSE
      BY <2>1, <2>2
    <2>6. PICK i \in R : \A m \in R : i <= m
      BY <2>5, LeastOf
    <2>7. CASE i = 1
      BY <2>3, <2>4, <2>6, <2>7
    <2>8. CASE i # 1
      <3>1. i - 1 \in 1 .. Len(s) /\ i - 1 \in Nat /\ i \in 1 .. Len(s)
        BY <2>1, <2>6, <2>8
      <3>2. f[i - 1] \in Seq(S) /\ s[i] \in Seq(S)
        BY <2>4, <2>6, <3>1
      <3>3. f[i - 1] \o s[i] \in Seq(S)
        BY <3>2, ConcatProperties
      <3>4. f[i] = f[i - 1] \o s[i]
        BY <2>3, <2>8, <3>1
      <3>5. f[i] \notin Seq(S)
        BY <2>6
      <3> QED
        BY <3>3, <3>4, <3>5
    <2> QED
      BY <2>7, <2>8
  <1> QED
    BY <1>1, <1>2

LEMMA FlattenAppend ==
  ASSUME NEW S, NEW s \in Seq(Seq(S)), NEW e \in Seq(S)
  PROVE  FlattenSeq(Append(s, e)) = FlattenSeq(s) \o e
  <1> DEFINE t == Append(s, e)
  <1>1. /\ t \in Seq(Seq(S)) /\ t # <<>> /\ Len(t) = Len(s) + 1 /\ Len(s) \in Nat
        /\ \A i \in 1 .. Len(s) : t[i] = s[i]
        /\ t[Len(s) + 1] = e
    BY AppendProperties, LenProperties
  <1> HIDE DEF t
  <1>2. PICK g : Flattens(g, t, Len(t)) /\ FlattenSeq(t) = g[Len(t)]
    BY <1>1, FlattenAt
  <1>3. \A i \in 1 .. Len(s) + 1 : g[i] = IF i = 1 THEN t[i] ELSE g[i - 1] \o t[i]
    BY <1>1, <1>2 DEF Flattens
  <1>4. CASE s = <<>>
    <2>1. Len(s) = 0 /\ FlattenSeq(s) = <<>>
      BY <1>4, EmptySeq DEF FlattenSeq
    <2>2. FlattenSeq(t) = e
      BY <1>1, <1>2, <1>3, <2>1
    <2>3. <<>> \o e = e
      BY ConcatEmptySeq
    <2> QED
      BY <2>1, <2>2, <2>3 DEF t
  <1>5. CASE s # <<>>
    <2>1. Len(s) # 0
      BY <1>5, EmptySeq
    <2>2. PICK f : Flattens(f, s, Len(s)) /\ FlattenSeq(s) = f[Len(s)]
      BY <1>5, FlattenAt
    <2>3. f[Len(s)] = g[Len(s)]
      <3>1. Len(s) \in 1 .. Len(s) /\ Len(s) <= Len(t) /\ Len(t) \in Nat
        BY <1>1, <2>1
      <3>2. Len(s) \in Nat /\ \A i \in 1 .. Len(s) : s[i] = t[i]
        BY <1>1
      <3>3. Flattens(f, s, Len(s)) /\ Flattens(g, t, Len(t))
        BY <1>2, <2>2
      <3> QED
        BY ONLY <3>1, <3>2, <3>3, FlattensAlike
    <2>4. g[Len(s) + 1] = g[Len(s)] \o e
      <3>1. Len(s) + 1 \in 1 .. Len(s) + 1 /\ Len(s) + 1 # 1 /\ (Len(s) + 1) - 1 = Len(s)
        BY <1>1, <2>1
      <3>2. g[Len(s) + 1] = g[(Len(s) + 1) - 1] \o t[Len(s) + 1]
        BY <1>3, <3>1
      <3> QED
        BY <1>1, <3>1, <3>2
    <2> QED
      BY <1>1, <1>2, <2>2, <2>3, <2>4 DEF t
  <1> QED
    BY <1>4, <1>5

LEMMA FlattenLonger ==
  ASSUME NEW S, NEW s \in Seq(Seq(S)), NEW t \in Seq(Seq(S)), Len(t) = Len(s) + 1,
         \A i \in 1 .. Len(s) : t[i] = s[i]
  PROVE  /\ FlattenSeq(s) \in Seq(S) /\ t[Len(s) + 1] \in Seq(S)
         /\ FlattenSeq(t) = FlattenSeq(s) \o t[Len(s) + 1]
  <1> DEFINE e == t[Len(s) + 1]
  <1>1. Len(s) \in Nat /\ Len(s) + 1 \in 1 .. Len(t)
    BY LenProperties
  <1>2. e \in Seq(S)
    BY <1>1, ElementOfSeq
  <1>3. e = t[Len(s) + 1]
    OBVIOUS
  <1> HIDE DEF e
  <1>4. /\ Append(s, e) \in Seq(Seq(S)) /\ Len(Append(s, e)) = Len(s) + 1
        /\ \A i \in 1 .. Len(s) : Append(s, e)[i] = s[i]
        /\ Append(s, e)[Len(s) + 1] = e
    BY <1>2, AppendProperties
  <1>5. \A i \in 1 .. Len(t) : t[i] = Append(s, e)[i]
    <2> SUFFICES ASSUME NEW i \in 1 .. Len(t) PROVE t[i] = Append(s, e)[i]
      OBVIOUS
    <2>1. i \in 1 .. Len(s) \/ i = Len(s) + 1
      BY <1>1
    <2> QED
      BY <1>3, <1>4, <2>1
  <1>6. t = Append(s, e)
    BY <1>4, <1>5, SeqEqual
  <1> QED
    BY <1>2, <1>3, <1>6, FlattenAppend, FlattenTypes

-----------------------------------------------------------------------------
(* The conversation: what may be said next, and which calls are open.      *)

Id == Nat \X Nat
CallOf == [id : Id, name : ToolNames]
Role == {"system", "user", "assistant", "tool"}
MessageOf == [role : Role, text : Nat, calls : Seq(CallOf), answers : Id]

\* Every call is known by its place, and every result answers one.
WellSaid(h) ==
  \A i \in DOMAIN h :
     /\ h[i].role # "assistant" => h[i].calls = <<>>
     /\ h[i].role = "tool" => h[i].answers \in Asked(h)
     /\ h[i].role # "tool" => h[i].answers = NoCall
     /\ \A k \in DOMAIN h[i].calls : h[i].calls[k].id = <<i, k>>

HistoryInv == history \in Seq(MessageOf) /\ WellSaid(history)

\* What a step may add to the conversation h.
Told(h, m) ==
  m.role \in {"system", "user"} /\ m.calls = <<>> /\ m.answers = NoCall
  /\ (m.role = "user" => Unanswered(h) = {})
Answered(h, m) ==
  m.role = "tool" /\ m.calls = <<>> /\ m.answers \in Unanswered(h)
  /\ \A other \in Unanswered(h) : NotAfter(m.answers, other)
Replied(h, m) ==
  m.role = "assistant" /\ m.answers = NoCall /\ Unanswered(h) = {}
  /\ \A k \in DOMAIN m.calls : m.calls[k].id = <<Len(h) + 1, k>>
May(h, m) == m \in MessageOf /\ (Told(h, m) \/ Answered(h, m) \/ Replied(h, m))

LEMMA AskedPlaces ==
  ASSUME NEW h \in Seq(MessageOf), NEW id \in Asked(h)
  PROVE  /\ id \in Id /\ id # NoCall
         /\ id[1] \in DOMAIN h /\ id[2] \in DOMAIN h[id[1]].calls
         /\ id = <<id[1], id[2]>>
  <1>0. PICK i \in DOMAIN h : \E k \in DOMAIN h[i].calls : id = <<i, k>>
    BY DEF Asked
  <1>1. PICK k \in DOMAIN h[i].calls : id = <<i, k>>
    BY <1>0
  <1>2. DOMAIN h = 1 .. Len(h) /\ Len(h) \in Nat /\ h[i] \in MessageOf
    BY LenProperties, ElementOfSeq
  <1>3. h[i].calls \in Seq(CallOf)
    BY <1>2 DEF MessageOf
  <1>4. DOMAIN h[i].calls = 1 .. Len(h[i].calls) /\ Len(h[i].calls) \in Nat
    BY <1>3, LenProperties
  <1>5. i \in Nat /\ k \in Nat /\ i # 0
    BY <1>2, <1>4
  <1> QED
    BY <1>1, <1>5 DEF Id, NoCall

LEMMA AskedAt ==
  ASSUME NEW h, NEW i \in DOMAIN h, NEW k \in DOMAIN h[i].calls
  PROVE  <<i, k>> \in Asked(h)
  BY DEF Asked

LEMMA Longer ==
  ASSUME NEW h \in Seq(MessageOf), NEW m \in MessageOf
  PROVE  /\ Append(h, m) \in Seq(MessageOf) /\ Len(h) \in Nat
         /\ Len(Append(h, m)) = Len(h) + 1
         /\ DOMAIN h = 1 .. Len(h) /\ DOMAIN Append(h, m) = 1 .. Len(h) + 1
         /\ \A i \in 1 .. Len(h) : Append(h, m)[i] = h[i]
         /\ Append(h, m)[Len(h) + 1] = m
  <1>1. Append(h, m) \in Seq(MessageOf)
    BY AppendProperties
  <1> QED
    BY <1>1, AppendProperties, LenProperties

LEMMA AskedGrows ==
  ASSUME NEW h \in Seq(MessageOf), NEW m \in MessageOf, NEW id
  PROVE  id \in Asked(Append(h, m)) <=>
            id \in Asked(h) \/ \E k \in DOMAIN m.calls : id = <<Len(h) + 1, k>>
  <1> DEFINE g == Append(h, m)
  <1>1. /\ Len(h) \in Nat /\ DOMAIN h = 1 .. Len(h) /\ DOMAIN g = 1 .. Len(h) + 1
        /\ \A i \in 1 .. Len(h) : g[i] = h[i]
        /\ g[Len(h) + 1] = m
    BY Longer
  <1> HIDE DEF g
  <1>2. ASSUME id \in Asked(g)
        PROVE  id \in Asked(h) \/ \E k \in DOMAIN m.calls : id = <<Len(h) + 1, k>>
    <2>0. PICK i \in DOMAIN g : \E k \in DOMAIN g[i].calls : id = <<i, k>>
      BY <1>2 DEF Asked
    <2>1. PICK k \in DOMAIN g[i].calls : id = <<i, k>>
      BY <2>0
    <2>2. i \in 1 .. Len(h) \/ i = Len(h) + 1
      BY <1>1
    <2>3. CASE i \in 1 .. Len(h)
      BY <1>1, <2>1, <2>3, AskedAt
    <2>4. CASE i = Len(h) + 1
      BY <1>1, <2>1, <2>4
    <2> QED
      BY <2>2, <2>3, <2>4
  <1>3. ASSUME id \in Asked(h) PROVE id \in Asked(g)
    <2>0. PICK i \in DOMAIN h : \E k \in DOMAIN h[i].calls : id = <<i, k>>
      BY <1>3 DEF Asked
    <2>1. PICK k \in DOMAIN h[i].calls : id = <<i, k>>
      BY <2>0
    <2>2. i \in DOMAIN g /\ g[i] = h[i]
      BY <1>1
    <2> QED
      BY <2>1, <2>2, AskedAt
  <1>4. ASSUME NEW k \in DOMAIN m.calls, id = <<Len(h) + 1, k>> PROVE id \in Asked(g)
    <2>1. Len(h) + 1 \in DOMAIN g /\ g[Len(h) + 1] = m
      BY <1>1
    <2>2. k \in DOMAIN g[Len(h) + 1].calls
      BY <2>1
    <2> QED
      BY <1>4, <2>1, <2>2, AskedAt
  <1> QED
    BY <1>2, <1>3, <1>4 DEF g

LEMMA UnansweredGrows ==
  ASSUME NEW h \in Seq(MessageOf), WellSaid(h), NEW m \in MessageOf, NEW id
  PROVE  id \in Unanswered(Append(h, m)) <=>
            /\ id \in Unanswered(h) \/ \E k \in DOMAIN m.calls : id = <<Len(h) + 1, k>>
            /\ id # m.answers
  <1> DEFINE g == Append(h, m)
  <1>1. /\ Len(h) \in Nat /\ DOMAIN h = 1 .. Len(h) /\ DOMAIN g = 1 .. Len(h) + 1
        /\ \A i \in 1 .. Len(h) : g[i] = h[i]
        /\ g[Len(h) + 1] = m
    BY Longer
  <1>2. id \in Asked(g) <=>
            id \in Asked(h) \/ \E k \in DOMAIN m.calls : id = <<Len(h) + 1, k>>
    BY AskedGrows
  <1> HIDE DEF g
  <1>3. id \in {g[i].answers : i \in DOMAIN g} <=>
            id \in {h[i].answers : i \in DOMAIN h} \/ id = m.answers
    <2>1. ASSUME NEW i \in DOMAIN g, id = g[i].answers
          PROVE  id \in {h[j].answers : j \in DOMAIN h} \/ id = m.answers
      <3>1. i \in 1 .. Len(h) \/ i = Len(h) + 1
        BY <1>1
      <3>2. CASE i \in 1 .. Len(h)
        BY <1>1, <2>1, <3>2
      <3>3. CASE i = Len(h) + 1
        BY <1>1, <2>1, <3>3
      <3> QED
        BY <3>1, <3>2, <3>3
    <2>2. ASSUME NEW i \in DOMAIN h, id = h[i].answers
          PROVE  id \in {g[j].answers : j \in DOMAIN g}
      <3>1. i \in DOMAIN g /\ g[i] = h[i]
        BY <1>1
      <3> QED
        BY <2>2, <3>1
    <2>3. ASSUME id = m.answers PROVE id \in {g[j].answers : j \in DOMAIN g}
      <3>1. Len(h) + 1 \in DOMAIN g /\ g[Len(h) + 1] = m
        BY <1>1
      <3> QED
        BY <2>3, <3>1
    <2> QED
      BY <2>1, <2>2, <2>3
  <1>4. ASSUME NEW k \in DOMAIN m.calls, id = <<Len(h) + 1, k>>
        PROVE  id \notin {h[i].answers : i \in DOMAIN h}
    <2>1. SUFFICES ASSUME NEW i \in DOMAIN h, id = h[i].answers PROVE FALSE
      OBVIOUS
    <2>2. id = NoCall \/ id \in Asked(h)
      BY <2>1 DEF WellSaid
    <2>3. id \notin Asked(h)
      <3>1. id \in Asked(h) => id[1] \in DOMAIN h
        BY AskedPlaces
      <3>2. id[1] = Len(h) + 1
        BY <1>4
      <3> QED
        BY <1>1, <3>1, <3>2
    <2>4. id # NoCall
      BY <1>1, <1>4 DEF NoCall
    <2> QED
      BY <2>2, <2>3, <2>4
  <1> QED
    BY <1>2, <1>3, <1>4 DEF Unanswered, g

LEMMA WellSaidGrows ==
  ASSUME NEW h \in Seq(MessageOf), WellSaid(h), NEW m, May(h, m)
  PROVE  WellSaid(Append(h, m))
  <1> DEFINE g == Append(h, m)
  <1>1. /\ Len(h) \in Nat /\ DOMAIN h = 1 .. Len(h) /\ DOMAIN g = 1 .. Len(h) + 1
        /\ \A i \in 1 .. Len(h) : g[i] = h[i]
        /\ g[Len(h) + 1] = m
    BY Longer DEF May
  <1>2. \A id \in Asked(h) : id \in Asked(g)
    BY AskedGrows DEF May
  <1> HIDE DEF g
  <1>3. ASSUME NEW i \in DOMAIN g
        PROVE  /\ g[i].role # "assistant" => g[i].calls = <<>>
               /\ g[i].role = "tool" => g[i].answers \in Asked(g)
               /\ g[i].role # "tool" => g[i].answers = NoCall
               /\ \A k \in DOMAIN g[i].calls : g[i].calls[k].id = <<i, k>>
    <2>1. CASE i \in 1 .. Len(h)
      <3>1. i \in DOMAIN h /\ g[i] = h[i]
        BY <1>1, <2>1
      <3> QED
        BY <1>2, <3>1 DEF WellSaid
    <2>2. CASE i = Len(h) + 1
      <3>1. g[i] = m
        BY <1>1, <2>2
      <3>2. CASE Told(h, m)
        BY <3>1, <3>2 DEF Told
      <3>3. CASE Answered(h, m)
        BY <1>2, <3>1, <3>3 DEF Answered, Unanswered
      <3>4. CASE Replied(h, m)
        BY <2>2, <3>1, <3>4 DEF Replied
      <3> QED
        BY <3>2, <3>3, <3>4 DEF May
    <2> QED
      BY <1>1, <2>1, <2>2
  <1> QED
    BY <1>3 DEF WellSaid, g

LEMMA HistoryMoves ==
  ASSUME HistoryInv, [Next]_vars
  PROVE  \/ UNCHANGED history
         \/ \E m : May(history, m) /\ history' = Append(history, m)
  <1>1. Here \in Nat /\ <<>> \in Seq(CallOf) /\ NoCall \in Id /\ Here = Len(history) + 1
    BY EmptySeq, LenProperties DEF HistoryInv, Here, NoCall, Id
  <1>2. CASE Say
    <2>1. PICK role \in {"system", "user"} :
             /\ role = "user" => Unanswered(history) = {}
             /\ history' = Append(history, Message(role, Here, <<>>, NoCall))
      BY <1>2 DEF Say
    <2>2. May(history, Message(role, Here, <<>>, NoCall))
      BY <1>1, <2>1 DEF May, Told, Message, MessageOf, Role
    <2> QED
      BY <2>1, <2>2
  <1>3. CASE Answer
    <2>1. PICK id \in Unanswered(history) :
             /\ \A other \in Unanswered(history) : NotAfter(id, other)
             /\ history' = Append(history, Message("tool", Here, <<>>, id))
      BY <1>3 DEF Answer
    <2>2. id \in Id
      BY AskedPlaces DEF Unanswered, HistoryInv
    <2>3. May(history, Message("tool", Here, <<>>, id))
      BY <1>1, <2>1, <2>2 DEF May, Answered, Message, MessageOf, Role
    <2> QED
      BY <2>1, <2>3
  <1>4. CASE Complete
    <2>1. PICK reply \in Replies :
             IF Undecodable(adapter, reply)
             THEN UNCHANGED history
             ELSE history' = Append(history,
                    Message("assistant", IF reply.text THEN Here ELSE 0,
                            [i \in DOMAIN reply.calls |->
                                Call(<<Here, i>>, reply.calls[i])], NoCall))
      BY <1>4 DEF Complete
    <2> DEFINE calls == [i \in DOMAIN reply.calls |-> Call(<<Here, i>>, reply.calls[i])]
               m == Message("assistant", IF reply.text THEN Here ELSE 0, calls, NoCall)
    <2>2. reply.calls \in Seq(ToolNames)
      <3>1. reply.calls \in SeqOf(ToolNames, MaxCalls)
        BY DEF Replies
      <3>2. PICK n \in 0 .. MaxCalls : reply.calls \in [1 .. n -> ToolNames]
        BY <3>1 DEF SeqOf
      <3>3. n \in Nat
        BY BoundsAssumption
      <3> QED
        BY <3>2, <3>3
    <2>3. calls \in Seq(CallOf)
      <3>1. Len(reply.calls) \in Nat /\ reply.calls \in [1 .. Len(reply.calls) -> ToolNames]
        BY <2>2, LenProperties
      <3>2. calls \in [1 .. Len(reply.calls) -> CallOf]
        BY <1>1, <3>1 DEF Call, CallOf, Id
      <3> HIDE DEF calls
      <3> QED
        BY <3>1, <3>2
    <2>4. \A k \in DOMAIN calls : calls[k].id = <<Len(history) + 1, k>>
      BY <1>1 DEF Call
    <2> HIDE DEF calls
    <2>5. m \in MessageOf
      BY <1>1, <2>3 DEF Message, MessageOf, Role
    <2>6. m.role = "assistant" /\ m.answers = NoCall /\ m.calls = calls
      BY DEF Message
    <2>7. Unanswered(history) = {}
      BY <1>4 DEF Complete
    <2> HIDE DEF m
    <2>8. May(history, m)
      BY <2>4, <2>5, <2>6, <2>7 DEF May, Replied
    <2>9. UNCHANGED history \/ history' = Append(history, m)
      BY <2>1 DEF m, calls
    <2> QED
      BY <2>8, <2>9
  <1>5. CASE UNCHANGED history
    BY <1>5
  <1> QED
    BY <1>2, <1>3, <1>4, <1>5 DEF Next, Start, Fail, Inject, vars

LEMMA HistoryHolds ==
  ASSUME HistoryInv, [Next]_vars PROVE HistoryInv'
  <1>1. CASE UNCHANGED history
    BY <1>1 DEF HistoryInv
  <1>2. ASSUME NEW m, May(history, m), history' = Append(history, m) PROVE HistoryInv'
    <2>1. Append(history, m) \in Seq(MessageOf)
      BY <1>2, Longer DEF HistoryInv, May
    <2>2. WellSaid(Append(history, m))
      BY <1>2, WellSaidGrows DEF HistoryInv
    <2> QED
      BY <1>2, <2>1, <2>2 DEF HistoryInv
  <1> QED
    BY <1>1, <1>2, HistoryMoves

-----------------------------------------------------------------------------
(* What is said and what is heard.                                         *)

Speaker == {"user", "assistant", "model", "tool", "system"}
Part == [is : {"text"}, text : Nat] \cup [is : {"call"}, call : CallOf]
          \cup [is : {"result"}, of : Id \cup ToolNames, text : Nat]
TurnOf == [role : Speaker, parts : Seq(Part), list : BOOLEAN]
Word == Speaker \X Part

LEMMA VoicedTypes ==
  ASSUME NEW role \in Speaker, NEW parts \in Seq(Part)
  PROVE  Voiced(role, parts) \in Seq(Word)
  <1>1. Len(parts) \in Nat /\ parts \in [1 .. Len(parts) -> Part]
    BY LenProperties
  <1>2. Voiced(role, parts) \in [1 .. Len(parts) -> Word]
    BY <1>1 DEF Voiced, Word
  <1> QED
    BY <1>1, <1>2

LEMMA VoicedAppend ==
  ASSUME NEW role \in Speaker, NEW parts \in Seq(Part), NEW part \in Part
  PROVE  Voiced(role, Append(parts, part)) = Voiced(role, parts) \o << <<role, part>> >>
  <1> DEFINE longer == Append(parts, part)
             voiced == Voiced(role, parts)
             word == <<role, part>>
  <1>1. /\ longer \in Seq(Part) /\ Len(longer) = Len(parts) + 1
        /\ \A i \in 1 .. Len(parts) : longer[i] = parts[i]
        /\ longer[Len(parts) + 1] = part
        /\ Len(parts) \in Nat /\ DOMAIN parts = 1 .. Len(parts)
        /\ DOMAIN longer = 1 .. Len(parts) + 1
    <2>1. longer \in Seq(Part)
      BY AppendProperties
    <2> QED
      BY <2>1, AppendProperties, LenProperties
  <1> HIDE DEF longer
  <1>2. voiced \in Seq(Word) /\ word \in Word /\ Voiced(role, longer) \in Seq(Word)
    BY <1>1, VoicedTypes DEF Word
  <1>3. /\ Len(voiced) = Len(parts) /\ \A i \in 1 .. Len(parts) : voiced[i] = <<role, parts[i]>>
    BY <1>1, <1>2 DEF Voiced
  <1>4. /\ Len(Voiced(role, longer)) = Len(parts) + 1
        /\ \A i \in 1 .. Len(parts) + 1 : Voiced(role, longer)[i] = <<role, longer[i]>>
    BY <1>1, <1>2 DEF Voiced
  <1> HIDE DEF voiced
  <1>5. word = <<role, part>>
    OBVIOUS
  <1> HIDE DEF word
  <1>6. /\ Append(voiced, word) \in Seq(Word) /\ Len(Append(voiced, word)) = Len(parts) + 1
        /\ \A i \in 1 .. Len(parts) : Append(voiced, word)[i] = voiced[i]
        /\ Append(voiced, word)[Len(parts) + 1] = word
    BY <1>2, <1>3, AppendProperties
  <1>7. \A i \in 1 .. Len(parts) + 1 : Voiced(role, longer)[i] = Append(voiced, word)[i]
    <2> SUFFICES ASSUME NEW i \in 1 .. Len(parts) + 1
                 PROVE  Voiced(role, longer)[i] = Append(voiced, word)[i]
      OBVIOUS
    <2>1. CASE i \in 1 .. Len(parts)
      BY <1>1, <1>3, <1>4, <1>6, <2>1
    <2>2. CASE i = Len(parts) + 1
      BY <1>1, <1>4, <1>5, <1>6, <2>2
    <2>3. i \in 1 .. Len(parts) \/ i = Len(parts) + 1
      BY <1>1
    <2> QED
      BY <2>1, <2>2, <2>3
  <1>8. Voiced(role, longer) = Append(voiced, word)
    BY <1>2, <1>4, <1>6, <1>7, SeqEqual
  <1> QED
    BY <1>2, <1>8, AppendIsConcat DEF longer, voiced, word

\* A sequence that is put together one by one.
Voices(turns) == [i \in DOMAIN turns |-> Voiced(turns[i].role, turns[i].parts)]

LEMMA HeardIs == ASSUME NEW turns PROVE Heard(turns) = FlattenSeq(Voices(turns))
  BY DEF Heard, Voices

LEMMA VoicesTypes ==
  ASSUME NEW turns \in Seq(TurnOf)
  PROVE  /\ Voices(turns) \in Seq(Seq(Word)) /\ Len(Voices(turns)) = Len(turns)
         /\ \A i \in 1 .. Len(turns) :
               Voices(turns)[i] = Voiced(turns[i].role, turns[i].parts)
  <1>1. Len(turns) \in Nat /\ DOMAIN turns = 1 .. Len(turns)
    BY LenProperties
  <1>2. ASSUME NEW i \in 1 .. Len(turns)
        PROVE  Voiced(turns[i].role, turns[i].parts) \in Seq(Word)
    <2>0. turns[i] \in TurnOf
      BY ElementOfSeq
    <2>1. turns[i].role \in Speaker /\ turns[i].parts \in Seq(Part)
      BY <2>0 DEF TurnOf
    <2> QED
      BY <2>1, VoicedTypes
  <1>3. Voices(turns) \in [1 .. Len(turns) -> Seq(Word)]
    BY <1>1, <1>2 DEF Voices
  <1> QED
    BY <1>1, <1>3 DEF Voices

LEMMA HeardTypes == ASSUME NEW turns \in Seq(TurnOf) PROVE Heard(turns) \in Seq(Word)
  BY VoicesTypes, FlattenTypes, HeardIs

LEMMA HeardAppend ==
  ASSUME NEW turns \in Seq(TurnOf), NEW turn \in TurnOf
  PROVE  /\ Heard(turns) \in Seq(Word)
         /\ Heard(Append(turns, turn)) = Heard(turns) \o Voiced(turn.role, turn.parts)
  <1> DEFINE longer == Append(turns, turn)
             voiced == Voiced(turn.role, turn.parts)
  <1>1. /\ longer \in Seq(TurnOf) /\ Len(longer) = Len(turns) + 1
        /\ \A i \in 1 .. Len(turns) : longer[i] = turns[i]
        /\ longer[Len(turns) + 1] = turn
        /\ Len(turns) \in Nat
    BY AppendProperties, LenProperties
  <1> HIDE DEF longer
  <1>2. voiced \in Seq(Word)
    <2>1. turn.role \in Speaker /\ turn.parts \in Seq(Part)
      BY DEF TurnOf
    <2> QED
      BY <2>1, VoicedTypes
  <1>3. /\ Voices(turns) \in Seq(Seq(Word)) /\ Len(Voices(turns)) = Len(turns)
        /\ Voices(longer) \in Seq(Seq(Word)) /\ Len(Voices(longer)) = Len(turns) + 1
        /\ \A i \in 1 .. Len(turns) :
              Voices(turns)[i] = Voiced(turns[i].role, turns[i].parts)
        /\ \A i \in 1 .. Len(turns) + 1 :
              Voices(longer)[i] = Voiced(longer[i].role, longer[i].parts)
    BY <1>1, VoicesTypes
  <1>4. voiced = Voices(longer)[Len(turns) + 1]
    <2>1. Len(turns) + 1 \in 1 .. Len(turns) + 1
      BY <1>1
    <2> QED
      BY <1>1, <1>3, <2>1
  <1> HIDE DEF voiced
  <1>5. \A i \in 1 .. Len(turns) : Voices(longer)[i] = Voices(turns)[i]
    <2> SUFFICES ASSUME NEW i \in 1 .. Len(turns) PROVE Voices(longer)[i] = Voices(turns)[i]
      OBVIOUS
    <2>1. i \in 1 .. Len(turns) + 1 /\ longer[i] = turns[i]
      BY <1>1
    <2> QED
      BY <1>3, <2>1
  <1>6. /\ FlattenSeq(Voices(turns)) \in Seq(Word)
        /\ FlattenSeq(Voices(longer)) = FlattenSeq(Voices(turns)) \o voiced
    BY <1>3, <1>4, <1>5, FlattenLonger, ZenonT(30)
  <1> QED
    BY <1>6, HeardIs DEF longer, voiced

\* A part that is added to the last turn is heard last.
Merged(turns, part) == [turns EXCEPT ![Len(turns)].parts = Append(@, part)]

LEMMA HeardMerged ==
  ASSUME NEW turns \in Seq(TurnOf), turns # <<>>, NEW part \in Part
  PROVE  /\ Merged(turns, part) \in Seq(TurnOf) /\ Len(Merged(turns, part)) = Len(turns)
         /\ \A i \in 1 .. Len(turns) - 1 : Merged(turns, part)[i] = turns[i]
         /\ Merged(turns, part)[Len(turns)] =
                  [turns[Len(turns)] EXCEPT !.parts = Append(@, part)]
         /\ Heard(Merged(turns, part))
              = Heard(turns) \o << <<turns[Len(turns)].role, part>> >>
  <1> DEFINE merged == Merged(turns, part)
  <1>1. PICK rest \in Seq(TurnOf), last \in TurnOf : turns = Append(rest, last)
    BY SequenceEmptyOrAppend
  <1>2. /\ Len(rest) \in Nat /\ Len(turns) = Len(rest) + 1
        /\ \A i \in 1 .. Len(rest) : turns[i] = rest[i]
        /\ turns[Len(turns)] = last
    BY <1>1, AppendProperties, LenProperties
  <1> DEFINE after == [last EXCEPT !.parts = Append(@, part)]
  <1>3. /\ last.role \in Speaker /\ last.parts \in Seq(Part)
        /\ Append(last.parts, part) \in Seq(Part)
    BY AppendProperties DEF TurnOf
  <1>4. /\ after \in TurnOf /\ after.role = last.role
        /\ after.parts = Append(last.parts, part)
    BY <1>3 DEF TurnOf
  <1>5. DOMAIN turns = 1 .. Len(turns)
    BY LenProperties
  <1>6. merged = [turns EXCEPT ![Len(turns)] = after]
    BY <1>2, <1>5 DEF Merged
  <1> HIDE DEF after, merged
  <1>7. /\ merged \in Seq(TurnOf) /\ Len(merged) = Len(turns)
        /\ \A i \in 1 .. Len(turns) : merged[i] = IF i = Len(turns) THEN after ELSE turns[i]
    <2>1. Len(turns) \in 1 .. Len(turns)
      BY <1>2
    <2> QED
      BY <1>4, <1>6, <2>1, ExceptSeq
  <1>8. merged = Append(rest, after)
    <2>1. /\ Append(rest, after) \in Seq(TurnOf)
          /\ Len(Append(rest, after)) = Len(rest) + 1
          /\ \A i \in 1 .. Len(rest) : Append(rest, after)[i] = rest[i]
          /\ Append(rest, after)[Len(rest) + 1] = after
      BY <1>4, AppendProperties
    <2>2. \A i \in 1 .. Len(merged) : merged[i] = Append(rest, after)[i]
      BY <1>2, <1>7, <2>1
    <2> QED
      BY <1>2, <1>7, <2>1, <2>2, SeqEqual
  <1>9. /\ Heard(rest) \in Seq(Word)
        /\ Heard(turns) = Heard(rest) \o Voiced(last.role, last.parts)
        /\ Heard(merged) = Heard(rest) \o Voiced(after.role, after.parts)
    BY <1>1, <1>4, <1>8, HeardAppend
  <1>10. Voiced(after.role, after.parts) =
            Voiced(last.role, last.parts) \o << <<last.role, part>> >>
    BY <1>3, <1>4, VoicedAppend
  <1>11. /\ Voiced(last.role, last.parts) \in Seq(Word)
         /\ << <<last.role, part>> >> \in Seq(Word)
    <2>1. <<last.role, part>> \in Word
      BY <1>3 DEF Word
    <2> HIDE DEF Word
    <2> QED
      BY <1>3, <2>1, VoicedTypes
  <1>12. Heard(merged) = Heard(turns) \o << <<last.role, part>> >>
    BY <1>9, <1>10, <1>11, ConcatAssociative, SMTT(30)
  <1>13. \A i \in 1 .. Len(turns) - 1 : merged[i] = turns[i]
    BY <1>2, <1>7
  <1>14. merged[Len(turns)] = after
    BY <1>2, <1>7
  <1> QED
    BY <1>2, <1>7, <1>12, <1>13, <1>14 DEF merged, after

\* The parts of what is said.
LEMMA TextTypes ==
  ASSUME NEW m \in MessageOf
  PROVE  TextPart(m.text) \in Part /\ <<TextPart(m.text)>> \in Seq(Part)
  <1>1. TextPart(m.text) \in Part
    BY DEF TextPart, Part, MessageOf
  <1> HIDE DEF Part
  <1> QED
    BY <1>1

LEMMA ResultTypes ==
  ASSUME NEW m \in MessageOf, NEW of \in Id \cup ToolNames
  PROVE  ResultPart(of, m.text) \in Part /\ <<ResultPart(of, m.text)>> \in Seq(Part)
  <1>1. ResultPart(of, m.text) \in Part
    BY DEF ResultPart, Part, MessageOf
  <1> HIDE DEF Part
  <1> QED
    BY <1>1

LEMMA CallsTypes ==
  ASSUME NEW m \in MessageOf
  PROVE  /\ Calls(m) \in Seq(Part) /\ Len(Calls(m)) = Len(m.calls) /\ Len(m.calls) \in Nat
         /\ \A k \in 1 .. Len(m.calls) : Calls(m)[k] = CallPart(m.calls[k])
  <1>1. /\ Len(m.calls) \in Nat /\ m.calls \in [1 .. Len(m.calls) -> CallOf]
        /\ DOMAIN m.calls = 1 .. Len(m.calls)
    <2>1. m.calls \in Seq(CallOf)
      BY DEF MessageOf
    <2> QED
      BY <2>1, LenProperties
  <1>2. \A k \in 1 .. Len(m.calls) : CallPart(m.calls[k]) \in Part
    BY <1>1 DEF CallPart, Part
  <1>3. Calls(m) \in [1 .. Len(m.calls) -> Part]
    <2> HIDE DEF Part
    <2> QED
      BY <1>1, <1>2 DEF Calls
  <1> HIDE DEF Part
  <1> QED
    BY <1>1, <1>3 DEF Calls

\* Along with calls a text may be said; the calls follow it.
LEMMA SpokenAndCallsAre ==
  ASSUME NEW m \in MessageOf
  PROVE  \E spoken \in 0 .. 1 :
            /\ SpokenAndCalls(m) \in Seq(Part)
            /\ Len(SpokenAndCalls(m)) = spoken + Len(m.calls)
            /\ \A j \in 1 .. spoken : SpokenAndCalls(m)[j] = TextPart(m.text)
            /\ \A k \in 1 .. Len(m.calls) :
                  SpokenAndCalls(m)[spoken + k] = CallPart(m.calls[k])
  <1>1. /\ Calls(m) \in Seq(Part) /\ Len(Calls(m)) = Len(m.calls) /\ Len(m.calls) \in Nat
        /\ \A k \in 1 .. Len(m.calls) : Calls(m)[k] = CallPart(m.calls[k])
    BY CallsTypes
  <1>2. CASE m.text = 0
    <2>1. SpokenAndCalls(m) = Calls(m)
      BY <1>1, <1>2, ConcatEmptySeq DEF SpokenAndCalls
    <2>2. \A k \in 1 .. Len(m.calls) : 0 + k = k
      BY <1>1
    <2>3. 0 + Len(m.calls) = Len(m.calls) /\ 1 .. 0 = {} /\ 0 \in 0 .. 1
      BY <1>1
    <2> QED
      BY <1>1, <2>1, <2>2, <2>3
  <1>3. CASE m.text # 0
    <2> DEFINE text == <<TextPart(m.text)>>
    <2>1. text \in Seq(Part) /\ Len(text) = 1 /\ text[1] = TextPart(m.text)
      BY TextTypes
    <2>2. SpokenAndCalls(m) = text \o Calls(m)
      BY <1>3 DEF SpokenAndCalls
    <2> HIDE DEF text
    <2>3. /\ text \o Calls(m) \in Seq(Part) /\ Len(text \o Calls(m)) = 1 + Len(m.calls)
          /\ \A i \in 1 .. 1 + Len(m.calls) :
                (text \o Calls(m))[i] = IF i <= 1 THEN text[i] ELSE Calls(m)[i - 1]
      <3>1. /\ text \o Calls(m) \in Seq(Part)
            /\ Len(text \o Calls(m)) = Len(text) + Len(Calls(m))
            /\ \A i \in 1 .. Len(text) + Len(Calls(m)) :
                  (text \o Calls(m))[i] =
                     IF i <= Len(text) THEN text[i] ELSE Calls(m)[i - Len(text)]
        <4>1. text \in Seq(Part) /\ Calls(m) \in Seq(Part)
          BY <1>1, <2>1
        <4> HIDE DEF Part
        <4> QED
          BY ONLY <4>1, ConcatProperties
      <3> QED
        BY <1>1, <2>1, <3>1
    <2>4. \A k \in 1 .. Len(m.calls) :
             1 + k \in 1 .. 1 + Len(m.calls) /\ ~ (1 + k <= 1) /\ (1 + k) - 1 = k
      BY <1>1
    <2>5. \A j \in 1 .. 1 : j = 1 /\ j \in 1 .. 1 + Len(m.calls) /\ j <= 1
      BY <1>1
    <2>6. \A k \in 1 .. Len(m.calls) : (text \o Calls(m))[1 + k] = CallPart(m.calls[k])
      BY <1>1, <2>3, <2>4
    <2>7. \A j \in 1 .. 1 : (text \o Calls(m))[j] = TextPart(m.text)
      BY <2>1, <2>3, <2>5
    <2>8. 1 \in 0 .. 1
      OBVIOUS
    <2> QED
      BY <2>2, <2>3, <2>6, <2>7, <2>8
  <1> QED
    BY <1>2, <1>3

LEMMA PartsTypes ==
  ASSUME NEW m \in MessageOf, NEW of, m.role = "tool" => of[m.answers] \in Id \cup ToolNames
  PROVE  Parts(m, of) \in Seq(Part)
  <1>1. CASE m.role = "tool"
    BY <1>1, ResultTypes DEF Parts
  <1>2. CASE m.role # "tool"
    BY <1>2, TextTypes, SpokenAndCallsAre DEF Parts
  <1> QED
    BY <1>1, <1>2

\* Every result in h is of something, and of2 says the same as of1.
Refers(h, of) == \A i \in DOMAIN h : h[i].role = "tool" => of[h[i].answers] \in Id \cup ToolNames
Alike(h, of1, of2) == \A i \in DOMAIN h : h[i].role = "tool" => of1[h[i].answers] = of2[h[i].answers]
Roles(role) == \A r \in DOMAIN role : role[r] \in Speaker

LEMMA SaidTypes ==
  ASSUME NEW m \in MessageOf, NEW role, Roles(role), NEW of,
         m.role = "tool" => of[m.answers] \in Id \cup ToolNames
  PROVE  Said(m, role, of) \in Seq(Word)
  <1>1. Parts(m, of) \in Seq(Part)
    BY PartsTypes
  <1>2. m.role \in DOMAIN role => Voiced(role[m.role], Parts(m, of)) \in Seq(Word)
    BY <1>1, VoicedTypes DEF Roles
  <1>3. <<>> \in Seq(Word)
    BY EmptySeq
  <1> QED
    BY <1>2, <1>3 DEF Said

Sayings(h, role, of) == [i \in DOMAIN h |-> Said(h[i], role, of)]

LEMMA SpokenIs ==
  ASSUME NEW h, NEW role, NEW of
  PROVE  Spoken(h, role, of) = FlattenSeq(Sayings(h, role, of))
  BY DEF Spoken, Sayings

LEMMA SayingsTypes ==
  ASSUME NEW h \in Seq(MessageOf), NEW role, Roles(role), NEW of, Refers(h, of)
  PROVE  /\ Sayings(h, role, of) \in Seq(Seq(Word)) /\ Len(Sayings(h, role, of)) = Len(h)
         /\ \A i \in 1 .. Len(h) : Sayings(h, role, of)[i] = Said(h[i], role, of)
  <1>1. Len(h) \in Nat /\ DOMAIN h = 1 .. Len(h)
    BY LenProperties
  <1>2. ASSUME NEW i \in 1 .. Len(h) PROVE Said(h[i], role, of) \in Seq(Word)
    <2>1. h[i] \in MessageOf
      BY ElementOfSeq
    <2>2. h[i].role = "tool" => of[h[i].answers] \in Id \cup ToolNames
      BY <1>1 DEF Refers
    <2> QED
      BY <2>1, <2>2, SaidTypes
  <1>3. Sayings(h, role, of) \in [1 .. Len(h) -> Seq(Word)]
    BY <1>1, <1>2 DEF Sayings
  <1> QED
    BY <1>1, <1>3 DEF Sayings

LEMMA SaidAlike ==
  ASSUME NEW h, NEW of1, NEW of2, Alike(h, of1, of2), NEW i \in DOMAIN h, NEW role
  PROVE  Said(h[i], role, of1) = Said(h[i], role, of2)
  BY DEF Alike, Said, Parts

LEMMA SpokenAppend ==
  ASSUME NEW h \in Seq(MessageOf), NEW m \in MessageOf, NEW role, Roles(role),
         NEW of1, NEW of2, Refers(h, of1), Alike(h, of1, of2),
         m.role = "tool" => of2[m.answers] \in Id \cup ToolNames
  PROVE  /\ Spoken(h, role, of1) \in Seq(Word) /\ Said(m, role, of2) \in Seq(Word)
         /\ Spoken(Append(h, m), role, of2) = Spoken(h, role, of1) \o Said(m, role, of2)
         /\ Refers(Append(h, m), of2)
  <1> DEFINE longer == Append(h, m)
  <1>1. /\ longer \in Seq(MessageOf) /\ Len(longer) = Len(h) + 1 /\ Len(h) \in Nat
        /\ DOMAIN h = 1 .. Len(h) /\ DOMAIN longer = 1 .. Len(h) + 1
        /\ \A i \in 1 .. Len(h) : longer[i] = h[i]
        /\ longer[Len(h) + 1] = m
    BY Longer
  <1> HIDE DEF longer
  <1>2. Refers(longer, of2)
    <2> SUFFICES ASSUME NEW i \in DOMAIN longer, longer[i].role = "tool"
                 PROVE  of2[longer[i].answers] \in Id \cup ToolNames
      BY DEF Refers
    <2>1. i \in 1 .. Len(h) \/ i = Len(h) + 1
      BY <1>1
    <2>2. CASE i \in 1 .. Len(h)
      <3>1. i \in DOMAIN h /\ longer[i] = h[i]
        BY <1>1, <2>2
      <3> QED
        BY <3>1 DEF Refers, Alike
    <2>3. CASE i = Len(h) + 1
      BY <1>1, <2>3
    <2> QED
      BY <2>1, <2>2, <2>3
  <1>3. /\ Sayings(h, role, of1) \in Seq(Seq(Word)) /\ Len(Sayings(h, role, of1)) = Len(h)
        /\ \A i \in 1 .. Len(h) : Sayings(h, role, of1)[i] = Said(h[i], role, of1)
    BY SayingsTypes
  <1>4. /\ Sayings(longer, role, of2) \in Seq(Seq(Word))
        /\ Len(Sayings(longer, role, of2)) = Len(h) + 1
        /\ \A i \in 1 .. Len(h) + 1 :
              Sayings(longer, role, of2)[i] = Said(longer[i], role, of2)
    BY <1>1, <1>2, SayingsTypes
  <1>5. \A i \in 1 .. Len(h) : Sayings(longer, role, of2)[i] = Sayings(h, role, of1)[i]
    <2> SUFFICES ASSUME NEW i \in 1 .. Len(h)
                 PROVE  Sayings(longer, role, of2)[i] = Sayings(h, role, of1)[i]
      OBVIOUS
    <2>1. i \in 1 .. Len(h) + 1 /\ i \in DOMAIN h /\ longer[i] = h[i]
      BY <1>1
    <2>2. Said(h[i], role, of1) = Said(h[i], role, of2)
      BY <2>1, SaidAlike
    <2> QED
      BY <1>3, <1>4, <2>1, <2>2
  <1>6. Sayings(longer, role, of2)[Len(h) + 1] = Said(m, role, of2)
    <2>1. Len(h) + 1 \in 1 .. Len(h) + 1
      BY <1>1
    <2> QED
      BY <1>1, <1>4, <2>1
  <1>7. /\ FlattenSeq(Sayings(h, role, of1)) \in Seq(Word)
        /\ Sayings(longer, role, of2)[Len(h) + 1] \in Seq(Word)
        /\ FlattenSeq(Sayings(longer, role, of2)) =
              FlattenSeq(Sayings(h, role, of1)) \o Sayings(longer, role, of2)[Len(h) + 1]
    BY <1>3, <1>4, <1>5, FlattenLonger
  <1> QED
    BY <1>2, <1>6, <1>7, SpokenIs DEF longer

-----------------------------------------------------------------------------
(* The wire formats, message by message.                                   *)

\* f[n] is what the first n messages of h become.
Splits(f, h, length) ==
  f = [n \in 0 .. length |-> IF n = 0 THEN NothingSplit ELSE SplitStep(f[n - 1], h[n])]

LEMMA SplitsSome ==
  ASSUME NEW h, NEW length \in Nat
  PROVE  \E f : Splits(f, h, length)
  <1> DEFINE R == {n \in Nat : ~ \E f : Splits(f, h, n)}
  <1>1. SUFFICES ASSUME R # {} PROVE FALSE
    OBVIOUS
  <1>2. PICK k \in R : \A m \in R : k <= m
    BY <1>1, LeastOf
  <1>3. k # 0
    <2> DEFINE f == [n \in 0 .. 0 |-> NothingSplit]
    <2>1. Splits(f, h, 0)
      BY DEF Splits
    <2> QED
      BY <1>2, <2>1
  <1>4. PICK f : Splits(f, h, k - 1)
    BY <1>2, <1>3
  <1> DEFINE g == [n \in 0 .. k |-> IF n = k THEN SplitStep(f[k - 1], h[k]) ELSE f[n]]
  <1>5. \A n \in 0 .. k - 1 : f[n] = IF n = 0 THEN NothingSplit ELSE SplitStep(f[n - 1], h[n])
    BY <1>2, <1>3, <1>4 DEF Splits
  <1>6. \A n \in 0 .. k : g[n] = IF n = 0 THEN NothingSplit ELSE SplitStep(g[n - 1], h[n])
    BY <1>2, <1>3, <1>5
  <1>7. Splits(g, h, k)
    BY <1>6 DEF Splits
  <1> QED
    BY <1>2, <1>7

LEMMA SplitsAt ==
  ASSUME NEW h \in Seq(MessageOf)
  PROVE  \E f : /\ SplitMessages(h) = f[Len(h)]
                /\ f[0] = NothingSplit
                /\ \A n \in 1 .. Len(h) : f[n] = SplitStep(f[n - 1], h[n])
  <1>1. Len(h) \in Nat
    BY LenProperties
  <1> DEFINE f == CHOOSE f : Splits(f, h, Len(h))
  <1>2. Splits(f, h, Len(h))
    BY <1>1, SplitsSome
  <1>3. SplitMessages(h) = f[Len(h)]
    BY DEF SplitMessages, Splits
  <1> HIDE DEF f
  <1>4. \A n \in 0 .. Len(h) : f[n] = IF n = 0 THEN NothingSplit ELSE SplitStep(f[n - 1], h[n])
    BY <1>2 DEF Splits
  <1>5. f[0] = NothingSplit /\ \A n \in 1 .. Len(h) : f[n] = SplitStep(f[n - 1], h[n])
    BY <1>1, <1>4
  <1> QED
    BY <1>3, <1>5

LEMMA SplitGrows ==
  /\ SplitMessages(<<>>) = NothingSplit
  /\ \A h \in Seq(MessageOf), m \in MessageOf :
        SplitMessages(Append(h, m)) = SplitStep(SplitMessages(h), m)
  <1>1. SplitMessages(<<>>) = NothingSplit
    <2>1. <<>> \in Seq(MessageOf) /\ Len(<<>>) = 0
      BY EmptySeq
    <2> QED
      BY <2>1, SplitsAt
  <1>2. ASSUME NEW h \in Seq(MessageOf), NEW m \in MessageOf
        PROVE  SplitMessages(Append(h, m)) = SplitStep(SplitMessages(h), m)
    <2> DEFINE longer == Append(h, m)
    <2>1. /\ longer \in Seq(MessageOf) /\ Len(longer) = Len(h) + 1 /\ Len(h) \in Nat
          /\ \A i \in 1 .. Len(h) : longer[i] = h[i]
          /\ longer[Len(h) + 1] = m
      BY Longer
    <2> HIDE DEF longer
    <2>2. PICK f : /\ SplitMessages(h) = f[Len(h)]
                   /\ f[0] = NothingSplit
                   /\ \A n \in 1 .. Len(h) : f[n] = SplitStep(f[n - 1], h[n])
      BY SplitsAt
    <2>3. PICK g : /\ SplitMessages(longer) = g[Len(longer)]
                   /\ g[0] = NothingSplit
                   /\ \A n \in 1 .. Len(longer) : g[n] = SplitStep(g[n - 1], longer[n])
      BY <2>1, SplitsAt
    <2>4. f[Len(h)] = g[Len(h)]
      <3> DEFINE R == {n \in Nat : n <= Len(h) /\ f[n] # g[n]}
      <3>1. SUFFICES ASSUME R # {} PROVE FALSE
        BY <2>1
      <3>2. PICK k \in R : \A n \in R : k <= n
        BY <3>1, LeastOf
      <3>3. CASE k = 0
        BY <2>2, <2>3, <3>2, <3>3
      <3>4. CASE k # 0
        <4>1. k \in 1 .. Len(h) /\ k \in 1 .. Len(longer) /\ k - 1 \in Nat /\ k - 1 <= Len(h)
          BY <2>1, <3>2, <3>4
        <4>2. f[k - 1] = g[k - 1]
          BY <3>2, <4>1
        <4>3. f[k] = SplitStep(f[k - 1], h[k]) /\ g[k] = SplitStep(g[k - 1], h[k])
          BY <2>1, <2>2, <2>3, <4>1
        <4>4. f[k] # g[k]
          BY <3>2
        <4> QED
          BY <4>2, <4>3, <4>4
      <3> QED
        BY <3>3, <3>4
    <2>5. g[Len(h) + 1] = SplitStep(g[Len(h)], m)
      <3>1. Len(h) + 1 \in 1 .. Len(longer) /\ (Len(h) + 1) - 1 = Len(h)
        BY <2>1
      <3>2. g[Len(h) + 1] = SplitStep(g[(Len(h) + 1) - 1], longer[Len(h) + 1])
        BY <2>3, <3>1
      <3> QED
        BY <2>1, <3>1, <3>2
    <2> QED
      BY <2>1, <2>2, <2>3, <2>4, <2>5 DEF longer
  <1> QED
    BY <1>1, <1>2

\* f[n] is what the first n messages of h become.
Fills(f, h, length) ==
  f = [n \in 0 .. length |-> IF n = 0 THEN NoContents ELSE ContentsStep(f[n - 1], h[n])]

LEMMA FillsSome ==
  ASSUME NEW h, NEW length \in Nat
  PROVE  \E f : Fills(f, h, length)
  <1> DEFINE R == {n \in Nat : ~ \E f : Fills(f, h, n)}
  <1>1. SUFFICES ASSUME R # {} PROVE FALSE
    OBVIOUS
  <1>2. PICK k \in R : \A m \in R : k <= m
    BY <1>1, LeastOf
  <1>3. k # 0
    <2> DEFINE f == [n \in 0 .. 0 |-> NoContents]
    <2>1. Fills(f, h, 0)
      BY DEF Fills
    <2> QED
      BY <1>2, <2>1
  <1>4. PICK f : Fills(f, h, k - 1)
    BY <1>2, <1>3
  <1> DEFINE g == [n \in 0 .. k |-> IF n = k THEN ContentsStep(f[k - 1], h[k]) ELSE f[n]]
  <1>5. \A n \in 0 .. k - 1 : f[n] = IF n = 0 THEN NoContents ELSE ContentsStep(f[n - 1], h[n])
    BY <1>2, <1>3, <1>4 DEF Fills
  <1>6. \A n \in 0 .. k : g[n] = IF n = 0 THEN NoContents ELSE ContentsStep(g[n - 1], h[n])
    BY <1>2, <1>3, <1>5
  <1>7. Fills(g, h, k)
    BY <1>6 DEF Fills
  <1> QED
    BY <1>2, <1>7

LEMMA FillsAt ==
  ASSUME NEW h \in Seq(MessageOf)
  PROVE  \E f : /\ ToContents(h) = f[Len(h)]
                /\ f[0] = NoContents
                /\ \A n \in 1 .. Len(h) : f[n] = ContentsStep(f[n - 1], h[n])
  <1>1. Len(h) \in Nat
    BY LenProperties
  <1> DEFINE f == CHOOSE f : Fills(f, h, Len(h))
  <1>2. Fills(f, h, Len(h))
    BY <1>1, FillsSome
  <1>3. ToContents(h) = f[Len(h)]
    BY DEF ToContents, Fills
  <1> HIDE DEF f
  <1>4. \A n \in 0 .. Len(h) : f[n] = IF n = 0 THEN NoContents ELSE ContentsStep(f[n - 1], h[n])
    BY <1>2 DEF Fills
  <1>5. f[0] = NoContents /\ \A n \in 1 .. Len(h) : f[n] = ContentsStep(f[n - 1], h[n])
    BY <1>1, <1>4
  <1> QED
    BY <1>3, <1>5

LEMMA ContentsGrow ==
  /\ ToContents(<<>>) = NoContents
  /\ \A h \in Seq(MessageOf), m \in MessageOf :
        ToContents(Append(h, m)) = ContentsStep(ToContents(h), m)
  <1>1. ToContents(<<>>) = NoContents
    <2>1. <<>> \in Seq(MessageOf) /\ Len(<<>>) = 0
      BY EmptySeq
    <2> QED
      BY <2>1, FillsAt
  <1>2. ASSUME NEW h \in Seq(MessageOf), NEW m \in MessageOf
        PROVE  ToContents(Append(h, m)) = ContentsStep(ToContents(h), m)
    <2> DEFINE longer == Append(h, m)
    <2>1. /\ longer \in Seq(MessageOf) /\ Len(longer) = Len(h) + 1 /\ Len(h) \in Nat
          /\ \A i \in 1 .. Len(h) : longer[i] = h[i]
          /\ longer[Len(h) + 1] = m
      BY Longer
    <2> HIDE DEF longer
    <2>2. PICK f : /\ ToContents(h) = f[Len(h)]
                   /\ f[0] = NoContents
                   /\ \A n \in 1 .. Len(h) : f[n] = ContentsStep(f[n - 1], h[n])
      BY FillsAt
    <2>3. PICK g : /\ ToContents(longer) = g[Len(longer)]
                   /\ g[0] = NoContents
                   /\ \A n \in 1 .. Len(longer) : g[n] = ContentsStep(g[n - 1], longer[n])
      BY <2>1, FillsAt
    <2>4. f[Len(h)] = g[Len(h)]
      <3> DEFINE R == {n \in Nat : n <= Len(h) /\ f[n] # g[n]}
      <3>1. SUFFICES ASSUME R # {} PROVE FALSE
        BY <2>1
      <3>2. PICK k \in R : \A n \in R : k <= n
        BY <3>1, LeastOf
      <3>3. CASE k = 0
        BY <2>2, <2>3, <3>2, <3>3
      <3>4. CASE k # 0
        <4>1. k \in 1 .. Len(h) /\ k \in 1 .. Len(longer) /\ k - 1 \in Nat /\ k - 1 <= Len(h)
          BY <2>1, <3>2, <3>4
        <4>2. f[k - 1] = g[k - 1]
          BY <3>2, <4>1
        <4>3. f[k] = ContentsStep(f[k - 1], h[k]) /\ g[k] = ContentsStep(g[k - 1], h[k])
          BY <2>1, <2>2, <2>3, <4>1
        <4>4. f[k] # g[k]
          BY <3>2
        <4> QED
          BY <4>2, <4>3, <4>4
      <3> QED
        BY <3>3, <3>4
    <2>5. g[Len(h) + 1] = ContentsStep(g[Len(h)], m)
      <3>1. Len(h) + 1 \in 1 .. Len(longer) /\ (Len(h) + 1) - 1 = Len(h)
        BY <2>1
      <3>2. g[Len(h) + 1] = ContentsStep(g[(Len(h) + 1) - 1], longer[Len(h) + 1])
        BY <2>3, <3>1
      <3> QED
        BY <2>1, <3>1, <3>2
    <2> QED
      BY <2>1, <2>2, <2>3, <2>4, <2>5 DEF longer
  <1> QED
    BY <1>1, <1>2

-----------------------------------------------------------------------------
(* Every format reads back.                                                *)

LEMMA RolesAre ==
  Roles(AnthropicRole) /\ Roles(GeminiRole) /\ Roles(OpenAIRole) /\ Roles(Instructions)
  BY DEF Roles, AnthropicRole, GeminiRole, OpenAIRole, Instructions, Speaker

LEMMA RoleNames ==
  /\ DOMAIN AnthropicRole = {"user", "assistant", "tool"}
  /\ AnthropicRole["user"] = "user" /\ AnthropicRole["assistant"] = "assistant"
  /\ AnthropicRole["tool"] = "user"
  /\ DOMAIN GeminiRole = {"user", "assistant", "tool"}
  /\ GeminiRole["user"] = "user" /\ GeminiRole["assistant"] = "model"
  /\ GeminiRole["tool"] = "user"
  /\ DOMAIN OpenAIRole = Role /\ \A r \in Role : OpenAIRole[r] = r
  /\ DOMAIN Instructions = {"system"} /\ Instructions["system"] = "system"
  BY DEF AnthropicRole, GeminiRole, OpenAIRole, Instructions, Role

LEMMA VoicedOne ==
  ASSUME NEW role \in Speaker, NEW part \in Part
  PROVE  Voiced(role, <<part>>) = << <<role, part>> >>
  BY DEF Voiced

LEMMA ByIdGrows ==
  ASSUME NEW h \in Seq(MessageOf), WellSaid(h), NEW m, May(h, m)
  PROVE  /\ Refers(h, ById(h)) /\ Alike(h, ById(h), ById(Append(h, m)))
         /\ m.role = "tool" => /\ ById(Append(h, m))[m.answers] = m.answers
                               /\ m.answers \in Id \cup ToolNames
  <1>1. m \in MessageOf
    BY DEF May
  <1>2. \A id \in Asked(h) : id \in Asked(Append(h, m)) /\ id \in Id
    BY <1>1, AskedGrows, AskedPlaces
  <1>3. \A i \in DOMAIN h : h[i].role = "tool" => h[i].answers \in Asked(h)
    BY DEF WellSaid
  <1>4. m.role = "tool" => m.answers \in Asked(h)
    BY DEF May, Told, Answered, Replied, Unanswered
  <1>5. \A id \in Asked(h) : ById(h)[id] = id /\ ById(Append(h, m))[id] = id
    BY <1>2 DEF ById
  <1> QED
    BY <1>2, <1>3, <1>4, <1>5 DEF Refers, Alike

LEMMA ByNameGrows ==
  ASSUME NEW h \in Seq(MessageOf), WellSaid(h), NEW m, May(h, m)
  PROVE  /\ Refers(h, ByName(h)) /\ Alike(h, ByName(h), ByName(Append(h, m)))
         /\ m.role = "tool" =>
               /\ m.answers \in Asked(h)
               /\ ByName(Append(h, m))[m.answers] = h[m.answers[1]].calls[m.answers[2]].name
               /\ ByName(Append(h, m))[m.answers] \in Id \cup ToolNames
  <1> DEFINE longer == Append(h, m)
  <1>1. m \in MessageOf
    BY DEF May
  <1>2. /\ \A i \in 1 .. Len(h) : longer[i] = h[i]
        /\ DOMAIN h = 1 .. Len(h)
    BY <1>1, Longer
  <1>3. \A id \in Asked(h) : id \in Asked(longer)
    BY <1>1, AskedGrows
  <1>4. \A i \in DOMAIN h : h[i].role = "tool" => h[i].answers \in Asked(h)
    BY DEF WellSaid
  <1>5. m.role = "tool" => m.answers \in Asked(h)
    BY DEF May, Told, Answered, Replied, Unanswered
  <1> HIDE DEF longer
  <1>6. ASSUME NEW id \in Asked(h)
        PROVE  /\ ByName(h)[id] = h[id[1]].calls[id[2]].name
               /\ ByName(longer)[id] = h[id[1]].calls[id[2]].name
               /\ h[id[1]].calls[id[2]].name \in ToolNames
    <2>1. id[1] \in DOMAIN h /\ id[2] \in DOMAIN h[id[1]].calls
      BY AskedPlaces
    <2>2. longer[id[1]] = h[id[1]]
      BY <1>2, <2>1
    <2>3. h[id[1]] \in MessageOf
      BY <1>2, <2>1, ElementOfSeq
    <2>4. h[id[1]].calls \in Seq(CallOf)
      BY <2>3 DEF MessageOf
    <2>5. DOMAIN h[id[1]].calls = 1 .. Len(h[id[1]].calls)
      BY <2>4, LenProperties
    <2>6. h[id[1]].calls[id[2]] \in CallOf
      BY <2>1, <2>4, <2>5, ElementOfSeq
    <2> QED
      BY <1>3, <2>2, <2>6 DEF ByName, CallOf
  <1> QED
    BY <1>4, <1>5, <1>6 DEF Refers, Alike, longer

LEMMA SystemSaid ==
  ASSUME NEW system \in Seq(Part), NEW h, NEW m, May(h, m), NEW of,
         NEW after, after = IF m.role = "system" THEN Append(system, TextPart(m.text)) ELSE system
  PROVE  /\ after \in Seq(Part)
         /\ Voiced("system", after) = Voiced("system", system) \o Said(m, Instructions, of)
  <1>1. "system" \in Speaker /\ m \in MessageOf
    BY DEF Speaker, May
  <1>2. CASE m.role = "system"
    <2>1. TextPart(m.text) \in Part
      BY <1>1, TextTypes
    <2>2. m.calls = <<>>
      BY <1>2 DEF May, Told, Answered, Replied
    <2>3. Said(m, Instructions, of) = Voiced("system", <<TextPart(m.text)>>)
      BY <1>2, <2>2, RoleNames DEF Said, Parts, May, Told, Answered, Replied
    <2>4. Voiced("system", <<TextPart(m.text)>>) = << <<"system", TextPart(m.text)>> >>
      BY <1>1, <2>1, VoicedOne
    <2>5. /\ Append(system, TextPart(m.text)) \in Seq(Part)
          /\ Voiced("system", Append(system, TextPart(m.text)))
               = Voiced("system", system) \o << <<"system", TextPart(m.text)>> >>
      BY <1>1, <2>1, VoicedAppend, AppendProperties
    <2> QED
      BY <1>2, <2>3, <2>4, <2>5
  <1>3. CASE m.role # "system"
    <2>1. Said(m, Instructions, of) = <<>>
      BY <1>3, RoleNames DEF Said, Parts, May, Told, Answered, Replied
    <2>2. Voiced("system", system) \in Seq(Word)
      BY <1>1, VoicedTypes
    <2>3. Voiced("system", system) \o <<>> = Voiced("system", system)
      BY <2>2, ConcatEmptySeq
    <2> QED
      BY <1>3, <2>1, <2>3
  <1> QED
    BY <1>2, <1>3

\* The Anthropic format.
SplitOf == [system : Seq(Part), wire : Seq(TurnOf)]
SplitInv(h) ==
  /\ SplitMessages(h) \in SplitOf
  /\ Heard(SplitMessages(h).wire) = Spoken(h, AnthropicRole, ById(h))
  /\ Voiced("system", SplitMessages(h).system) = Spoken(h, Instructions, ById(h))

Collecting(wire) == wire # <<>> /\ Last(wire).role = "user" /\ Last(wire).list

IsSplit(acc) == acc = [system |-> acc.system, wire |-> acc.wire]

LEMMA SplitStepIs ==
  ASSUME NEW acc \in SplitOf, NEW h, NEW m, May(h, m), NEW after, after = SplitStep(acc, m)
  PROVE  /\ after.system = IF m.role = "system" THEN Append(acc.system, TextPart(m.text))
                           ELSE acc.system
         /\ IsSplit(after)
         /\ m.role = "system" => after.wire = acc.wire
         /\ m.role = "tool" /\ Collecting(acc.wire) =>
               after.wire = Merged(acc.wire, ResultPart(m.answers, m.text))
         /\ m.role = "tool" /\ ~ Collecting(acc.wire) =>
               after.wire = Append(acc.wire,
                                   Turn("user", <<ResultPart(m.answers, m.text)>>, TRUE))
         /\ m.role = "user" \/ (m.role = "assistant" /\ m.calls = <<>>) =>
               after.wire = Append(acc.wire, Turn(m.role, <<TextPart(m.text)>>, FALSE))
         /\ m.role = "assistant" /\ m.calls # <<>> =>
               after.wire = Append(acc.wire, Turn("assistant", SpokenAndCalls(m), TRUE))
  <1>1. acc = [system |-> acc.system, wire |-> acc.wire]
    BY DEF SplitOf
  <1>2. m.role \in Role
    BY DEF May, MessageOf
  <1>3. CASE m.role = "system"
    BY <1>1, <1>3 DEF SplitStep, IsSplit
  <1>4. CASE m.role = "tool"
    <2> DEFINE result == ResultPart(m.answers, m.text)
    <2>1. after = IF Collecting(acc.wire)
                  THEN [acc EXCEPT !.wire = Merged(acc.wire, result)]
                  ELSE [acc EXCEPT !.wire = Append(@, Turn("user", <<result>>, TRUE))]
      BY <1>1, <1>4 DEF SplitStep, Collecting, Merged
    <2> HIDE DEF result
    <2>2. /\ after.system = acc.system
          /\ IsSplit(after)
          /\ after.wire = IF Collecting(acc.wire) THEN Merged(acc.wire, result)
                          ELSE Append(acc.wire, Turn("user", <<result>>, TRUE))
      BY <1>1, <2>1 DEF IsSplit
    <2> QED
      BY <1>4, <2>2 DEF result
  <1>5. CASE m.role = "assistant" /\ m.calls # <<>>
    BY <1>1, <1>5 DEF SplitStep, IsSplit
  <1>6. CASE m.role = "user" \/ (m.role = "assistant" /\ m.calls = <<>>)
    BY <1>1, <1>6 DEF SplitStep, IsSplit
  <1> QED
    BY <1>2, <1>3, <1>4, <1>5, <1>6 DEF Role

LEMMA TurnTypes ==
  ASSUME NEW role \in Speaker, NEW parts \in Seq(Part), NEW list \in BOOLEAN
  PROVE  /\ Turn(role, parts, list) \in TurnOf
         /\ Turn(role, parts, list).role = role /\ Turn(role, parts, list).parts = parts
         /\ Turn(role, parts, list).list = list
  BY DEF Turn, TurnOf

LEMMA TurnHeard ==
  ASSUME NEW turns \in Seq(TurnOf), NEW role \in Speaker, NEW parts \in Seq(Part),
         NEW list \in BOOLEAN
  PROVE  /\ Append(turns, Turn(role, parts, list)) \in Seq(TurnOf)
         /\ Heard(Append(turns, Turn(role, parts, list))) = Heard(turns) \o Voiced(role, parts)
  <1> DEFINE turn == Turn(role, parts, list)
  <1>1. turn \in TurnOf /\ turn.role = role /\ turn.parts = parts
    BY TurnTypes
  <1> HIDE DEF turn
  <1>2. /\ Append(turns, turn) \in Seq(TurnOf)
        /\ Heard(Append(turns, turn)) = Heard(turns) \o Voiced(turn.role, turn.parts)
    BY <1>1, HeardAppend, AppendProperties
  <1> QED
    BY <1>1, <1>2 DEF turn

LEMMA TurnLast ==
  ASSUME NEW turns \in Seq(TurnOf), NEW role \in Speaker, NEW parts \in Seq(Part),
         NEW list \in BOOLEAN
  PROVE  /\ Len(turns) \in Nat
         /\ Len(Append(turns, Turn(role, parts, list))) = Len(turns) + 1
         /\ Append(turns, Turn(role, parts, list))[Len(turns) + 1].role = role
  <1>1. Turn(role, parts, list) \in TurnOf /\ Turn(role, parts, list).role = role
    BY TurnTypes
  <1> QED
    BY <1>1, AppendProperties, LenProperties

LEMMA SplitKeeps ==
  ASSUME NEW h \in Seq(MessageOf), WellSaid(h), SplitInv(h), NEW m, May(h, m)
  PROVE  SplitInv(Append(h, m))
  <1> DEFINE acc == SplitMessages(h)
             after == SplitMessages(Append(h, m))
             of == ById(Append(h, m))
  <1>1. m \in MessageOf /\ m.role \in Role
    BY DEF May, MessageOf
  <1>2. acc \in SplitOf /\ after = SplitStep(acc, m)
    BY <1>1, SplitGrows DEF SplitInv
  <1>3. m.role = "tool" => of[m.answers] = m.answers /\ m.answers \in Id \cup ToolNames
    BY ByIdGrows
  <1>4. /\ Spoken(Append(h, m), AnthropicRole, of)
              = Spoken(h, AnthropicRole, ById(h)) \o Said(m, AnthropicRole, of)
        /\ Spoken(Append(h, m), Instructions, of)
              = Spoken(h, Instructions, ById(h)) \o Said(m, Instructions, of)
        /\ Said(m, AnthropicRole, of) \in Seq(Word)
    <2>1. Refers(h, ById(h)) /\ Alike(h, ById(h), of)
      BY ByIdGrows
    <2>2. Roles(AnthropicRole) /\ Roles(Instructions)
      BY RolesAre
    <2> HIDE DEF of
    <2>3. /\ Spoken(Append(h, m), AnthropicRole, of)
                = Spoken(h, AnthropicRole, ById(h)) \o Said(m, AnthropicRole, of)
          /\ Said(m, AnthropicRole, of) \in Seq(Word)
      BY <1>1, <1>3, <2>1, <2>2, SpokenAppend
    <2>4. Spoken(Append(h, m), Instructions, of)
            = Spoken(h, Instructions, ById(h)) \o Said(m, Instructions, of)
      BY <1>1, <1>3, <2>1, <2>2, SpokenAppend
    <2> QED
      BY <2>3, <2>4
  <1>6. Heard(acc.wire) = Spoken(h, AnthropicRole, ById(h))
        /\ Voiced("system", acc.system) = Spoken(h, Instructions, ById(h))
    BY DEF SplitInv
  <1> HIDE DEF acc, after, of
  <1>5. acc.wire \in Seq(TurnOf) /\ acc.system \in Seq(Part)
    BY <1>2 DEF SplitOf
  <1>7. /\ after.system = IF m.role = "system" THEN Append(acc.system, TextPart(m.text))
                          ELSE acc.system
        /\ IsSplit(after)
    BY <1>2, SplitStepIs, Zenon
  <1>8. /\ after.system \in Seq(Part)
        /\ Voiced("system", after.system)
              = Voiced("system", acc.system) \o Said(m, Instructions, of)
    BY <1>5, <1>7, SystemSaid
  <1>9. /\ after.wire \in Seq(TurnOf)
        /\ Heard(after.wire) = Heard(acc.wire) \o Said(m, AnthropicRole, of)
    <2>1. CASE m.role = "system"
      <3>1. after.wire = acc.wire
        BY <1>2, <2>1, SplitStepIs, ZenonT(30)
      <3>2. Said(m, AnthropicRole, of) = <<>>
        BY <2>1, RoleNames DEF Said, Parts, May, Told, Answered, Replied
      <3>3. Heard(acc.wire) \in Seq(Word)
        BY <1>5, HeardTypes
      <3> QED
        BY <1>5, <3>1, <3>2, <3>3, ConcatEmptySeq
    <2>2. CASE m.role = "tool"
      <3> DEFINE result == ResultPart(m.answers, m.text)
      <3>1. result \in Part /\ <<result>> \in Seq(Part)
        BY <1>1, <1>3, <2>2, ResultTypes
      <3>2. Said(m, AnthropicRole, of) = Voiced("user", <<result>>)
        BY <1>3, <2>2, RoleNames DEF Said, Parts, May, Told, Answered, Replied
      <3>3. "user" \in Speaker
        BY DEF Speaker
      <3>4. after.wire = IF Collecting(acc.wire) THEN Merged(acc.wire, result)
                         ELSE Append(acc.wire, Turn("user", <<result>>, TRUE))
        BY <1>2, <2>2, SplitStepIs, ZenonT(30)
      <3> HIDE DEF result
      <3>5. Voiced("user", <<result>>) = << <<"user", result>> >>
        BY <3>1, <3>3, VoicedOne
      <3>6. CASE Collecting(acc.wire)
        <4>1. acc.wire # <<>> /\ acc.wire[Len(acc.wire)].role = "user"
          BY <3>6 DEF Collecting, Last
        <4>2. /\ Merged(acc.wire, result) \in Seq(TurnOf)
              /\ Heard(Merged(acc.wire, result))
                   = Heard(acc.wire) \o << <<acc.wire[Len(acc.wire)].role, result>> >>
          BY ONLY <1>5, <3>1, <4>1, HeardMerged
        <4> QED
          BY <3>2, <3>4, <3>5, <3>6, <4>1, <4>2
      <3>7. CASE ~ Collecting(acc.wire)
        <4>1. after.wire = Append(acc.wire, Turn("user", <<result>>, TRUE))
          BY <3>4, <3>7
        <4>2. TRUE \in BOOLEAN
          OBVIOUS
        <4>3. /\ Append(acc.wire, Turn("user", <<result>>, TRUE)) \in Seq(TurnOf)
              /\ Heard(Append(acc.wire, Turn("user", <<result>>, TRUE)))
                   = Heard(acc.wire) \o Voiced("user", <<result>>)
          BY ONLY <1>5, <3>1, <3>3, <4>2, TurnHeard
        <4> QED
          BY <3>2, <4>1, <4>3
      <3> QED
        BY <3>6, <3>7
    <2>3. CASE m.role = "user" \/ (m.role = "assistant" /\ m.calls = <<>>)
      <3>1. after.wire = Append(acc.wire, Turn(m.role, <<TextPart(m.text)>>, FALSE))
        BY <1>2, <2>3, SplitStepIs, ZenonT(30)
      <3>2. Said(m, AnthropicRole, of) = Voiced(m.role, <<TextPart(m.text)>>)
        <4>1. m.calls = <<>>
          BY <2>3 DEF May, Told, Answered, Replied
        <4> QED
          BY <2>3, <4>1, RoleNames DEF Said, Parts, May, Told, Answered, Replied
      <3>3. m.role \in Speaker /\ <<TextPart(m.text)>> \in Seq(Part)
        BY <1>1, <2>3, TextTypes DEF Speaker
      <3> QED
        BY <1>5, <3>1, <3>2, <3>3, TurnHeard
    <2>4. CASE m.role = "assistant" /\ m.calls # <<>>
      <3>1. after.wire = Append(acc.wire, Turn("assistant", SpokenAndCalls(m), TRUE))
        BY <1>2, <2>4, SplitStepIs, ZenonT(30)
      <3>2. Said(m, AnthropicRole, of) = Voiced("assistant", SpokenAndCalls(m))
        BY <2>4, RoleNames DEF Said, Parts, May, Told, Answered, Replied
      <3>3. "assistant" \in Speaker /\ SpokenAndCalls(m) \in Seq(Part)
        BY <1>1, SpokenAndCallsAre DEF Speaker
      <3> QED
        BY <1>5, <3>1, <3>2, <3>3, TurnHeard
    <2> QED
      BY <1>1, <2>1, <2>2, <2>3, <2>4 DEF Role
  <1>10. after \in SplitOf
    BY <1>7, <1>8, <1>9 DEF SplitOf, IsSplit
  <1> QED
    BY <1>4, <1>6, <1>8, <1>9, <1>10 DEF SplitInv, acc, after, of

\* The Gemini format.
ContentsOf ==
  [system : Seq(Part), contents : Seq(TurnOf), toolTurn : Nat, callNames : SUBSET CallOf]

\* The calls that are known by their ids are those of the conversation.
Known(h, names) ==
  /\ \A id \in Asked(h) : h[id[1]].calls[id[2]] \in names
  /\ \A c \in names : c.id \in Asked(h) /\ c = h[c.id[1]].calls[c.id[2]]

ContentsInv(h) ==
  /\ ToContents(h) \in ContentsOf
  /\ ToContents(h).toolTurn # 0 =>
        /\ ToContents(h).toolTurn = Len(ToContents(h).contents)
        /\ ToContents(h).contents[ToContents(h).toolTurn].role = "user"
  /\ Known(h, ToContents(h).callNames)
  /\ Heard(ToContents(h).contents) = Spoken(h, GeminiRole, ByName(h))
  /\ Voiced("system", ToContents(h).system) = Spoken(h, Instructions, ById(h))

NameOf(names, id) == (CHOOSE c \in {c \in names : c.id = id} : TRUE).name

LEMMA NameKnown ==
  ASSUME NEW h \in Seq(MessageOf), WellSaid(h), NEW names, Known(h, names),
         NEW id \in Asked(h)
  PROVE  NameOf(names, id) = h[id[1]].calls[id[2]].name
  <1> DEFINE call == h[id[1]].calls[id[2]]
             named == {c \in names : c.id = id}
             chosen == CHOOSE c \in named : TRUE
  <1>1. id[1] \in DOMAIN h /\ id[2] \in DOMAIN h[id[1]].calls /\ id = <<id[1], id[2]>>
    BY AskedPlaces
  <1>2. call.id = id /\ call \in names
    BY <1>1 DEF WellSaid, Known
  <1>3. chosen \in named
    BY <1>2
  <1>4. chosen = call
    BY <1>3 DEF Known
  <1>5. NameOf(names, id) = chosen.name
    BY DEF NameOf
  <1> QED
    BY <1>4, <1>5

LEMMA KnownGrows ==
  ASSUME NEW h \in Seq(MessageOf), NEW m, May(h, m), NEW names, Known(h, names), NEW more,
         \A c : c \in more <=> c \in names \/ \E k \in DOMAIN m.calls : c = m.calls[k]
  PROVE  Known(Append(h, m), more)
  <1> DEFINE g == Append(h, m)
  <1>0. m \in MessageOf
    BY DEF May
  <1>1. /\ Len(h) \in Nat /\ DOMAIN h = 1 .. Len(h)
        /\ \A i \in 1 .. Len(h) : g[i] = h[i]
        /\ g[Len(h) + 1] = m
    BY <1>0, Longer
  <1>2. \A id : id \in Asked(g) <=>
            id \in Asked(h) \/ \E k \in DOMAIN m.calls : id = <<Len(h) + 1, k>>
    BY <1>0, AskedGrows
  <1>3. \A id \in Asked(h) : id[1] \in 1 .. Len(h)
    BY <1>1, AskedPlaces
  <1>4. \A k \in DOMAIN m.calls : m.calls[k].id = <<Len(h) + 1, k>>
    BY DEF May, Told, Answered, Replied
  <1> HIDE DEF g
  <1>5. ASSUME NEW id \in Asked(g) PROVE g[id[1]].calls[id[2]] \in more
    <2>1. CASE id \in Asked(h)
      <3>1. g[id[1]] = h[id[1]]
        BY <1>1, <1>3, <2>1
      <3> QED
        BY <2>1, <3>1 DEF Known
    <2>2. ASSUME NEW k \in DOMAIN m.calls, id = <<Len(h) + 1, k>>
          PROVE  g[id[1]].calls[id[2]] \in more
      BY <1>1, <2>2
    <2> QED
      BY <1>2, <2>1, <2>2
  <1>6. ASSUME NEW c \in more PROVE c.id \in Asked(g) /\ c = g[c.id[1]].calls[c.id[2]]
    <2>1. CASE c \in names
      <3>1. c.id \in Asked(h) /\ c = h[c.id[1]].calls[c.id[2]]
        BY <2>1 DEF Known
      <3>2. g[c.id[1]] = h[c.id[1]]
        BY <1>1, <1>3, <3>1
      <3> QED
        BY <1>2, <3>1, <3>2
    <2>2. ASSUME NEW k \in DOMAIN m.calls, c = m.calls[k]
          PROVE  c.id \in Asked(g) /\ c = g[c.id[1]].calls[c.id[2]]
      <3>1. c.id = <<Len(h) + 1, k>> /\ c.id[1] = Len(h) + 1 /\ c.id[2] = k
        BY <1>4, <2>2
      <3>2. c.id \in Asked(g)
        BY <1>2, <3>1
      <3>3. g[c.id[1]].calls[c.id[2]] = m.calls[k]
        BY <1>1, <3>1
      <3> QED
        BY <2>2, <3>2, <3>3
    <2> QED
      BY <2>1, <2>2
  <1> QED
    BY <1>5, <1>6 DEF Known, g

\* What a step does to the turns; the results go into the turn that collects.
IsContents(acc) ==
  acc = [system |-> acc.system, contents |-> acc.contents, toolTurn |-> acc.toolTurn,
         callNames |-> acc.callNames]
MergedAt(turns, n, part) == [turns EXCEPT ![n].parts = Append(@, part)]
GeminiName(m) == IF m.role = "assistant" THEN "model" ELSE "user"

Stepped(acc, m, result, after) ==
  /\ after.system = IF m.role = "system" THEN Append(acc.system, TextPart(m.text))
                    ELSE acc.system
  /\ IsContents(after)
  /\ \A c : c \in after.callNames <=>
              c \in acc.callNames \/ \E k \in DOMAIN m.calls : c = m.calls[k]
  /\ m.role = "system" =>
        after.contents = acc.contents /\ after.toolTurn = acc.toolTurn
  /\ m.role = "tool" /\ acc.toolTurn # 0 =>
        /\ after.contents = MergedAt(acc.contents, acc.toolTurn, result)
        /\ after.toolTurn = acc.toolTurn
  /\ m.role = "tool" /\ acc.toolTurn = 0 =>
        /\ after.contents = Append(acc.contents, Turn("user", <<result>>, TRUE))
        /\ after.toolTurn = Len(acc.contents) + 1
  /\ m.role = "user" \/ (m.role = "assistant" /\ m.calls = <<>>) =>
        /\ after.contents =
              Append(acc.contents, Turn(GeminiName(m), <<TextPart(m.text)>>, TRUE))
        /\ after.toolTurn = 0
  /\ m.role = "assistant" /\ m.calls # <<>> =>
        /\ after.contents = Append(acc.contents, Turn("model", SpokenAndCalls(m), TRUE))
        /\ after.toolTurn = 0

LEMMA ContentsStepIs ==
  ASSUME NEW acc \in ContentsOf, NEW h, NEW m, May(h, m),
         NEW after, after = ContentsStep(acc, m),
         NEW result, result = ResultPart(NameOf(acc.callNames, m.answers), m.text)
  PROVE  Stepped(acc, m, result, after)
  <1>1. acc = [system |-> acc.system, contents |-> acc.contents, toolTurn |-> acc.toolTurn,
               callNames |-> acc.callNames]
    BY DEF ContentsOf
  <1>2. m.role \in Role /\ (m.role # "assistant" => m.calls = <<>>)
    BY DEF May, MessageOf, Told, Answered, Replied
  <1>3. m.calls = <<>> => DOMAIN m.calls = {}
    OBVIOUS
  <1>4. CASE m.role = "system"
    <2>1. after = [acc EXCEPT !.system = Append(@, TextPart(m.text))]
      BY <1>4 DEF ContentsStep
    <2> QED
      BY <1>1, <1>2, <1>3, <1>4, <2>1 DEF IsContents, Stepped
  <1>5. CASE m.role = "tool" /\ acc.toolTurn = 0
    <2>1. after = [acc EXCEPT !.contents = Append(@, Turn("user", <<result>>, TRUE)),
                              !.toolTurn = Len(acc.contents) + 1]
      BY <1>1, <1>5 DEF ContentsStep, NameOf
    <2>2. /\ after.system = acc.system /\ after.callNames = acc.callNames /\ IsContents(after)
          /\ after.contents = Append(acc.contents, Turn("user", <<result>>, TRUE))
          /\ after.toolTurn = Len(acc.contents) + 1
      BY <1>1, <2>1 DEF IsContents
    <2> QED
      BY <1>2, <1>3, <1>5, <2>2 DEF Stepped
  <1>6. CASE m.role = "tool" /\ acc.toolTurn # 0
    <2>1. after = [acc EXCEPT !.contents = MergedAt(acc.contents, acc.toolTurn, result)]
      BY <1>1, <1>6 DEF ContentsStep, NameOf, MergedAt
    <2>2. /\ after.system = acc.system /\ after.callNames = acc.callNames /\ IsContents(after)
          /\ after.contents = MergedAt(acc.contents, acc.toolTurn, result)
          /\ after.toolTurn = acc.toolTurn
      BY <1>1, <2>1 DEF IsContents
    <2> QED
      BY <1>2, <1>3, <1>6, <2>2 DEF Stepped
  <1>7. CASE m.role = "assistant" /\ m.calls # <<>>
    <2>1. after = [acc EXCEPT !.contents = Append(@, Turn("model", SpokenAndCalls(m), TRUE)),
                              !.toolTurn = 0, !.callNames = @ \cup ToSet(m.calls)]
      BY <1>1, <1>7 DEF ContentsStep
    <2>2. /\ after.system = acc.system /\ IsContents(after)
          /\ after.callNames = acc.callNames \cup ToSet(m.calls)
          /\ after.contents = Append(acc.contents, Turn("model", SpokenAndCalls(m), TRUE))
          /\ after.toolTurn = 0
      BY <1>1, <2>1 DEF IsContents
    <2>3. \A c : c \in ToSet(m.calls) <=> \E k \in DOMAIN m.calls : c = m.calls[k]
      BY DEF ToSet
    <2> QED
      BY <1>7, <2>2, <2>3 DEF Stepped
  <1>8. CASE m.role = "user" \/ (m.role = "assistant" /\ m.calls = <<>>)
    <2>1. after = [acc EXCEPT !.contents =
                                 Append(@, Turn(GeminiName(m), <<TextPart(m.text)>>, TRUE)),
                              !.toolTurn = 0]
      BY <1>1, <1>8 DEF ContentsStep, GeminiName
    <2>2. /\ after.system = acc.system /\ after.callNames = acc.callNames /\ IsContents(after)
          /\ after.contents =
               Append(acc.contents, Turn(GeminiName(m), <<TextPart(m.text)>>, TRUE))
          /\ after.toolTurn = 0
      BY <1>1, <2>1 DEF IsContents
    <2> QED
      BY <1>2, <1>3, <1>8, <2>2 DEF Stepped
  <1> QED
    BY <1>2, <1>4, <1>5, <1>6, <1>7, <1>8 DEF Role

LEMMA ContentsKeeps ==
  ASSUME NEW h \in Seq(MessageOf), WellSaid(h), ContentsInv(h), NEW m, May(h, m)
  PROVE  ContentsInv(Append(h, m))
  <1> DEFINE acc == ToContents(h)
             after == ToContents(Append(h, m))
             of == ByName(Append(h, m))
             result == ResultPart(NameOf(acc.callNames, m.answers), m.text)
  <1>1. m \in MessageOf /\ m.role \in Role
    BY DEF May, MessageOf
  <1>2. acc \in ContentsOf /\ after = ContentsStep(acc, m) /\ Known(h, acc.callNames)
    BY <1>1, ContentsGrow DEF ContentsInv
  <1>3. m.role = "tool" => /\ of[m.answers] = NameOf(acc.callNames, m.answers)
                           /\ of[m.answers] \in Id \cup ToolNames
    BY <1>2, ByNameGrows, NameKnown
  <1>4. /\ Spoken(Append(h, m), GeminiRole, of)
              = Spoken(h, GeminiRole, ByName(h)) \o Said(m, GeminiRole, of)
        /\ Said(m, GeminiRole, of) \in Seq(Word)
    BY <1>1, <1>3, ByNameGrows, RolesAre, SpokenAppend
  <1>5. Spoken(Append(h, m), Instructions, ById(Append(h, m)))
           = Spoken(h, Instructions, ById(h)) \o Said(m, Instructions, ById(Append(h, m)))
    BY <1>1, ByIdGrows, RolesAre, SpokenAppend
  <1>6. /\ Heard(acc.contents) = Spoken(h, GeminiRole, ByName(h))
        /\ Voiced("system", acc.system) = Spoken(h, Instructions, ById(h))
        /\ acc.toolTurn # 0 => /\ acc.toolTurn = Len(acc.contents)
                               /\ acc.contents[acc.toolTurn].role = "user"
    BY DEF ContentsInv
  <1>7. result = ResultPart(NameOf(acc.callNames, m.answers), m.text)
    OBVIOUS
  <1>8. m.role = "tool" =>
           /\ result \in Part /\ <<result>> \in Seq(Part)
           /\ Said(m, GeminiRole, of) = Voiced("user", <<result>>)
    <2> SUFFICES ASSUME m.role = "tool"
                 PROVE  /\ result \in Part /\ <<result>> \in Seq(Part)
                        /\ Said(m, GeminiRole, of) = Voiced("user", <<result>>)
      OBVIOUS
    <2>1. result = ResultPart(of[m.answers], m.text)
      BY <1>3
    <2>2. result \in Part /\ <<result>> \in Seq(Part)
      BY <1>1, <1>3, <2>1, ResultTypes
    <2>3. Said(m, GeminiRole, of) = Voiced("user", <<result>>)
      BY <2>1, RoleNames DEF Said, Parts
    <2> QED
      BY <2>2, <2>3
  <1> HIDE DEF acc, after, of, result
  <1>9. acc.contents \in Seq(TurnOf) /\ acc.system \in Seq(Part) /\ acc.toolTurn \in Nat
    BY <1>2 DEF ContentsOf
  <1>16. Stepped(acc, m, result, after)
    BY <1>2, <1>7, ContentsStepIs
  <1>10. /\ after.system = IF m.role = "system" THEN Append(acc.system, TextPart(m.text))
                           ELSE acc.system
         /\ IsContents(after)
         /\ \A c : c \in after.callNames <=>
                     c \in acc.callNames \/ \E k \in DOMAIN m.calls : c = m.calls[k]
    <2>1. after.system = IF m.role = "system" THEN Append(acc.system, TextPart(m.text))
                         ELSE acc.system
      BY <1>16 DEF Stepped
    <2> QED
      BY <1>16, <2>1 DEF Stepped
  <1>11. /\ after.system \in Seq(Part)
         /\ Voiced("system", after.system)
               = Voiced("system", acc.system) \o Said(m, Instructions, ById(Append(h, m)))
    <2>1. after.system = IF m.role = "system" THEN Append(acc.system, TextPart(m.text))
                         ELSE acc.system
      BY <1>10
    <2> QED
      BY <1>9, <2>1, SystemSaid
  <1>12. Known(Append(h, m), after.callNames)
    BY <1>2, <1>10, KnownGrows
  <1>13. after.callNames \in SUBSET CallOf
    <2>1. \A k \in DOMAIN m.calls : m.calls[k] \in CallOf
      <3>1. m.calls \in Seq(CallOf)
        BY <1>1 DEF MessageOf
      <3> QED
        BY <3>1, ElementOfSeq, LenProperties
    <2>2. acc.callNames \in SUBSET CallOf
      BY <1>2 DEF ContentsOf
    <2> QED
      BY <1>10, <2>1, <2>2
  <1>14. /\ after.contents \in Seq(TurnOf) /\ after.toolTurn \in Nat
         /\ Heard(after.contents) = Heard(acc.contents) \o Said(m, GeminiRole, of)
         /\ after.toolTurn # 0 => /\ after.toolTurn = Len(after.contents)
                                  /\ after.contents[after.toolTurn].role = "user"
    <2>0. 0 \in Nat /\ TRUE \in BOOLEAN /\ "user" \in Speaker /\ "model" \in Speaker
      BY DEF Speaker
    <2>1. CASE m.role = "system"
      <3>1. after.contents = acc.contents /\ after.toolTurn = acc.toolTurn
        BY <1>16, <2>1 DEF Stepped
      <3>2. Said(m, GeminiRole, of) = <<>>
        BY <2>1, RoleNames DEF Said, Parts, May, Told, Answered, Replied
      <3>3. Heard(acc.contents) \in Seq(Word)
        BY <1>9, HeardTypes
      <3> QED
        BY <1>6, <1>9, <3>1, <3>2, <3>3, ConcatEmptySeq
    <2>2. CASE m.role = "tool" /\ acc.toolTurn # 0
      <3>1. after.contents = MergedAt(acc.contents, acc.toolTurn, result)
            /\ after.toolTurn = acc.toolTurn
        BY <1>16, <2>2 DEF Stepped
      <3>2. after.contents = Merged(acc.contents, result)
        BY <1>6, <2>2, <3>1 DEF MergedAt, Merged
      <3>3. acc.contents # <<>> /\ acc.contents[Len(acc.contents)].role = "user"
        BY <1>6, <2>2, EmptySeq
      <3>4. result \in Part
        BY <1>8, <2>2
      <3>5. /\ Merged(acc.contents, result) \in Seq(TurnOf)
            /\ Len(Merged(acc.contents, result)) = Len(acc.contents)
            /\ Merged(acc.contents, result)[Len(acc.contents)] =
                  [acc.contents[Len(acc.contents)] EXCEPT !.parts = Append(@, result)]
            /\ Heard(Merged(acc.contents, result))
                 = Heard(acc.contents) \o << <<acc.contents[Len(acc.contents)].role, result>> >>
        BY ONLY <1>9, <3>3, <3>4, HeardMerged
      <3>6. Voiced("user", <<result>>) = << <<"user", result>> >>
        BY <2>0, <3>4, VoicedOne
      <3>7. Heard(after.contents) = Heard(acc.contents) \o Said(m, GeminiRole, of)
        BY <1>8, <2>2, <3>2, <3>3, <3>5, <3>6
      <3>8. after.contents[Len(after.contents)].role = "user"
        <4>1. acc.contents[Len(acc.contents)] \in TurnOf
          BY <1>6, <1>9, <2>2, ElementOfSeq
        <4> QED
          BY <3>2, <3>3, <3>5, <4>1 DEF TurnOf
      <3> QED
        BY <1>6, <1>9, <2>2, <3>1, <3>2, <3>5, <3>7, <3>8
    <2>3. CASE m.role = "tool" /\ acc.toolTurn = 0
      <3>1. after.contents = Append(acc.contents, Turn("user", <<result>>, TRUE))
            /\ after.toolTurn = Len(acc.contents) + 1
        BY <1>16, <2>3 DEF Stepped
      <3>2. <<result>> \in Seq(Part)
        BY <1>8, <2>3
      <3> QED
        <4>1. /\ Append(acc.contents, Turn("user", <<result>>, TRUE)) \in Seq(TurnOf)
              /\ Heard(Append(acc.contents, Turn("user", <<result>>, TRUE)))
                   = Heard(acc.contents) \o Voiced("user", <<result>>)
              /\ Len(Append(acc.contents, Turn("user", <<result>>, TRUE)))
                   = Len(acc.contents) + 1
              /\ Append(acc.contents, Turn("user", <<result>>, TRUE))[Len(acc.contents) + 1].role
                   = "user"
          BY ONLY <1>9, <2>0, <3>2, TurnHeard, TurnLast, ZenonT(30)
        <4>2. Len(acc.contents) + 1 \in Nat
          BY <1>9, LenProperties
        <4> QED
          BY <1>8, <2>3, <3>1, <4>1, <4>2, Zenon
    <2>4. CASE m.role = "user" \/ (m.role = "assistant" /\ m.calls = <<>>)
      <3>1. /\ after.contents =
                 Append(acc.contents, Turn(GeminiName(m), <<TextPart(m.text)>>, TRUE))
            /\ after.toolTurn = 0
        BY <1>16, <2>4 DEF Stepped
      <3>2. Said(m, GeminiRole, of) = Voiced(GeminiName(m), <<TextPart(m.text)>>)
        <4>1. m.calls = <<>>
          BY <2>4 DEF May, Told, Answered, Replied
        <4> QED
          BY <2>4, <4>1, RoleNames DEF Said, Parts, GeminiName
      <3>3. GeminiName(m) \in Speaker /\ <<TextPart(m.text)>> \in Seq(Part)
        BY <1>1, <2>0, TextTypes DEF GeminiName
      <3> QED
        <4>1. /\ Append(acc.contents, Turn(GeminiName(m), <<TextPart(m.text)>>, TRUE))
                   \in Seq(TurnOf)
              /\ Heard(Append(acc.contents, Turn(GeminiName(m), <<TextPart(m.text)>>, TRUE)))
                   = Heard(acc.contents) \o Voiced(GeminiName(m), <<TextPart(m.text)>>)
          BY ONLY <1>9, <2>0, <3>3, TurnHeard
        <4> QED
          BY <2>0, <3>1, <3>2, <4>1, Zenon
    <2>5. CASE m.role = "assistant" /\ m.calls # <<>>
      <3>1. /\ after.contents = Append(acc.contents, Turn("model", SpokenAndCalls(m), TRUE))
            /\ after.toolTurn = 0
        BY <1>16, <2>5 DEF Stepped
      <3>2. Said(m, GeminiRole, of) = Voiced("model", SpokenAndCalls(m))
        BY <2>5, RoleNames DEF Said, Parts
      <3>3. SpokenAndCalls(m) \in Seq(Part)
        BY <1>1, SpokenAndCallsAre
      <3> QED
        <4>1. /\ Append(acc.contents, Turn("model", SpokenAndCalls(m), TRUE)) \in Seq(TurnOf)
              /\ Heard(Append(acc.contents, Turn("model", SpokenAndCalls(m), TRUE)))
                   = Heard(acc.contents) \o Voiced("model", SpokenAndCalls(m))
          BY ONLY <1>9, <2>0, <3>3, TurnHeard
        <4> QED
          BY <2>0, <3>1, <3>2, <4>1, Zenon
    <2> QED
      BY <1>1, <2>1, <2>2, <2>3, <2>4, <2>5 DEF Role
  <1>15. after \in ContentsOf
    BY <1>10, <1>11, <1>13, <1>14 DEF ContentsOf, IsContents
  <1> QED
    BY <1>4, <1>5, <1>6, <1>11, <1>12, <1>14, <1>15 DEF ContentsInv, acc, after, of

\* The OpenAI format.
WireInv(h) ==
  /\ ToWire(h) \in Seq(TurnOf)
  /\ Heard(ToWire(h)) = Spoken(h, OpenAIRole, ById(h))

LEMMA WireTurnTypes ==
  ASSUME NEW m \in MessageOf, NEW of,
         m.role = "tool" => of[m.answers] = m.answers /\ m.answers \in Id \cup ToolNames,
         m.role # "assistant" => m.calls = <<>>
  PROVE  /\ WireTurn(m) \in TurnOf
         /\ Voiced(WireTurn(m).role, WireTurn(m).parts) = Said(m, OpenAIRole, of)
  <1> DEFINE parts == IF m.role = "tool" THEN <<ResultPart(m.answers, m.text)>>
                      ELSE IF m.role = "assistant" /\ m.calls # <<>> THEN SpokenAndCalls(m)
                      ELSE <<TextPart(m.text)>>
  <1>1. m.role \in Role /\ m.role \in Speaker /\ FALSE \in BOOLEAN
    BY DEF MessageOf, Role, Speaker
  <1>2. parts = Parts(m, of)
    BY DEF Parts
  <1>3. WireTurn(m) = Turn(m.role, parts, FALSE)
    BY DEF WireTurn
  <1> HIDE DEF parts
  <1>4. parts \in Seq(Part)
    BY <1>2, PartsTypes
  <1>5. /\ WireTurn(m) \in TurnOf
        /\ WireTurn(m).role = m.role /\ WireTurn(m).parts = parts
    BY <1>1, <1>3, <1>4 DEF Turn, TurnOf
  <1>6. Said(m, OpenAIRole, of) = Voiced(m.role, parts)
    BY <1>1, <1>2, RoleNames DEF Said
  <1> QED
    BY <1>5, <1>6

LEMMA WireKeeps ==
  ASSUME NEW h \in Seq(MessageOf), WellSaid(h), WireInv(h), NEW m, May(h, m)
  PROVE  WireInv(Append(h, m))
  <1> DEFINE wire == ToWire(h)
             after == ToWire(Append(h, m))
             of == ById(Append(h, m))
             longer == Append(h, m)
             turn == WireTurn(m)
  <1>1. /\ m \in MessageOf /\ m.role \in Role /\ (m.role # "assistant" => m.calls = <<>>)
    BY DEF May, MessageOf, Told, Answered, Replied
  <1>2. m.role = "tool" => of[m.answers] = m.answers /\ m.answers \in Id \cup ToolNames
    BY ByIdGrows
  <1>3. /\ Spoken(longer, OpenAIRole, of)
              = Spoken(h, OpenAIRole, ById(h)) \o Said(m, OpenAIRole, of)
    BY <1>1, <1>2, ByIdGrows, RolesAre, SpokenAppend
  <1>4. wire \in Seq(TurnOf) /\ Heard(wire) = Spoken(h, OpenAIRole, ById(h))
    BY DEF WireInv
  <1>5. /\ Len(h) \in Nat /\ DOMAIN h = 1 .. Len(h) /\ DOMAIN longer = 1 .. Len(h) + 1
        /\ \A i \in 1 .. Len(h) : longer[i] = h[i]
        /\ longer[Len(h) + 1] = m
    BY <1>1, Longer
  <1>6. /\ DOMAIN wire = 1 .. Len(h) /\ DOMAIN after = 1 .. Len(h) + 1
        /\ \A i \in 1 .. Len(h) : wire[i] = WireTurn(h[i])
        /\ \A i \in 1 .. Len(h) + 1 : after[i] = WireTurn(longer[i])
        /\ after = [i \in 1 .. Len(h) + 1 |-> WireTurn(longer[i])]
    BY <1>5 DEF ToWire
  <1>7. /\ turn \in TurnOf
        /\ Voiced(turn.role, turn.parts) = Said(m, OpenAIRole, of)
    BY <1>1, <1>2, WireTurnTypes
  <1> HIDE DEF wire, after, of, longer, turn
  <1>8. Len(wire) = Len(h)
    BY <1>4, <1>5, <1>6, LenProperties
  <1>9. \A i \in 1 .. Len(h) : after[i] = wire[i]
    <2> SUFFICES ASSUME NEW i \in 1 .. Len(h) PROVE after[i] = wire[i]
      OBVIOUS
    <2>1. i \in 1 .. Len(h) + 1
      BY <1>5
    <2> QED
      BY <1>5, <1>6, <2>1
  <1>10. after[Len(h) + 1] = turn
    <2>1. Len(h) + 1 \in 1 .. Len(h) + 1
      BY <1>5
    <2> QED
      BY <1>5, <1>6, <2>1 DEF turn
  <1>11. /\ Append(wire, turn) \in Seq(TurnOf) /\ Len(Append(wire, turn)) = Len(h) + 1
         /\ \A i \in 1 .. Len(h) : Append(wire, turn)[i] = wire[i]
         /\ Append(wire, turn)[Len(h) + 1] = turn
    BY <1>4, <1>7, <1>8, AppendProperties
  <1>12. \A i \in 1 .. Len(h) + 1 : after[i] = Append(wire, turn)[i]
    <2> SUFFICES ASSUME NEW i \in 1 .. Len(h) + 1 PROVE after[i] = Append(wire, turn)[i]
      OBVIOUS
    <2>1. i \in 1 .. Len(h) \/ i = Len(h) + 1
      BY <1>5
    <2> QED
      BY <1>9, <1>10, <1>11, <2>1
  <1>13. \A i \in 1 .. Len(h) + 1 : Append(wire, turn)[i] \in TurnOf
    BY <1>11, ElementOfSeq
  <1>14. after \in [1 .. Len(h) + 1 -> TurnOf]
    <2>1. \A i \in 1 .. Len(h) + 1 : WireTurn(longer[i]) \in TurnOf
      BY <1>6, <1>12, <1>13
    <2> QED
      BY <1>6, <2>1
  <1>15. after \in Seq(TurnOf) /\ Len(after) = Len(h) + 1
    BY <1>5, <1>14
  <1>16. after = Append(wire, turn)
    BY <1>11, <1>12, <1>15, SeqEqual
  <1>17. Heard(after) = Heard(wire) \o Voiced(turn.role, turn.parts)
    BY <1>4, <1>7, <1>16, HeardAppend
  <1> QED
    BY <1>3, <1>4, <1>7, <1>15, <1>17 DEF WireInv, after, of, longer

-----------------------------------------------------------------------------
(* The conversation, in every format.                                      *)

ConversationInv ==
  HistoryInv /\ SplitInv(history) /\ ContentsInv(history) /\ WireInv(history)

LEMMA NothingSaid == SplitInv(<<>>) /\ ContentsInv(<<>>) /\ WireInv(<<>>)
  <1> DEFINE none == <<>>
  <1>1. /\ none \in Seq(MessageOf) /\ none \in Seq(TurnOf) /\ none \in Seq(Part)
        /\ none \in Seq(Seq(Word)) /\ Len(none) = 0 /\ DOMAIN none = {}
    BY EmptySeq
  <1>2. FlattenSeq(none) = <<>>
    BY <1>1 DEF FlattenSeq
  <1>3. ASSUME NEW role, NEW of PROVE Spoken(none, role, of) = <<>>
    <2>1. Sayings(none, role, of) = none
      BY <1>1 DEF Sayings
    <2> QED
      BY <1>2, <2>1, SpokenIs
  <1>4. Heard(none) = <<>>
    <2>1. Voices(none) = none
      BY <1>1 DEF Voices
    <2> QED
      BY <1>2, <2>1, HeardIs
  <1>5. Voiced("system", none) = <<>>
    BY <1>1 DEF Voiced
  <1>6. Asked(none) = {}
    BY <1>1 DEF Asked
  <1>7. SplitInv(none)
    <2>1. SplitMessages(none) = [system |-> none, wire |-> none]
      BY SplitGrows DEF NothingSplit
    <2> HIDE DEF none
    <2>2. SplitMessages(none).system = none /\ SplitMessages(none).wire = none
      BY <2>1
    <2>3. SplitMessages(none) \in SplitOf
      BY <1>1, <2>1 DEF SplitOf
    <2> QED
      BY <1>3, <1>4, <1>5, <2>2, <2>3 DEF SplitInv
  <1>8. ContentsInv(none)
    <2>1. ToContents(none) = [system |-> none, contents |-> none, toolTurn |-> 0,
                              callNames |-> {}]
      BY ContentsGrow DEF NoContents
    <2>2. Known(none, {})
      BY <1>6 DEF Known
    <2> HIDE DEF none
    <2>3. /\ ToContents(none).system = none /\ ToContents(none).contents = none
          /\ ToContents(none).toolTurn = 0 /\ ToContents(none).callNames = {}
      BY <2>1
    <2>4. ToContents(none) \in ContentsOf
      BY <1>1, <2>1 DEF ContentsOf
    <2> QED
      BY <1>3, <1>4, <1>5, <2>2, <2>3, <2>4 DEF ContentsInv
  <1>9. WireInv(none)
    <2>1. ToWire(none) = none
      BY <1>1 DEF ToWire
    <2> QED
      BY <1>1, <1>3, <1>4, <2>1 DEF WireInv
  <1> QED
    BY <1>7, <1>8, <1>9

LEMMA ConversationHolds ==
  ASSUME ConversationInv, [Next]_vars PROVE ConversationInv'
  <1>1. HistoryInv'
    BY HistoryHolds DEF ConversationInv
  <1>2. CASE UNCHANGED history
    BY <1>1, <1>2 DEF ConversationInv
  <1>3. ASSUME NEW m, May(history, m), history' = Append(history, m)
        PROVE  ConversationInv'
    <2>1. /\ history \in Seq(MessageOf) /\ WellSaid(history)
          /\ SplitInv(history) /\ ContentsInv(history) /\ WireInv(history)
      BY DEF ConversationInv, HistoryInv
    <2>2. /\ SplitInv(Append(history, m)) /\ ContentsInv(Append(history, m))
          /\ WireInv(Append(history, m))
      BY <1>3, <2>1, SplitKeeps, ContentsKeeps, WireKeeps
    <2> QED
      BY <1>1, <1>3, <2>2 DEF ConversationInv
  <1> QED
    BY <1>2, <1>3, HistoryMoves DEF ConversationInv

LEMMA ConversationStands == Spec => []ConversationInv
  <1>1. Init => ConversationInv
    <2> SUFFICES ASSUME Init PROVE ConversationInv
      OBVIOUS
    <2>1. history = <<>>
      BY DEF Init
    <2>2. HistoryInv
      BY <2>1, EmptySeq DEF HistoryInv, WellSaid
    <2> QED
      BY <2>1, <2>2, NothingSaid DEF ConversationInv
  <1>2. ConversationInv /\ [Next]_vars => ConversationInv'
    BY ConversationHolds
  <1> QED
    BY <1>1, <1>2, PTL DEF Spec

\* Whatever the conversation is, however many calls a reply makes and wherever
\* an instruction is put, each provider's wire format reads back as exactly
\* what was said: nothing lost, doubled, reordered or given to another speaker.
THEOREM FormatsKeepConversation == Spec => []WireKeepsConversation
  <1>1. ConversationInv => WireKeepsConversation
    BY DEF ConversationInv, SplitInv, ContentsInv, WireInv, WireKeepsConversation
  <1> QED
    BY <1>1, ConversationStands, PTL

-----------------------------------------------------------------------------
(* The calls that are open.                                                *)

\* The first d calls of the message a have their results, the others are all
\* that is open.
OpenCalls(h, a, d) == Unanswered(h) = {<<a, k>> : k \in d + 1 .. Len(h[a].calls)}
Waiting(h, a, d) == a \in DOMAIN h /\ d \in 0 .. Len(h[a].calls) - 1 /\ OpenCalls(h, a, d)

LEMMA OpenGrows ==
  ASSUME NEW h \in Seq(MessageOf), WellSaid(h), NEW m, May(h, m)
  PROVE  /\ Len(m.calls) \in Nat /\ DOMAIN m.calls = 1 .. Len(m.calls)
         /\ \A id : id \in Unanswered(Append(h, m)) <=>
              /\ id \in Unanswered(h) \/ \E k \in 1 .. Len(m.calls) : id = <<Len(h) + 1, k>>
              /\ id # m.answers
  <1>1. m \in MessageOf
    BY DEF May
  <1>2. m.calls \in Seq(CallOf)
    BY <1>1 DEF MessageOf
  <1>3. Len(m.calls) \in Nat /\ DOMAIN m.calls = 1 .. Len(m.calls)
    BY <1>2, LenProperties
  <1> QED
    BY <1>1, <1>3, UnansweredGrows

LEMMA OpenPlaces ==
  ASSUME NEW h \in Seq(MessageOf), NEW id \in Unanswered(h)
  PROVE  id # NoCall
  BY AskedPlaces DEF Unanswered

\* A message that neither calls nor answers leaves open what is open.
LEMMA OpenAfterText ==
  ASSUME NEW h \in Seq(MessageOf), WellSaid(h), NEW m, May(h, m),
         m.role # "tool", m.calls = <<>>
  PROVE  Unanswered(Append(h, m)) = Unanswered(h)
  <1>1. Len(m.calls) = 0 /\ 1 .. 0 = {} /\ m.answers = NoCall
    BY EmptySeq DEF May, Told, Answered, Replied
  <1>2. \A id : id \in Unanswered(Append(h, m)) <=> id \in Unanswered(h)
    BY <1>1, OpenGrows, OpenPlaces
  <1> QED
    BY <1>2

LEMMA OpenAfterCalls ==
  ASSUME NEW h \in Seq(MessageOf), WellSaid(h), NEW m, May(h, m),
         m.role = "assistant", m.calls # <<>>
  PROVE  /\ Unanswered(h) = {} /\ Len(m.calls) \in Nat \ {0}
         /\ Waiting(Append(h, m), Len(h) + 1, 0)
         /\ Append(h, m)[Len(h) + 1].calls = m.calls
  <1> DEFINE g == Append(h, m)
  <1>1. m \in MessageOf /\ Unanswered(h) = {} /\ m.answers = NoCall
    BY DEF May, Told, Answered, Replied
  <1>2. Len(m.calls) \in Nat \ {0}
    <2>1. m.calls \in Seq(CallOf)
      BY <1>1 DEF MessageOf
    <2> QED
      BY <2>1, EmptySeq, LenProperties
  <1>3. Len(h) + 1 \in DOMAIN g /\ g[Len(h) + 1] = m /\ Len(h) \in Nat
    BY <1>1, Longer
  <1>4. \A k : <<Len(h) + 1, k>> # NoCall
    BY <1>3 DEF NoCall
  <1>5. \A id : id \in Unanswered(g) <=> \E k \in 1 .. Len(m.calls) : id = <<Len(h) + 1, k>>
    BY <1>1, <1>4, OpenGrows
  <1> HIDE DEF g
  <1>6. Unanswered(g) = {<<Len(h) + 1, k>> : k \in 1 .. Len(m.calls)}
    BY <1>5
  <1>7. 0 \in 0 .. Len(m.calls) - 1 /\ 0 + 1 = 1
    BY <1>2
  <1> QED
    BY <1>1, <1>2, <1>3, <1>6, <1>7 DEF g, Waiting, OpenCalls

LEMMA WaitingAfterText ==
  ASSUME NEW h \in Seq(MessageOf), WellSaid(h), NEW m, May(h, m),
         m.role # "tool", m.calls = <<>>, NEW a, NEW d, Waiting(h, a, d)
  PROVE  Waiting(Append(h, m), a, d) /\ Append(h, m)[a].calls = h[a].calls
  <1> DEFINE g == Append(h, m)
  <1>1. m \in MessageOf
    BY DEF May
  <1>2. a \in DOMAIN g /\ g[a] = h[a]
    BY <1>1, Longer DEF Waiting
  <1>3. Unanswered(g) = Unanswered(h)
    BY OpenAfterText
  <1> HIDE DEF g
  <1> QED
    BY <1>2, <1>3 DEF g, Waiting, OpenCalls

\* The next result answers the first open call; the last result closes them.
LEMMA WaitingAfterResult ==
  ASSUME NEW h \in Seq(MessageOf), WellSaid(h), NEW m, May(h, m), m.role = "tool",
         NEW a, NEW d, Waiting(h, a, d)
  PROVE  /\ d \in Nat /\ Len(h[a].calls) \in Nat
         /\ h[a].calls \in Seq(CallOf) /\ m.answers = <<a, d + 1>>
         /\ Append(h, m)[a].calls = h[a].calls
         /\ IF d + 1 = Len(h[a].calls) THEN Unanswered(Append(h, m)) = {}
            ELSE Waiting(Append(h, m), a, d + 1)
  <1> DEFINE g == Append(h, m)
             length == Len(h[a].calls)
  <1>1. /\ m \in MessageOf /\ m.calls = <<>> /\ m.answers \in Unanswered(h)
        /\ \A other \in Unanswered(h) : NotAfter(m.answers, other)
    BY DEF May, Told, Answered, Replied
  <1>2. /\ a \in DOMAIN h /\ h[a] \in MessageOf /\ a \in Nat
        /\ a \in DOMAIN g /\ g[a] = h[a]
    <2>1. a \in 1 .. Len(h) /\ DOMAIN h = 1 .. Len(h) /\ Len(h) \in Nat
      BY LenProperties DEF Waiting
    <2>2. h[a] \in MessageOf
      BY <2>1, ElementOfSeq
    <2>3. a \in DOMAIN g /\ g[a] = h[a]
      BY <1>1, <2>1, Longer
    <2> QED
      BY <2>1, <2>2, <2>3
  <1>3. h[a].calls \in Seq(CallOf)
    BY <1>2 DEF MessageOf
  <1>4. length \in Nat /\ d \in 0 .. length - 1
    BY <1>3, LenProperties DEF Waiting
  <1>5. d \in Nat /\ d + 1 \in d + 1 .. length
    BY <1>4
  <1>6. Unanswered(h) = {<<a, k>> : k \in d + 1 .. length}
    BY DEF Waiting, OpenCalls
  <1> HIDE DEF g, length
  <1>7. m.answers = <<a, d + 1>>
    <2>1. PICK k \in d + 1 .. length : m.answers = <<a, k>>
      BY <1>1, <1>6
    <2>2. <<a, d + 1>> \in Unanswered(h)
      BY <1>5, <1>6
    <2>3. NotAfter(<<a, k>>, <<a, d + 1>>)
      BY <1>1, <2>1, <2>2
    <2>4. k <= d + 1
      BY <1>2, <1>5, <2>3 DEF NotAfter
    <2>5. k = d + 1
      BY <1>4, <1>5, <2>4
    <2> QED
      BY <2>1, <2>5
  <1>8. \A id : id \in Unanswered(g) <=> id \in Unanswered(h) /\ id # <<a, d + 1>>
    <2>1. \A k \in 1 .. Len(m.calls) : FALSE
      BY <1>1, EmptySeq
    <2>2. \A id : id \in Unanswered(g) <=>
              /\ id \in Unanswered(h) \/ \E k \in 1 .. Len(m.calls) : id = <<Len(h) + 1, k>>
              /\ id # m.answers
      BY OpenGrows, Zenon DEF g
    <2> QED
      BY <1>7, <2>1, <2>2, Zenon
  <1>9. Unanswered(g) = {<<a, k>> : k \in (d + 1) + 1 .. length}
    <2>1. ASSUME NEW id \in Unanswered(g) PROVE \E k \in (d + 1) + 1 .. length : id = <<a, k>>
      <3>1. PICK k \in d + 1 .. length : id = <<a, k>>
        BY <1>6, <1>8
      <3>2. k # d + 1
        BY <1>8, <3>1
      <3>3. k \in (d + 1) + 1 .. length
        BY <1>4, <1>5, <3>2
      <3> QED
        BY <3>1, <3>3
    <2>2. ASSUME NEW k \in (d + 1) + 1 .. length PROVE <<a, k>> \in Unanswered(g)
      <3>1. k \in d + 1 .. length /\ k # d + 1
        BY <1>4, <1>5
      <3>2. <<a, k>> # <<a, d + 1>>
        BY <3>1
      <3> QED
        BY <1>6, <1>8, <3>1, <3>2
    <2> QED
      BY <2>1, <2>2
  <1>10. CASE d + 1 = length
    <2>1. (d + 1) + 1 .. length = {}
      BY <1>4, <1>5, <1>10
    <2>2. Unanswered(g) = {}
      BY <1>9, <2>1
    <2> QED
      BY <1>2, <1>3, <1>4, <1>5, <1>7, <1>10, <2>2 DEF g, length
  <1>11. CASE d + 1 # length
    <2>1. d + 1 \in 0 .. length - 1
      BY <1>4, <1>5, <1>11
    <2>2. Waiting(g, a, d + 1)
      BY <1>2, <1>9, <2>1 DEF Waiting, OpenCalls, length
    <2> QED
      BY <1>2, <1>3, <1>4, <1>5, <1>7, <1>11, <2>2 DEF g, length
  <1> QED
    BY <1>10, <1>11

-----------------------------------------------------------------------------
(* The turns that wait for results.                                        *)

\* A turn of exactly these calls, and a turn of the results of the first d.
Carries(turn, calls) ==
  /\ turn.role # "user"
  /\ \E spoken \in 0 .. 1 :
        /\ Len(turn.parts) = spoken + Len(calls)
        /\ \A j \in 1 .. spoken : turn.parts[j].is = "text"
        /\ \A k \in 1 .. Len(calls) : turn.parts[spoken + k] = CallPart(calls[k])
Results(turn, calls, d, key) ==
  /\ turn.role = "user" /\ Len(turn.parts) = d
  /\ \A k \in 1 .. d : turn.parts[k].is = "result" /\ turn.parts[k].of = calls[k][key]

GroupedBefore(turns, n, key) ==
  \A i \in 1 .. n - 1 : HasCalls(turns[i]) => Paired(turns[i], turns[i + 1], key)

\* The last calls of the turns have d results yet; all before are paired.
Pending(turns, calls, d, key) ==
  \E n \in DOMAIN turns :
     /\ n = IF d = 0 THEN Len(turns) ELSE Len(turns) - 1
     /\ Carries(turns[n], calls)
     /\ d > 0 => Results(turns[n + 1], calls, d, key)
     /\ GroupedBefore(turns, n, key)

LEMMA TurnsLonger ==
  ASSUME NEW turns \in Seq(TurnOf), NEW turn \in TurnOf
  PROVE  /\ Append(turns, turn) \in Seq(TurnOf) /\ Len(turns) \in Nat
         /\ Len(Append(turns, turn)) = Len(turns) + 1
         /\ DOMAIN turns = 1 .. Len(turns) /\ DOMAIN Append(turns, turn) = 1 .. Len(turns) + 1
         /\ \A i \in 1 .. Len(turns) : Append(turns, turn)[i] = turns[i]
         /\ Append(turns, turn)[Len(turns) + 1] = turn
  <1>1. Append(turns, turn) \in Seq(TurnOf)
    BY AppendProperties
  <1> QED
    BY <1>1, AppendProperties, LenProperties

\* A turn without calls after the turns leaves them grouped.
LEMMA GroupedText ==
  ASSUME NEW turns \in Seq(TurnOf), NEW turn \in TurnOf, NEW key,
         Grouped(turns, key), ~ HasCalls(turn)
  PROVE  Grouped(Append(turns, turn), key)
  <1> DEFINE longer == Append(turns, turn)
  <1>1. /\ Len(turns) \in Nat /\ Len(longer) = Len(turns) + 1
        /\ DOMAIN turns = 1 .. Len(turns) /\ DOMAIN longer = 1 .. Len(turns) + 1
        /\ \A i \in 1 .. Len(turns) : longer[i] = turns[i]
        /\ longer[Len(turns) + 1] = turn
    BY TurnsLonger
  <1> HIDE DEF longer
  <1>2. ASSUME NEW i \in DOMAIN longer, HasCalls(longer[i])
        PROVE  i < Len(longer) /\ Paired(longer[i], longer[i + 1], key)
    <2>1. i \in 1 .. Len(turns) \/ i = Len(turns) + 1
      BY <1>1
    <2>2. i \in 1 .. Len(turns)
      BY <1>1, <1>2, <2>1
    <2>3. i < Len(turns) /\ Paired(turns[i], turns[i + 1], key)
      BY <1>1, <1>2, <2>2 DEF Grouped
    <2>4. i + 1 \in 1 .. Len(turns)
      BY <1>1, <2>2, <2>3
    <2> QED
      BY <1>1, <2>2, <2>3, <2>4
  <1> QED
    BY <1>2 DEF Grouped, longer

\* A turn of calls after grouped turns is what waits.
LEMMA PendingBegins ==
  ASSUME NEW turns \in Seq(TurnOf), NEW turn \in TurnOf, NEW key, Grouped(turns, key),
         NEW calls, Carries(turn, calls)
  PROVE  Pending(Append(turns, turn), calls, 0, key)
  <1> DEFINE longer == Append(turns, turn)
             n == Len(turns) + 1
  <1>1. /\ Len(turns) \in Nat /\ Len(longer) = Len(turns) + 1
        /\ DOMAIN turns = 1 .. Len(turns) /\ DOMAIN longer = 1 .. Len(turns) + 1
        /\ \A i \in 1 .. Len(turns) : longer[i] = turns[i]
        /\ longer[Len(turns) + 1] = turn
    BY TurnsLonger
  <1> HIDE DEF longer
  <1>2. n \in DOMAIN longer /\ n = Len(longer) /\ longer[n] = turn
    BY <1>1
  <1>3. ASSUME NEW i \in 1 .. n - 1, HasCalls(longer[i])
        PROVE  Paired(longer[i], longer[i + 1], key)
    <2>1. i \in 1 .. Len(turns)
      BY <1>1
    <2>2. i < Len(turns) /\ Paired(turns[i], turns[i + 1], key)
      BY <1>1, <1>3, <2>1 DEF Grouped
    <2>3. i + 1 \in 1 .. Len(turns)
      BY <1>1, <2>1, <2>2
    <2> QED
      BY <1>1, <2>1, <2>2, <2>3
  <1>4. GroupedBefore(longer, n, key)
    BY <1>3 DEF GroupedBefore
  <1> HIDE DEF n
  <1> QED
    BY <1>2, <1>4 DEF Pending, longer

\* The next result goes into the turn after the calls.
Gathered(turns, d, result) ==
  IF d = 0 THEN Append(turns, Turn("user", <<result>>, TRUE)) ELSE Merged(turns, result)

LEMMA PendingGathers ==
  ASSUME NEW turns \in Seq(TurnOf), NEW calls, NEW d \in Nat, NEW key,
         Pending(turns, calls, d, key), NEW result \in Part,
         result.is = "result", result.of = calls[d + 1][key],
         NEW after, after = Gathered(turns, d, result)
  PROVE  /\ Pending(after, calls, d + 1, key)
         /\ (d # 0 => Collecting(turns)) => Collecting(after)
  <1>0. Len(turns) \in Nat /\ DOMAIN turns = 1 .. Len(turns)
    BY LenProperties
  <1>1. PICK n \in 1 .. Len(turns) :
           /\ n = IF d = 0 THEN Len(turns) ELSE Len(turns) - 1
           /\ Carries(turns[n], calls)
           /\ d > 0 => Results(turns[n + 1], calls, d, key)
           /\ GroupedBefore(turns, n, key)
    BY <1>0 DEF Pending
  <1>2. n \in Nat /\ n >= 1 /\ Len(turns) # 0
    <2>1. n \in 1 .. Len(turns)
      OBVIOUS
    <2> QED
      BY ONLY <1>0, <2>1
  <1>3. /\ after \in Seq(TurnOf) /\ Len(after) = n + 1 /\ DOMAIN after = 1 .. n + 1
        /\ \A i \in 1 .. n : after[i] = turns[i]
        /\ Results(after[n + 1], calls, d + 1, key)
        /\ d # 0 => after[n + 1].list = turns[n + 1].list
        /\ d = 0 => after[n + 1].list
    <2>1. CASE d = 0
      <3> DEFINE turn == Turn("user", <<result>>, TRUE)
      <3>1. /\ turn \in TurnOf /\ turn.role = "user" /\ turn.parts = <<result>> /\ turn.list
        <4>1. "user" \in Speaker
          BY DEF Speaker
        <4> HIDE DEF Part, Speaker
        <4> QED
          BY <4>1 DEF Turn, TurnOf
      <3>2. after = Append(turns, turn) /\ n = Len(turns)
        BY <1>1, <2>1 DEF Gathered
      <3> HIDE DEF turn
      <3>3. /\ after \in Seq(TurnOf) /\ Len(after) = n + 1 /\ DOMAIN after = 1 .. n + 1
            /\ \A i \in 1 .. n : after[i] = turns[i]
            /\ after[n + 1] = turn
        <4>1. turn \in TurnOf
          BY <3>1
        <4>2. /\ Append(turns, turn) \in Seq(TurnOf)
              /\ Len(Append(turns, turn)) = Len(turns) + 1
              /\ DOMAIN Append(turns, turn) = 1 .. Len(turns) + 1
              /\ \A i \in 1 .. Len(turns) : Append(turns, turn)[i] = turns[i]
              /\ Append(turns, turn)[Len(turns) + 1] = turn
          BY <4>1, TurnsLonger
        <4> QED
          BY <3>2, <4>2, Zenon
      <3>4. \A k \in 1 .. 0 + 1 : k = 1
        OBVIOUS
      <3>5. Results(turn, calls, d + 1, key)
        BY <2>1, <3>1, <3>4 DEF Results
      <3> QED
        BY <2>1, <3>1, <3>3, <3>5
    <2>2. CASE d # 0
      <3> DEFINE last == turns[n + 1]
                 turn == [last EXCEPT !.parts = Append(@, result)]
      <3>1. n + 1 = Len(turns) /\ Results(last, calls, d, key) /\ after = Merged(turns, result)
        BY <1>0, <1>1, <2>2 DEF Gathered
      <3>2. last \in TurnOf /\ turns # <<>>
        BY <1>2, <3>1, ElementOfSeq, EmptySeq
      <3>3. /\ after \in Seq(TurnOf) /\ Len(after) = n + 1
            /\ \A i \in 1 .. (n + 1) - 1 : after[i] = turns[i]
            /\ after[n + 1] = turn
        <4>1. /\ Merged(turns, result) \in Seq(TurnOf)
              /\ Len(Merged(turns, result)) = Len(turns)
              /\ \A i \in 1 .. Len(turns) - 1 : Merged(turns, result)[i] = turns[i]
              /\ Merged(turns, result)[Len(turns)] =
                    [turns[Len(turns)] EXCEPT !.parts = Append(@, result)]
          BY <3>2, HeardMerged
        <4> QED
          BY <3>1, <4>1, Zenon
      <3>4. /\ turn.role = last.role /\ turn.list = last.list
            /\ turn.parts = Append(last.parts, result) /\ last.parts \in Seq(Part)
        BY <3>2 DEF TurnOf
      <3>5. last = turns[n + 1]
        OBVIOUS
      <3> HIDE DEF last, turn
      <3>6. /\ Len(last.parts) = d /\ last.role = "user"
            /\ \A k \in 1 .. d : last.parts[k].is = "result" /\ last.parts[k].of = calls[k][key]
        BY <3>1 DEF Results
      <3>7. /\ Len(turn.parts) = d + 1
            /\ \A k \in 1 .. d : turn.parts[k] = last.parts[k]
            /\ turn.parts[d + 1] = result
        BY <3>4, <3>6, AppendProperties
      <3>8. \A k \in 1 .. d + 1 : k \in 1 .. d \/ k = d + 1
        OBVIOUS
      <3>9. Results(turn, calls, d + 1, key)
        BY <3>4, <3>6, <3>7, <3>8 DEF Results
      <3>10. DOMAIN after = 1 .. n + 1 /\ (n + 1) - 1 = n
        BY <1>2, <3>3, LenProperties
      <3> QED
        BY <2>2, <3>3, <3>4, <3>5, <3>9, <3>10
    <2> QED
      BY <2>1, <2>2
  <1>4. GroupedBefore(after, n, key)
    <2> SUFFICES ASSUME NEW i \in 1 .. n - 1, HasCalls(after[i])
                 PROVE  Paired(after[i], after[i + 1], key)
      BY DEF GroupedBefore
    <2>1. i \in 1 .. n /\ i + 1 \in 1 .. n
      BY <1>2
    <2>2. after[i] = turns[i] /\ after[i + 1] = turns[i + 1]
      BY <1>3, <2>1
    <2> QED
      BY <1>1, <2>2 DEF GroupedBefore
  <1>5. Pending(after, calls, d + 1, key)
    <2>1. n \in 1 .. n + 1 /\ n = (n + 1) - 1 /\ d + 1 # 0 /\ n \in 1 .. n
      BY <1>2
    <2> QED
      BY <1>1, <1>3, <1>4, <2>1 DEF Pending
  <1>6. Last(after) = after[n + 1] /\ after # <<>>
    <2>1. Len(after) = n + 1 /\ n + 1 # 0
      BY <1>2, <1>3
    <2>2. Last(after) = after[n + 1]
      BY <2>1 DEF Last
    <2> QED
      BY <2>1, <2>2, EmptySeq
  <1>7. d # 0 => Last(turns) = turns[n + 1]
    BY <1>0, <1>1 DEF Last
  <1>8. (d # 0 => Collecting(turns)) => Collecting(after)
    BY <1>3, <1>6, <1>7 DEF Results, Collecting
  <1> QED
    BY <1>5, <1>8

\* With the last result the turns are grouped.
LEMMA PendingEnds ==
  ASSUME NEW turns \in Seq(TurnOf), NEW calls, Len(calls) \in Nat \ {0}, NEW key,
         Pending(turns, calls, Len(calls), key)
  PROVE  Grouped(turns, key)
  <1> DEFINE d == Len(calls)
  <1>0. Len(turns) \in Nat /\ DOMAIN turns = 1 .. Len(turns) /\ d \in Nat /\ d > 0
    BY LenProperties
  <1> HIDE DEF d
  <1>1. PICK n \in 1 .. Len(turns) :
           /\ n = Len(turns) - 1
           /\ Carries(turns[n], calls)
           /\ Results(turns[n + 1], calls, d, key)
           /\ GroupedBefore(turns, n, key)
    BY <1>0 DEF Pending, d
  <1>2. Paired(turns[n], turns[n + 1], key)
    <2> DEFINE turn == turns[n]
               next == turns[n + 1]
    <2>1. PICK spoken \in 0 .. 1 :
             /\ Len(turn.parts) = spoken + d
             /\ \A j \in 1 .. spoken : turn.parts[j].is = "text"
             /\ \A k \in 1 .. d : turn.parts[spoken + k] = CallPart(calls[k])
      BY <1>1 DEF Carries, d
    <2>2. /\ next.role = "user" /\ Len(next.parts) = d
          /\ \A k \in 1 .. d : next.parts[k].is = "result" /\ next.parts[k].of = calls[k][key]
      BY <1>1 DEF Results
    <2>3. DOMAIN turn.parts = 1 .. spoken + d /\ DOMAIN next.parts = 1 .. d
      <3>1. turns[n] \in TurnOf /\ turns[n + 1] \in TurnOf
        BY <1>0, <1>1, ElementOfSeq
      <3>2. turn.parts \in Seq(Part) /\ next.parts \in Seq(Part)
        BY <3>1 DEF TurnOf
      <3> QED
        BY <2>1, <2>2, <3>2, LenProperties
    <2> HIDE DEF turn, next
    <2>4. \A k \in 1 .. d : /\ turn.parts[spoken + k].is = "call"
                            /\ turn.parts[spoken + k].call = calls[k]
      <3>1. \A k \in 1 .. d : turn.parts[spoken + k] = CallPart(calls[k])
        BY <2>1
      <3>2. \A k \in 1 .. d : CallPart(calls[k]).is = "call" /\ CallPart(calls[k]).call = calls[k]
        BY DEF CallPart
      <3> QED
        BY ONLY <3>1, <3>2
    <2>5. ASSUME NEW j \in 1 .. spoken + d
          PROVE  turn.parts[j].is = IF j <= spoken THEN "text" ELSE "call"
      <3>1. CASE j <= spoken
        BY <2>1, <3>1
      <3>2. CASE ~ (j <= spoken)
        <4>1. j - spoken \in 1 .. d /\ spoken + (j - spoken) = j
          BY <1>0, <3>2
        <4> QED
          BY <2>4, <3>2, <4>1
      <3> QED
        BY <3>1, <3>2
    <2>6. \A k \in 1 .. d : next.parts[k].of = turn.parts[spoken + k].call[key]
      BY <2>2, <2>4
    <2>7. Paired(turn, next, key)
      BY <2>1, <2>2, <2>3, <2>5, <2>6, ZenonT(30) DEF Paired
    <2> QED
      BY <2>7 DEF turn, next
  <1>3. ASSUME NEW i \in 1 .. Len(turns), HasCalls(turns[i])
        PROVE  i < Len(turns) /\ Paired(turns[i], turns[i + 1], key)
    <2>1. i \in 1 .. n - 1 \/ i = n \/ i = n + 1
      <3>1. n = Len(turns) - 1 /\ n \in Int
        BY <1>1
      <3>2. i \in 1 .. n + 1
        BY <1>0, <3>1
      <3> QED
        BY <3>1, <3>2
    <2>2. CASE i \in 1 .. n - 1
      BY <1>0, <1>1, <1>3, <2>2 DEF GroupedBefore
    <2>3. CASE i = n
      BY <1>0, <1>1, <1>2, <2>3
    <2>4. i # n + 1
      <3>1. SUFFICES ASSUME i = n + 1 PROVE FALSE
        OBVIOUS
      <3>2. PICK j \in DOMAIN turns[n + 1].parts : turns[n + 1].parts[j].is = "call"
        BY <1>3, <3>1 DEF HasCalls
      <3>3. turns[n + 1] \in TurnOf
        BY <3>1, ElementOfSeq
      <3>4. turns[n + 1].parts \in Seq(Part)
        BY <3>3 DEF TurnOf
      <3>5. DOMAIN turns[n + 1].parts = 1 .. d
        BY <1>1, <3>4, LenProperties DEF Results
      <3>6. turns[n + 1].parts[j].is = "result"
        BY <1>1, <3>5 DEF Results
      <3> QED
        BY <3>2, <3>6
    <2> QED
      BY <2>1, <2>2, <2>3, <2>4
  <1> QED
    BY <1>0, <1>3 DEF Grouped

-----------------------------------------------------------------------------
(* The results of a turn's calls, together.                                *)

LEMMA TextCallsNothing ==
  ASSUME NEW role, NEW text, NEW list
  PROVE  ~ HasCalls(Turn(role, <<TextPart(text)>>, list))
  <1>1. \A j \in DOMAIN <<TextPart(text)>> : <<TextPart(text)>>[j].is = "text"
    BY DEF TextPart
  <1> QED
    BY <1>1 DEF HasCalls, Turn

LEMMA CallsCarried ==
  ASSUME NEW m \in MessageOf, NEW role, role # "user"
  PROVE  Carries(Turn(role, SpokenAndCalls(m), TRUE), m.calls)
  <1>1. PICK spoken \in 0 .. 1 :
           /\ Len(SpokenAndCalls(m)) = spoken + Len(m.calls)
           /\ \A j \in 1 .. spoken : SpokenAndCalls(m)[j] = TextPart(m.text)
           /\ \A k \in 1 .. Len(m.calls) :
                 SpokenAndCalls(m)[spoken + k] = CallPart(m.calls[k])
    BY SpokenAndCallsAre
  <1>2. TextPart(m.text).is = "text"
    BY DEF TextPart
  <1>3. \A j \in 1 .. spoken : SpokenAndCalls(m)[j].is = "text"
    BY <1>1, <1>2
  <1> DEFINE turn == Turn(role, SpokenAndCalls(m), TRUE)
  <1>4. turn.role = role /\ turn.parts = SpokenAndCalls(m)
    BY DEF Turn
  <1> HIDE DEF turn
  <1>5. Carries(turn, m.calls)
    BY <1>1, <1>3, <1>4 DEF Carries
  <1> QED
    BY <1>5 DEF turn

LEMMA SomethingOpen ==
  ASSUME NEW h \in Seq(MessageOf), NEW a, NEW d, Waiting(h, a, d)
  PROVE  Unanswered(h) # {}
  <1>1. a \in 1 .. Len(h)
    BY LenProperties DEF Waiting
  <1>2. h[a] \in MessageOf
    BY <1>1, ElementOfSeq
  <1>3. h[a].calls \in Seq(CallOf)
    BY <1>2 DEF MessageOf
  <1>4. d + 1 \in d + 1 .. Len(h[a].calls)
    BY <1>3, LenProperties DEF Waiting
  <1>5. <<a, d + 1>> \in Unanswered(h)
    BY <1>4 DEF Waiting, OpenCalls
  <1> QED
    BY <1>5

\* One result more: the next open calls wait, or nothing does.
LEMMA ResultGathered ==
  ASSUME NEW h \in Seq(MessageOf), WellSaid(h), NEW m, May(h, m), m.role = "tool",
         NEW a, NEW d, Waiting(h, a, d), NEW turns \in Seq(TurnOf), NEW key,
         Pending(turns, h[a].calls, d, key), NEW result \in Part,
         result.is = "result", result.of = h[a].calls[d + 1][key],
         NEW after \in Seq(TurnOf), after = Gathered(turns, d, result)
  PROVE  /\ \/ Unanswered(Append(h, m)) = {} /\ Grouped(after, key)
            \/ /\ Waiting(Append(h, m), a, d + 1) /\ d + 1 > 0
               /\ Pending(after, Append(h, m)[a].calls, d + 1, key)
         /\ (d # 0 => Collecting(turns)) => Collecting(after)
  <1> DEFINE calls == h[a].calls
  <1>1. /\ d \in Nat /\ Len(calls) \in Nat /\ Append(h, m)[a].calls = calls
        /\ IF d + 1 = Len(calls) THEN Unanswered(Append(h, m)) = {}
           ELSE Waiting(Append(h, m), a, d + 1)
    BY WaitingAfterResult, ZenonT(30)
  <1> HIDE DEF calls
  <1>2. Pending(turns, calls, d, key) /\ result.of = calls[d + 1][key]
    BY DEF calls
  <1>3. /\ Pending(after, calls, d + 1, key)
        /\ (d # 0 => Collecting(turns)) => Collecting(after)
    <2>1. d \in Nat
      BY <1>1
    <2> QED
      BY <1>2, <2>1, PendingGathers, Zenon
  <1>4. CASE d + 1 = Len(calls)
    <2>0. Len(calls) \in Nat /\ d \in Nat
      BY <1>1
    <2>1. Len(calls) \in Nat \ {0}
      BY <1>4, <2>0
    <2>3. Pending(after, calls, Len(calls), key)
      BY <1>3, <1>4, Zenon
    <2>2. Grouped(after, key)
      BY <2>1, <2>3, PendingEnds
    <2>4. Unanswered(Append(h, m)) = {}
      BY <1>1, <1>4
    <2> QED
      BY <1>3, <2>2, <2>4
  <1>5. CASE d + 1 # Len(calls)
    <2>1. Waiting(Append(h, m), a, d + 1)
      BY <1>1, <1>5
    <2>2. Pending(after, Append(h, m)[a].calls, d + 1, key)
      BY <1>1, <1>3
    <2>3. d + 1 > 0
      BY <1>1
    <2> QED
      BY <1>3, <2>1, <2>2, <2>3
  <1> QED
    BY <1>4, <1>5

\* Anthropic: a turn collects results exactly when some are there.
SplitGroups(h) ==
  LET wire == SplitMessages(h).wire
  IN \/ Unanswered(h) = {} /\ Grouped(wire, "id")
     \/ \E a, d : /\ Waiting(h, a, d) /\ Pending(wire, h[a].calls, d, "id")
                  /\ d > 0 <=> Collecting(wire)

LEMMA SplitGathers ==
  ASSUME NEW h \in Seq(MessageOf), WellSaid(h), SplitInv(h), SplitGroups(h),
         NEW m, May(h, m)
  PROVE  SplitGroups(Append(h, m))
  <1> DEFINE acc == SplitMessages(h)
             after == SplitMessages(Append(h, m))
             result == ResultPart(m.answers, m.text)
  <1>1. m \in MessageOf /\ m.role \in Role
    BY DEF May, MessageOf
  <1>2. acc \in SplitOf /\ after = SplitStep(acc, m)
    BY <1>1, SplitGrows DEF SplitInv
  <1>3. SplitInv(Append(h, m))
    BY SplitKeeps
  <1>4. acc.wire \in Seq(TurnOf) /\ after.wire \in Seq(TurnOf)
    BY <1>3 DEF SplitInv, SplitOf
  <1>5. \/ Unanswered(h) = {} /\ Grouped(acc.wire, "id")
        \/ \E a, d : /\ Waiting(h, a, d) /\ Pending(acc.wire, h[a].calls, d, "id")
                     /\ d > 0 <=> Collecting(acc.wire)
    BY DEF SplitGroups
  <1> SUFFICES \/ Unanswered(Append(h, m)) = {} /\ Grouped(after.wire, "id")
               \/ \E a, d : /\ Waiting(Append(h, m), a, d)
                            /\ Pending(after.wire, Append(h, m)[a].calls, d, "id")
                            /\ d > 0 <=> Collecting(after.wire)
    BY DEF SplitGroups
  <1> HIDE DEF acc, after
  <1>6. CASE m.role = "system"
    <2>1. after.wire = acc.wire
      BY <1>2, <1>6, SplitStepIs, ZenonT(30)
    <2>2. m.calls = <<>> /\ m.role # "tool"
      BY <1>6 DEF May, Told, Answered, Replied
    <2>3. CASE Unanswered(h) = {} /\ Grouped(acc.wire, "id")
      BY <2>1, <2>2, <2>3, OpenAfterText
    <2>4. ASSUME NEW a, NEW d, Waiting(h, a, d), Pending(acc.wire, h[a].calls, d, "id"),
                 d > 0 <=> Collecting(acc.wire)
          PROVE  /\ Waiting(Append(h, m), a, d)
                 /\ Pending(after.wire, Append(h, m)[a].calls, d, "id")
                 /\ d > 0 <=> Collecting(after.wire)
      BY <2>1, <2>2, <2>4, WaitingAfterText
    <2> QED
      BY <1>5, <2>3, <2>4
  <1>7. CASE m.role = "tool"
    <2>1. Unanswered(h) # {}
      BY <1>7 DEF May, Told, Answered, Replied
    <2>2. PICK a, d : /\ Waiting(h, a, d) /\ Pending(acc.wire, h[a].calls, d, "id")
                      /\ d > 0 <=> Collecting(acc.wire)
      BY <1>5, <2>1
    <2>3. d \in Nat /\ m.answers = <<a, d + 1>> /\ m.answers \in Asked(h)
      BY <1>7, <2>2, WaitingAfterResult DEF May, Told, Answered, Replied, Unanswered
    <2>4. result \in Part /\ result.is = "result" /\ result.of = m.answers
      <3>1. m.answers \in Id \cup ToolNames
        BY <1>1 DEF MessageOf
      <3> QED
        BY <1>1, <3>1, ResultTypes DEF ResultPart
    <2>5. h[a].calls[d + 1]["id"] = m.answers
      <3>1. m.answers[1] = a /\ m.answers[2] = d + 1
        BY <2>3
      <3>2. a \in DOMAIN h /\ d + 1 \in DOMAIN h[a].calls
        BY <2>3, <3>1, AskedPlaces
      <3> QED
        BY <2>3, <3>2 DEF WellSaid
    <2>6. after.wire = IF Collecting(acc.wire) THEN Merged(acc.wire, result)
                       ELSE Append(acc.wire, Turn("user", <<result>>, TRUE))
      BY <1>2, <1>7, SplitStepIs, ZenonT(30)
    <2> HIDE DEF result
    <2>7. after.wire = Gathered(acc.wire, d, result)
      <3>1. CASE d = 0
        <4>1. ~ Collecting(acc.wire)
          BY <2>2, <3>1
        <4> QED
          BY <2>6, <3>1, <4>1, Zenon DEF Gathered
      <3>2. CASE d # 0
        <4>1. Collecting(acc.wire)
          BY <2>2, <2>3, <3>2
        <4> QED
          BY <2>6, <3>2, <4>1, Zenon DEF Gathered
      <3> QED
        BY <3>1, <3>2
    <2>8. /\ \/ Unanswered(Append(h, m)) = {} /\ Grouped(after.wire, "id")
             \/ /\ Waiting(Append(h, m), a, d + 1) /\ d + 1 > 0
                /\ Pending(after.wire, Append(h, m)[a].calls, d + 1, "id")
          /\ (d # 0 => Collecting(acc.wire)) => Collecting(after.wire)
      <3>1. Pending(acc.wire, h[a].calls, d, "id") /\ result.of = h[a].calls[d + 1]["id"]
        BY <2>2, <2>4, <2>5
      <3>2. Waiting(h, a, d)
        BY <2>2
      <3> QED
        BY <1>4, <1>7, <2>4, <2>7, <3>1, <3>2, ResultGathered, ZenonT(30)
    <2>9. Collecting(after.wire)
      <3>1. d # 0 => Collecting(acc.wire)
        BY <2>2, <2>3
      <3> QED
        BY <2>8, <3>1
    <2> QED
      BY <2>8, <2>9
  <1>8. CASE m.role = "user" \/ (m.role = "assistant" /\ m.calls = <<>>)
    <2> DEFINE turn == Turn(m.role, <<TextPart(m.text)>>, FALSE)
    <2>1. after.wire = Append(acc.wire, turn)
      BY <1>2, <1>8, SplitStepIs, ZenonT(30)
    <2>2. Unanswered(h) = {} /\ m.calls = <<>> /\ m.role # "tool"
      BY <1>8 DEF May, Told, Answered, Replied
    <2>3. Grouped(acc.wire, "id")
      BY <1>5, <2>2, SomethingOpen
    <2>4. turn \in TurnOf /\ ~ HasCalls(turn)
      <3>1. m.role \in Speaker /\ <<TextPart(m.text)>> \in Seq(Part) /\ FALSE \in BOOLEAN
        BY <1>1, <1>8, TextTypes DEF Speaker
      <3> QED
        BY <3>1, TextCallsNothing DEF Turn, TurnOf
    <2> HIDE DEF turn
    <2>5. Grouped(after.wire, "id")
      BY <1>4, <2>1, <2>3, <2>4, GroupedText
    <2> QED
      BY <2>2, <2>5, OpenAfterText
  <1>9. CASE m.role = "assistant" /\ m.calls # <<>>
    <2> DEFINE turn == Turn("assistant", SpokenAndCalls(m), TRUE)
               a == Len(h) + 1
    <2>1. after.wire = Append(acc.wire, turn)
      BY <1>2, <1>9, SplitStepIs, ZenonT(30)
    <2>2. /\ Unanswered(h) = {} /\ Waiting(Append(h, m), a, 0)
          /\ Append(h, m)[a].calls = m.calls
      BY <1>9, OpenAfterCalls
    <2>3. Grouped(acc.wire, "id")
      BY <1>5, <2>2, SomethingOpen
    <2>4. turn \in TurnOf /\ turn.role = "assistant"
      <3>1. "assistant" \in Speaker /\ SpokenAndCalls(m) \in Seq(Part) /\ TRUE \in BOOLEAN
        BY <1>1, SpokenAndCallsAre DEF Speaker
      <3> QED
        BY <3>1 DEF Turn, TurnOf
    <2>5. Carries(turn, m.calls)
      BY <1>1, CallsCarried
    <2> HIDE DEF turn, a
    <2>6. Pending(after.wire, m.calls, 0, "id")
      BY <1>4, <2>1, <2>3, <2>4, <2>5, PendingBegins
    <2>7. ~ Collecting(after.wire)
      <3>1. Last(after.wire) = turn
        BY <1>4, <2>1, <2>4, TurnsLonger DEF Last
      <3> QED
        BY <2>4, <3>1 DEF Collecting
    <2>8. 0 > 0 <=> Collecting(after.wire)
      BY <2>7
    <2> QED
      BY <2>2, <2>6, <2>8
  <1> QED
    BY <1>1, <1>6, <1>7, <1>8, <1>9 DEF Role

\* Gemini: the turn that collects is known exactly when some results are there.
ContentsGroups(h) ==
  LET contents == ToContents(h).contents
  IN \/ Unanswered(h) = {} /\ Grouped(contents, "name")
     \/ \E a, d : /\ Waiting(h, a, d) /\ Pending(contents, h[a].calls, d, "name")
                  /\ d > 0 <=> ToContents(h).toolTurn # 0

LEMMA ContentsGathers ==
  ASSUME NEW h \in Seq(MessageOf), WellSaid(h), ContentsInv(h), ContentsGroups(h),
         NEW m, May(h, m)
  PROVE  ContentsGroups(Append(h, m))
  <1> DEFINE acc == ToContents(h)
             after == ToContents(Append(h, m))
             result == ResultPart(NameOf(acc.callNames, m.answers), m.text)
  <1>1. m \in MessageOf /\ m.role \in Role
    BY DEF May, MessageOf
  <1>2. /\ acc \in ContentsOf /\ after = ContentsStep(acc, m) /\ Known(h, acc.callNames)
        /\ acc.toolTurn # 0 => acc.toolTurn = Len(acc.contents)
    BY <1>1, ContentsGrow DEF ContentsInv
  <1>3. ContentsInv(Append(h, m))
    BY ContentsKeeps
  <1>4. acc.contents \in Seq(TurnOf) /\ after.contents \in Seq(TurnOf)
    BY <1>3 DEF ContentsInv, ContentsOf
  <1>5. \/ Unanswered(h) = {} /\ Grouped(acc.contents, "name")
        \/ \E a, d : /\ Waiting(h, a, d) /\ Pending(acc.contents, h[a].calls, d, "name")
                     /\ d > 0 <=> acc.toolTurn # 0
    BY DEF ContentsGroups
  <1> SUFFICES \/ Unanswered(Append(h, m)) = {} /\ Grouped(after.contents, "name")
               \/ \E a, d : /\ Waiting(Append(h, m), a, d)
                            /\ Pending(after.contents, Append(h, m)[a].calls, d, "name")
                            /\ d > 0 <=> after.toolTurn # 0
    BY DEF ContentsGroups
  <1>6. result = ResultPart(NameOf(acc.callNames, m.answers), m.text)
    OBVIOUS
  <1> HIDE DEF acc, after, result
  <1>7. Stepped(acc, m, result, after)
    BY <1>2, <1>6, ContentsStepIs
  <1>8. CASE m.role = "system"
    <2>1. after.contents = acc.contents /\ after.toolTurn = acc.toolTurn
      BY <1>7, <1>8 DEF Stepped
    <2>2. m.calls = <<>> /\ m.role # "tool"
      BY <1>8 DEF May, Told, Answered, Replied
    <2>3. CASE Unanswered(h) = {} /\ Grouped(acc.contents, "name")
      BY <2>1, <2>2, <2>3, OpenAfterText
    <2>4. ASSUME NEW a, NEW d, Waiting(h, a, d), Pending(acc.contents, h[a].calls, d, "name"),
                 d > 0 <=> acc.toolTurn # 0
          PROVE  /\ Waiting(Append(h, m), a, d)
                 /\ Pending(after.contents, Append(h, m)[a].calls, d, "name")
                 /\ d > 0 <=> after.toolTurn # 0
      BY <2>1, <2>2, <2>4, WaitingAfterText
    <2> QED
      BY <1>5, <2>3, <2>4
  <1>9. CASE m.role = "tool"
    <2>1. Unanswered(h) # {}
      BY <1>9 DEF May, Told, Answered, Replied
    <2>2. PICK a, d : /\ Waiting(h, a, d) /\ Pending(acc.contents, h[a].calls, d, "name")
                      /\ d > 0 <=> acc.toolTurn # 0
      BY <1>5, <2>1
    <2>3. d \in Nat /\ m.answers = <<a, d + 1>> /\ m.answers \in Asked(h)
      BY <1>9, <2>2, WaitingAfterResult DEF May, Told, Answered, Replied, Unanswered
    <2>4. m.answers[1] = a /\ m.answers[2] = d + 1
      BY <2>3
    <2>5. NameOf(acc.callNames, m.answers) = h[a].calls[d + 1]["name"]
      BY <1>2, <2>3, <2>4, NameKnown
    <2>6. result \in Part /\ result.is = "result" /\ result.of = h[a].calls[d + 1]["name"]
      <3>1. h[a].calls \in Seq(CallOf) /\ a \in DOMAIN h /\ d + 1 \in DOMAIN h[a].calls
        BY <1>9, <2>2, <2>3, <2>4, WaitingAfterResult, AskedPlaces
      <3>2. h[a].calls[d + 1] \in CallOf
        BY <3>1, ElementOfSeq, LenProperties
      <3>3. NameOf(acc.callNames, m.answers) \in Id \cup ToolNames
        BY <2>5, <3>2 DEF CallOf
      <3>4. result \in Part
        BY <1>1, <1>6, <3>3, ResultTypes
      <3>5. result.is = "result" /\ result.of = NameOf(acc.callNames, m.answers)
        BY <1>6 DEF ResultPart
      <3> QED
        BY <2>5, <3>4, <3>5
    <2>7. /\ after.contents = Gathered(acc.contents, d, result)
          /\ after.toolTurn # 0
      <3>1. CASE d = 0
        <4>1. acc.toolTurn = 0
          BY <2>2, <3>1
        <4>2. /\ after.contents = Append(acc.contents, Turn("user", <<result>>, TRUE))
              /\ after.toolTurn = Len(acc.contents) + 1
          BY <1>7, <1>9, <4>1 DEF Stepped
        <4>3. Len(acc.contents) \in Nat
          BY <1>4, LenProperties
        <4>4. after.toolTurn # 0
          BY <4>2, <4>3
        <4> QED
          BY <3>1, <4>2, <4>4, Zenon DEF Gathered
      <3>2. CASE d # 0
        <4>1. acc.toolTurn # 0
          BY <2>2, <2>3, <3>2
        <4>2. /\ after.contents = MergedAt(acc.contents, acc.toolTurn, result)
              /\ after.toolTurn = acc.toolTurn
          BY <1>7, <1>9, <4>1 DEF Stepped
        <4>3. after.contents = Merged(acc.contents, result)
          BY <1>2, <4>1, <4>2 DEF MergedAt, Merged
        <4> QED
          BY <3>2, <4>1, <4>2, <4>3, Zenon DEF Gathered
      <3> QED
        BY <3>1, <3>2
    <2>8. \/ Unanswered(Append(h, m)) = {} /\ Grouped(after.contents, "name")
          \/ /\ Waiting(Append(h, m), a, d + 1) /\ d + 1 > 0
             /\ Pending(after.contents, Append(h, m)[a].calls, d + 1, "name")
      <3>1. Pending(acc.contents, h[a].calls, d, "name") /\ Waiting(h, a, d)
        BY <2>2
      <3> QED
        BY <1>4, <1>9, <2>6, <2>7, <3>1, ResultGathered, Zenon
    <2> QED
      BY <2>7, <2>8
  <1>10. CASE m.role = "user" \/ (m.role = "assistant" /\ m.calls = <<>>)
    <2> DEFINE turn == Turn(GeminiName(m), <<TextPart(m.text)>>, TRUE)
    <2>1. after.contents = Append(acc.contents, turn)
      BY <1>7, <1>10 DEF Stepped
    <2>2. Unanswered(h) = {} /\ m.calls = <<>> /\ m.role # "tool"
      BY <1>10 DEF May, Told, Answered, Replied
    <2>3. Grouped(acc.contents, "name")
      BY <1>5, <2>2, SomethingOpen
    <2>4. turn \in TurnOf /\ ~ HasCalls(turn)
      <3>1. GeminiName(m) \in Speaker /\ <<TextPart(m.text)>> \in Seq(Part) /\ TRUE \in BOOLEAN
        BY <1>1, TextTypes DEF Speaker, GeminiName
      <3> QED
        BY <3>1, TextCallsNothing DEF Turn, TurnOf
    <2> HIDE DEF turn
    <2>5. Grouped(after.contents, "name")
      BY <1>4, <2>1, <2>3, <2>4, GroupedText
    <2> QED
      BY <2>2, <2>5, OpenAfterText
  <1>11. CASE m.role = "assistant" /\ m.calls # <<>>
    <2> DEFINE turn == Turn("model", SpokenAndCalls(m), TRUE)
               a == Len(h) + 1
    <2>1. after.contents = Append(acc.contents, turn) /\ after.toolTurn = 0
      BY <1>7, <1>11 DEF Stepped
    <2>2. /\ Unanswered(h) = {} /\ Waiting(Append(h, m), a, 0)
          /\ Append(h, m)[a].calls = m.calls
      BY <1>11, OpenAfterCalls
    <2>3. Grouped(acc.contents, "name")
      BY <1>5, <2>2, SomethingOpen
    <2>4. turn \in TurnOf
      <3>1. "model" \in Speaker /\ SpokenAndCalls(m) \in Seq(Part) /\ TRUE \in BOOLEAN
        BY <1>1, SpokenAndCallsAre DEF Speaker
      <3> QED
        BY <3>1 DEF Turn, TurnOf
    <2>5. Carries(turn, m.calls)
      BY <1>1, CallsCarried
    <2> HIDE DEF turn, a
    <2>6. Pending(after.contents, m.calls, 0, "name")
      BY <1>4, <2>1, <2>3, <2>4, <2>5, PendingBegins
    <2>7. 0 > 0 <=> after.toolTurn # 0
      BY <2>1
    <2> QED
      BY <2>2, <2>6, <2>7
  <1> QED
    BY <1>1, <1>8, <1>9, <1>10, <1>11 DEF Role

GroupInv == ConversationInv /\ SplitGroups(history) /\ ContentsGroups(history)

LEMMA GroupHolds ==
  ASSUME GroupInv, [Next]_vars PROVE GroupInv'
  <1>1. ConversationInv'
    BY ConversationHolds DEF GroupInv
  <1>2. CASE UNCHANGED history
    BY <1>1, <1>2 DEF GroupInv
  <1>3. ASSUME NEW m, May(history, m), history' = Append(history, m)
        PROVE  GroupInv'
    <2>1. /\ history \in Seq(MessageOf) /\ WellSaid(history)
          /\ SplitInv(history) /\ ContentsInv(history)
          /\ SplitGroups(history) /\ ContentsGroups(history)
      BY DEF GroupInv, ConversationInv, HistoryInv
    <2>2. SplitGroups(Append(history, m)) /\ ContentsGroups(Append(history, m))
      BY <1>3, <2>1, SplitGathers, ContentsGathers
    <2> QED
      BY <1>1, <1>3, <2>2 DEF GroupInv
  <1> QED
    BY <1>2, <1>3, HistoryMoves DEF GroupInv, ConversationInv

\* Once every call has its result, however results and instructions were mixed,
\* both formats that demand it have the results of one turn's calls in the very
\* next turn, all of them, in the order of the calls.
THEOREM ResultsStandTogether == Spec => []ResultsTogether
  <1>1. Init => GroupInv
    <2> SUFFICES ASSUME Init PROVE GroupInv
      OBVIOUS
    <2>1. history = <<>>
      BY DEF Init
    <2>2. ConversationInv
      <3>1. HistoryInv
        BY <2>1, EmptySeq DEF HistoryInv, WellSaid
      <3> QED
        BY <2>1, <3>1, NothingSaid DEF ConversationInv
    <2>3. Unanswered(<<>>) = {}
      BY EmptySeq DEF Unanswered, Asked
    <2>4. SplitMessages(<<>>).wire = <<>> /\ ToContents(<<>>).contents = <<>>
      BY SplitGrows, ContentsGrow DEF NothingSplit, NoContents
    <2>5. Grouped(<<>>, "id") /\ Grouped(<<>>, "name")
      BY EmptySeq DEF Grouped
    <2>6. SplitGroups(<<>>) /\ ContentsGroups(<<>>)
      BY <2>3, <2>4, <2>5 DEF SplitGroups, ContentsGroups
    <2> QED
      BY <2>1, <2>2, <2>6 DEF GroupInv
  <1>2. GroupInv /\ [Next]_vars => GroupInv'
    BY GroupHolds
  <1>3. GroupInv => ResultsTogether
    <2> SUFFICES ASSUME GroupInv, Unanswered(history) = {}
                 PROVE  /\ Grouped(SplitMessages(history).wire, "id")
                        /\ Grouped(ToContents(history).contents, "name")
      BY DEF ResultsTogether
    <2>1. history \in Seq(MessageOf)
      BY DEF GroupInv, ConversationInv, HistoryInv
    <2> QED
      BY <2>1, SomethingOpen DEF GroupInv, SplitGroups, ContentsGroups
  <1> QED
    BY <1>1, <1>2, <1>3, PTL DEF Spec
=============================================================================
