------------------------------ MODULE Payloads ------------------------------
(***************************************************************************)
(* What the harness keeps on disk.  Every stored object is a dataclass     *)
(* with a to_payload and a from_payload; the payload goes through          *)
(* json.dumps and json.loads.  Both directions are written by hand, field  *)
(* by field, so a class is given here as data: a schema is a function from *)
(* the keys of the payload to what from_payload does with the value there. *)
(*                                                                         *)
(* A JSON value is a pair of its kind and its content.  A text is one      *)
(* letter or a word of a vocabulary; a float is a number like an int.      *)
(***************************************************************************)
EXTENDS Integers, Sequences, TLC

NullValue == <<"null", 0>>
Text(s) == <<"text", s>>
Num(n) == <<"num", n>>
Flag(b) == <<"flag", b>>
List(s) == <<"list", s>>
Object(f) == <<"object", f>>
Refused == <<"refused", 0>>  \* an exception: KeyError, TypeError or ValueError

KindOf(v) == v[1]

(***************************************************************************)
(* What is made of a value: str(v), v itself, int(v) or float(v), bool(v), *)
(* a member of an enumeration, from_payload(dict(v)) and from_payload(v),  *)
(* one of them per item of a list, one per entry of a mapping, dict(v).    *)
(***************************************************************************)
TextOf(words) == [to |-> "text", of |-> words]
AText == TextOf(<<"a", "b">>)
AsItIs == [to |-> "raw"]
ANumber == [to |-> "number"]
ATruth == [to |-> "truth"]
Word(vocabulary) == [to |-> "word", of |-> vocabulary]
Block(schema) == [to |-> "block", of |-> schema]
Section(schema) == [to |-> "section", of |-> schema]
Each(reader) == [to |-> "each", of |-> reader]
Entries(reader) == [to |-> "entries", of |-> reader]
Dict == [to |-> "dict"]

(***************************************************************************)
(* Where it is looked up: data[k], data.get(k, default), and either one    *)
(* guarded by "None if data[k] is None else".  A spare key is only written *)
(* when its value is not the default.                                      *)
(***************************************************************************)
Key(reader) ==
    [read |-> reader, absent |-> Refused, orNone |-> FALSE, spare |-> FALSE]
Get(reader, default) == [Key(reader) EXCEPT !.absent = default]
OrNone(field) == [field EXCEPT !.orNone = TRUE]
Spare(field) == [field EXCEPT !.spare = TRUE]
Derived == Get([to |-> "derived"], NullValue)  \* written, never read back

Str == Key(AText)
StrOr(s) == Get(AText, Text(s))
Number == Key(ANumber)
MaybeNumber == OrNone(Get(ANumber, NullValue))
Maybe == Get(AsItIs, NullValue)
Strs == Get(Each(AText), List(<<>>))
StrsKey == Key(Each(AText))

(***************************************************************************)
(* The conversions of Python that from_payload leans on.                   *)
(***************************************************************************)
AsText(v) ==
    CASE KindOf(v) = "text" -> v
      [] KindOf(v) = "null" -> Text("None")
      [] OTHER -> Text(ToString(v[2]))

\* A faulty AsNumber for the mutant check: int() and float() left out.
AsNumberCopied(v) == v

AsNumber(v) ==
    CASE KindOf(v) = "num" -> v
      [] KindOf(v) = "flag" -> Num(IF v[2] THEN 1 ELSE 0)
      [] OTHER -> Refused

AsTruth(v) ==
    CASE KindOf(v) = "flag" -> v
      [] KindOf(v) = "num" -> Flag(v[2] # 0)
      [] KindOf(v) = "text" -> Flag(v[2] # "")
      [] KindOf(v) = "list" -> Flag(v[2] # <<>>)
      [] OTHER -> Flag(KindOf(v) = "object")

Items(v) ==  \* what a for loop sees: of a text, its letters
    CASE KindOf(v) = "list" -> v
      [] KindOf(v) = "text" -> List(<<v>>)
      [] OTHER -> Refused

AsDict(v) == IF v = List(<<>>) THEN Object(<<>>) ELSE v

(***************************************************************************)
(* What a reader makes of a value that holds others: which of them it      *)
(* looks at, with what, and what it is given there.  A schema's keys are   *)
(* all looked at; of a list or a mapping, what is there.                   *)
(***************************************************************************)
Nested(reader) == reader.to \in {"block", "section", "each", "entries"}
OfFields(reader) == reader.to \in {"block", "section"}
Holder(reader) == IF reader.to = "each" THEN "list" ELSE "object"

Opened(reader, v) ==
    CASE reader.to = "block" -> AsDict(v)
      [] reader.to = "each" -> Items(v)
      [] OTHER -> v
Opens(reader, v) == Nested(reader) /\ KindOf(Opened(reader, v)) = Holder(reader)

Places(reader, v) ==
    IF ~ Opens(reader, v) THEN {}
    ELSE IF OfFields(reader) THEN DOMAIN reader.of
    ELSE DOMAIN Opened(reader, v)[2]
Inner(reader, k) == IF OfFields(reader) THEN reader.of[k].read ELSE reader.of
Given(reader, v, k) ==
    LET there == Opened(reader, v)[2]
    IN IF OfFields(reader) /\ k \notin DOMAIN there THEN reader.of[k].absent
       ELSE there[k]

NoneHere(reader, given, k) ==
    OfFields(reader) /\ given = NullValue /\ reader.of[k].orNone

\* A faulty Skipped for the mutant check: "None if ... is None" left out.
SkippedMissing(reader, given, k) == given = Refused

\* A missing key refuses the object; a None may be left as it is.
Skipped(reader, given, k) == given = Refused \/ NoneHere(reader, given, k)

(***************************************************************************)
(* from_payload: every key is converted; an exception refuses it all.      *)
(* A conversion is given the one for what is inside a value, a level       *)
(* deeper: no class goes deeper than five, a matrix with its tasks with    *)
(* their lists of commands.                                                *)
(***************************************************************************)
Whole(holder, parts) ==
    IF \E k \in DOMAIN parts : parts[k] = Refused THEN Refused ELSE <<holder, parts>>

Converted(reader, v, parts) ==
    CASE reader.to = "text" -> AsText(v)
      [] reader.to = "raw" -> v
      [] reader.to = "number" -> AsNumber(v)
      [] reader.to = "truth" -> AsTruth(v)
      [] reader.to = "word" ->
           IF AsText(v)[2] \in reader.of THEN AsText(v) ELSE Refused
      [] reader.to = "dict" ->
           IF KindOf(AsDict(v)) = "object" THEN AsDict(v) ELSE Refused
      [] reader.to = "derived" -> NullValue
      [] OTHER -> IF Opens(reader, v) THEN Whole(Holder(reader), parts) ELSE Refused

ConvertBy(Below(_, _), reader, v) ==
    LET Part(k) == LET given == Given(reader, v, k)
                   IN IF Skipped(reader, given, k) THEN given
                      ELSE Below(Inner(reader, k), given)
    IN Converted(reader, v, [k \in Places(reader, v) |-> Part(k)])

Convert0(reader, v) == ConvertBy(LAMBDA r, w : Refused, reader, v)
Convert1(reader, v) == ConvertBy(Convert0, reader, v)
Convert2(reader, v) == ConvertBy(Convert1, reader, v)
Convert3(reader, v) == ConvertBy(Convert2, reader, v)
Convert4(reader, v) == ConvertBy(Convert3, reader, v)
Convert5(reader, v) == ConvertBy(Convert4, reader, v)

Decode(schema, v) == Convert5(Section(schema), v)

(***************************************************************************)
(* to_payload: every key under its name, spare ones only when they are not *)
(* the default; tuples become lists, members of an enumeration their       *)
(* values.  A key computed from the others, or always the same, is written *)
(* as the empty text.                                                      *)
(***************************************************************************)
Kept(reader, v) ==
    IF ~ Nested(reader) \/ v = NullValue THEN {}
    ELSE IF OfFields(reader)
    THEN {k \in DOMAIN reader.of : reader.of[k].spare => v[2][k] # reader.of[k].absent}
    ELSE DOMAIN v[2]

Written(reader, v, parts) ==
    IF reader.to = "derived" THEN Text("")
    ELSE IF ~ Nested(reader) \/ v = NullValue THEN v
    ELSE <<Holder(reader), parts>>

WriteBy(Below(_, _), reader, v) ==
    Written(reader, v, [k \in Kept(reader, v) |-> Below(Inner(reader, k), v[2][k])])

Write0(reader, v) == WriteBy(LAMBDA r, w : w, reader, v)
Write1(reader, v) == WriteBy(Write0, reader, v)
Write2(reader, v) == WriteBy(Write1, reader, v)
Write3(reader, v) == WriteBy(Write2, reader, v)
Write4(reader, v) == WriteBy(Write3, reader, v)
Write5(reader, v) == WriteBy(Write4, reader, v)

Encode(schema, v) == Write5(Section(schema), v)

(***************************************************************************)
(* A value is of the type its field is declared with, an object has the    *)
(* fields of its class.  A field copied as it is has whatever type the     *)
(* file gave it.                                                           *)
(***************************************************************************)
Shaped(reader, v) ==
    CASE reader.to = "text" -> KindOf(v) = "text"
      [] reader.to = "raw" -> v # Refused
      [] reader.to = "number" -> KindOf(v) = "num"
      [] reader.to = "truth" -> KindOf(v) = "flag"
      [] reader.to = "word" -> KindOf(v) = "text" /\ v[2] \in reader.of
      [] reader.to = "dict" -> KindOf(v) = "object"
      [] reader.to = "derived" -> v = NullValue
      [] OTHER -> /\ Nested(reader)
                  /\ KindOf(v) = Holder(reader)
                  /\ v = <<Holder(reader), [k \in DOMAIN v[2] |-> v[2][k]]>>
                  /\ OfFields(reader) => DOMAIN v[2] = DOMAIN reader.of

IsABy(Below(_, _), reader, v) ==
    /\ Shaped(reader, v)
    /\ Nested(reader) =>
          \A k \in DOMAIN v[2] :
             NoneHere(reader, v[2][k], k) \/ Below(Inner(reader, k), v[2][k])

IsA0(reader, v) == IsABy(LAMBDA r, w : FALSE, reader, v)
IsA1(reader, v) == IsABy(IsA0, reader, v)
IsA2(reader, v) == IsABy(IsA1, reader, v)
IsA3(reader, v) == IsABy(IsA2, reader, v)
IsA4(reader, v) == IsABy(IsA3, reader, v)
IsA5(reader, v) == IsABy(IsA4, reader, v)

IsObject(schema, v) == IsA5(Section(schema), v)

(***************************************************************************)
(* A schema fits when it has no more levels than these, what it leaves out *)
(* of the file is what it reads for a missing key, None or an empty list,  *)
(* and what it never reads back is no optional value.                      *)
(***************************************************************************)
LeftOut(field) ==
    \/ field.absent = NullValue /\ field.read = AsItIs
    \/ field.absent = List(<<>>) /\ field.read.to = "each"

FitsBy(Below(_), reader) ==
    /\ OfFields(reader) =>
          \A k \in DOMAIN reader.of :
             /\ reader.of[k].spare => LeftOut(reader.of[k])
             /\ reader.of[k].orNone => reader.of[k].read.to # "derived"
             /\ Below(reader.of[k].read)
    /\ Nested(reader) /\ ~ OfFields(reader) => Below(reader.of)

Fits0(reader) == FitsBy(LAMBDA r : FALSE, reader)
Fits1(reader) == FitsBy(Fits0, reader)
Fits2(reader) == FitsBy(Fits1, reader)
Fits3(reader) == FitsBy(Fits2, reader)
Fits4(reader) == FitsBy(Fits3, reader)
Fits5(reader) == FitsBy(Fits4, reader)

Fits(schema) == Fits5(Section(schema))
=============================================================================
