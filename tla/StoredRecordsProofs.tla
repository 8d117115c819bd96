-------------------------- MODULE StoredRecordsProofs --------------------------
(***************************************************************************)
(* Proofs about StoredRecords, for any objects of the classes and any      *)
(* files: what is saved is loaded as it was, and what is loaded has the    *)
(* types of its class.  Conversions are unrolled by level, so a fact about *)
(* them is a lemma about one level, and then one lemma per level.          *)
(***************************************************************************)
EXTENDS StoredRecords, TLAPS

-----------------------------------------------------------------------------
(* Reading gives the declared types.                                       *)

\* The conversions of Python give what they are named for, or refuse.
LEMMA PythonTypes ==
  ASSUME NEW v
  PROVE  /\ KindOf(AsText(v)) = "text"
         /\ AsNumber(v) = Refused \/ KindOf(AsNumber(v)) = "num"
         /\ KindOf(AsTruth(v)) = "flag"
  BY DEF KindOf, AsText, AsNumber, AsTruth, Text, Num, Flag, Refused

\* One level: a value that is not refused is of its type, and none of what is
\* inside it was refused.
LEMMA ConvertedShaped ==
  ASSUME NEW reader, NEW v, NEW parts,
         parts = [k \in Places(reader, v) |-> parts[k]],
         Converted(reader, v, parts) # Refused
  PROVE  /\ Shaped(reader, Converted(reader, v, parts))
         /\ Nested(reader) =>
              /\ Converted(reader, v, parts) = <<Holder(reader), parts>>
              /\ \A k \in DOMAIN parts : parts[k] # Refused
  <1> DEFINE c == Converted(reader, v, parts)
  <1>1. CASE Nested(reader)
    <2>1. Opens(reader, v) /\ c = Whole(Holder(reader), parts)
      BY <1>1 DEF Converted, Nested
    <2>2. c = <<Holder(reader), parts>> /\ \A k \in DOMAIN parts : parts[k] # Refused
      BY <2>1 DEF Whole
    <2>3. OfFields(reader) => DOMAIN parts = DOMAIN reader.of
      BY <2>1 DEF Places
    <2>4. Shaped(reader, <<Holder(reader), parts>>)
      BY <1>1, <2>3 DEF Shaped, Nested, KindOf
    <2> QED
      BY <2>2, <2>4
  <1>2. CASE ~ Nested(reader)
    <2>1. ~ Opens(reader, v)
      BY <1>2 DEF Opens
    <2>2. reader.to \in {"text", "raw", "number", "truth", "word", "dict", "derived"}
      BY <2>1 DEF Converted
    <2> QED
      BY <1>2, <2>2, PythonTypes DEF Converted, Shaped, KindOf
  <1> QED
    BY <1>1, <1>2

LEMMA Typed0 ==
  ASSUME NEW r, NEW v, Convert0(r, v) # Refused
  PROVE  IsA0(r, Convert0(r, v))
  <1> DEFINE parts == [k \in Places(r, v) |->
                         IF Skipped(r, Given(r, v, k), k) THEN Given(r, v, k)
                         ELSE Refused]
             c == Converted(r, v, parts)
  <1>1. Convert0(r, v) = c
    BY DEF Convert0, ConvertBy
  <1>2. parts = [k \in Places(r, v) |-> parts[k]]
    OBVIOUS
  <1>3. \A k \in DOMAIN parts : parts[k] # Refused => NoneHere(r, parts[k], k)
    BY DEF Skipped
  <1> HIDE DEF parts
  <1>4. Shaped(r, c) /\ (Nested(r) => c[2] = parts /\ \A k \in DOMAIN parts : parts[k] # Refused)
    BY <1>1, <1>2, ConvertedShaped
  <1> QED
    BY <1>1, <1>3, <1>4 DEF IsA0, IsABy

LEMMA Typed1 ==
  ASSUME NEW r, NEW v, Convert1(r, v) # Refused
  PROVE  IsA1(r, Convert1(r, v))
  <1> DEFINE parts == [k \in Places(r, v) |->
                         IF Skipped(r, Given(r, v, k), k) THEN Given(r, v, k)
                         ELSE Convert0(Inner(r, k), Given(r, v, k))]
             c == Converted(r, v, parts)
  <1>1. Convert1(r, v) = c
    BY DEF Convert1, ConvertBy
  <1>2. parts = [k \in Places(r, v) |-> parts[k]]
    OBVIOUS
  <1>3. \A k \in DOMAIN parts : parts[k] # Refused => 
           NoneHere(r, parts[k], k) \/ IsA0(Inner(r, k), parts[k])
    BY Typed0 DEF Skipped
  <1> HIDE DEF parts
  <1>4. Shaped(r, c) /\ (Nested(r) => c[2] = parts /\ \A k \in DOMAIN parts : parts[k] # Refused)
    BY <1>1, <1>2, ConvertedShaped
  <1> QED
    BY <1>1, <1>3, <1>4 DEF IsA1, IsABy

LEMMA Typed2 ==
  ASSUME NEW r, NEW v, Convert2(r, v) # Refused
  PROVE  IsA2(r, Convert2(r, v))
  <1> DEFINE parts == [k \in Places(r, v) |->
                         IF Skipped(r, Given(r, v, k), k) THEN Given(r, v, k)
                         ELSE Convert1(Inner(r, k), Given(r, v, k))]
             c == Converted(r, v, parts)
  <1>1. Convert2(r, v) = c
    BY DEF Convert2, ConvertBy
  <1>2. parts = [k \in Places(r, v) |-> parts[k]]
    OBVIOUS
  <1>3. \A k \in DOMAIN parts : parts[k] # Refused => 
           NoneHere(r, parts[k], k) \/ IsA1(Inner(r, k), parts[k])
    BY Typed1 DEF Skipped
  <1> HIDE DEF parts
  <1>4. Shaped(r, c) /\ (Nested(r) => c[2] = parts /\ \A k \in DOMAIN parts : parts[k] # Refused)
    BY <1>1, <1>2, ConvertedShaped
  <1> QED
    BY <1>1, <1>3, <1>4 DEF IsA2, IsABy

LEMMA Typed3 ==
  ASSUME NEW r, NEW v, Convert3(r, v) # Refused
  PROVE  IsA3(r, Convert3(r, v))
  <1> DEFINE parts == [k \in Places(r, v) |->
                         IF Skipped(r, Given(r, v, k), k) THEN Given(r, v, k)
                         ELSE Convert2(Inner(r, k), Given(r, v, k))]
             c == Converted(r, v, parts)
  <1>1. Convert3(r, v) = c
    BY DEF Convert3, ConvertBy
  <1>2. parts = [k \in Places(r, v) |-> parts[k]]
    OBVIOUS
  <1>3. \A k \in DOMAIN parts : parts[k] # Refused => 
           NoneHere(r, parts[k], k) \/ IsA2(Inner(r, k), parts[k])
    BY Typed2 DEF Skipped
  <1> HIDE DEF parts
  <1>4. Shaped(r, c) /\ (Nested(r) => c[2] = parts /\ \A k \in DOMAIN parts : parts[k] # Refused)
    BY <1>1, <1>2, ConvertedShaped
  <1> QED
    BY <1>1, <1>3, <1>4 DEF IsA3, IsABy

LEMMA Typed4 ==
  ASSUME NEW r, NEW v, Convert4(r, v) # Refused
  PROVE  IsA4(r, Convert4(r, v))
  <1> DEFINE parts == [k \in Places(r, v) |->
                         IF Skipped(r, Given(r, v, k), k) THEN Given(r, v, k)
                         ELSE Convert3(Inner(r, k), Given(r, v, k))]
             c == Converted(r, v, parts)
  <1>1. Convert4(r, v) = c
    BY DEF Convert4, ConvertBy
  <1>2. parts = [k \in Places(r, v) |-> parts[k]]
    OBVIOUS
  <1>3. \A k \in DOMAIN parts : parts[k] # Refused => 
           NoneHere(r, parts[k], k) \/ IsA3(Inner(r, k), parts[k])
    BY Typed3 DEF Skipped
  <1> HIDE DEF parts
  <1>4. Shaped(r, c) /\ (Nested(r) => c[2] = parts /\ \A k \in DOMAIN parts : parts[k] # Refused)
    BY <1>1, <1>2, ConvertedShaped
  <1> QED
    BY <1>1, <1>3, <1>4 DEF IsA4, IsABy

LEMMA Typed5 ==
  ASSUME NEW r, NEW v, Convert5(r, v) # Refused
  PROVE  IsA5(r, Convert5(r, v))
  <1> DEFINE parts == [k \in Places(r, v) |->
                         IF Skipped(r, Given(r, v, k), k) THEN Given(r, v, k)
                         ELSE Convert4(Inner(r, k), Given(r, v, k))]
             c == Converted(r, v, parts)
  <1>1. Convert5(r, v) = c
    BY DEF Convert5, ConvertBy
  <1>2. parts = [k \in Places(r, v) |-> parts[k]]
    OBVIOUS
  <1>3. \A k \in DOMAIN parts : parts[k] # Refused => 
           NoneHere(r, parts[k], k) \/ IsA4(Inner(r, k), parts[k])
    BY Typed4 DEF Skipped
  <1> HIDE DEF parts
  <1>4. Shaped(r, c) /\ (Nested(r) => c[2] = parts /\ \A k \in DOMAIN parts : parts[k] # Refused)
    BY <1>1, <1>2, ConvertedShaped
  <1> QED
    BY <1>1, <1>3, <1>4 DEF IsA5, IsABy

-----------------------------------------------------------------------------
(* What was written is read back.                                          *)

\* What is inside a written value: the parts that were kept.
LEMMA PlacesOfWritten ==
  ASSUME NEW reader, NEW v, NEW below,
         below = [k \in Kept(reader, v) |-> below[k]],
         Nested(reader), Shaped(reader, v)
  PROVE  LET w == Written(reader, v, below)
         IN /\ w = <<Holder(reader), below>>
            /\ Opens(reader, w)
            /\ Opened(reader, w) = w
            /\ Places(reader, w) = DOMAIN v[2]
            /\ \A k \in DOMAIN v[2] :
                  Given(reader, w, k) = IF k \in Kept(reader, v) THEN below[k]
                                        ELSE reader.of[k].absent
  <1> DEFINE w == Written(reader, v, below)
  <1>1. /\ KindOf(v) = Holder(reader) /\ v # NullValue
        /\ OfFields(reader) => DOMAIN v[2] = DOMAIN reader.of
    BY DEF Shaped, Nested, KindOf, NullValue, Holder
  <1>2. w = <<Holder(reader), below>>
    BY <1>1 DEF Written, Nested
  <1>3. Opened(reader, w) = w
    <2>1. CASE reader.to = "block"
      BY <1>2, <2>1 DEF Opened, AsDict, List, Holder
    <2>2. CASE reader.to = "each"
      BY <1>2, <2>2 DEF Opened, Items, KindOf, Holder
    <2>3. CASE reader.to \in {"section", "entries"}
      BY <2>3 DEF Opened
    <2> QED
      BY <2>1, <2>2, <2>3 DEF Nested
  <1>4. Opens(reader, w)
    BY <1>2, <1>3 DEF Opens, KindOf
  <1>5. DOMAIN below = Kept(reader, v) /\ w[2] = below
    BY <1>2
  <1>6. ~ OfFields(reader) => Kept(reader, v) = DOMAIN v[2]
    BY <1>1 DEF Kept
  <1>7. Places(reader, w) = DOMAIN v[2]
    BY <1>1, <1>3, <1>4, <1>5, <1>6 DEF Places
  <1>8. ASSUME NEW k \in DOMAIN v[2]
        PROVE  Given(reader, w, k) = IF k \in Kept(reader, v) THEN below[k]
                                     ELSE reader.of[k].absent
    BY <1>3, <1>5, <1>6 DEF Given
  <1> QED
    BY <1>2, <1>3, <1>4, <1>7, <1>8

\* One level: what is written is no exception, None only for None, and read
\* back when everything inside it is.
LEMMA WrittenReadsBack ==
  ASSUME NEW reader, NEW v, NEW below, NEW parts,
         below = [k \in Kept(reader, v) |-> below[k]],
         parts = [k \in Places(reader, Written(reader, v, below)) |-> parts[k]],
         Shaped(reader, v),
         Nested(reader) => \A k \in DOMAIN v[2] : parts[k] = v[2][k] /\ v[2][k] # Refused
  PROVE  Converted(reader, Written(reader, v, below), parts) = v
  <1> DEFINE w == Written(reader, v, below)
  <1>1. CASE Nested(reader)
    <2>1. Opens(reader, w) /\ Places(reader, w) = DOMAIN v[2]
      BY <1>1, PlacesOfWritten
    <2>2. v = <<Holder(reader), [k \in DOMAIN v[2] |-> v[2][k]]>>
      BY <1>1 DEF Shaped, Nested
    <2>3. parts = [k \in DOMAIN v[2] |-> v[2][k]]
      BY <1>1, <2>1
    <2>4. Converted(reader, w, parts) = Whole(Holder(reader), parts)
      BY <1>1, <2>1 DEF Converted, Nested
    <2>5. \A k \in DOMAIN parts : parts[k] # Refused
      BY <1>1, <2>3
    <2> QED
      BY <2>2, <2>3, <2>4, <2>5 DEF Whole
  <1>2. CASE ~ Nested(reader)
    <2>1. w = IF reader.to = "derived" THEN Text("") ELSE v
      BY <1>2 DEF Written
    <2>2. reader.to \in {"text", "raw", "number", "truth", "word", "dict", "derived"}
      BY <1>2 DEF Shaped
    <2>3. CASE reader.to = "derived"
      BY <2>3 DEF Shaped, Converted
    <2>4. CASE reader.to = "dict"
      BY <2>1, <2>4 DEF Shaped, Converted, AsDict, List, KindOf
    <2>5. CASE reader.to \in {"text", "raw", "number", "truth", "word"}
      BY <2>1, <2>5 DEF Shaped, Converted, AsText, AsNumber, AsTruth
    <2> QED
      BY <2>2, <2>3, <2>4, <2>5
  <1> QED
    BY <1>1, <1>2

\* What is written is no exception, and None only where None was.
LEMMA WrittenIsThere ==
  ASSUME NEW reader, NEW v, NEW below, v # Refused
  PROVE  /\ Written(reader, v, below) # Refused
         /\ Written(reader, v, below) = NullValue => v = NullValue
  BY DEF Written, Refused, NullValue, Text, Holder

\* A value of its type is an object, not an exception.
LEMMA ShapedIsThere ==
  ASSUME NEW reader, NEW v, Shaped(reader, v)
  PROVE  v # Refused
  BY DEF Shaped, Refused, NullValue, KindOf, Holder

\* A key that was left out is read as what it was left out for.
LEMMA LeftOutReadsBack ==
  ASSUME NEW field, NEW parts, LeftOut(field),
         parts = [k \in Places(field.read, field.absent) |-> parts[k]]
  PROVE  /\ Converted(field.read, field.absent, parts) = field.absent
         /\ field.absent # Refused
  <1>1. CASE field.absent = NullValue /\ field.read = AsItIs
    BY <1>1 DEF Converted, AsItIs, NullValue, Refused
  <1>2. CASE field.absent = List(<<>>) /\ field.read.to = "each"
    <2>1. Opened(field.read, field.absent) = List(<<>>)
      BY <1>2 DEF Opened, Items, List, KindOf
    <2>2. Opens(field.read, field.absent)
      BY <1>2, <2>1 DEF Opens, Nested, Holder, List, KindOf
    <2>3. Places(field.read, field.absent) = {}
      BY <1>2, <2>1, <2>2 DEF Places, OfFields, List
    <2>4. parts = <<>> /\ DOMAIN parts = {}
      BY <2>3
    <2>5. Converted(field.read, field.absent, parts) = Whole("list", parts)
      BY <1>2, <2>2 DEF Converted, Holder
    <2>6. Whole("list", parts) = <<"list", parts>>
      BY <2>4 DEF Whole
    <2>7. Whole("list", parts) = List(<<>>)
      BY <2>4, <2>6 DEF List
    <2>8. List(<<>>) # Refused
      BY DEF List, Refused
    <2> QED
      BY <1>2, <2>5, <2>7, <2>8
  <1> QED
    BY <1>1, <1>2 DEF LeftOut

LEMMA LeftOut0 ==
  ASSUME NEW field, LeftOut(field)
  PROVE  Convert0(field.read, field.absent) = field.absent /\ field.absent # Refused
  <1> DEFINE parts == [k \in Places(field.read, field.absent) |->
                         IF Skipped(field.read, Given(field.read, field.absent, k), k)
                         THEN Given(field.read, field.absent, k)
                         ELSE Refused]
  <1>1. Convert0(field.read, field.absent) = Converted(field.read, field.absent, parts)
    BY DEF Convert0, ConvertBy
  <1>2. parts = [k \in Places(field.read, field.absent) |-> parts[k]]
    OBVIOUS
  <1> HIDE DEF parts
  <1> QED
    BY <1>1, <1>2, LeftOutReadsBack

LEMMA LeftOut1 ==
  ASSUME NEW field, LeftOut(field)
  PROVE  Convert1(field.read, field.absent) = field.absent /\ field.absent # Refused
  <1> DEFINE parts == [k \in Places(field.read, field.absent) |->
                         IF Skipped(field.read, Given(field.read, field.absent, k), k)
                         THEN Given(field.read, field.absent, k)
                         ELSE Convert0(Inner(field.read, k), Given(field.read, field.absent, k))]
  <1>1. Convert1(field.read, field.absent) = Converted(field.read, field.absent, parts)
    BY DEF Convert1, ConvertBy
  <1>2. parts = [k \in Places(field.read, field.absent) |-> parts[k]]
    OBVIOUS
  <1> HIDE DEF parts
  <1> QED
    BY <1>1, <1>2, LeftOutReadsBack

LEMMA LeftOut2 ==
  ASSUME NEW field, LeftOut(field)
  PROVE  Convert2(field.read, field.absent) = field.absent /\ field.absent # Refused
  <1> DEFINE parts == [k \in Places(field.read, field.absent) |->
                         IF Skipped(field.read, Given(field.read, field.absent, k), k)
                         THEN Given(field.read, field.absent, k)
                         ELSE Convert1(Inner(field.read, k), Given(field.read, field.absent, k))]
  <1>1. Convert2(field.read, field.absent) = Converted(field.read, field.absent, parts)
    BY DEF Convert2, ConvertBy
  <1>2. parts = [k \in Places(field.read, field.absent) |-> parts[k]]
    OBVIOUS
  <1> HIDE DEF parts
  <1> QED
    BY <1>1, <1>2, LeftOutReadsBack

LEMMA LeftOut3 ==
  ASSUME NEW field, LeftOut(field)
  PROVE  Convert3(field.read, field.absent) = field.absent /\ field.absent # Refused
  <1> DEFINE parts == [k \in Places(field.read, field.absent) |->
                         IF Skipped(field.read, Given(field.read, field.absent, k), k)
                         THEN Given(field.read, field.absent, k)
                         ELSE Convert2(Inner(field.read, k), Given(field.read, field.absent, k))]
  <1>1. Convert3(field.read, field.absent) = Converted(field.read, field.absent, parts)
    BY DEF Convert3, ConvertBy
  <1>2. parts = [k \in Places(field.read, field.absent) |-> parts[k]]
    OBVIOUS
  <1> HIDE DEF parts
  <1> QED
    BY <1>1, <1>2, LeftOutReadsBack

LEMMA LeftOut4 ==
  ASSUME NEW field, LeftOut(field)
  PROVE  Convert4(field.read, field.absent) = field.absent /\ field.absent # Refused
  <1> DEFINE parts == [k \in Places(field.read, field.absent) |->
                         IF Skipped(field.read, Given(field.read, field.absent, k), k)
                         THEN Given(field.read, field.absent, k)
                         ELSE Convert3(Inner(field.read, k), Given(field.read, field.absent, k))]
  <1>1. Convert4(field.read, field.absent) = Converted(field.read, field.absent, parts)
    BY DEF Convert4, ConvertBy
  <1>2. parts = [k \in Places(field.read, field.absent) |-> parts[k]]
    OBVIOUS
  <1> HIDE DEF parts
  <1> QED
    BY <1>1, <1>2, LeftOutReadsBack

LEMMA LeftOut5 ==
  ASSUME NEW field, LeftOut(field)
  PROVE  Convert5(field.read, field.absent) = field.absent /\ field.absent # Refused
  <1> DEFINE parts == [k \in Places(field.read, field.absent) |->
                         IF Skipped(field.read, Given(field.read, field.absent, k), k)
                         THEN Given(field.read, field.absent, k)
                         ELSE Convert4(Inner(field.read, k), Given(field.read, field.absent, k))]
  <1>1. Convert5(field.read, field.absent) = Converted(field.read, field.absent, parts)
    BY DEF Convert5, ConvertBy
  <1>2. parts = [k \in Places(field.read, field.absent) |-> parts[k]]
    OBVIOUS
  <1> HIDE DEF parts
  <1> QED
    BY <1>1, <1>2, LeftOutReadsBack

LEMMA ReadsBack0 ==
  ASSUME NEW r, NEW v, Fits0(r), IsA0(r, v)
  PROVE  /\ Convert0(r, Write0(r, v)) = v
         /\ Write0(r, v) # Refused
         /\ Write0(r, v) = NullValue => v = NullValue
  <1> DEFINE below == [k \in Kept(r, v) |-> v[2][k]]
             w == Written(r, v, below)
             parts == [k \in Places(r, w) |->
                         IF Skipped(r, Given(r, w, k), k) THEN Given(r, w, k)
                         ELSE Refused]
  <1>1. Write0(r, v) = w
    BY DEF Write0, WriteBy
  <1>2. Convert0(r, w) = Converted(r, w, parts)
    BY DEF Convert0, ConvertBy
  <1>3. Shaped(r, v) /\ v # Refused
    BY ShapedIsThere DEF IsA0, IsABy
  <1>4. ASSUME Nested(r), NEW k \in DOMAIN v[2]
        PROVE  parts[k] = v[2][k] /\ v[2][k] # Refused
    <2>1. NoneHere(r, v[2][k], k) /\ v[2][k] # Refused
      BY <1>4 DEF IsA0, IsABy, NoneHere, NullValue, Refused
    <2>2. /\ k \in Places(r, w)
          /\ Given(r, w, k) = IF k \in Kept(r, v) THEN below[k] ELSE r.of[k].absent
      BY <1>3, <1>4, PlacesOfWritten
    <2>3. k \in DOMAIN r.of /\ OfFields(r) /\ v # NullValue
      BY <1>3, <1>4, <2>1 DEF NoneHere, Shaped, Nested, OfFields, KindOf, Holder, NullValue
    <2>4. Given(r, w, k) = v[2][k]
      BY <1>4, <2>2, <2>3 DEF Kept
    <2> QED
      BY <2>1, <2>2, <2>4 DEF Skipped
  <1>5. below = [k \in Kept(r, v) |-> below[k]] /\ parts = [k \in Places(r, w) |-> parts[k]]
    OBVIOUS
  <1> HIDE DEF below, parts
  <1>6. Converted(r, w, parts) = v
    BY <1>3, <1>4, <1>5, WrittenReadsBack
  <1> QED
    BY <1>1, <1>2, <1>3, <1>6, WrittenIsThere

LEMMA ReadsBack1 ==
  ASSUME NEW r, NEW v, Fits1(r), IsA1(r, v)
  PROVE  /\ Convert1(r, Write1(r, v)) = v
         /\ Write1(r, v) # Refused
         /\ Write1(r, v) = NullValue => v = NullValue
  <1> DEFINE below == [k \in Kept(r, v) |-> Write0(Inner(r, k), v[2][k])]
             w == Written(r, v, below)
             parts == [k \in Places(r, w) |->
                         IF Skipped(r, Given(r, w, k), k) THEN Given(r, w, k)
                         ELSE Convert0(Inner(r, k), Given(r, w, k))]
  <1>1. Write1(r, v) = w
    BY DEF Write1, WriteBy
  <1>2. Convert1(r, w) = Converted(r, w, parts)
    BY DEF Convert1, ConvertBy
  <1>3. Shaped(r, v) /\ v # Refused
    BY ShapedIsThere DEF IsA1, IsABy
  <1>4. ASSUME Nested(r), NEW k \in DOMAIN v[2]
        PROVE  parts[k] = v[2][k] /\ v[2][k] # Refused
    <2>1. NoneHere(r, v[2][k], k) \/ IsA0(Inner(r, k), v[2][k])
      BY <1>4 DEF IsA1, IsABy
    <2>2. v[2][k] # Refused
      BY <2>1, ShapedIsThere DEF IsA0, IsABy, NoneHere, NullValue, Refused
    <2>3. /\ k \in Places(r, w)
          /\ Given(r, w, k) = IF k \in Kept(r, v) THEN below[k] ELSE r.of[k].absent
      BY <1>3, <1>4, PlacesOfWritten
    <2>4. CASE k \notin Kept(r, v)
      <3>1. OfFields(r) /\ k \in DOMAIN r.of /\ r.of[k].spare /\ v[2][k] = r.of[k].absent
        BY <1>3, <1>4, <2>4 DEF Kept, Shaped, Nested, OfFields, KindOf, Holder, NullValue
      <3>2. LeftOut(r.of[k])
        BY <3>1 DEF Fits1, FitsBy
      <3> QED
        BY <2>2, <2>3, <2>4, <3>1, <3>2, LeftOut0 DEF Inner
    <2>5. CASE k \in Kept(r, v) /\ NoneHere(r, v[2][k], k)
      <3>1. OfFields(r) /\ k \in DOMAIN r.of /\ r.of[k].orNone
        BY <1>3, <1>4, <2>5 DEF NoneHere, Shaped, Nested, OfFields
      <3>2. r.of[k].read.to # "derived" /\ Inner(r, k) = r.of[k].read
        BY <3>1 DEF Fits1, FitsBy, Inner
      <3>3. below[k] = NullValue
        BY <2>5, <3>2 DEF NoneHere, Write0, WriteBy, Written
      <3> QED
        BY <2>2, <2>3, <2>5, <3>3 DEF Skipped, NoneHere
    <2>6. CASE k \in Kept(r, v) /\ ~ NoneHere(r, v[2][k], k)
      <3>1. Fits0(Inner(r, k))
        BY <1>3, <1>4 DEF Fits1, FitsBy, Inner, Shaped, Nested, OfFields
      <3>2. /\ Convert0(Inner(r, k), below[k]) = v[2][k]
            /\ below[k] # Refused
            /\ below[k] = NullValue => v[2][k] = NullValue
        BY <2>1, <2>6, <3>1, ReadsBack0
      <3> QED
        BY <2>2, <2>3, <2>6, <3>2 DEF Skipped, NoneHere
    <2> QED
      BY <2>2, <2>4, <2>5, <2>6
  <1>5. below = [k \in Kept(r, v) |-> below[k]] /\ parts = [k \in Places(r, w) |-> parts[k]]
    OBVIOUS
  <1> HIDE DEF below, parts
  <1>6. Converted(r, w, parts) = v
    BY <1>3, <1>4, <1>5, WrittenReadsBack
  <1> QED
    BY <1>1, <1>2, <1>3, <1>6, WrittenIsThere

LEMMA ReadsBack2 ==
  ASSUME NEW r, NEW v, Fits2(r), IsA2(r, v)
  PROVE  /\ Convert2(r, Write2(r, v)) = v
         /\ Write2(r, v) # Refused
         /\ Write2(r, v) = NullValue => v = NullValue
  <1> DEFINE below == [k \in Kept(r, v) |-> Write1(Inner(r, k), v[2][k])]
             w == Written(r, v, below)
             parts == [k \in Places(r, w) |->
                         IF Skipped(r, Given(r, w, k), k) THEN Given(r, w, k)
                         ELSE Convert1(Inner(r, k), Given(r, w, k))]
  <1>1. Write2(r, v) = w
    BY DEF Write2, WriteBy
  <1>2. Convert2(r, w) = Converted(r, w, parts)
    BY DEF Convert2, ConvertBy
  <1>3. Shaped(r, v) /\ v # Refused
    BY ShapedIsThere DEF IsA2, IsABy
  <1>4. ASSUME Nested(r), NEW k \in DOMAIN v[2]
        PROVE  parts[k] = v[2][k] /\ v[2][k] # Refused
    <2>1. NoneHere(r, v[2][k], k) \/ IsA1(Inner(r, k), v[2][k])
      BY <1>4 DEF IsA2, IsABy
    <2>2. v[2][k] # Refused
      BY <2>1, ShapedIsThere DEF IsA1, IsABy, NoneHere, NullValue, Refused
    <2>3. /\ k \in Places(r, w)
          /\ Given(r, w, k) = IF k \in Kept(r, v) THEN below[k] ELSE r.of[k].absent
      BY <1>3, <1>4, PlacesOfWritten
    <2>4. CASE k \notin Kept(r, v)
      <3>1. OfFields(r) /\ k \in DOMAIN r.of /\ r.of[k].spare /\ v[2][k] = r.of[k].absent
        BY <1>3, <1>4, <2>4 DEF Kept, Shaped, Nested, OfFields, KindOf, Holder, NullValue
      <3>2. LeftOut(r.of[k])
        BY <3>1 DEF Fits2, FitsBy
      <3> QED
        BY <2>2, <2>3, <2>4, <3>1, <3>2, LeftOut1 DEF Inner
    <2>5. CASE k \in Kept(r, v) /\ NoneHere(r, v[2][k], k)
      <3>1. OfFields(r) /\ k \in DOMAIN r.of /\ r.of[k].orNone
        BY <1>3, <1>4, <2>5 DEF NoneHere, Shaped, Nested, OfFields
      <3>2. r.of[k].read.to # "derived" /\ Inner(r, k) = r.of[k].read
        BY <3>1 DEF Fits2, FitsBy, Inner
      <3>3. below[k] = NullValue
        BY <2>5, <3>2 DEF NoneHere, Write1, WriteBy, Written
      <3> QED
        BY <2>2, <2>3, <2>5, <3>3 DEF Skipped, NoneHere
    <2>6. CASE k \in Kept(r, v) /\ ~ NoneHere(r, v[2][k], k)
      <3>1. Fits1(Inner(r, k))
        BY <1>3, <1>4 DEF Fits2, FitsBy, Inner, Shaped, Nested, OfFields
      <3>2. /\ Convert1(Inner(r, k), below[k]) = v[2][k]
            /\ below[k] # Refused
            /\ below[k] = NullValue => v[2][k] = NullValue
        BY <2>1, <2>6, <3>1, ReadsBack1
      <3> QED
        BY <2>2, <2>3, <2>6, <3>2 DEF Skipped, NoneHere
    <2> QED
      BY <2>2, <2>4, <2>5, <2>6
  <1>5. below = [k \in Kept(r, v) |-> below[k]] /\ parts = [k \in Places(r, w) |-> parts[k]]
    OBVIOUS
  <1> HIDE DEF below, parts
  <1>6. Converted(r, w, parts) = v
    BY <1>3, <1>4, <1>5, WrittenReadsBack
  <1> QED
    BY <1>1, <1>2, <1>3, <1>6, WrittenIsThere

LEMMA ReadsBack3 ==
  ASSUME NEW r, NEW v, Fits3(r), IsA3(r, v)
  PROVE  /\ Convert3(r, Write3(r, v)) = v
         /\ Write3(r, v) # Refused
         /\ Write3(r, v) = NullValue => v = NullValue
  <1> DEFINE below == [k \in Kept(r, v) |-> Write2(Inner(r, k), v[2][k])]
             w == Written(r, v, below)
             parts == [k \in Places(r, w) |->
                         IF Skipped(r, Given(r, w, k), k) THEN Given(r, w, k)
                         ELSE Convert2(Inner(r, k), Given(r, w, k))]
  <1>1. Write3(r, v) = w
    BY DEF Write3, WriteBy
  <1>2. Convert3(r, w) = Converted(r, w, parts)
    BY DEF Convert3, ConvertBy
  <1>3. Shaped(r, v) /\ v # Refused
    BY ShapedIsThere DEF IsA3, IsABy
  <1>4. ASSUME Nested(r), NEW k \in DOMAIN v[2]
        PROVE  parts[k] = v[2][k] /\ v[2][k] # Refused
    <2>1. NoneHere(r, v[2][k], k) \/ IsA2(Inner(r, k), v[2][k])
      BY <1>4 DEF IsA3, IsABy
    <2>2. v[2][k] # Refused
      BY <2>1, ShapedIsThere DEF IsA2, IsABy, NoneHere, NullValue, Refused
    <2>3. /\ k \in Places(r, w)
          /\ Given(r, w, k) = IF k \in Kept(r, v) THEN below[k] ELSE r.of[k].absent
      BY <1>3, <1>4, PlacesOfWritten
    <2>4. CASE k \notin Kept(r, v)
      <3>1. OfFields(r) /\ k \in DOMAIN r.of /\ r.of[k].spare /\ v[2][k] = r.of[k].absent
        BY <1>3, <1>4, <2>4 DEF Kept, Shaped, Nested, OfFields, KindOf, Holder, NullValue
      <3>2. LeftOut(r.of[k])
        BY <3>1 DEF Fits3, FitsBy
      <3> QED
        BY <2>2, <2>3, <2>4, <3>1, <3>2, LeftOut2 DEF Inner
    <2>5. CASE k \in Kept(r, v) /\ NoneHere(r, v[2][k], k)
      <3>1. OfFields(r) /\ k \in DOMAIN r.of /\ r.of[k].orNone
        BY <1>3, <1>4, <2>5 DEF NoneHere, Shaped, Nested, OfFields
      <3>2. r.of[k].read.to # "derived" /\ Inner(r, k) = r.of[k].read
        BY <3>1 DEF Fits3, FitsBy, Inner
      <3>3. below[k] = NullValue
        BY <2>5, <3>2 DEF NoneHere, Write2, WriteBy, Written
      <3> QED
        BY <2>2, <2>3, <2>5, <3>3 DEF Skipped, NoneHere
    <2>6. CASE k \in Kept(r, v) /\ ~ NoneHere(r, v[2][k], k)
      <3>1. Fits2(Inner(r, k))
        BY <1>3, <1>4 DEF Fits3, FitsBy, Inner, Shaped, Nested, OfFields
      <3>2. /\ Convert2(Inner(r, k), below[k]) = v[2][k]
            /\ below[k] # Refused
            /\ below[k] = NullValue => v[2][k] = NullValue
        BY <2>1, <2>6, <3>1, ReadsBack2
      <3> QED
        BY <2>2, <2>3, <2>6, <3>2 DEF Skipped, NoneHere
    <2> QED
      BY <2>2, <2>4, <2>5, <2>6
  <1>5. below = [k \in Kept(r, v) |-> below[k]] /\ parts = [k \in Places(r, w) |-> parts[k]]
    OBVIOUS
  <1> HIDE DEF below, parts
  <1>6. Converted(r, w, parts) = v
    BY <1>3, <1>4, <1>5, WrittenReadsBack
  <1> QED
    BY <1>1, <1>2, <1>3, <1>6, WrittenIsThere

LEMMA ReadsBack4 ==
  ASSUME NEW r, NEW v, Fits4(r), IsA4(r, v)
  PROVE  /\ Convert4(r, Write4(r, v)) = v
         /\ Write4(r, v) # Refused
         /\ Write4(r, v) = NullValue => v = NullValue
  <1> DEFINE below == [k \in Kept(r, v) |-> Write3(Inner(r, k), v[2][k])]
             w == Written(r, v, below)
             parts == [k \in Places(r, w) |->
                         IF Skipped(r, Given(r, w, k), k) THEN Given(r, w, k)
                         ELSE Convert3(Inner(r, k), Given(r, w, k))]
  <1>1. Write4(r, v) = w
    BY DEF Write4, WriteBy
  <1>2. Convert4(r, w) = Converted(r, w, parts)
    BY DEF Convert4, ConvertBy
  <1>3. Shaped(r, v) /\ v # Refused
    BY ShapedIsThere DEF IsA4, IsABy
  <1>4. ASSUME Nested(r), NEW k \in DOMAIN v[2]
        PROVE  parts[k] = v[2][k] /\ v[2][k] # Refused
    <2>1. NoneHere(r, v[2][k], k) \/ IsA3(Inner(r, k), v[2][k])
      BY <1>4 DEF IsA4, IsABy
    <2>2. v[2][k] # Refused
      BY <2>1, ShapedIsThere DEF IsA3, IsABy, NoneHere, NullValue, Refused
    <2>3. /\ k \in Places(r, w)
          /\ Given(r, w, k) = IF k \in Kept(r, v) THEN below[k] ELSE r.of[k].absent
      BY <1>3, <1>4, PlacesOfWritten
    <2>4. CASE k \notin Kept(r, v)
      <3>1. OfFields(r) /\ k \in DOMAIN r.of /\ r.of[k].spare /\ v[2][k] = r.of[k].absent
        BY <1>3, <1>4, <2>4 DEF Kept, Shaped, Nested, OfFields, KindOf, Holder, NullValue
      <3>2. LeftOut(r.of[k])
        BY <3>1 DEF Fits4, FitsBy
      <3> QED
        BY <2>2, <2>3, <2>4, <3>1, <3>2, LeftOut3 DEF Inner
    <2>5. CASE k \in Kept(r, v) /\ NoneHere(r, v[2][k], k)
      <3>1. OfFields(r) /\ k \in DOMAIN r.of /\ r.of[k].orNone
        BY <1>3, <1>4, <2>5 DEF NoneHere, Shaped, Nested, OfFields
      <3>2. r.of[k].read.to # "derived" /\ Inner(r, k) = r.of[k].read
        BY <3>1 DEF Fits4, FitsBy, Inner
      <3>3. below[k] = NullValue
        BY <2>5, <3>2 DEF NoneHere, Write3, WriteBy, Written
      <3> QED
        BY <2>2, <2>3, <2>5, <3>3 DEF Skipped, NoneHere
    <2>6. CASE k \in Kept(r, v) /\ ~ NoneHere(r, v[2][k], k)
      <3>1. Fits3(Inner(r, k))
        BY <1>3, <1>4 DEF Fits4, FitsBy, Inner, Shaped, Nested, OfFields
      <3>2. /\ Convert3(Inner(r, k), below[k]) = v[2][k]
            /\ below[k] # Refused
            /\ below[k] = NullValue => v[2][k] = NullValue
        BY <2>1, <2>6, <3>1, ReadsBack3
      <3> QED
        BY <2>2, <2>3, <2>6, <3>2 DEF Skipped, NoneHere
    <2> QED
      BY <2>2, <2>4, <2>5, <2>6
  <1>5. below = [k \in Kept(r, v) |-> below[k]] /\ parts = [k \in Places(r, w) |-> parts[k]]
    OBVIOUS
  <1> HIDE DEF below, parts
  <1>6. Converted(r, w, parts) = v
    BY <1>3, <1>4, <1>5, WrittenReadsBack
  <1> QED
    BY <1>1, <1>2, <1>3, <1>6, WrittenIsThere

LEMMA ReadsBack5 ==
  ASSUME NEW r, NEW v, Fits5(r), IsA5(r, v)
  PROVE  /\ Convert5(r, Write5(r, v)) = v
         /\ Write5(r, v) # Refused
         /\ Write5(r, v) = NullValue => v = NullValue
  <1> DEFINE below == [k \in Kept(r, v) |-> Write4(Inner(r, k), v[2][k])]
             w == Written(r, v, below)
             parts == [k \in Places(r, w) |->
                         IF Skipped(r, Given(r, w, k), k) THEN Given(r, w, k)
                         ELSE Convert4(Inner(r, k), Given(r, w, k))]
  <1>1. Write5(r, v) = w
    BY DEF Write5, WriteBy
  <1>2. Convert5(r, w) = Converted(r, w, parts)
    BY DEF Convert5, ConvertBy
  <1>3. Shaped(r, v) /\ v # Refused
    BY ShapedIsThere DEF IsA5, IsABy
  <1>4. ASSUME Nested(r), NEW k \in DOMAIN v[2]
        PROVE  parts[k] = v[2][k] /\ v[2][k] # Refused
    <2>1. NoneHere(r, v[2][k], k) \/ IsA4(Inner(r, k), v[2][k])
      BY <1>4 DEF IsA5, IsABy
    <2>2. v[2][k] # Refused
      BY <2>1, ShapedIsThere DEF IsA4, IsABy, NoneHere, NullValue, Refused
    <2>3. /\ k \in Places(r, w)
          /\ Given(r, w, k) = IF k \in Kept(r, v) THEN below[k] ELSE r.of[k].absent
      BY <1>3, <1>4, PlacesOfWritten
    <2>4. CASE k \notin Kept(r, v)
      <3>1. OfFields(r) /\ k \in DOMAIN r.of /\ r.of[k].spare /\ v[2][k] = r.of[k].absent
        BY <1>3, <1>4, <2>4 DEF Kept, Shaped, Nested, OfFields, KindOf, Holder, NullValue
      <3>2. LeftOut(r.of[k])
        BY <3>1 DEF Fits5, FitsBy
      <3> QED
        BY <2>2, <2>3, <2>4, <3>1, <3>2, LeftOut4 DEF Inner
    <2>5. CASE k \in Kept(r, v) /\ NoneHere(r, v[2][k], k)
      <3>1. OfFields(r) /\ k \in DOMAIN r.of /\ r.of[k].orNone
        BY <1>3, <1>4, <2>5 DEF NoneHere, Shaped, Nested, OfFields
      <3>2. r.of[k].read.to # "derived" /\ Inner(r, k) = r.of[k].read
        BY <3>1 DEF Fits5, FitsBy, Inner
      <3>3. below[k] = NullValue
        BY <2>5, <3>2 DEF NoneHere, Write4, WriteBy, Written
      <3> QED
        BY <2>2, <2>3, <2>5, <3>3 DEF Skipped, NoneHere
    <2>6. CASE k \in Kept(r, v) /\ ~ NoneHere(r, v[2][k], k)
      <3>1. Fits4(Inner(r, k))
        BY <1>3, <1>4 DEF Fits5, FitsBy, Inner, Shaped, Nested, OfFields
      <3>2. /\ Convert4(Inner(r, k), below[k]) = v[2][k]
            /\ below[k] # Refused
            /\ below[k] = NullValue => v[2][k] = NullValue
        BY <2>1, <2>6, <3>1, ReadsBack4
      <3> QED
        BY <2>2, <2>3, <2>6, <3>2 DEF Skipped, NoneHere
    <2> QED
      BY <2>2, <2>4, <2>5, <2>6
  <1>5. below = [k \in Kept(r, v) |-> below[k]] /\ parts = [k \in Places(r, w) |-> parts[k]]
    OBVIOUS
  <1> HIDE DEF below, parts
  <1>6. Converted(r, w, parts) = v
    BY <1>3, <1>4, <1>5, WrittenReadsBack
  <1> QED
    BY <1>1, <1>2, <1>3, <1>6, WrittenIsThere

-----------------------------------------------------------------------------
(* The life of a record.                                                   *)

LEMMA DecodedIsObject ==
  ASSUME NEW schema, NEW file, Decode(schema, file) # Refused
  PROVE  IsObject(schema, Decode(schema, file))
  BY Typed5 DEF Decode, IsObject

LEMMA EncodedDecodes ==
  ASSUME NEW schema, NEW o, Fits(schema), IsObject(schema, o)
  PROVE  Decode(schema, Encode(schema, o)) = o
  BY ReadsBack5 DEF Decode, Encode, IsObject, Fits

LEMMA ObjectIsThere ==
  ASSUME NEW schema, NEW o, IsObject(schema, o)
  PROVE  o # Refused
  BY ShapedIsThere DEF IsObject, IsA5, IsABy

\* What is in memory is an object of its class, or nothing is; what was just
\* saved is in the file as its class writes it.
RecordInv ==
    /\ class \in DOMAIN Schemas
    /\ object # Refused => IsObject(Schemas[class], object) /\ Sound(class, object)
    /\ stage = "saved" =>
          object # Refused /\ saved = object /\ disk = Encode(Schemas[class], object)
    /\ stage = "loaded" => object = saved

LEMMA InitRecords == Init => RecordInv
  BY ObjectsAreBuilt DEF Init, RecordInv

LEMMA SaveKeeps ==
  ASSUME RecordInv, Save
  PROVE  RecordInv'
  BY DEF RecordInv, Save

LEMMA EditKeeps ==
  ASSUME RecordInv, Edit
  PROVE  RecordInv'
  BY DEF RecordInv, Edit

LEMMA LoadKeeps ==
  ASSUME RecordInv, Load
  PROVE  RecordInv'
  <1>1. class' = class /\ class \in DOMAIN Schemas /\ object' = Read(class, disk)
    BY DEF RecordInv, Load
  <1>2. object' # Refused =>
           /\ object' = Decode(Schemas[class], disk)
           /\ Sound(class, object')
    BY <1>1 DEF Read
  <1>3. object' # Refused => IsObject(Schemas[class], object')
    BY <1>2, DecodedIsObject
  <1>4. CASE stage = "saved"
    <2>1. Decode(Schemas[class], disk) = object
      BY <1>1, <1>4, SchemasFit, EncodedDecodes DEF RecordInv
    <2>2. object' = saved' /\ stage' = "loaded"
      BY <1>1, <1>4, <2>1 DEF RecordInv, Load, Read
    <2> QED
      BY <1>1, <1>2, <1>3, <2>2 DEF RecordInv
  <1>5. CASE stage = "edited"
    BY <1>1, <1>2, <1>3, <1>5 DEF RecordInv, Load
  <1> QED
    BY <1>4, <1>5 DEF Load

LEMMA NextRecords == RecordInv /\ [Next]_vars => RecordInv'
  <1> SUFFICES ASSUME RecordInv, [Next]_vars PROVE RecordInv'
    OBVIOUS
  <1>1. CASE UNCHANGED vars
    BY <1>1 DEF RecordInv, vars
  <1> QED
    BY <1>1, SaveKeeps, EditKeeps, LoadKeeps DEF Next

LEMMA RecordsInvariant == Spec => []RecordInv
  BY InitRecords, NextRecords, PTL DEF Spec

\* Whatever object of whatever class the program wrote, what it loads from the
\* file nobody changed is that object.
THEOREM RecordsRoundTrip == Spec => []RoundTrip
  <1>1. RecordInv => RoundTrip
    BY DEF RecordInv, RoundTrip
  <1> QED
    BY <1>1, RecordsInvariant, PTL

\* Whatever the file holds, from_payload gives an object with the fields and
\* types of its class that passes the constructor's checks, or refuses.
THEOREM LoadsAreTyped == Spec => []TypesHonoured
  <1>1. RecordInv => TypesHonoured
    BY DEF RecordInv, TypesHonoured
  <1> QED
    BY <1>1, RecordsInvariant, PTL

-----------------------------------------------------------------------------
(* The default matrix.                                                     *)

\* classify_repo never trusts by omission (security/capabilities.py:64-66):
\* whatever a repository without an entry is called, no action in it gets a
\* milder decision than the same action in one the registry names.
THEOREM UnregisteredNeverMilder ==
  \A name : name \notin DOMAIN REPO_REGISTRY => NeverMilder(name)
  <1> SUFFICES ASSUME NEW name, name \notin DOMAIN REPO_REGISTRY,
                      NEW c \in CapabilityClass,
                      NEW known \in DOMAIN REPO_REGISTRY
               PROVE  DECISION_RANK[DefaultDecision(c, ClassifyRepo(known))]
                        <= DECISION_RANK[DefaultDecision(c, ClassifyRepo(name))]
    BY DEF NeverMilder
  <1>1. ClassifyRepo(name) = "untrusted-external"
    BY DEF ClassifyRepo
  <1>2. ClassifyRepo(known) \in {"trusted-internal", "untrusted-external"}
    BY DEF ClassifyRepo, REPO_REGISTRY
  <1> QED
    BY <1>1, <1>2 DEF DefaultDecision, DECISION_RANK

=============================================================================
