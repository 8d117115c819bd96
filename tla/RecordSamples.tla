--------------------------- MODULE RecordSamples ---------------------------
(***************************************************************************)
(* The objects and files a class is tried with.                            *)
(***************************************************************************)
EXTENDS Payloads

(***************************************************************************)
(* The objects a class is tried with: an example, and those near it, which *)
(* differ from it in one field, at any depth.                              *)
(***************************************************************************)
RECURSIVE Example(_), Others(_)

Example(reader) ==
    CASE reader.to = "text" -> Text(reader.of[1])
      [] reader.to = "raw" -> Text("a")
      [] reader.to = "number" -> Num(1)
      [] reader.to = "truth" -> Flag(FALSE)
      [] reader.to = "word" -> Text(CHOOSE w \in reader.of : TRUE)
      [] reader.to \in {"block", "section"} ->
           Object([k \in DOMAIN reader.of |-> Example(reader.of[k].read)])
      [] reader.to = "each" -> List(<<Example(reader.of)>>)
      [] reader.to = "entries" -> Object([name |-> Example(reader.of)])
      [] reader.to = "dict" -> Object([name |-> Text("a")])
      [] reader.to = "derived" -> NullValue

Near(schema, object) ==
    UNION {{Object([object[2] EXCEPT ![k] = v]) :
               v \in Others(schema[k].read)
                     \cup IF schema[k].orNone THEN {NullValue} ELSE {}} :
              k \in DOMAIN schema}

Others(reader) ==
    CASE reader.to = "text" -> {Text(reader.of[2])}
      [] reader.to = "raw" -> {NullValue}
      [] reader.to = "number" -> {Num(0), Num(2)}
      [] reader.to = "truth" -> {Flag(TRUE)}
      [] reader.to = "word" -> {Text(w) : w \in reader.of}
      [] reader.to \in {"block", "section"} -> Near(reader.of, Example(reader))
      [] reader.to = "each" ->
           LET one == Example(reader.of)
           IN {List(<<>>), List(<<one, one>>)}
                \cup {List(<<v>>) : v \in Others(reader.of)}
      [] reader.to = "entries" ->
           {Object(<<>>)} \cup {Object([name |-> v]) : v \in Others(reader.of)}
      [] reader.to = "dict" -> {Object(<<>>), Object([name |-> Num(1)])}
      [] reader.to = "derived" -> {}

(***************************************************************************)
(* The files one change away from a payload: a key removed, or its value   *)
(* written by hand.                                                        *)
(***************************************************************************)
HandWritten == {NullValue, Text("a"), Num(0), Num(1), Flag(FALSE), List(<<>>)}

RECURSIVE Edits(_)
Edits(v) ==
    CASE KindOf(v) = "object" ->
           UNION {{Object([j \in DOMAIN v[2] \ {k} |-> v[2][j]])}
                    \cup {Object([v[2] EXCEPT ![k] = w]) :
                             w \in HandWritten \cup Edits(v[2][k])} :
                     k \in DOMAIN v[2]}
      [] KindOf(v) = "list" /\ v[2] # <<>> ->
           {List([v[2] EXCEPT ![1] = w]) : w \in Edits(v[2][1])}
      [] OTHER -> {}
=============================================================================
