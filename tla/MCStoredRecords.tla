-------------------------- MODULE MCStoredRecords --------------------------
(***************************************************************************)
(* Every class with an example, the objects one field away from it and,    *)
(* where a constructor relates two fields, those two fields away; and the  *)
(* example's file with any one place in it changed.                        *)
(***************************************************************************)
EXTENDS StoredRecords, RecordSamples

\* The classes whose constructor relates two fields.
Checked == {"InjectionSpec", "DatasetDescriptor", "GraderResult", "EvalMatrix",
            "ProtocolDecisionRecord", "Message"}

Built(c) ==
    LET schema == Schemas[c]
        example == Example(Section(schema))
        one == {example} \cup Near(schema, example)
        two == IF c \in Checked THEN UNION {Near(schema, o) : o \in one} ELSE {}
        given == IF c = "HardenedConfig" THEN {DefaultHardenedConfig} ELSE {}
    IN {o \in one \cup two \cup given : Sound(c, o)}

MCObjects == [c \in DOMAIN Schemas |-> Built(c)]
MCFiles ==
    [c \in DOMAIN Schemas |-> Edits(Encode(Schemas[c], Example(Section(Schemas[c]))))]
=============================================================================
