------------------------------ MODULE ReviewText ------------------------------
(***************************************************************************)
(* Reading a reviewer's answer (review/findings.py).  An answer is a text, *)
(* read line by line; a line that begins with "FINDING: " holds a JSON     *)
(* object, one that begins with "CONCLUSION: " a word.                     *)
(***************************************************************************)
EXTENDS Naturals, Sequences

FINDING_CATEGORIES ==
    {"correctness", "security", "performance", "maintainability", "tests",
     "architecture"}
FINDING_SEVERITIES == {"critical", "high", "medium", "low"}
FINDING_CONFIDENCES == {"high", "medium", "low"}
REVIEW_CONCLUSIONS == {"approved", "changes_required", "insufficient_evidence"}

\* A line: what it begins with, what the rest is as JSON ("broken", another
\* value such as a "list", or an "object"), and as a word.  A prefix without
\* its space is no prefix.
Broken == [is |-> "broken"]
Line(prefix, json, word) == [prefix |-> prefix, json |-> json, word |-> word]
Prose == Line("none", Broken, "thanks")
Reports(json) == Line("FINDING: ", json, "")
Concludes(word) == Line("CONCLUSION: ", Broken, word)

\* The object of a finding line: the required keys it has, its three words
\* and its evidence (an object, an empty one when the key is not there, or a
\* value dict() raises on).
Finding(keys, category, severity, confidence, evidence) ==
    [is |-> "object", keys |-> keys, category |-> category, severity |-> severity,
     confidence |-> confidence, evidence |-> evidence]
RequiredKeys == {"category", "severity", "confidence", "summary", "deduplication_key"}

FindingSchemaError == [raised |-> "FindingSchemaError", findings |-> <<>>]
TypeError == [raised |-> "TypeError", findings |-> <<>>]

ReadLineStrict(acc, line) ==  \* the checks of one finding line, in their order
    LET f == line.json
    IN CASE f.is \in {"broken", "list"} -> FindingSchemaError
         [] ~ RequiredKeys \subseteq f.keys -> FindingSchemaError
         [] f.category \notin FINDING_CATEGORIES -> FindingSchemaError
         [] f.severity \notin FINDING_SEVERITIES -> FindingSchemaError
         [] f.confidence \notin FINDING_CONFIDENCES -> FindingSchemaError
         [] f.evidence = "null" -> TypeError
         [] OTHER ->
              [acc EXCEPT !.findings = Append(@,
                  [id |-> Len(@) + 1, of |-> f, status |-> "proposed"])]

\* A faulty reader for the mutant check: a line that is no finding is skipped.
ReadLineLenient(acc, line) ==
    IF acc.raised # "" \/ line.prefix # "FINDING: " THEN acc
    ELSE IF ReadLineStrict(acc, line).raised # "" THEN acc
    ELSE ReadLineStrict(acc, line)

ReadLine(acc, line) ==
    IF acc.raised # "" \/ line.prefix # "FINDING: " THEN acc
    ELSE ReadLineStrict(acc, line)

NothingRead == [raised |-> "", findings |-> <<>>]

FindingsFromText(text) ==
    LET read[n \in 0 .. Len(text)] ==
            IF n = 0 THEN NothingRead
            ELSE ReadLine(read[n - 1], text[n])
    IN read[Len(text)]

NothingConcluded == "insufficient_evidence"

ConcludeLine(conclusion, line) ==
    IF line.prefix # "CONCLUSION: " THEN conclusion
    ELSE IF line.word \in REVIEW_CONCLUSIONS THEN line.word
    ELSE "insufficient_evidence"

\* The last conclusion counts, and no other spelling of it.
ConclusionFromText(text) ==
    LET concluded[n \in 0 .. Len(text)] ==
            IF n = 0 THEN NothingConcluded
            ELSE ConcludeLine(concluded[n - 1], text[n])
    IN concluded[Len(text)]
=============================================================================
