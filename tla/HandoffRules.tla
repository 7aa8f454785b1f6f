------------------------------ MODULE HandoffRules ------------------------------
(***************************************************************************)
(* What makes a handoff complete (packages/core/src/handoff.ts): one fenced *)
(* yaml block of two sections that states each of six facts once.           *)
(*                                                                         *)
(* A source is a sequence of lines told by how the line grammar reads them: *)
(* "open" and "close" fences, "blank" lines and comments, "list" items,     *)
(* "deep" indentation, "pair" and "section" lines, lines with an embedded   *)
(* "break", and everything else.                                            *)
(***************************************************************************)
EXTENDS StoryRules

\* A value by its form, the numbers or segments it is made of, and whether more
\* than the separator space precedes it.
Scalar(form, parts) == [form |-> form, parts |-> parts, led |-> FALSE]
NoScalar == Scalar("empty", <<>>)
YamlLine(type, name, value) == [t |-> type, h |-> name, v |-> value]
Pair(key, value) == YamlLine("pair", key, value)
YamlSection(name) == YamlLine("section", name, NoScalar)
Yaml(type) == YamlLine(type, "", NoScalar)

FieldNames == <<<<"handoff", "story">>, <<"handoff", "recorded_at">>,
                <<"handoff", "repository">>, <<"handoff", "revision">>,
                <<"verification", "command">>, <<"verification", "result">>>>

IsTimestamp(v) ==
    /\ v.form = "timestamp"
    /\ v.parts[1] \in 1..12 /\ v.parts[2] \in 1..31
    /\ v.parts[3] \in 0..23 /\ v.parts[4] \in 0..59 /\ v.parts[5] \in 0..59

\* Forms a YAML reader would not take for a plain string.
IsPlainScalar(v) ==
    ~v.led /\ v.form \notin {"empty", "boolean", "null", "indicator", "mapping", "number"}

ValueIssues(field, v) ==
    CASE field[2] = "story" ->
           Flag(~(v.form = "id" /\ IsStoryId(v.parts) /\ ~v.led), "HANDOFF_INVALID_STORY_ID")
      [] field[2] = "recorded_at" ->
           Flag(~(IsTimestamp(v) /\ ~v.led), "HANDOFF_INVALID_TIMESTAMP")
      [] field[2] \in {"repository", "command"} ->
           Flag(~IsPlainScalar(v), "HANDOFF_INVALID_PLAIN_SCALAR")
      [] field[2] = "revision" ->
           Flag(~(v.form = "hexadecimal" /\ v.parts = <<40>> /\ ~v.led), "HANDOFF_INVALID_REVISION")
      [] OTHER ->
           Flag(~(v.form \in {"pass", "fail", "not_run"} /\ ~v.led), "HANDOFF_INVALID_RESULT")

\* Whether line i is read as part of a block: the last fence before it opened one.
InBlock(source, i) ==
    LET inside[k \in 0..Len(source)] ==
            IF k = 0 THEN FALSE
            ELSE CASE source[k].t = "open" /\ ~inside[k - 1] -> TRUE
                   [] source[k].t = "close" /\ inside[k - 1] -> FALSE
                   [] OTHER -> inside[k - 1]
    IN  inside[i - 1]

Inside(source) == {i \in 1..Len(source) : InBlock(source, i)}

\* How many blocks are opened, and whether the last one stays open.
BlockCount(source) ==
    Cardinality({i \in 1..Len(source) : source[i].t = "open" /\ i \notin Inside(source)})
Unclosed(source) ==
    source # <<>> /\ \/ Len(source) \in Inside(source) /\ Last(source).t # "close"
                     \/ Len(source) \notin Inside(source) /\ Last(source).t = "open"

\* The section a line of a block belongs to: it stays in force across blocks.
SectionAt(source, i) ==
    LET before == {j \in Inside(source) : j < i /\ source[j].t = "section"}
    IN  IF before = {} THEN ""
        ELSE source[CHOOSE j \in before : \A k \in before : k <= j].h

\* The lines that record a value for a field.
RecordedFor(source, field) ==
    {i \in Inside(source) : /\ source[i].t = "pair" /\ source[i].h = field[2]
                            /\ SectionAt(source, i) = field[1]}

LineIssues(source, i) ==
    LET line == source[i]
        inside == i \in Inside(source)
        section == SectionAt(source, i)
        OfPair ==
            IF section = "" THEN <<"HANDOFF_KEY_OUTSIDE_SECTION">>
            ELSE Flag(line.v.led, "HANDOFF_VALUE_SEPARATOR")
                   \o (IF <<section, line.h>> \in ToSet(FieldNames) THEN <<>>
                       ELSE IF section \in {"workflow", "baseline"} THEN <<"HANDOFF_MUTABLE_KEY">>
                       ELSE <<"HANDOFF_UNKNOWN_KEY">>)
    IN  CASE line.t = "break"              -> <<"HANDOFF_EMBEDDED_LINE_BREAK">>
          [] line.t # "break" /\ ~inside   -> <<>>
          [] inside /\ line.t = "list"     -> <<"HANDOFF_LIST">>
          [] inside /\ line.t = "deep"     -> <<"HANDOFF_INDENTATION">>
          [] inside /\ line.t = "pair"     -> OfPair
          [] inside /\ line.t = "section"  ->
               IF line.h \in {"handoff", "verification"} THEN <<>>
               ELSE IF line.h \in {"workflow", "baseline"} THEN <<"HANDOFF_MUTABLE_SECTION">>
               ELSE <<"HANDOFF_UNKNOWN_SECTION">>
          [] inside /\ line.t \in {"other", "open"} -> <<"HANDOFF_UNSUPPORTED_LINE">>
          [] OTHER -> <<>>

SectionIssues(source, name) ==
    Flag(Cardinality({i \in Inside(source) : source[i].t = "section" /\ source[i].h = name}) # 1,
         "HANDOFF_SECTION_COUNT")

FieldIssues(source, field) ==
    LET at == RecordedFor(source, field)
    IN  IF at = {} THEN <<"HANDOFF_MISSING_FIELD">>
        ELSE IF Cardinality(at) > 1 THEN <<"HANDOFF_REPEATED_FIELD">>
        ELSE ValueIssues(field, source[CHOOSE i \in at : TRUE].v)

\* The issues of a handoff: none at all when it is complete.
EvaluateHandoff(source) ==
    LET read == Codes(source, LAMBDA i : LineIssues(source, i))
    IN  IF BlockCount(source) = 1 /\ Unclosed(source) THEN read \o <<"HANDOFF_BLOCK_UNCLOSED">>
        ELSE IF BlockCount(source) # 1 THEN read \o <<"HANDOFF_BLOCK_COUNT_INVALID">>
        ELSE read \o SectionIssues(source, "handoff") \o SectionIssues(source, "verification")
               \o Codes(FieldNames, LAMBDA k : FieldIssues(source, FieldNames[k]))
=============================================================================
