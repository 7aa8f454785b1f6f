------------------------------- MODULE StoryRules -------------------------------
(***************************************************************************)
(* What `story check` decides of one Story (packages/core/src/story.ts with *)
(* story-governance, story-decision, story-matrix, story-readiness and     *)
(* story-id).  A diagnostic is its code and whether it belongs to the      *)
(* default contract ("structure") or only to the opt-in readiness layer.   *)
(***************************************************************************)
EXTENDS VerificationRules

CONSTANTS DecisionIds,      \* the words that are ADR-<digits>
          SegmentsOf        \* name of a directory -> the classes of its segments

\* The classes of a segment: "A" upper case first, "M" digits first but with an
\* upper-case letter, "D" digits, "x" anything else.
IsStoryId(segments) ==
    /\ Len(segments) >= 2
    /\ segments[1] = "A" /\ Last(segments) = "D"
    /\ \A i \in 2..(Len(segments) - 1) : segments[i] \in {"A", "M"}

\* Some leading run of the segments of a directory's name is a Story ID.
CarriesId(name) ==
    \E k \in 1..Len(SegmentsOf[name]) : IsStoryId(SubSeq(SegmentsOf[name], 1, k))

Diagnostics(codes, structure) == [k \in 1..Len(codes) |-> [code |-> codes[k], s |-> structure]]
Structural(codes) == Diagnostics(codes, TRUE)

\* mistaken: a readiness diagnostic is counted as one of the default contract
ReportedAsStructure(codes) == Diagnostics(codes, TRUE)

\* reportReadiness: goes past the hook that collects the structural diagnostics.
Reported(codes) == Diagnostics(codes, FALSE)

RepeatedSection(section) == Flag(section.count > 1, "STORY_SECTION_REPEATED")

-----------------------------------------------------------------------------
(* Governance: task mode, authority, architecture *)

TaskModes_(story) == Values(Section(story, "## Classification").entries, "Task mode")

ReadTaskMode(story) ==
    LET given == TaskModes_(story)
    IN  IF Len(given) # 1 THEN "execution"
        ELSE IF IsWord(given[1], TaskModes) THEN given[1].s[1] ELSE "execution"

TaskModeIssues(story) ==
    LET given == TaskModes_(story)
    IN  Flag(Len(given) > 1, "STORY_TASK_MODE_REPEATED")
          \o Flag(Len(given) = 1 /\ ~IsWord(given[1], TaskModes), "STORY_TASK_MODE_INVALID")

\* Least privilege by task mode, changed by the first declaration of each
\* operation when that one says yes or no.
ReadAuthority(story, mode) ==
    LET es == Section(story, "## Authority").entries
        decides(op, i) == /\ IsDecl(es[i]) /\ es[i].h = op
                          /\ \A j \in 1..(i - 1) : ~(IsDecl(es[j]) /\ es[j].h = op)
                          /\ IsWord(es[i].v, {"yes", "no"})
    IN  [op \in Operations |->
            IF \E i \in 1..Len(es) : decides(op, i)
              THEN \E i \in 1..Len(es) : decides(op, i) /\ es[i].v = Plain("yes")
              ELSE op = "plan" \/ (op = "modify" /\ mode \in {"execution", "mixed"})]

ReadAuthorityIssues(story, mode) ==
    LET section == Section(story, "## Authority")
        es == section.entries
        granted == ReadAuthority(story, mode)
        Of(i) == IF ~IsDecl(es[i]) THEN <<"STORY_AUTHORITY_ENTRY_INVALID">>
                 ELSE IF es[i].h \notin Operations THEN <<"STORY_AUTHORITY_UNKNOWN_OPERATION">>
                 ELSE IF \E j \in 1..(i - 1) : IsDecl(es[j]) /\ es[j].h = es[i].h
                   THEN <<"STORY_AUTHORITY_REPEATED">>
                 ELSE Flag(~IsWord(es[i].v, {"yes", "no"}), "STORY_AUTHORITY_VALUE_INVALID")
        Chain(op, needs) == Flag(granted[op] /\ ~granted[needs], "STORY_AUTHORITY_CHAIN")
        mutating == <<"modify", "add_dependency", "migration", "commit", "push", "deploy">>
    IN  Codes(es, Of) \o RepeatedSection(section)
          \o Chain("deploy", "push") \o Chain("push", "commit") \o Chain("commit", "modify")
          \o Codes(mutating, LAMBDA k : Flag(mode = "evidence" /\ granted[mutating[k]],
                                             "STORY_AUTHORITY_EVIDENCE_MODE"))

\* One value among the levels, else low.
ReadLevel(values) == Declared(values, Levels, "low")

\* The words of a value stand, in this order and next to each other, in a list.
StandsIn(words, list) ==
    \E i \in 1..Len(list) : i + Len(words) - 1 <= Len(list)
                            /\ SubSeq(list, i, i + Len(words) - 1) = words

\* Every word of every decision that is not already there when it is declared.
ReferencedWords(es) ==
    LET taken[i \in 0..Len(es)] ==
            IF i = 0 THEN <<>>
            ELSE IF IsDecl(es[i]) /\ es[i].h = "Decision" /\ ExactValue(es[i].v)
                      /\ ~StandsIn(es[i].v.s, taken[i - 1])
                   THEN taken[i - 1] \o es[i].v.s ELSE taken[i - 1]
    IN  taken[Len(es)]

\* The decision records a Story refers to (readStoryDecisions).
ReadStoryDecisions(story) == ToSet(ReferencedWords(Section(story, "## Architecture").entries))

ReadArchitectureIssues(story) ==
    LET section == Section(story, "## Architecture")
        es == section.entries
        impacts == Values(es, "Impact")
        Stated(label) == \E i \in 1..Len(es) : IsDecl(es[i]) /\ es[i].h = label /\ ExactValue(es[i].v)
        Of(i) == IF ~IsDecl(es[i]) THEN <<"STORY_ARCHITECTURE_ENTRY_INVALID">>
                 ELSE IF es[i].h = "Impact" THEN <<>>
                 ELSE IF es[i].h \notin ArchitectureLabels
                   THEN <<"STORY_ARCHITECTURE_UNKNOWN_LABEL">>
                 ELSE IF ~ExactValue(es[i].v) THEN <<"STORY_ARCHITECTURE_LITERAL_INVALID">>
                 ELSE Flag(es[i].h = "Decision"
                             /\ StandsIn(es[i].v.s, ReferencedWords(SubSeq(es, 1, i - 1))),
                           "STORY_ARCHITECTURE_DECISION_REPEATED")
    IN  Codes(es, Of) \o RepeatedSection(section)
          \o DeclaredIssues(impacts, Levels, "STORY_ARCHITECTURE_IMPACT_REPEATED",
                                             "STORY_ARCHITECTURE_IMPACT_INVALID")
          \o Flag(ReadLevel(impacts) # "low" /\ ~Stated("Decision") /\ ~Stated("Contract"),
                  "STORY_ARCHITECTURE_IMPACT_UNSUPPORTED")

\* An owner is <boundary> = <owner> over a boundary the Story declares.
OwnerIssues(story) ==
    LET es == Section(story, "## Architecture").entries
        owners == Where(Values(es, "Owner"), ExactValue)
        boundaries == {v.s : v \in ToSet(Where(Values(es, "Boundary"), ExactValue))}
        Of(i) ==
            LET words == owners[i].s
                signs == {k \in 2..(Len(words) - 1) : words[k] = "="}
                first == CHOOSE k \in signs : \A j \in signs : k <= j
            IN  IF signs = {} THEN <<"STORY_ARCHITECTURE_OWNER_MALFORMED">>
                ELSE IF SubSeq(words, first + 1, Len(words)) = <<"">>
                  THEN <<"STORY_ARCHITECTURE_OWNER_UNOWNED">>
                ELSE Flag(SubSeq(words, 1, first - 1) \notin boundaries,
                          "STORY_ARCHITECTURE_OWNER_UNDECLARED")
    IN  Codes(owners, Of)

-----------------------------------------------------------------------------
(* Decisions *)

\* A record is usable when it states one status, and that one is accepted, or
\* proposed for a Story whose task is the architecture itself.
DecisionIssues(id, mode, record) ==
    LET stated == StrictValues(ContentLines(record.source), "Status")
    IN  IF id \notin DecisionIds THEN <<"STORY_DECISION_MALFORMED">>
        ELSE CASE record.kind = "missing"    -> <<"STORY_DECISION_MISSING">>
               [] record.kind = "ambiguous"  -> <<"STORY_DECISION_AMBIGUOUS">>
               [] record.kind = "unreadable" -> <<"STORY_DECISION_UNREADABLE">>
               [] record.kind = "retired"    -> <<"STORY_LEGACY_DECISIONS_ROOT">>
               [] record.kind = "found" ->
                    IF Len(stated) # 1 THEN <<"STORY_DECISION_STATUS_COUNT">>
                    ELSE CASE stated[1] = Plain("accepted") -> <<>>
                           [] stated[1] = Plain("proposed") ->
                                Flag(mode \notin {"architecture", "mixed"}, "STORY_DECISION_PROPOSED")
                           [] IsWord(stated[1], {"superseded", "rejected"}) ->
                                <<"STORY_DECISION_UNUSABLE">>
                           [] OTHER -> <<"STORY_DECISION_UNKNOWN_STATUS">>

-----------------------------------------------------------------------------
(* Risk and its contracts *)

HighRiskSignals ==
    {"authentication", "authorization", "security", "payment", "payments", "schema-migration",
     "data-loss", "public-contract", "concurrency", "production-config",
     "dependency-supply-chain", "destructive-operation"}

RiskContracts ==
    [signal \in RiskSignals |->
        CASE signal = "error-projection" ->
               [heading |-> "## Error Projection",
                fields |-> <<"Source failure", "Public projection", "Detail policy", "Evidence AC">>]
          [] signal = "concurrency" ->
               [heading |-> "## Concurrency",
                fields |-> <<"Contended resource", "Linearization point", "Conflict outcome",
                             "Evidence AC">>]
          [] signal = "bounded-capacity" ->
               [heading |-> "## Capacity",
                fields |-> <<"Bounded resource", "Limit", "Saturation behavior",
                             "Failure projection", "Evidence AC">>]
          [] signal = "retention-overflow" ->
               [heading |-> "## Retention and Overflow",
                fields |-> <<"Retained resource", "Retention bound", "Overflow policy",
                             "Recovery / observability", "Evidence AC">>]]

ReadRiskLevel(story) == ReadLevel(Values(Section(story, "## Risk").entries, "Level"))

\* The known signals, each once, in order of declaration.
ReadSignals(story) ==
    LET given == Where(Values(Section(story, "## Risk").entries, "Signal"),
                       LAMBDA v : StructuredLiteral(v) /\ OneOf(v, RiskSignals))
        words == [k \in 1..Len(given) |-> given[k].s[1]]
    IN  Picked(words, {k \in 1..Len(words) : \A j \in 1..(k - 1) : words[j] # words[k]})

ReadRiskIssues(story) ==
    LET section == Section(story, "## Risk")
        es == section.entries
        levels == Values(es, "Level")
        level == ReadLevel(levels)
        reasons == Values(es, "Reason")
        words == Codes(reasons, LAMBDA i : IF ExactValue(reasons[i]) THEN reasons[i].s ELSE <<>>)
        OfSignal(i) ==
            IF ~StructuredLiteral(es[i].v) THEN <<"STORY_RISK_SIGNAL_INVALID">>
            ELSE IF ~OneOf(es[i].v, RiskSignals) THEN <<"STORY_RISK_SIGNAL_UNKNOWN">>
            ELSE Flag(\E j \in 1..(i - 1) :
                        IsDecl(es[j]) /\ es[j].h = "Signal" /\ es[j].v = es[i].v,
                      "STORY_RISK_SIGNAL_REPEATED")
        Of(i) == IF ~IsDecl(es[i]) THEN <<"STORY_RISK_ENTRY_INVALID">>
                 ELSE IF es[i].h = "Level" THEN <<>>
                 ELSE IF es[i].h = "Reason"
                   THEN Flag(~ExactValue(es[i].v), "STORY_RISK_REASON_INVALID")
                 ELSE IF es[i].h = "Signal" THEN OfSignal(i)
                 ELSE <<"STORY_RISK_UNKNOWN_LABEL">>
    IN  Codes(es, Of) \o RepeatedSection(section)
          \o DeclaredIssues(levels, Levels, "STORY_RISK_LEVEL_REPEATED", "STORY_RISK_LEVEL_INVALID")
          \o Flag(level # "low" /\ reasons = <<>>, "STORY_RISK_REASON_MISSING")
          \o Codes(words, LAMBDA k : Flag(level # "high" /\ words[k] \in HighRiskSignals,
                                          "STORY_RISK_SIGNAL_UNDERSTATED"))

-----------------------------------------------------------------------------
(* Readiness: the opt-in minimum content *)

ReadyPlaceholders ==
    DeclarationPlaceholders \cup {"<goal>", "<scope>", "<acceptance criterion>",
                                  "Describe the user or business outcome."}

ReadyContent(value) == ~(value.q = "prose" /\ (value.s = <<>> \/ OneOf(value, ReadyPlaceholders)))

\* A heading of level one or two ends a section, a deeper one does not; one that
\* is not followed by a space (level 0) is content like any other line.
HasReadyContent(story, heading) ==
    LET content == ContentLines(story)
        Ends(i) == content[i].t = "heading" /\ content[i].n \in 1..2
        Says(i) == CASE content[i].t = "heading" -> content[i].n = 0
                     [] content[i].t \in {"prose", "entry"} -> ReadyContent(content[i].v)
                     [] OTHER -> TRUE
    IN  \E j \in 1..Len(content) : \E i \in (j + 1)..Len(content) :
            /\ content[j].t = "heading" /\ content[j].h = heading
            /\ \A k \in (j + 1)..i : ~Ends(k)
            /\ Says(i)

\* The checkbox criteria of an acceptance document, as often as they are written.
AcceptanceBoxes(acceptance) ==
    Where(ContentLines(acceptance), LAMBDA l : l.t = "box" /\ l.h \in AcceptanceIds)

AcceptanceBoxIssues(acceptance) ==
    LET boxes == AcceptanceBoxes(acceptance)
        Of(i) == Flag(\E j \in 1..(i - 1) : boxes[j].h = boxes[i].h, "STORY_READY_AC_DUPLICATE")
                   \o Flag(~ReadyContent(boxes[i].v), "STORY_READY_AC_CONTENT")
    IN  Codes(boxes, Of) \o Flag(boxes = <<>>, "STORY_READY_AC_MISSING")

\* The rows of a table: the first line is its header, the second its separator.
TableUnder(acceptance, heading) ==
    Where(LinesUnder(ContentLines(acceptance), heading), LAMBDA l : l.t = "row")

Occurrences(acceptance, heading) == Section(acceptance, heading).count

FiveColumns(row) == Len(row.cells) = 6

EvidenceAcceptanceId(cell) == StructuredLiteral(cell) /\ OneOf(cell, AcceptanceIds)

EvidenceRows(acceptance) ==
    LET table == TableUnder(acceptance, "## Acceptance Evidence")
    IN  SubSeq(table, 3, Len(table))

\* The criteria a row of the evidence table names.
EvidenceIds(acceptance) ==
    {row.cells[1].s[1] : row \in {r \in ToSet(EvidenceRows(acceptance)) :
        FiveColumns(r) /\ r.cells[6] = Blank /\ EvidenceAcceptanceId(r.cells[1])}}

CheckEvidenceRow(rows, i, acceptanceIds) ==
    LET cells == rows[i].cells
        Whole(r) == FiveColumns(r) /\ r.cells[6] = Blank /\ EvidenceAcceptanceId(r.cells[1])
        named == CASE ~EvidenceAcceptanceId(cells[1]) -> <<"STORY_READY_EVIDENCE_AC">>
                   [] OTHER -> Flag(cells[1].s[1] \notin acceptanceIds,
                                    "STORY_READY_EVIDENCE_AC_UNKNOWN")
                                 \o Flag(\E j \in 1..(i - 1) : Whole(rows[j])
                                             /\ rows[j].cells[1] = cells[1],
                                         "STORY_READY_EVIDENCE_AC_DUPLICATE")
        Unspecified(v) == v.q = "prose" /\ (v.s = <<>> \/ OneOf(v, EvidencePlaceholders))
        OfCell(k) == IF Unspecified(cells[k + 2]) THEN <<"STORY_READY_EVIDENCE_UNSPECIFIED">>
                     ELSE Flag(~ExactValue(cells[k + 2]), "STORY_READY_EVIDENCE_LITERAL")
    IN  IF ~FiveColumns(rows[i]) THEN <<"STORY_READY_EVIDENCE_COLUMNS">>
        ELSE IF cells[6] # Blank THEN <<"STORY_READY_EVIDENCE_TAIL">>
        ELSE named \o Flag(~IsWord(cells[2], {"test", "command", "human"}),
                           "STORY_READY_EVIDENCE_METHOD")
               \o Codes(<<1, 2, 3>>, OfCell)

EvidenceTableIssues(acceptance) ==
    LET table == TableUnder(acceptance, "## Acceptance Evidence")
        rows == EvidenceRows(acceptance)
        found == Occurrences(acceptance, "## Acceptance Evidence")
        boxes == AcceptanceBoxes(acceptance)
        acceptanceIds == {b.h : b \in ToSet(boxes)}
    IN  Flag(Len(table) > 0 /\ table[1].h # "evidence header", "STORY_READY_EVIDENCE_HEADER")
          \o Flag(Len(table) > 1 /\ table[2].h # "separator", "STORY_READY_EVIDENCE_SEPARATOR")
          \o Codes(rows, LAMBDA i : CheckEvidenceRow(rows, i, acceptanceIds))
          \o Flag(found = 0, "STORY_READY_EVIDENCE_MISSING")
          \o Flag(found > 1, "STORY_READY_EVIDENCE_REPEATED")
          \o Flag(found = 1 /\ rows = <<>>, "STORY_READY_EVIDENCE_EMPTY")
          \o Codes(boxes, LAMBDA i : Flag(boxes[i].h \notin EvidenceIds(acceptance),
                                          "STORY_READY_EVIDENCE_AC_MISSING"))

CheckStoryReadiness(story, acceptance) ==
    Flag(~HasReadyContent(story, "## Goal"), "STORY_READY_GOAL")
      \o Flag(~HasReadyContent(story, "## Scope"), "STORY_READY_SCOPE")
      \o AcceptanceBoxIssues(acceptance) \o EvidenceTableIssues(acceptance)

-----------------------------------------------------------------------------
(* The contract of one risk signal *)

RiskPlaceholders ==
    DeclarationPlaceholders
      \cup {"<value>", "<source failure>", "<public projection>", "<detail policy>",
            "<contended resource>", "<linearization point>", "<conflict outcome>",
            "<bounded resource>", "<limit>", "<saturation behavior>", "<failure projection>",
            "<retained resource>", "<retention bound>", "<overflow policy>",
            "<recovery / observability>", "<evidence ac>"}

CheckRiskEvidenceReadiness(values, acceptance) ==
    IF Len(values) # 1 \/ ~StructuredLiteral(values[1]) THEN <<>>
    ELSE IF ~OneOf(values[1], AcceptanceIds) THEN <<"STORY_READY_RISK_EVIDENCE_FORMAT">>
    ELSE IF values[1].s[1] \notin {b.h : b \in ToSet(AcceptanceBoxes(acceptance))}
      THEN <<"STORY_READY_RISK_EVIDENCE_UNKNOWN">>
    ELSE Flag(values[1].s[1] \notin EvidenceIds(acceptance), "STORY_READY_RISK_EVIDENCE_UNMAPPED")

CheckRiskContract(story, acceptance, signal, ready) ==
    LET contract == RiskContracts[signal]
        section == Section(story, contract.heading)
        es == section.entries
        Of(i) == IF ~IsDecl(es[i]) THEN <<"STORY_RISK_CONTRACT_ENTRY_INVALID">>
                 ELSE Flag(es[i].h \notin ToSet(contract.fields),
                           "STORY_RISK_CONTRACT_UNKNOWN_LABEL")
        OfField(k) ==
            LET values == Values(es, contract.fields[k])
            IN  IF Len(values) # 1 THEN Structural(<<"STORY_RISK_CONTRACT_FIELD_COUNT">>)
                ELSE IF ~StructuredLiteral(values[1])
                  THEN Structural(<<"STORY_RISK_CONTRACT_FIELD_LITERAL">>)
                ELSE Reported(Flag(ready /\ OneOf(values[1], RiskPlaceholders),
                                   "STORY_READY_RISK_PLACEHOLDER"))
        linked == CheckRiskEvidenceReadiness(Values(es, "Evidence AC"), acceptance)
    IN  Structural(Codes(es, Of))
          \o (IF section.count # 1 THEN Structural(<<"STORY_RISK_CONTRACT_SECTION">>)
              ELSE Codes(contract.fields, OfField) \o (IF ready THEN Reported(linked) ELSE <<>>))

-----------------------------------------------------------------------------
(* Classification, the security fixture matrix and the conditional sections *)

ClassificationValues(story, label) ==
    StrictValues(Where(LinesUnder(ContentLines(story), "## Classification"), IsBullet), label)

IsClassified(story, label) ==
    LET given == ClassificationValues(story, label)
    IN  Len(given) = 1 /\ IsWord(given[1], {"yes", "no"})

ClassificationIssues(story, label) ==
    LET given == ClassificationValues(story, label)
    IN  IF Len(given) # 1 THEN <<"STORY_CLASSIFICATION_COUNT">>
        ELSE Flag(~IsWord(given[1], {"yes", "no"}), "STORY_CLASSIFICATION_VALUE")

ClassifiedYes(story, label) == ClassificationValues(story, label) = <<Plain("yes")>>

CheckMatrixRow(row) ==
    LET literals == <<1, 2, 4, 5>>
        OfCell(k) == IF IsPlaceholder(row.cells[literals[k]])
                       THEN <<"STORY_MATRIX_CELL_UNSPECIFIED">>
                       ELSE Flag(~HasLiteral(row.cells[literals[k]]), "STORY_MATRIX_CELL_PROSE")
    IN  IF ~FiveColumns(row) THEN <<"STORY_MATRIX_ROW_COLUMNS">>
        ELSE Codes(literals, OfCell)
               \o Flag(~IsWord(row.cells[3], {"preserve", "redact", "reject", "omit"}),
                       "STORY_MATRIX_EXPECTED_RESULT")

CheckMatrix(acceptance) ==
    LET table == TableUnder(acceptance, "## Security Fixture Matrix")
        rows == SubSeq(table, 3, Len(table))
    IN  [found |-> Occurrences(acceptance, "## Security Fixture Matrix") > 0,
         rows |-> Len(rows),
         issues |-> Flag(Len(table) > 0 /\ table[1].h # "matrix header", "STORY_MATRIX_HEADER")
                      \o Flag(Len(table) > 1 /\ table[2].h # "separator", "STORY_MATRIX_SEPARATOR")
                      \o Codes(rows, LAMBDA i : CheckMatrixRow(rows[i]))]

\* A section whose every filled bullet must name a literal.
LiteralSectionIssues(story, heading, required, missing, prose) ==
    LET section == Section(story, heading)
        Filled(l) == ~(l.t = "entry" /\ IsPlaceholder(l.v))
        Literal(l) == HasLiteral(l.v)
        filled == Where(section.entries, Filled)
    IN  IF ~required THEN <<>>
        ELSE IF filled = <<>> THEN <<missing>>
        ELSE Flag(\E k \in 1..Len(filled) : ~Literal(filled[k]), prose)

ConditionalIssues(story, acceptance) ==
    LET sensitive == ClassifiedYes(story, "Security sensitive")
        baseline == ClassifiedYes(story, "Baseline conformance")
        matrix == CheckMatrix(acceptance)
    IN  matrix.issues
          \o Flag(sensitive /\ ~matrix.found, "STORY_MATRIX_MISSING")
          \o Flag(sensitive /\ matrix.found /\ matrix.rows = 0, "STORY_MATRIX_EMPTY")
          \o LiteralSectionIssues(story, "## Trust Boundary Fields", sensitive,
                 "STORY_TRUST_BOUNDARY_MISSING", "STORY_TRUST_BOUNDARY_PROSE")
          \o Flag(~sensitive /\ matrix.found, "STORY_MATRIX_UNEXPECTED")
          \o LiteralSectionIssues(story, "## Superseded Behavior", baseline,
                 "STORY_SUPERSEDED_MISSING", "STORY_SUPERSEDED_PROSE")
          \o Flag(~baseline /\ Section(story, "## Superseded Behavior").count > 0,
                  "STORY_SUPERSEDED_UNEXPECTED")

-----------------------------------------------------------------------------
\* The diagnostics of a Story, in the order the checker reports them; decision(id)
\* is how the record of a referenced decision was resolved. An unknown
\* classification suppresses every check that depends on it.
EvaluateStory(directory, story, acceptance, decision, ready) ==
    LET mode == ReadTaskMode(story)
        referenced == ReferencedWords(Section(story, "## Architecture").entries)
        signals == ReadSignals(story)
        known == IsClassified(story, "Security sensitive")
                   /\ IsClassified(story, "Baseline conformance")
    IN  Structural(Flag(~CarriesId(directory), "STORY_ID_INVALID"))
          \o (IF ready THEN Reported(CheckStoryReadiness(story, acceptance)) ELSE <<>>)
          \o Structural(TaskModeIssues(story) \o ReadAuthorityIssues(story, mode)
               \o ReadArchitectureIssues(story)
               \o Codes(referenced, LAMBDA k : DecisionIssues(referenced[k], mode,
                                                              decision[referenced[k]]))
               \o OwnerIssues(story) \o ReadRiskIssues(story))
          \o Codes(signals, LAMBDA k : CheckRiskContract(story, acceptance, signals[k], ready))
          \o Structural(ClassificationIssues(story, "Security sensitive")
                          \o ClassificationIssues(story, "Baseline conformance")
                          \o (IF known THEN ConditionalIssues(story, acceptance) ELSE <<>>))

\* The diagnostics of the default contract among those of a readiness run.
StructureOf(diagnostics) == Where(diagnostics, LAMBDA d : d.s)
=============================================================================
