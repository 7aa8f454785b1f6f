--------------------------- MODULE VerificationRules ---------------------------
(***************************************************************************)
(* What `verification check` decides: the execution contract a Story       *)
(* declares (packages/core/src/verification.ts) and the verdict on a       *)
(* recorded result (packages/core/src/verification-result.ts).             *)
(***************************************************************************)
EXTENDS Declarations

CONSTANT AcceptanceIds      \* the words that are AC-<digits>

Layers == {"lint", "static", "unit", "integration", "contract", "e2e", "architecture"}
RiskSignals == {"error-projection", "concurrency", "bounded-capacity", "retention-overflow"}
Profile ==
    [low    |-> <<"lint", "static", "unit">>,
     medium |-> <<"lint", "static", "unit", "integration">>,
     high   |-> <<"lint", "static", "unit", "integration", "contract", "e2e">>]

Repeated(section) == Flag(section.count > 1, "VERIFICATION_SECTION_REPEATED")

-----------------------------------------------------------------------------
(* The plan *)

\* One value among the words, or the default: a repeat and an unknown word are
\* reported and resolve to the default.
Declared(values, words, default) ==
    IF Len(values) = 1 /\ IsWord(values[1], words) THEN values[1].s[1] ELSE default

DeclaredIssues(values, words, repeated, invalid) ==
    Flag(Len(values) > 1, repeated)
      \o Flag(Len(values) = 1 /\ ~IsWord(values[1], words), invalid)

PlanTaskModes(story) == Values(Section(story, "## Classification").entries, "Task mode")
PlanTaskMode(story) == Declared(PlanTaskModes(story), TaskModes, "execution")

\* The first declaration of an operation decides it, when it says yes or no.
Grant(entries, op, default) ==
    LET given == Values(entries, op)
    IN  IF given = <<>> \/ ~IsWord(given[1], {"yes", "no"}) THEN default
                                                           ELSE given[1] = Plain("yes")

\* mistaken: modify is granted whatever the task mode
ModifyByDefault(mode) == [op \in Operations |-> op \in {"plan", "modify"}]

DefaultAuthority(mode) ==
    [op \in Operations |-> op = "plan" \/ (op = "modify" /\ mode \in {"execution", "mixed"})]

PlanAuthority(story, mode) ==
    LET section == Section(story, "## Authority")
    IN  [op \in Operations |-> Grant(section.entries, op, DefaultAuthority(mode)[op])]

PlanAuthorityIssues(story) ==
    LET section == Section(story, "## Authority")
        es == section.entries
        Of(i) == IF ~IsDecl(es[i]) THEN <<"VERIFICATION_AUTHORITY_ENTRY_INVALID">>
                 ELSE IF es[i].h \notin Operations THEN <<"VERIFICATION_AUTHORITY_UNKNOWN_OPERATION">>
                 ELSE IF \E j \in 1..(i - 1) : IsDecl(es[j]) /\ es[j].h = es[i].h
                   THEN <<"VERIFICATION_AUTHORITY_REPEATED">>
                 ELSE Flag(~IsWord(es[i].v, {"yes", "no"}), "VERIFICATION_AUTHORITY_VALUE_INVALID")
    IN  Codes(es, Of) \o Repeated(section)

ArchitectureLabels == {"Decision", "Boundary", "Contract", "Owner"}

PlanImpact(story) ==
    Declared(Values(Section(story, "## Architecture").entries, "Impact"), Levels, "low")

PlanArchitectureIssues(story) ==
    LET section == Section(story, "## Architecture")
        es == section.entries
        Of(i) == IF ~IsDecl(es[i]) THEN <<"VERIFICATION_ARCHITECTURE_ENTRY_INVALID">>
                 ELSE IF es[i].h = "Impact" THEN <<>>
                 ELSE IF es[i].h \notin ArchitectureLabels
                   THEN <<"VERIFICATION_ARCHITECTURE_UNKNOWN_LABEL">>
                 ELSE Flag(~ExactLiteral(es[i].v), "VERIFICATION_ARCHITECTURE_LITERAL_INVALID")
    IN  Codes(es, Of) \o Repeated(section)
          \o DeclaredIssues(Values(es, "Impact"), Levels,
                 "VERIFICATION_ARCHITECTURE_IMPACT_REPEATED", "VERIFICATION_ARCHITECTURE_IMPACT_INVALID")

PlanRiskLevel(story) ==
    Declared(Values(Section(story, "## Risk").entries, "Level"), Levels, "low")

PlanRiskIssues(story) ==
    LET section == Section(story, "## Risk")
        es == section.entries
        Signal(v) == StructuredLiteral(v) /\ OneOf(v, RiskSignals)
        OfSignal(i) ==
            IF ~ExactLiteral(es[i].v) THEN <<"VERIFICATION_RISK_SIGNAL_INVALID">>
            ELSE IF ~Signal(es[i].v) THEN <<"VERIFICATION_RISK_SIGNAL_UNKNOWN">>
            ELSE Flag(\E j \in 1..(i - 1) :
                        IsDecl(es[j]) /\ es[j].h = "Signal" /\ es[j].v = es[i].v,
                      "VERIFICATION_RISK_SIGNAL_REPEATED")
        Of(i) == IF ~IsDecl(es[i]) THEN <<"VERIFICATION_RISK_ENTRY_INVALID">>
                 ELSE IF es[i].h = "Level" THEN <<>>
                 ELSE IF es[i].h = "Reason"
                   THEN Flag(~ExactLiteral(es[i].v), "VERIFICATION_RISK_REASON_INVALID")
                 ELSE IF es[i].h = "Signal" THEN OfSignal(i)
                 ELSE <<"VERIFICATION_RISK_UNKNOWN_LABEL">>
    IN  Codes(es, Of) \o Repeated(section)
          \o DeclaredIssues(Values(es, "Level"), Levels,
                 "VERIFICATION_RISK_LEVEL_REPEATED", "VERIFICATION_RISK_LEVEL_INVALID")

\* The execution contract a Story resolves to, and what keeps it incomplete.
ResolvePlan(story) ==
    LET mode == PlanTaskMode(story)
        impact == PlanImpact(story)
        risk == PlanRiskLevel(story)
    IN  [taskMode |-> mode,
         authority |-> PlanAuthority(story, mode),
         riskLevel |-> risk,
         architectureImpact |-> impact,
         requiredChecks |-> Profile[risk]
                              \o (IF impact # "low" THEN <<"architecture">> ELSE <<>>)]

PlanIssues(story) ==
    DeclaredIssues(PlanTaskModes(story), TaskModes,
        "VERIFICATION_TASK_MODE_REPEATED", "VERIFICATION_TASK_MODE_INVALID")
      \o PlanAuthorityIssues(story) \o PlanArchitectureIssues(story) \o PlanRiskIssues(story)

-----------------------------------------------------------------------------
(* The recorded result *)

\* A recorded observation: <status> — <detail>; an evidence label is quoted.
Observed(label, status, detail) == Line("decl", label, Plain(status), 0, TRUE, <<detail>>)
Evidence(id, status, detail)    == Line("decl", id, Plain(status), 1, TRUE, <<detail>>)

CheckStatuses == {"pass", "fail", "skipped", "blocked", "unsupported"}
EvidenceStatuses == {"pass", "fail", "blocked", "skipped"}

Detailed(entry) == entry.cells # <<>> /\ ExactLiteral(entry.cells[1])

\* The ids of the checkbox criteria, each once, in order of declaration.
CriteriaOf(acceptance) ==
    LET boxes == Where(ContentLines(acceptance), LAMBDA l : l.t = "box" /\ l.h \in AcceptanceIds)
        Ids == [k \in 1..Len(boxes) |-> boxes[k].h]
    IN  Picked(Ids, {k \in 1..Len(Ids) : \A j \in 1..(k - 1) : Ids[j] # Ids[k]})

\* The entries that count: of those that are named well, the first of each name.
Counted(es, named) ==
    {i \in 1..Len(es) : es[i] \in named
        /\ \A j \in 1..(i - 1) : ~(es[j] \in named /\ es[j].h = es[i].h)}

\* mistaken: whatever was not seen to fail counts as passed
NotFailed(es, counted, name) == ~\E i \in counted : es[i].h = name /\ IsWord(es[i].v, {"fail"})

\* Whether a named entry was observed to pass: silence is never a pass.
Passed(es, counted, name) == \E i \in counted : es[i].h = name /\ IsWord(es[i].v, {"pass"})

Failed(es, counted) == \E i \in counted : IsWord(es[i].v, {"fail"})

ChecksIn(es) == {e \in ToSet(es) : IsDecl(e) /\ e.n = 0 /\ e.h \in Layers}

CriteriaIn(es, criteria) == {e \in ToSet(es) : IsDecl(e) /\ e.n = 1 /\ e.h \in criteria}

CheckDefects(es) ==
    LET counted == Counted(es, ChecksIn(es))
        Of(i) == IF ~IsDecl(es[i]) THEN <<"VERIFICATION_CHECK_ENTRY_INVALID">>
                 ELSE IF es[i] \notin ChecksIn(es) THEN <<"VERIFICATION_CHECK_UNKNOWN">>
                 ELSE IF i \notin counted THEN <<"VERIFICATION_CHECK_REPEATED">>
                 ELSE IF ~IsWord(es[i].v, CheckStatuses) THEN <<"VERIFICATION_CHECK_STATUS_INVALID">>
                 ELSE Flag(~Detailed(es[i]), "VERIFICATION_CHECK_DETAIL_INVALID")
    IN  Codes(es, Of)

EvidenceDefects(es, criteria) ==
    LET counted == Counted(es, CriteriaIn(es, criteria))
        Of(i) == IF ~IsDecl(es[i]) THEN <<"VERIFICATION_EVIDENCE_ENTRY_INVALID">>
                 ELSE IF es[i].n = 0 THEN <<"VERIFICATION_EVIDENCE_AC_INVALID">>
                 ELSE IF es[i].h \notin criteria THEN <<"VERIFICATION_EVIDENCE_AC_UNKNOWN">>
                 ELSE IF i \notin counted THEN <<"VERIFICATION_EVIDENCE_AC_REPEATED">>
                 ELSE IF ~IsWord(es[i].v, EvidenceStatuses)
                   THEN <<"VERIFICATION_EVIDENCE_STATUS_INVALID">>
                 ELSE Flag(~Detailed(es[i]), "VERIFICATION_EVIDENCE_DETAIL_INVALID")
    IN  Codes(es, Of)

\* The operations a record says were used: bare bullets that name one.
NamesOperation(entry) == entry.t = "entry" /\ IsWord(entry.v, Operations)

AuthorityDefects(es) ==
    Codes(es, LAMBDA i : Flag(~NamesOperation(es[i]), "VERIFICATION_AUTHORITY_USED_UNKNOWN"))

\* The operations that were used although the Story does not grant them.
Conflicts(es, authority) ==
    Where(es, LAMBDA e : NamesOperation(e) /\ ~authority[e.v.s[1]])

RiskDefects(es) ==
    Codes(es, LAMBDA i : Flag(~(es[i].t = "entry" /\ ExactLiteral(es[i].v)),
                              "VERIFICATION_RESIDUAL_RISK_INVALID"))

\* A record that is missing, or that does not declare its two sections once, is
\* judged no further; it has a plan and no status.
Stopped(plan, planIssues) ==
    [plan |-> plan, planIssues |-> planIssues, incomplete |-> TRUE, status |-> "none"]

\* The verdict on a record read from one Story's sources. What is not proven is
\* an issue but no defect: it makes the status partial, not the record incomplete.
EvaluateResult(story, acceptance, recorded, record) ==
    LET plan == ResolvePlan(story)
        planIssues == PlanIssues(story)
        criteria == CriteriaOf(acceptance)
        checks == Section(record, "## Checks")
        evidence == Section(record, "## Evidence")
        used == Section(record, "## Authority Used").entries
        risks == Section(record, "## Residual Risks").entries
        countedChecks == Counted(checks.entries, ChecksIn(checks.entries))
        countedEvidence == Counted(evidence.entries,
                                   CriteriaIn(evidence.entries, ToSet(criteria)))
        read == CheckDefects(checks.entries)
                  \o EvidenceDefects(evidence.entries, ToSet(criteria))
                  \o AuthorityDefects(used) \o RiskDefects(risks)
        failed == \/ Failed(checks.entries, countedChecks)
                  \/ Failed(evidence.entries, countedEvidence)
                  \/ Conflicts(used, plan.authority) # <<>>
        proven == /\ \A layer \in ToSet(plan.requiredChecks) :
                        Passed(checks.entries, countedChecks, layer)
                  /\ \A id \in ToSet(criteria) : Passed(evidence.entries, countedEvidence, id)
        silent == ~failed /\ ~proven /\ risks = <<>>
    IN  IF ~recorded \/ checks.count # 1 \/ evidence.count # 1 \/ criteria = <<>>
        THEN Stopped(plan, planIssues)
        ELSE [plan |-> plan, planIssues |-> planIssues,
              incomplete |-> read # <<>> \/ silent,
              status |-> IF failed THEN "fail" ELSE IF proven THEN "pass" ELSE "partial"]

=============================================================================
