------------------------------ MODULE CheckedTree ------------------------------
(***************************************************************************)
(* The tree the static checks read, the guarded readers they read it with, *)
(* and what a command makes of the Stories it has read                     *)
(* (packages/cli/src/source.ts, story.ts, verification.ts, handoff.ts).    *)
(*                                                                         *)
(* A document is named by its number in the table of its kind; 0 is an      *)
(* empty file.  A directory carries the inode its path leads to.            *)
(***************************************************************************)
EXTENDS HandoffRules, RepositoryRules

CONSTANTS StoryDocs, AcceptanceDocs, RecordDocs, DecisionDocs, HandoffDocs

File(kind, doc) == [kind |-> kind, doc |-> doc]
Plainly(doc) == File("file", doc)       \* a regular, readable file
Absent == File("missing", 0)

\* readSafeSource: the document of a regular non-empty file; a link is never followed.
Readable(file) == file.kind = "file" /\ file.doc > 0

-----------------------------------------------------------------------------
(* Decision records *)

Decision(kind, doc) == [kind |-> kind, doc |-> doc]

\* Every file <ID>.md or <ID>-*.md that is not a link is a candidate; exactly one
\* must be there. A directory that cannot be listed holds none.
ReadDecision(decisions, id, retired) ==
    LET files == IF decisions.kind \in {"directory", "symlink"} /\ id \in DOMAIN decisions.records
                   THEN decisions.records[id] ELSE <<>>
        candidates == Where(files, LAMBDA f : f.kind \in {"file", "locked"})
    IN  IF retired THEN Decision("retired", 0)
        ELSE IF candidates = <<>> THEN Decision("missing", 0)
        ELSE IF Len(candidates) > 1 THEN Decision("ambiguous", 0)
        ELSE IF Readable(candidates[1]) THEN Decision("found", candidates[1].doc)
        ELSE Decision("unreadable", 0)

\* What is known of the decisions that were read, with one more.
Knowing(decided, id, found) ==
    [x \in DOMAIN decided \cup {id} |-> IF x = id THEN found ELSE decided[x]]

Resolved(decided) ==
    [id \in DOMAIN decided |->
        [kind |-> decided[id].kind,
         source |-> IF decided[id].kind = "found" THEN DecisionDocs[decided[id].doc] ELSE <<>>]]

-----------------------------------------------------------------------------
(* One entry of a command: the documents of a Story, or why there are none *)

Entry_(kind, name, code, story, acceptance, record, decided) ==
    [kind |-> kind, name |-> name, code |-> code, story |-> story,
     acceptance |-> acceptance, record |-> record, decided |-> decided]
NoDecisions == [id \in {} |-> Decision("missing", 0)]
ErrorEntry(name, code) == Entry_("error", name, code, 0, 0, 0, NoDecisions)

\* The diagnostics of `story check`, and the default contract among them.
StoryDiagnostics(entry, ready) ==
    EvaluateStory(entry.name, StoryDocs[entry.story], AcceptanceDocs[entry.acceptance],
                  Resolved(entry.decided), ready)
ContractHolds(entry) == StructureOf(StoryDiagnostics(entry, FALSE)) = <<>>

\* A record that could not be read is judged as a missing one.
ResultOf(entry) ==
    EvaluateResult(StoryDocs[entry.story], AcceptanceDocs[entry.acceptance], entry.record > 0,
                   IF entry.record > 0 THEN RecordDocs[entry.record] ELSE <<>>)

HasError(entries) == \E i \in 1..Len(entries) : entries[i].kind \in {"error", "record-error"}

StoryOutcome(entries, ready) ==
    CASE HasError(entries) \/ entries = <<>> -> "ERROR"
      [] /\ ~HasError(entries) /\ entries # <<>>
         /\ \E i \in 1..Len(entries) : StoryDiagnostics(entries[i], ready) # <<>> ->
           IF ready THEN "STORY_READINESS_INCOMPLETE" ELSE "STORY_CONTRACT_INCOMPLETE"
      [] OTHER -> IF ready THEN "STORY_READINESS_OK" ELSE "STORY_CONTRACT_OK"

PlanOutcome(entries) ==
    IF HasError(entries) \/ entries = <<>> THEN "ERROR"
    ELSE IF \E i \in 1..Len(entries) : PlanIssues(StoryDocs[entries[i].story]) # <<>>
      THEN "VERIFICATION_PLAN_INCOMPLETE" ELSE "VERIFICATION_PLAN_OK"

\* The outcome of the records that were judged: incomplete before fail before
\* partial, and only all passing is a pass.
WorstOf(results) ==
    IF \E r \in results : r.planIssues # <<>> \/ r.incomplete
      THEN "VERIFICATION_RESULT_INCOMPLETE"
    ELSE IF \E r \in results : r.status = "fail" THEN "VERIFICATION_FAIL"
    ELSE IF \E r \in results : r.status = "partial" THEN "VERIFICATION_PARTIAL"
    ELSE "VERIFICATION_PASS"

\* An error dominates: the run could not judge everything it was asked to.
RecordOutcome(entries) ==
    IF HasError(entries) \/ entries = <<>> THEN "ERROR"
    ELSE WorstOf({ResultOf(entries[i]) : i \in 1..Len(entries)})

-----------------------------------------------------------------------------
(* The handoff, as a check of its own *)

HandoffHolds(doc) == EvaluateHandoff(HandoffDocs[doc]) = <<>>

HandoffOutcome(file) ==
    IF ~Readable(file) THEN "ERROR"
    ELSE IF HandoffHolds(file.doc) THEN "HANDOFF_CONTRACT_OK" ELSE "HANDOFF_CONTRACT_INCOMPLETE"
=============================================================================
