---------------------------- MODULE PreflightRules ----------------------------
(***************************************************************************)
(* How `review preflight` and `review goal-plan` turn what they find into an *)
(* outcome (packages/core/src/review/preflight.ts): every finding is an      *)
(* issue code, every code has one class, and the worst class decides.        *)
(* Messages, paths and the order of the findings are left out.              *)
(***************************************************************************)
EXTENDS RevisionContent

CONSTANT StoryCodes   \* the STORY_* codes of `story check --ready`

StaleCodes ==
  {"PACKET_FINGERPRINT_MISMATCH", "PACKET_REVISION_MISMATCH",
   "CONFIRMATION_STALE", "SEMANTIC_STALE"}

BlockedCodes == StoryCodes \cup
  {"SOURCE_MISSING", "NOT_A_GIT_REPOSITORY", "SOURCES_UNCOMMITTED",
   "DEPENDENCY_CYCLE", "STORY_UNKNOWN", "REQUIREMENT_UNMAPPED",
   "ACCEPTANCE_MISSING", "ANCHOR_UNKNOWN", "ANCHOR_DUPLICATE",
   "UNRESOLVED_BLOCKING", "MANIFEST_INVALID", "READINESS_INVALID",
   "READINESS_STALE", "READINESS_CRITERIA_MISMATCH",
   "READINESS_OPERATION_UNGRANTED", "READINESS_REFERENCE_UNKNOWN",
   "READINESS_MISSING", "SEMANTIC_BLOCKING"}

IncompleteCodes ==
  {"CONFIRMATION_MISSING", "REVISION_UNADDRESSED", "RESPONSE_MISMATCH",
   "RESPONSE_INVALID", "SEMANTIC_MISSING", "RECORD_WRITE_FAILED",
   "INPUT_TOO_LARGE", "SEMANTIC_INVALID", "SEMANTIC_COVERAGE"}

\* BASELINE_INVALID is RECORD_INVALID with the path of the report that was to
\* be compared with.
AdvisoryCodes ==
  {"DEPENDENCY_UNDECLARED", "RECORD_INVALID", "BASELINE_INVALID", "REVISION_STALE_TARGET",
   "SECTION_UNRECOGNIZED", "SOURCE_ADDED", "SOURCE_REMOVED", "SOURCE_CHANGED",
   "MANIFEST_CHANGED", "SEMANTIC_OBSERVATION"}

Codes == StaleCodes \cup BlockedCodes \cup IncompleteCodes \cup AdvisoryCodes

PreflightOutcomes == {"STALE", "BLOCKED", "INCOMPLETE", "READY"}

Outcome(found) ==
  CASE found \cap StaleCodes # {}      -> "STALE"
    [] found \cap StaleCodes = {} /\ found \cap BlockedCodes # {} -> "BLOCKED"
    [] found \cap (StaleCodes \cup BlockedCodes) = {} /\ found \cap IncompleteCodes # {} ->
         "INCOMPLETE"
    [] found \subseteq AdvisoryCodes   -> "READY"

If(condition, codes) == IF condition THEN codes ELSE {}

\* The requests in the way: the blocking ones, and the others unless the
\* confirmation that applies defers them.
UnresolvedFindings(R, responses, fp, deferred) ==
  LET open == Unresolved(R, responses, fp)
  IN  If(\E r \in open : r.blocking, {"UNRESOLVED_BLOCKING"})
        \cup If(\E r \in open : ~r.blocking /\ r.id \notin deferred,
                {"REVISION_UNADDRESSED"})

\* A stored response has to be to imported sheets.  Only one for the
\* fingerprint at hand has to answer today's requests.
ResponseFindings(r, sheets, fp) ==
  IF ~(r.sheets \subseteq sheets) THEN {"RESPONSE_INVALID"}
  ELSE If(/\ r.to = fp
          /\ IdsOf(r.answers) # ToAnswer(r.sheets, RevisionsIn(sheets)),
          {"RESPONSE_MISMATCH"})

RecordFindings(sheets, responses, fp) ==
  If(~ValidSet(RevisionsIn(sheets)), {"RECORD_INVALID"})
    \cup UNION {ResponseFindings(r, sheets, fp) : r \in responses}

\* --expect-revision: the commit has to be the one expected.
HeadFindings(head, expected) ==
  IF head = "no repository" THEN {"NOT_A_GIT_REPOSITORY"}
  ELSE If(head # expected, {"PACKET_REVISION_MISMATCH"})
=============================================================================
