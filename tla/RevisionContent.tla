--------------------------- MODULE RevisionContent ---------------------------
(***************************************************************************)
(* What the review commands compute from revision requests and responses    *)
(* (packages/core/src/review/revision-content.ts, confirmation.ts and        *)
(* packages/cli/src/review-input.ts): the judgements, without any state.     *)
(*                                                                         *)
(* A revision is its schema fields as far as the judgements tell them        *)
(* apart: its id, whether it blocks, the id it supersedes, and a body for    *)
(* the rest.  Two revisions are equal exactly if revisionContentKey gives    *)
(* the same text for both.                                                  *)
(***************************************************************************)
EXTENDS Naturals, FiniteSets

CONSTANTS
  Ids,           \* ids of revision requests
  NoId,          \* the supersedes of a revision that has none
  Bodies,        \* contents of a revision apart from the fields below
  Fingerprints,  \* requirement fingerprints of the batch
  Prefixes       \* the first 12 digits of a hash

ASSUME NoIdAssumption == NoId \notin Ids

Revisions ==
  [id : Ids, blocking : BOOLEAN, supersedes : Ids \cup {NoId}, body : Bodies]

\* A revision sheet, identified by its bytes, which its name abbreviates.
SheetType == [fp : Fingerprints, prefix : Prefixes, revisions : SUBSET Revisions]

Outcomes == {"incorporated", "needs-decision", "not-incorporated"}

\* One answer: located says that every locator it gives matches the sources.
Answers == [id : Ids, outcome : Outcomes, located : BOOLEAN]

IdsOf(R)       == {r.id : r \in R}
RevisionsIn(S) == UNION {s.revisions : s \in S}

-----------------------------------------------------------------------------
\* The same id has the same content everywhere.
SameContentPerId(R) == \A a, b \in R : a.id = b.id => a = b

\* No two requests claim the same target.
NoDoubledTarget(R) ==
  \A a, b \in R : a.supersedes = b.supersedes /\ a.supersedes # NoId => a.id = b.id

\* No chain of supersedes comes back to where it started.
NoCycle(R) ==
  \A S \in (SUBSET R) \ {{}} : \E r \in S : \A q \in S : q.id # r.supersedes

NoSupersedesConflict(R) == NoDoubledTarget(R) /\ NoCycle(R)

\* What validateRevisionRecordSet accepts, and parseRevisionSheetBlock too.
ValidSet(R) == SameContentPerId(R) /\ NoSupersedesConflict(R)

\* The requests that no other request has replaced.
Effective(R) == {r \in R : \A q \in R : q.supersedes # r.id}

-----------------------------------------------------------------------------
\* The checks of `review import` on a sheet against what is imported already.
Fresh(sheet, R) == {r \in sheet.revisions : r.id \notin IdsOf(R)}

ContentConflict(sheet, R) ==
  \E a \in sheet.revisions, b \in R : a.id = b.id /\ a # b

\* mistaken: the target need not be known
SupersedesUnknownAllowed(sheet, R) ==
  \E r \in Fresh(sheet, R), q \in R \cup sheet.revisions :
    r.supersedes # NoId /\ q.supersedes = r.supersedes /\ q.id # r.id

SupersedesRefused(sheet, R) ==
  \E r \in Fresh(sheet, R) :
    /\ r.supersedes # NoId
    /\ \/ r.supersedes \notin IdsOf(R \cup sheet.revisions)
       \/ \E q \in R \cup sheet.revisions :
            q.supersedes = r.supersedes /\ q.id # r.id

-----------------------------------------------------------------------------
\* The requests that a response to these sheets has to answer.
ToAnswer(listed, R) == IdsOf(RevisionsIn(listed)) \cap IdsOf(Effective(R))

\* mistaken: a request may go without an answer
CoveredLoosely(listed, R, answers) == IdsOf(answers) \subseteq ToAnswer(listed, R)

\* Exactly one answer for each of them, and none for anything else.
Covered(listed, R, answers) ==
  /\ IdsOf(answers) = ToAnswer(listed, R)
  /\ \A a, b \in answers : a.id = b.id => a = b

\* mistaken: whatever the answer, it resolves the request
UnresolvedUntilAnswered(R, responses, fp) ==
  {r \in Effective(R) : \A p \in responses : p.to = fp => r.id \notin IdsOf(p.answers)}

\* The effective requests that no response for fp has incorporated.
Unresolved(R, responses, fp) ==
  {r \in Effective(R) :
     \A p \in responses : p.to = fp =>
       \A a \in p.answers : a.id = r.id => a.outcome # "incorporated"}
=============================================================================
