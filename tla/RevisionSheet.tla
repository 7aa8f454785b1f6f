---------------------------- MODULE RevisionSheet ----------------------------
(***************************************************************************)
(* What the script of a rendered review page computes                       *)
(* (packages/core/src/review/annotation-logic.ts and annotation-state.ts):   *)
(* which lists of requests are acceptable, what a sheet is read as, what     *)
(* becomes of a stored draft, and what restoring a sheet does to a list.     *)
(*                                                                         *)
(* A request is its id, its body (targets, quote, kind, proposal and         *)
(* rationale), the fingerprint of the page it was written on and the id it   *)
(* supersedes.  In the page it also has the flags exported and pending.      *)
(***************************************************************************)
EXTENDS Naturals, FiniteSets, Sequences, SequencesExt

CONSTANTS
  Ids,            \* ids of requests
  NoId,           \* the supersedes of a request that has none
  Bodies,         \* bodies the page accepts
  BadBody,        \* a body that does not fit the schema
  Fingerprints,   \* fingerprints of rendered pages
  MAX_REVISIONS,  \* requests a page, a draft or a sheet may hold
  SheetCapacity   \* requests that fit MAX_SHEET_BYTES

ASSUME SheetAssumption ==
  /\ NoId \notin Ids /\ BadBody \notin Bodies
  /\ MAX_REVISIONS \in Nat /\ SheetCapacity \in Nat

Records ==
  [id : Ids, body : Bodies, fingerprint : Fingerprints, supersedes : Ids \cup {NoId}]

Requests ==
  [id : Ids, body : Bodies, fingerprint : Fingerprints, supersedes : Ids \cup {NoId},
   exported : BOOLEAN, pending : BOOLEAN]

Record(r) ==
  [id |-> r.id, body |-> r.body, fingerprint |-> r.fingerprint, supersedes |-> r.supersedes]

WithFlags(r, exported, pending) ==
  [id |-> r.id, body |-> r.body, fingerprint |-> r.fingerprint, supersedes |-> r.supersedes,
   exported |-> exported, pending |-> pending]

IdsOf(list)    == {list[i].id : i \in DOMAIN list}
Find(list, id) == CHOOSE r \in Range(list) : r.id = id
IsSuperseded(list, id) == \E r \in Range(list) : r.supersedes = id
AtTotalLimit(list)     == Len(list) >= MAX_REVISIONS

-----------------------------------------------------------------------------
\* Supersedes goes round: followed from this request, it never leaves some ids of the list.
Cyclic(list, r) ==
  \E C \in SUBSET IdsOf(list) :
    r.id \in C /\ \A q \in Range(list) : q.id \in C => q.supersedes \in C

DoublyClaimed(list) ==
  {list[i].id : i \in {k \in DOMAIN list :
     /\ list[k].supersedes \notin {NoId, list[k].id}
     /\ \E j \in 1..(k - 1) : /\ list[j].supersedes = list[k].supersedes
                              /\ list[j].supersedes # list[j].id}}

\* The requests that break a chain; of two that claim one target, the later.
SupersedesConflicts(list) ==
  DoublyClaimed(list) \cup {r.id : r \in {q \in Range(list) : Cyclic(list, q)}}

\* The requests whose target is missing or has not been exported yet.
SupersedesTargetProblems(list) ==
  {r.id : r \in {q \in Range(list) :
     /\ q.supersedes \notin {NoId, q.id}
     /\ q.supersedes \in IdsOf(list) => ~Find(list, q.supersedes).exported}}

SupersedesProblems(list) == SupersedesConflicts(list) \cup SupersedesTargetProblems(list)

\* Rejecting a request rejects those that supersede it, and so on: what is left is what
\* can be followed within the list without meeting a rejected request.
WithDanglingSuccessors(list, rejected) ==
  IF rejected = {} THEN {}
  ELSE {id \in IdsOf(list) : ~ \E C \in SUBSET (IdsOf(list) \ rejected) :
          /\ id \in C
          /\ \A q \in Range(list) :
               q.id \in C /\ q.supersedes \in IdsOf(list) => q.supersedes \in C}

-----------------------------------------------------------------------------
\* The entries of a list at some positions, in their order.
EntriesAt(list, positions) ==
  LET nth(n) == CHOOSE i \in positions : Cardinality({j \in positions : j <= i}) = n
  IN IF positions = DOMAIN list THEN list
     ELSE [n \in 1..Cardinality(positions) |-> list[nth(n)]]

Without(list, ids) == EntriesAt(list, {i \in DOMAIN list : list[i].id \notin ids})

\* The first revision of each id.
FirstOfEachId(list) ==
  EntriesAt(list, {i \in DOMAIN list : \A j \in 1..(i - 1) : list[j].id # list[i].id})

SameContentPerId(list) ==
  \A i, j \in DOMAIN list : list[i].id = list[j].id => Record(list[i]) = Record(list[j])

FitsSchema(r) == r.body # BadBody /\ r.supersedes # r.id

\* parseSheet: accepted sheets lose only repetitions of the same revision.
ParseSheet(revisions) ==
  LET unique == FirstOfEachId(revisions)
  IN [ok |-> /\ Len(revisions) <= SheetCapacity /\ Len(revisions) <= MAX_REVISIONS
             /\ \A r \in Range(revisions) : FitsSchema(r)
             /\ SameContentPerId(revisions)
             /\ SupersedesConflicts(unique) = {},
      revisions |-> unique]

\* exportSheet: every request of the page, and only if the page could read it back.
ExportSheet(list) ==
  LET records == [i \in DOMAIN list |-> Record(list[i])]
      check   == ParseSheet(records)
  IN [ok |-> check.ok /\ check.revisions = records, revisions |-> records]

-----------------------------------------------------------------------------
(***************************************************************************)
(* What the browser keeps under the key of a page: nothing, a text that is   *)
(* not a list of requests, or a list whose entries need not be valid.        *)
(***************************************************************************)
NoDraft       == [kind |-> "none", requests |-> <<>>]
Unreadable    == [kind |-> "unreadable", requests |-> <<>>]
Draft(list)   == [kind |-> "draft", requests |-> list]

\* loadState: the valid entries, and whether there was nothing else.
LoadState(raw) ==
  IF raw.kind = "unreadable" \/ Len(raw.requests) > MAX_REVISIONS
  THEN [ok |-> FALSE, requests |-> <<>>]
  ELSE LET fitting  == {i \in DOMAIN raw.requests : FitsSchema(raw.requests[i])}
           valid    == FirstOfEachId(EntriesAt(raw.requests, fitting))
           rejected == WithDanglingSuccessors(valid, SupersedesProblems(valid))
           kept     == Without(valid, rejected)
       IN [ok |-> kept = raw.requests, requests |-> kept]

-----------------------------------------------------------------------------
\* mistaken: restored requests count as drafts
RestoreAsDrafts(list, revisions, fingerprint) ==
  LET fresh  == Without(revisions, IdsOf(list))
      merged == list \o [i \in DOMAIN fresh |->
                  WithFlags(fresh[i], FALSE, fresh[i].fingerprint # fingerprint)]
  IN [ok |-> /\ SameContentPerId(list \o revisions) /\ Len(merged) <= MAX_REVISIONS
             /\ SupersedesProblems(merged) = {},
      requests |-> merged]

\* restore: a sheet that was read, put back into the list of a page.
Restore(list, revisions, fingerprint) ==
  LET known(r) == r.id \in IdsOf(list)
      same(r)  == known(r) /\ Record(Find(list, r.id)) = r
      fresh    == Without(revisions, IdsOf(list))
      existing == [i \in DOMAIN list |->
                     IF list[i].id \in IdsOf(revisions)
                     THEN WithFlags(list[i], TRUE, list[i].pending) ELSE list[i]]
      entries  == [i \in DOMAIN fresh |->
                     WithFlags(fresh[i], TRUE, fresh[i].fingerprint # fingerprint)]
      merged   == existing \o entries
  IN [ok |-> /\ \A r \in Range(revisions) : known(r) => same(r)
             /\ Len(merged) <= MAX_REVISIONS
             /\ SupersedesProblems(merged) = {},
      requests |-> merged]

=============================================================================
