-------------------------- MODULE AnnotationInvariant --------------------------
(***************************************************************************)
(* The inductive invariant of AnnotationPage: lists and sheets stay sound,   *)
(* every id is old to all, an export panel shows the requests as they are,   *)
(* and what a page says of its storage is so.                               *)
(***************************************************************************)
EXTENDS AnnotationPage

\* Entries of a stored draft need not fit the schema.
StoredRequests ==
  [id : Ids, body : Bodies \cup {BadBody}, fingerprint : Fingerprints,
   supersedes : Ids \cup {NoId}, exported : BOOLEAN, pending : BOOLEAN]

Raws   == [kind : {"none", "unreadable", "draft"}, requests : Seq(StoredRequests)]
Panels == [kind : {"none", "restore", "export-error", "export"}, sheet : Seq(Records)]
Writes == [pending : BOOLEAN, live : BOOLEAN, sheet : Seq(Records)]

PageType ==
  /\ page \in [Tabs -> Rendered]
  /\ working \in [Tabs -> BOOLEAN]
  /\ storage \in [Rendered -> Raws]
  /\ requests \in [Tabs -> Seq(Requests)]
  /\ panel \in [Tabs -> Panels]
  /\ writing \in [Tabs -> Writes]
  /\ quarantine \in [Tabs -> BOOLEAN]
  /\ warned \in [Tabs -> BOOLEAN]
  /\ sheets \subseteq Seq(Records)
  /\ stale \in [Tabs -> BOOLEAN]
  /\ made \in 0..MaxNew
  /\ faults \in Nat

Distinct(list) == \A i, j \in DOMAIN list : list[i].id = list[j].id => i = j

Fitting(list) == \A i \in DOMAIN list : FitsSchema(list[i])

RecordsOf(list) == [i \in DOMAIN list |-> Record(list[i])]

\* A list that loadState gives back as it is.
SoundList(list) ==
  /\ Distinct(list) /\ Fitting(list)
  /\ Len(list) <= MAX_REVISIONS
  /\ SupersedesProblems(list) = {}

\* A sheet that restore accepts on an empty page.
SoundSheet(sheet) ==
  /\ Distinct(sheet) /\ Fitting(sheet)
  /\ Len(sheet) <= MAX_REVISIONS /\ Len(sheet) <= SheetCapacity
  /\ SupersedesConflicts(sheet) = {}
  /\ \A i \in DOMAIN sheet : sheet[i].supersedes \in IdsOf(sheet) \cup {NoId}

ListsSound == \A t \in Tabs : SoundList(requests[t])

SheetsSound ==
  /\ \A s \in sheets : SoundSheet(s)
  /\ \A t \in Tabs : panel[t].kind = "export" => SoundSheet(panel[t].sheet)
  /\ \A t \in Tabs : writing[t].pending => SoundSheet(writing[t].sheet)

\* The ids met so far; the next one is new to all lists and sheets.
Known == GivenIds \cup {NewId(n) : n \in 1..made}

IdsKnown ==
  /\ \A t \in Tabs : /\ IdsOf(requests[t]) \subseteq Known
                     /\ IdsOf(panel[t].sheet) \subseteq Known
                     /\ IdsOf(writing[t].sheet) \subseteq Known
  /\ \A f \in Rendered : IdsOf(storage[f].requests) \subseteq Known
  /\ \A s \in sheets : IdsOf(s) \subseteq Known

\* An export panel shows the requests as they are, and a write that may still mark some is
\* one of the panel that is shown.
PanelIsCurrent ==
  \A t \in Tabs :
    /\ panel[t].kind = "export" => panel[t].sheet = RecordsOf(requests[t])
    /\ writing[t].live => /\ writing[t].pending
                          /\ panel[t].kind = "export"
                          /\ panel[t].sheet = writing[t].sheet

\* What is marked in a list left in a sheet.
MarksLeft(list) ==
  \A i \in DOMAIN list :
    list[i].exported /\ list[i].id \notin GivenIds => \E s \in sheets : Record(list[i]) \in Range(s)

MarksAreTrue ==
  /\ \A t \in Tabs : MarksLeft(requests[t])
  /\ \A f \in Rendered : MarksLeft(storage[f].requests)

SavedIsShown ==
  \A t \in Tabs :
    /\ ~working[t] => warned[t]
    /\ ~warned[t] /\ ~quarantine[t] /\ ~stale[t] =>
         /\ storage[page[t]].kind # "unreadable"
         /\ storage[page[t]].requests = requests[t]

PageInv ==
  /\ PageType
  /\ ListsSound /\ SheetsSound
  /\ IdsKnown /\ PanelIsCurrent
  /\ MarksAreTrue /\ SavedIsShown
=============================================================================
