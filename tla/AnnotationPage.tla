---------------------------- MODULE AnnotationPage ----------------------------
(***************************************************************************)
(* The annotation layer of the rendered review pages                         *)
(* (packages/core/src/review/annotation-ui.ts over annotation-state.ts): a    *)
(* few open pages, the browser storage they share, the clipboard, and the     *)
(* sheets that left a page.                                                  *)
(*                                                                         *)
(* A reader writes and edits requests, opens the export panel, downloads or   *)
(* copies the sheet, restores sheets, reloads or leaves a page.  Copying is   *)
(* asynchronous: the reader goes on while the clipboard is being written.     *)
(* Storage may be unavailable to a page, or refuse a single write.           *)
(***************************************************************************)
EXTENDS RevisionSheet

CONSTANTS
  Tabs,          \* open pages
  Rendered,      \* the fingerprints whose pages are opened
  Planted,       \* the drafts another local page may write under the key of a fingerprint
  GivenSheets,   \* sheets that come from elsewhere, as sequences of revisions
  GivenIds,      \* the ids that occur in Planted and GivenSheets
  NewId(_),      \* the id the page makes the n-th time
  MaxNew,        \* requests the readers write, the edits of exported ones included
  MaxSheets,     \* sheets that leave a page
  MaxFaults,     \* writes to the storage that fail or that come from another local page
  Blocked        \* the pages that may have no storage

GivenRecords ==
  [id : GivenIds, body : Bodies \cup {BadBody}, fingerprint : Fingerprints,
   supersedes : Ids \cup {NoId}]

GivenRequests ==
  [id : GivenIds, body : Bodies \cup {BadBody}, fingerprint : Fingerprints,
   supersedes : Ids \cup {NoId}, exported : BOOLEAN, pending : BOOLEAN]

ASSUME PageAssumption ==
  /\ MaxNew \in Nat /\ MaxSheets \in Nat /\ MaxFaults \in Nat
  /\ Blocked \subseteq Tabs /\ Rendered \subseteq Fingerprints /\ GivenIds \subseteq Ids

\* An id is made once, and nobody else has it (crypto.randomUUID).
ASSUME NewIdAssumption ==
  /\ \A n \in 1..MaxNew : NewId(n) \in Ids \ GivenIds
  /\ \A m, n \in 1..MaxNew : NewId(m) = NewId(n) => m = n

\* What comes from elsewhere may have any content, but has ids of its own.
ASSUME GivenAssumption ==
  /\ \A s \in GivenSheets : s \in Seq(GivenRecords)
  /\ \A f \in Rendered : \A raw \in Planted[f] :
       raw = Unreadable \/ raw \in [kind : {"draft"}, requests : Seq(GivenRequests)]

VARIABLES
  page,        \* the fingerprint each tab shows
  working,     \* whether the tab can use the browser storage
  storage,     \* what is stored for each fingerprint
  requests,    \* state.requests of each tab
  panel,       \* ui.panel
  writing,     \* the pending clipboard write of each tab
  quarantine,  \* ui.quarantine is not null
  warned,      \* ui.storageMessage is not empty
  \* what the properties need and the pages do not have
  sheets,      \* the sheets that left a page
  stale,       \* another page wrote the tab's key since the tab read or wrote it
  made, faults

shown == <<requests, panel, writing, quarantine, warned>>
vars  == <<page, working, storage, shown, sheets, stale, made, faults>>

NoPanel       == [kind |-> "none", sheet |-> <<>>]
RestorePanel  == [kind |-> "restore", sheet |-> <<>>]
ErrorPanel    == [kind |-> "export-error", sheet |-> <<>>]
ExportPanel(s) == [kind |-> "export", sheet |-> s]

NoWrite == [pending |-> FALSE, live |-> FALSE, sheet |-> <<>>]

\* loadInitial, as far as it depends on the storage.
Loaded(t, f) ==
  IF working[t] THEN LoadState(storage[f]) ELSE [ok |-> TRUE, requests |-> <<>>]

Init ==
  /\ page \in [Tabs -> Rendered]
  /\ working \in {w \in [Tabs -> BOOLEAN] : \A t \in Tabs \ Blocked : w[t]}
  /\ storage = [f \in Rendered |-> NoDraft]
  /\ requests = [t \in Tabs |-> <<>>]
  /\ quarantine = [t \in Tabs |-> FALSE]
  /\ warned = [t \in Tabs |-> ~working[t]]
  /\ panel = [t \in Tabs |-> NoPanel]
  /\ writing = [t \in Tabs |-> NoWrite]
  /\ sheets = {}
  /\ stale = [t \in Tabs |-> FALSE]
  /\ made = 0
  /\ faults = 0

-----------------------------------------------------------------------------
\* What became of the storage: persist keeps away while something is quarantined.
Unsaved(t) == /\ warned' = [warned EXCEPT ![t] = TRUE]
              /\ UNCHANGED <<storage, stale>>

\* mistaken: a write that failed leaves no message
PersistQuietly(t, list, quarantined) ==
  \/ quarantined /\ UNCHANGED <<storage, warned, stale, faults>>
  \/ /\ ~quarantined /\ working[t]
     /\ storage' = [storage EXCEPT ![page[t]] = Draft(list)]
     /\ warned' = [warned EXCEPT ![t] = FALSE]
     /\ stale' = [u \in Tabs |-> u # t /\ (stale[u] \/ page[u] = page[t])]
     /\ UNCHANGED faults
  \/ faults < MaxFaults /\ faults' = faults + 1 /\ UNCHANGED <<storage, warned, stale>>

Persist(t, list, quarantined) ==
  \/ quarantined /\ UNCHANGED <<storage, warned, stale, faults>>
  \/ /\ ~quarantined /\ working[t]
     /\ storage' = [storage EXCEPT ![page[t]] = Draft(list)]
     /\ warned' = [warned EXCEPT ![t] = FALSE]
     /\ stale' = [u \in Tabs |-> u # t /\ (stale[u] \/ page[u] = page[t])]
     /\ UNCHANGED faults
  \/ ~quarantined /\ ~working[t] /\ Unsaved(t) /\ UNCHANGED faults
  \/ ~quarantined /\ working[t] /\ faults < MaxFaults /\ Unsaved(t) /\ faults' = faults + 1

\* The panel that a pending write belongs to is no longer the one shown.
PanelBecomes(t, p) ==
  /\ panel' = [panel EXCEPT ![t] = p]
  /\ writing' = [writing EXCEPT ![t].live = FALSE]

\* mistaken: the panel stays open
CommitBehindPanel(t, list) ==
  /\ requests' = [requests EXCEPT ![t] = list]
  /\ UNCHANGED <<panel, writing>>
  /\ Persist(t, list, quarantine[t])

\* commit: any change but the marks of an export closes the export panel.
Commit(t, list) ==
  /\ requests' = [requests EXCEPT ![t] = list]
  /\ IF panel[t].kind = "export" THEN PanelBecomes(t, NoPanel) ELSE UNCHANGED <<panel, writing>>
  /\ Persist(t, list, quarantine[t])

\* submitNewRequest -> addDraft
Submit(t, body) ==
  /\ made < MaxNew /\ ~AtTotalLimit(requests[t])
  /\ LET r == [id |-> NewId(made + 1), body |-> body, fingerprint |-> page[t],
               supersedes |-> NoId]
     IN Commit(t, Append(requests[t], WithFlags(r, FALSE, FALSE)))
  /\ made' = made + 1
  /\ UNCHANGED <<page, working, quarantine, sheets>>

\* mistaken: an old version may be edited again
CanEditAny(list, id) == id \in IdsOf(list)

CanEdit(list, id) == id \in IdsOf(list) /\ ~IsSuperseded(list, id)

\* editRequest -> editDraft: what was never exported is changed in place.
EditDraft(t, id, body) ==
  /\ CanEdit(requests[t], id) /\ ~Find(requests[t], id).exported
  /\ Commit(t, [i \in DOMAIN requests[t] |->
                  IF requests[t][i].id = id THEN [requests[t][i] EXCEPT !.body = body]
                  ELSE requests[t][i]])
  /\ UNCHANGED <<page, working, quarantine, sheets, made>>

\* The new version of an exported request; only its body and its id are new.
NewVersion(t, id, body) ==
  LET current == Find(requests[t], id)
      r == [id |-> NewId(made + 1), body |-> body, fingerprint |-> current.fingerprint,
            supersedes |-> id]
  IN WithFlags(r, FALSE, current.pending)

\* editRequest -> editExported
EditExported(t, id, body) ==
  /\ made < MaxNew
  /\ CanEdit(requests[t], id) /\ Find(requests[t], id).exported
  /\ ~AtTotalLimit(requests[t])
  /\ Commit(t, Append(requests[t], NewVersion(t, id, body)))
  /\ made' = made + 1
  /\ UNCHANGED <<page, working, quarantine, sheets>>

-----------------------------------------------------------------------------
\* openExportPanel: the sheet is fixed here, whatever is handed off later.
OpenExportPanel(t) ==
  /\ PanelBecomes(t, LET result == ExportSheet(requests[t])
                     IN IF result.ok THEN ExportPanel(result.revisions) ELSE ErrorPanel)
  /\ UNCHANGED <<page, working, storage, requests, quarantine, warned, sheets, stale, made,
                 faults>>

OpenRestorePanel(t) ==
  /\ PanelBecomes(t, RestorePanel)
  /\ UNCHANGED <<page, working, storage, requests, quarantine, warned, sheets, stale, made,
                 faults>>

MarkExported(list, ids) ==
  [i \in DOMAIN list |->
     IF list[i].id \in ids THEN WithFlags(list[i], TRUE, list[i].pending) ELSE list[i]]

\* handOff for the panel that is shown; the panel stays.
Mark(t, sheet) ==
  LET list == MarkExported(requests[t], IdsOf(sheet))
  IN /\ requests' = [requests EXCEPT ![t] = list]
     /\ Persist(t, list, quarantine[t])

Leaves(sheet) ==
  /\ sheets' = sheets \cup {sheet}
  /\ Cardinality(sheets') <= MaxSheets

\* The download link, or the copy command where the page has no clipboard to write to.
HandOff(t) ==
  /\ panel[t].kind = "export"
  /\ Leaves(panel[t].sheet)
  /\ Mark(t, panel[t].sheet)
  /\ UNCHANGED <<page, working, panel, writing, quarantine, made>>

\* copySheet; one write at a time is followed.
StartCopy(t) ==
  /\ panel[t].kind = "export" /\ ~writing[t].pending
  /\ writing' = [writing EXCEPT ![t] =
                   [pending |-> TRUE, live |-> TRUE, sheet |-> panel[t].sheet]]
  /\ UNCHANGED <<page, working, storage, requests, panel, quarantine, warned, sheets, stale,
                 made, faults>>

\* handOff(panel): nothing is marked for a panel that is gone.
HandOffLater(t, sheet) ==
  IF writing[t].live THEN Mark(t, sheet)
  ELSE UNCHANGED <<requests, storage, warned, stale, faults>>

\* The write succeeded: the text is on the clipboard in any case.
CopyDone(t) ==
  /\ writing[t].pending
  /\ Leaves(writing[t].sheet)
  /\ HandOffLater(t, writing[t].sheet)
  /\ writing' = [writing EXCEPT ![t] = NoWrite]
  /\ UNCHANGED <<page, working, panel, quarantine, made>>

\* The write failed.  copyFallback copies whatever text the page shows now.
CopyFailed(t) ==
  /\ writing[t].pending
  /\ \/ UNCHANGED <<requests, storage, warned, sheets, stale, faults>>
     \/ /\ panel[t].kind = "export"
        /\ Leaves(panel[t].sheet)
        /\ HandOffLater(t, writing[t].sheet)
  /\ writing' = [writing EXCEPT ![t] = NoWrite]
  /\ UNCHANGED <<page, working, panel, quarantine, made>>

-----------------------------------------------------------------------------
\* applyRestore; a sheet that is not accepted changes nothing.
ApplyRestore(t, revisions) ==
  LET parsed == ParseSheet(revisions)
      result == Restore(requests[t], parsed.revisions, page[t])
  IN /\ panel[t].kind = "restore"
     /\ parsed.ok /\ result.ok
     /\ Commit(t, result.requests)
     /\ UNCHANGED <<page, working, quarantine, sheets, made>>

\* discardQuarantine: from here on the invalid draft is overwritten.
DiscardQuarantine(t) ==
  /\ quarantine[t]
  /\ quarantine' = [quarantine EXCEPT ![t] = FALSE]
  /\ Persist(t, requests[t], FALSE)
  /\ UNCHANGED <<page, working, requests, panel, writing, sheets, made>>

\* A page is loaded again, as it was or as it was rendered from other sources; a write to
\* the clipboard may still come through.
Load(t, f) ==
  /\ page' = [page EXCEPT ![t] = f]
  /\ requests' = [requests EXCEPT ![t] = Loaded(t, f).requests]
  /\ quarantine' = [quarantine EXCEPT ![t] = ~Loaded(t, f).ok]
  /\ warned' = [warned EXCEPT ![t] = ~working[t]]
  /\ panel' = [panel EXCEPT ![t] = NoPanel]
  /\ writing' = [writing EXCEPT ![t] = NoWrite]
  /\ stale' = [stale EXCEPT ![t] = FALSE]
  /\ UNCHANGED sheets \/ (writing[t].pending /\ Leaves(writing[t].sheet))
  /\ UNCHANGED <<working, storage, made, faults>>

\* Pages opened from files share one storage: another page may write this key.
WriteFromElsewhere(f, raw) ==
  /\ faults < MaxFaults
  /\ faults' = faults + 1
  /\ storage' = [storage EXCEPT ![f] = raw]
  /\ stale' = [t \in Tabs |-> stale[t] \/ page[t] = f]
  /\ UNCHANGED <<page, working, shown, sheets, made>>

\* The reader leaves the page and comes back to it as it was: pagehide closed the panel.
LeaveAndReturn(t) ==
  /\ panel[t].kind # "none"
  /\ PanelBecomes(t, NoPanel)
  /\ UNCHANGED <<page, working, storage, requests, quarantine, warned, sheets, stale, made,
                 faults>>

Step(t) ==
  \/ \E b \in Bodies : Submit(t, b)
  \/ \E id \in IdsOf(requests[t]), b \in Bodies : EditDraft(t, id, b) \/ EditExported(t, id, b)
  \/ OpenExportPanel(t) \/ OpenRestorePanel(t)
  \/ HandOff(t) \/ StartCopy(t) \/ CopyDone(t) \/ CopyFailed(t)
  \/ \E s \in sheets \cup GivenSheets : ApplyRestore(t, s)
  \/ DiscardQuarantine(t) \/ LeaveAndReturn(t)
  \/ \E f \in Rendered : Load(t, f)

Next ==
  \/ \E t \in Tabs : Step(t)
  \/ \E f \in Rendered : \E raw \in Planted[f] : WriteFromElsewhere(f, raw)

Spec == Init /\ [][Next]_vars

-----------------------------------------------------------------------------

(***************************************************************************)
(* The requests of a page are versions in order: no id twice, no two that     *)
(* replace the same one, no cycle, and what is replaced is there and was      *)
(* exported (annotation-state.ts:158-160, contract of batch review 6 and 19),  *)
(* whatever was found in the storage or restored.                            *)
(***************************************************************************)
ChainIsSound ==
  \A t \in Tabs :
    /\ Cardinality(IdsOf(requests[t])) = Len(requests[t])
    /\ SupersedesProblems(requests[t]) = {}

(***************************************************************************)
(* A request is marked as exported only if a sheet with exactly this content   *)
(* left a page or came from elsewhere (annotation-ui.ts:511): neither opening   *)
(* the panel nor a failed copy marks anything, and a late answer of the         *)
(* clipboard marks nothing that was changed meanwhile.                        *)
(***************************************************************************)
MarkedMeansHandedOff ==
  \A t \in Tabs : \A r \in Range(requests[t]) :
    r.exported /\ r.id \notin GivenIds => \E s \in sheets : Record(r) \in Range(s)

(***************************************************************************)
(* Unless the page says that it could not save, or that it stopped saving, or   *)
(* another page wrote over it, loading the page again brings back exactly       *)
(* what it shows (annotation-ui.ts:99-104): what the page wrote, it accepts.     *)
(***************************************************************************)
UnsavedIsShown ==
  \A t \in Tabs :
    ~warned[t] /\ ~quarantine[t] /\ ~stale[t]
      => LoadState(storage[page[t]]) = [ok |-> TRUE, requests |-> requests[t]]

(***************************************************************************)
(* A sheet that left a page can be restored on an empty one, whichever page     *)
(* that is, and brings back all of it, marked as exported.                     *)
(***************************************************************************)
HandedOffComesBack ==
  \A s \in sheets, f \in Fingerprints :
    LET parsed == ParseSheet(s)
        result == Restore(<<>>, parsed.revisions, f)
    IN /\ parsed.ok /\ result.ok
       /\ [i \in DOMAIN result.requests |-> Record(result.requests[i])] = s
       /\ \A r \in Range(result.requests) : r.exported

(***************************************************************************)
(* "An exported request is read-only; editing it creates a new request whose    *)
(* supersedes names the original id." (story.md:129 of TST-023)                 *)
(***************************************************************************)
ExportedIsReadOnly ==
  \A s1, s2 \in sheets : \A r1 \in Range(s1), r2 \in Range(s2) : r1.id = r2.id => r1 = r2
=============================================================================
