---------------------------- MODULE ReviewRecords ----------------------------
(***************************************************************************)
(* The records directory of a batch and the three commands that add to it:  *)
(* `review import`, `review respond` and `review confirm`                   *)
(* (packages/cli/src/review-import.ts, review-respond.ts, review-confirm*.ts)*)
(* over the store they share (packages/cli/src/review-records.ts).          *)
(*                                                                         *)
(* A process is one execution of one command.  It looks at the directory,    *)
(* judges what it has read, and adds one record, an operation at a time,     *)
(* while other processes do the same and somebody edits the sources.  A      *)
(* record file is the input it holds, whether all of it has been written,    *)
(* and its inode, which is the process that created it.                     *)
(* Operators marked "mistaken" are as in InitPlan.                          *)
(***************************************************************************)
EXTENDS RevisionContent

CONSTANTS
  Procs,         \* executions of a command
  Command,       \* process |-> the command it executes
  Sheets,        \* the revision sheets that may be imported
  Responses,     \* the response files that may be handed in
  Complete,      \* the fingerprints of batches without a missing source
  PrefixOf,      \* fingerprint |-> its first 12 digits
  NoRecord,      \* where there is no record
  MaxAttempts,   \* bound: RESPONSE_WRITE_MAX_ATTEMPTS
  FaultKinds,    \* the operations that may fail
  MaxFaults,     \* bound: failing operations
  MaxEdits,      \* bound: changes of the sources
  CanCrash,      \* whether a process may be killed
  SerialImports  \* whether no import begins while another one is running

Commands == {"import", "respond", "confirm"}

ResponseType ==
  [sheets : SUBSET Sheets, from : Fingerprints, to : Fingerprints,
   answers : SUBSET Answers]

ConfirmationType ==
  [fp : Fingerprints, sheets : SUBSET Sheets, deferred : SUBSET Ids]

AllFaults == {"list", "unsafe", "open", "write", "link", "lstat", "unlink"}

ASSUME CommandAssumption  == Command \in [Procs -> Commands]
ASSUME PrefixAssumption   == PrefixOf \in [Fingerprints -> Prefixes]
ASSUME CompleteAssumption == Complete \subseteq Fingerprints
ASSUME SheetsAssumption   == Sheets \subseteq SheetType
ASSUME ResponsesAssumption ==
  Responses \subseteq ResponseType /\ \A r \in Responses : r.sheets # {}
ASSUME RecordsBounds ==
  /\ MaxAttempts \in Nat \ {0}
  /\ MaxFaults \in Nat
  /\ MaxEdits \in Nat
  /\ FaultKinds \subseteq AllFaults
  /\ CanCrash \in BOOLEAN
  /\ SerialImports \in BOOLEAN

VARIABLES
  fp,        \* the fingerprint of the sources as they are
  records,   \* file name |-> the record it names
  pc,        \* process |-> what it does next
  input,     \* process |-> the sheet or the response file it was given
  snap,      \* process |-> the fingerprint it indexed
  names,     \* process |-> the file names it has listed
  seen,      \* process |-> the imported sheets it has read
  payload,   \* process |-> what its record will hold
  temp,      \* process |-> its temporary file
  attempt,   \* process |-> the number in the name it tries
  result,    \* process |-> how it ends
  faults, edits

files    == <<fp, records>>
sight    == <<input, snap, names, seen>>
writing  == <<payload, temp, attempt>>
bounds   == <<faults, edits>>
vars == <<files, pc, sight, writing, result, bounds>>

-----------------------------------------------------------------------------
(* File names: what a record is, the prefix of a hash, and a number, which   *)
(* is 1 for the kinds that have none in their name.                         *)

Names == Commands \X Prefixes \X (1..MaxAttempts)

\* mistaken: the numbers are tried from the highest
NameForDownwards(p, n) ==
  CASE Command[p] = "import"  -> <<"import", payload[p].prefix, 1>>
    [] Command[p] = "respond" -> <<"respond", PrefixOf[snap[p]], MaxAttempts + 1 - n>>
    [] Command[p] = "confirm" -> <<"confirm", PrefixOf[snap[p]], 1>>

\* The name a process tries at its n-th attempt.
NameFor(p, n) ==
  CASE Command[p] = "import"  -> <<"import", payload[p].prefix, 1>>
    [] Command[p] = "respond" -> <<"respond", PrefixOf[snap[p]], n>>
    [] Command[p] = "confirm" -> <<"confirm", PrefixOf[snap[p]], 1>>

\* mistaken: one attempt too many
OneAttemptMore(p) == MaxAttempts + 1

Attempts(p) == IF Command[p] = "respond" THEN MaxAttempts ELSE 1

Target(p) == NameFor(p, attempt[p])

Entries ==
  [what : Sheets \cup Responses \cup ConfirmationType, whole : BOOLEAN, ino : Procs]

ASSUME NoRecordAssumption == NoRecord \notin Entries

Present == {n \in Names : records[n] # NoRecord}
Kind(k) == {n \in Present : n[1] = k}

Stored(k)       == {records[n].what : n \in Kind(k)}
StoredRevisions == RevisionsIn(Stored("import"))

\* Every record that the process listed is still there and complete.
Readable(p, k) ==
  \A n \in names[p] : n[1] = k => records[n] # NoRecord /\ records[n].whole

Listed(p, k) == {records[n].what : n \in {m \in names[p] : m[1] = k}}

Points == {"idle", "list", "read", "judge", "prompt", "open", "write", "link",
           "lstat", "clean", "probe", "reread", "done", "crashed"}
Results == {"none", "written", "duplicate", "exists", "refused", "aborted",
            "unsafe", "write-failed", "collision"}

Running(p) == pc[p] \notin {"idle", "done", "crashed"}

Fault(k) ==
  /\ k \in FaultKinds
  /\ faults < MaxFaults
  /\ faults' = faults + 1
  /\ UNCHANGED edits

-----------------------------------------------------------------------------
Init ==
  /\ fp \in Fingerprints
  /\ records  = [n \in Names |-> NoRecord]
  /\ pc       = [p \in Procs |-> "idle"]
  /\ input    = [p \in Procs |-> NoRecord]
  /\ snap     = [p \in Procs |-> fp]
  /\ names    = [p \in Procs |-> {}]
  /\ seen     = [p \in Procs |-> {}]
  /\ payload  = [p \in Procs |-> NoRecord]
  /\ temp     = [p \in Procs |-> "none"]
  /\ attempt  = [p \in Procs |-> 1]
  /\ result   = [p \in Procs |-> "none"]
  /\ faults = 0 /\ edits = 0

Goto(p, point) == pc' = [pc EXCEPT ![p] = point]

Finish(p, how) ==
  /\ Goto(p, "done")
  /\ result' = [result EXCEPT ![p] = how]

-----------------------------------------------------------------------------
(* What the three commands do before they write.                            *)

\* The command indexes the sources.  `review confirm` refuses a batch with a
\* missing source there and then.
Start(p) ==
  /\ pc[p] = "idle"
  /\ Command[p] = "import" /\ SerialImports =>
       \A q \in Procs : Command[q] = "import" => ~Running(q)
  /\ \/ Command[p] = "import"  /\ \E s \in Sheets    : input' = [input EXCEPT ![p] = s]
     \/ Command[p] = "respond" /\ \E r \in Responses : input' = [input EXCEPT ![p] = r]
     \/ Command[p] = "confirm" /\ UNCHANGED input
  /\ snap' = [snap EXCEPT ![p] = fp]
  /\ IF Command[p] = "confirm" /\ fp \notin Complete
     THEN Finish(p, "refused")
     ELSE Goto(p, "list") /\ UNCHANGED result
  /\ UNCHANGED <<files, names, seen, writing, bounds>>

\* The path of the directory is checked and its names are read.  Where
\* reading them fails, `review confirm` refuses; the other two go on as if
\* there were no records.
List(p) ==
  /\ pc[p] = "list"
  /\ \/ /\ names' = [names EXCEPT ![p] = Present]
        /\ Goto(p, "read")
        /\ UNCHANGED <<result, bounds>>
     \/ /\ Fault("list")
        /\ IF Command[p] = "confirm"
           THEN Finish(p, "refused") /\ UNCHANGED names
           ELSE /\ Goto(p, "read")
                /\ names' = [names EXCEPT ![p] = {}]
                /\ UNCHANGED result
     \/ /\ Fault("unsafe")
        /\ Finish(p, "unsafe")
        /\ UNCHANGED names
  /\ UNCHANGED <<files, input, snap, seen, writing>>

\* The revision records are read and, for `review import`, the sheet judged
\* against them.
ImportRefused(sheet, R) ==
  \/ ~ValidSet(R)
  \/ ~ValidSet(sheet.revisions)
  \/ ContentConflict(sheet, R)
  \/ SupersedesRefused(sheet, R)

Refuse(p) == Finish(p, "refused") /\ UNCHANGED payload

ReadToImport(p) ==
  /\ pc[p] = "read" /\ Command[p] = "import"
  /\ LET found == Listed(p, "import")
         R     == RevisionsIn(found)
     IN  IF ~Readable(p, "import")
         THEN Refuse(p) /\ UNCHANGED seen
         ELSE /\ seen' = [seen EXCEPT ![p] = found]
              /\ \/ ImportRefused(input[p], R) /\ Refuse(p)
                 \/ /\ ~ImportRefused(input[p], R)
                    /\ Fresh(input[p], R) = {}
                    /\ Finish(p, "duplicate") /\ UNCHANGED payload
                 \/ /\ ~ImportRefused(input[p], R)
                    /\ Fresh(input[p], R) # {}
                    /\ payload' = [payload EXCEPT ![p] = input[p]]
                    /\ Goto(p, "open") /\ UNCHANGED result
  /\ UNCHANGED <<files, input, snap, names, temp, attempt, bounds>>

\* `review respond` lists the directory a second time for the responses;
\* `review confirm` goes by its one listing.
ReadRevisions(p) ==
  /\ pc[p] = "read" /\ Command[p] # "import"
  /\ IF ~Readable(p, "import")
     THEN /\ Finish(p, "refused")
          /\ UNCHANGED <<names, seen, bounds>>
     ELSE /\ seen' = [seen EXCEPT ![p] = Listed(p, "import")]
          /\ Goto(p, "judge")
          /\ UNCHANGED result
          /\ IF Command[p] = "confirm" THEN UNCHANGED <<names, bounds>>
             ELSE \/ names' = [names EXCEPT ![p] = Present] /\ UNCHANGED bounds
                  \/ names' = [names EXCEPT ![p] = {}] /\ Fault("list")
  /\ UNCHANGED <<files, input, snap, writing>>

Incorporates(r) == \E a \in r.answers : a.outcome = "incorporated"

RespondAccepted(r, sheets, current) ==
  /\ ValidSet(RevisionsIn(sheets))
  /\ r.sheets \subseteq sheets
  /\ \E s \in r.sheets : s.fp = r.from
  /\ r.to = current
  /\ Covered(r.sheets, RevisionsIn(sheets), r.answers)
  /\ Incorporates(r) => r.from # r.to
  /\ \A a \in r.answers : a.outcome = "incorporated" => a.located

JudgeResponse(p) ==
  /\ pc[p] = "judge" /\ Command[p] = "respond"
  /\ IF Readable(p, "respond") /\ RespondAccepted(input[p], seen[p], snap[p])
     THEN /\ payload' = [payload EXCEPT ![p] = input[p]]
          /\ Goto(p, "open") /\ UNCHANGED result
     ELSE Refuse(p)
  /\ UNCHANGED <<files, sight, temp, attempt, bounds>>

\* A request is effective, unresolved, and stops the confirmation or has to
\* be deferred by the person at the terminal.
JudgeConfirm(p) ==
  /\ pc[p] = "judge" /\ Command[p] = "confirm"
  /\ LET R    == RevisionsIn(seen[p])
         open == Unresolved(R, Listed(p, "respond"), snap[p])
     IN  IF /\ Readable(p, "respond")
            /\ ValidSet(R)
            /\ \A r \in open : ~r.blocking
         THEN /\ payload' = [payload EXCEPT ![p] =
                   [fp |-> snap[p], sheets |-> seen[p], deferred |-> IdsOf(open)]]
              /\ Goto(p, "prompt") /\ UNCHANGED result
         ELSE Refuse(p)
  /\ UNCHANGED <<files, sight, temp, attempt, bounds>>

\* The person defers each of them and types the fingerprint, or does not.
Prompt(p) ==
  /\ pc[p] = "prompt"
  /\ \/ Goto(p, "open") /\ UNCHANGED result
     \/ Finish(p, "aborted")
  /\ UNCHANGED <<files, sight, writing, bounds>>

-----------------------------------------------------------------------------
(* createNewRecord                                                          *)

\* The directory is made and checked, and the temporary file opened.
OpenTemp(p) ==
  /\ pc[p] = "open"
  /\ \/ /\ temp' = [temp EXCEPT ![p] = "partial"]
        /\ Goto(p, "write")
        /\ UNCHANGED <<result, bounds>>
     \/ /\ Fault("open")
        /\ result' = [result EXCEPT ![p] = "write-failed"]
        /\ Goto(p, IF Command[p] = "confirm" THEN "probe" ELSE "done")
        /\ UNCHANGED temp
     \/ /\ Fault("unsafe")
        /\ Finish(p, "unsafe")
        /\ UNCHANGED temp
  /\ UNCHANGED <<files, sight, payload, attempt>>

\* The record is written, synced and closed; then the directory is checked
\* again.
WriteTemp(p) ==
  /\ pc[p] = "write"
  /\ \/ /\ temp' = [temp EXCEPT ![p] = "whole"]
        /\ Goto(p, "link")
        /\ UNCHANGED <<result, bounds>>
     \/ /\ Fault("write")
        /\ result' = [result EXCEPT ![p] = "write-failed"]
        /\ Goto(p, "clean")
        /\ UNCHANGED temp
     \/ /\ Fault("unsafe")
        /\ result' = [result EXCEPT ![p] = "unsafe"]
        /\ Goto(p, "clean")
        /\ temp' = [temp EXCEPT ![p] = "whole"]
  /\ UNCHANGED <<files, sight, payload, attempt>>

\* The temporary file gets the name of the record, unless there is one.
Record(p) == [what |-> payload[p], whole |-> temp[p] = "whole", ino |-> p]

\* mistaken: rename, which replaces a record of that name
LinkReplaces(p) ==
  /\ pc[p] = "link"
  /\ records' = [records EXCEPT ![Target(p)] = Record(p)]
  /\ Goto(p, "lstat")
  /\ UNCHANGED <<fp, sight, writing, result, bounds>>

\* mistaken: the same name is tried again
LinkSameName(p) ==
  /\ pc[p] = "link"
  /\ records[Target(p)] = NoRecord
  /\ records' = [records EXCEPT ![Target(p)] = Record(p)]
  /\ Goto(p, "lstat")
  /\ UNCHANGED <<fp, sight, writing, result, bounds>>

Link(p) ==
  /\ pc[p] = "link"
  /\ \/ /\ records[Target(p)] = NoRecord
        /\ records' = [records EXCEPT ![Target(p)] = Record(p)]
        /\ Goto(p, "lstat")
        /\ UNCHANGED <<attempt, result, bounds>>
     \/ /\ records[Target(p)] # NoRecord
        /\ IF attempt[p] < Attempts(p)
           THEN /\ attempt' = [attempt EXCEPT ![p] = @ + 1]
                /\ UNCHANGED <<pc, result>>
           ELSE /\ result' = [result EXCEPT ![p] = "write-failed"]
                /\ Goto(p, "clean")
                /\ UNCHANGED attempt
        /\ UNCHANGED <<records, bounds>>
     \/ /\ Fault("link")
        /\ result' = [result EXCEPT ![p] = "write-failed"]
        /\ Goto(p, "clean")
        /\ UNCHANGED <<records, attempt>>
  /\ UNCHANGED <<fp, sight, payload, temp>>

\* The name has to lead to the file just written; where it does not, or
\* cannot be examined, it is unlinked.
Owns(p) == records[Target(p)] # NoRecord /\ records[Target(p)].ino = p

Lstat(p) ==
  /\ pc[p] = "lstat"
  /\ \/ /\ Owns(p)
        /\ result' = [result EXCEPT ![p] = "written"]
        /\ UNCHANGED <<records, bounds>>
     \/ /\ IF Owns(p) THEN Fault("lstat") ELSE UNCHANGED bounds
        /\ records' = [records EXCEPT ![Target(p)] = NoRecord]
        /\ result' = [result EXCEPT ![p] = "write-failed"]
     \/ \* the same failure stops the unlink as well
        /\ "unlink" \in FaultKinds
        /\ Fault("lstat")
        /\ result' = [result EXCEPT ![p] = "write-failed"]
        /\ UNCHANGED records
  /\ Goto(p, "clean")
  /\ UNCHANGED <<fp, sight, writing>>

\* The temporary file is unlinked; an error is ignored.  `review confirm`
\* then asks itself why it could not write.
Clean(p) ==
  /\ pc[p] = "clean"
  /\ \/ temp' = [temp EXCEPT ![p] = "none"] /\ UNCHANGED bounds
     \/ Fault("unlink") /\ UNCHANGED temp
  /\ Goto(p, IF Command[p] = "confirm" /\ result[p] = "write-failed"
             THEN "probe" ELSE "done")
  /\ UNCHANGED <<files, sight, payload, attempt, result>>

-----------------------------------------------------------------------------
(* writeConfirmationRecord after a failed write                             *)

Probe(p) ==
  /\ pc[p] = "probe"
  /\ Goto(p, IF records[Target(p)] = NoRecord THEN "done" ELSE "reread")
  /\ UNCHANGED <<files, sight, writing, result, bounds>>

\* mistaken: a record of that name is enough
RereadNameOnly(p) ==
  /\ pc[p] = "reread"
  /\ Finish(p, "exists")
  /\ UNCHANGED <<files, sight, writing, bounds>>

Reread(p) ==
  /\ pc[p] = "reread"
  /\ LET found == records[Target(p)]
     IN  Finish(p, IF found # NoRecord /\ found.whole /\ found.what.fp = snap[p]
                   THEN "exists" ELSE "collision")
  /\ UNCHANGED <<files, sight, writing, bounds>>

-----------------------------------------------------------------------------
Crash(p) ==
  /\ CanCrash
  /\ Running(p)
  /\ Goto(p, "crashed")
  /\ UNCHANGED <<files, sight, writing, result, bounds>>

EditSources ==
  /\ edits < MaxEdits
  /\ \E f \in Fingerprints \ {fp} : fp' = f
  /\ edits' = edits + 1
  /\ UNCHANGED <<records, pc, sight, writing, result, faults>>

Work(p) ==
  \/ List(p) \/ ReadToImport(p) \/ ReadRevisions(p)
  \/ JudgeResponse(p) \/ JudgeConfirm(p)
  \/ OpenTemp(p) \/ WriteTemp(p) \/ Link(p) \/ Lstat(p) \/ Clean(p)
  \/ Probe(p) \/ Reread(p)

Next ==
  \/ \E p \in Procs : Start(p) \/ Work(p) \/ Prompt(p) \/ Crash(p)
  \/ EditSources

Spec == Init /\ [][Next]_vars

\* A command that has begun goes on by itself; the person at the terminal
\* may never answer.
FairSpec == Spec /\ \A p \in Procs : WF_vars(Work(p))

-----------------------------------------------------------------------------
TypeOK ==
  /\ fp \in Fingerprints
  /\ records \in [Names -> Entries \cup {NoRecord}]
  /\ pc \in [Procs -> Points]
  /\ input \in [Procs -> Sheets \cup Responses \cup {NoRecord}]
  /\ snap \in [Procs -> Fingerprints]
  /\ names \in [Procs -> SUBSET Names]
  /\ seen \in [Procs -> SUBSET Sheets]
  /\ payload \in [Procs -> Sheets \cup Responses \cup ConfirmationType \cup {NoRecord}]
  /\ temp \in [Procs -> {"none", "partial", "whole"}]
  /\ attempt \in [Procs -> 1..MaxAttempts]
  /\ result \in [Procs -> Results]
  /\ faults \in 0..MaxFaults
  /\ edits \in 0..MaxEdits

\* Whatever is killed or fails, every record file is complete and its name
\* abbreviates what it holds, so no reader ever refuses one for its shape.
RecordsReadable ==
  \A n \in Present :
    LET r == records[n].what
    IN  /\ records[n].whole
        /\ n[1] = "import"  => r \in Sheets /\ r.prefix = n[2]
        /\ n[1] = "respond" => r \in Responses /\ PrefixOf[r.to] = n[2]
        /\ n[1] = "confirm" => r \in ConfirmationType /\ PrefixOf[r.fp] = n[2]

\* Records are only ever added: none is replaced, and the only one to go away
\* is one whose own writer could not examine it and reports the failure.
RecordsAreKept ==
  [][\A n \in Names :
       LET was == records[n]
       IN  was # NoRecord =>
             \/ records'[n] = was
             \/ /\ records'[n] = NoRecord
                /\ pc[was.ino] = "lstat"
                /\ result'[was.ino] = "write-failed"]_vars

\* Imports that do not overlap keep the imported requests consistent as a
\* whole, so that no later command refuses the directory.
ImportedSetValid == ValidSet(StoredRevisions)

\* What an imported request supersedes has been imported, even where imports
\* overlap.
SupersededIsStored ==
  \A r \in StoredRevisions :
    r.supersedes # NoId => r.supersedes \in IdsOf(StoredRevisions)

\* A response is to imported sheets, answers nothing else, and leaves out
\* only requests that another imported request replaces, also where imports
\* went on while it was judged and written.
CoversItsSheets(r) ==
  /\ r.sheets \subseteq Stored("import")
  /\ IdsOf(r.answers) \subseteq IdsOf(RevisionsIn(r.sheets))
  /\ \A v \in RevisionsIn(r.sheets) :
       \/ v.id \in IdsOf(r.answers)
       \/ \E q \in StoredRevisions : q.supersedes = v.id

ResponsesCoverTheirSheets == \A r \in Stored("respond") : CoversItsSheets(r)

\* A confirmation is of complete sources and consistent sheets, and every
\* effective request of these sheets is incorporated by a stored response
\* for its fingerprint or, if it does not block, deferred: whatever was
\* imported or edited while the person was typing.
Settled(r, c) ==
  \/ \E p \in Stored("respond") :
       /\ p.to = c.fp
       /\ \E a \in p.answers : a.id = r.id /\ a.outcome = "incorporated"
  \/ ~r.blocking /\ r.id \in c.deferred

Earned(c) ==
  /\ c.fp \in Complete
  /\ c.sheets \subseteq Stored("import")
  /\ ValidSet(RevisionsIn(c.sheets))
  /\ \A r \in Effective(RevisionsIn(c.sheets)) : Settled(r, c)

ConfirmationsAreEarned == \A c \in Stored("confirm") : Earned(c)

\* The numbers of the responses for a fingerprint have no gaps, whoever wins
\* the race for a name, except where a writer has withdrawn its own record.
GivenUp(n) ==
  \E p \in Procs : result[p] = "write-failed" /\ Command[p] = "respond" /\ Target(p) = n

ResponsesNumbered ==
  \A x \in Prefixes, n \in 2..MaxAttempts :
    records[<<"respond", x, n>>] # NoRecord =>
      LET before == <<"respond", x, n - 1>>
      IN  records[before] # NoRecord \/ GivenUp(before)

\* What a command reports is so and stays so: a record it calls written is the
\* one it meant, a confirmation it calls existing is for its sources, one it
\* calls a collision is for others that abbreviate alike, and a command that
\* fails has not left a record, whatever others write under the same names.
ResultsAreTrue ==
  \A p \in Procs : pc[p] = "done" =>
    LET record == records[Target(p)]
    IN  CASE result[p] = "written"   -> Owns(p) /\ record.what = payload[p]
          [] result[p] = "exists"    -> record # NoRecord /\ record.what.fp = snap[p]
          [] result[p] = "collision" -> record # NoRecord /\ record.what.fp # snap[p]
          [] OTHER -> \A n \in Present : records[n].ino # p

\* A command that has begun ends, or waits for the person at the terminal,
\* even if every name it tries is taken.
CommandsEnd ==
  \A p \in Procs : Running(p) ~> (~Running(p) \/ pc[p] = "prompt")
=============================================================================
