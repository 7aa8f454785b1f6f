-------------------------- MODULE ReviewRecordsProofs --------------------------
(***************************************************************************)
(* Theorems about the records directory, for any number of commands, sheets, *)
(* responses, faults and changes of the sources.                            *)
(***************************************************************************)
EXTENDS RecordsInvariant, TLAPS

\* A function that is changed at one argument.
LEMMA Updated ==
  ASSUME NEW D, NEW S, NEW f \in [D -> S], NEW x \in D, NEW v \in S
  PROVE  /\ [f EXCEPT ![x] = v] \in [D -> S]
         /\ [f EXCEPT ![x] = v][x] = v
         /\ \A y \in D : y # x => [f EXCEPT ![x] = v][y] = f[y]
OBVIOUS

\* A step of one process.
Act(p) == Start(p) \/ Work(p) \/ Prompt(p) \/ Crash(p)

\* A step of one process leaves what the others know alone.
LEMMA OthersStay ==
  ASSUME TypeOK, NEW q \in Procs, Act(q), NEW p \in Procs, p # q
  PROVE  /\ pc'[p] = pc[p] /\ input'[p] = input[p] /\ snap'[p] = snap[p]
         /\ names'[p] = names[p] /\ seen'[p] = seen[p] /\ payload'[p] = payload[p]
         /\ temp'[p] = temp[p] /\ attempt'[p] = attempt[p] /\ result'[p] = result[p]
<1> DEFINE Same == /\ pc'[p] = pc[p] /\ input'[p] = input[p] /\ snap'[p] = snap[p]
                   /\ names'[p] = names[p] /\ seen'[p] = seen[p] /\ payload'[p] = payload[p]
                   /\ temp'[p] = temp[p] /\ attempt'[p] = attempt[p] /\ result'[p] = result[p]
<1> USE DEF TypeOK, Goto, Finish, Refuse, Fault, files, sight, writing, bounds
<1>1. CASE Start(q)
  BY <1>1 DEF Start
<1>2. CASE List(q) \/ ReadToImport(q)
  BY <1>2 DEF List, ReadToImport
<1>3. CASE ReadRevisions(q) \/ JudgeResponse(q) \/ JudgeConfirm(q)
  BY <1>3 DEF ReadRevisions, JudgeResponse, JudgeConfirm
<1>4. CASE OpenTemp(q) \/ WriteTemp(q) \/ Link(q)
  BY <1>4 DEF OpenTemp, WriteTemp, Link
<1>5. CASE Lstat(q) \/ Clean(q) \/ Probe(q) \/ Reread(q) \/ Prompt(q) \/ Crash(q)
  BY <1>5 DEF Lstat, Clean, Probe, Reread, Prompt, Crash
<1> QED  BY <1>1, <1>2, <1>3, <1>4, <1>5 DEF Act, Work

\* The records change in two actions only, at the name of their process.
LEMMA RecordsChange ==
  ASSUME TypeOK, NEW q \in Procs, Act(q)
  PROVE  \/ records' = records
         \/ /\ Link(q) /\ pc[q] = "link" /\ pc'[q] = "lstat" /\ records[Target(q)] = NoRecord
            /\ records' = [records EXCEPT ![Target(q)] = Record(q)]
         \/ /\ Lstat(q) /\ pc[q] = "lstat" /\ result'[q] = "write-failed"
            /\ records' = [records EXCEPT ![Target(q)] = NoRecord]
<1> USE DEF TypeOK, Goto, Finish, files
<1>1. CASE Start(q) \/ List(q) \/ ReadToImport(q) \/ ReadRevisions(q) \/ JudgeResponse(q)
           \/ JudgeConfirm(q) \/ OpenTemp(q) \/ WriteTemp(q)
  BY <1>1 DEF Start, List, ReadToImport, ReadRevisions, JudgeResponse, JudgeConfirm,
              OpenTemp, WriteTemp
<1>2. CASE Clean(q) \/ Probe(q) \/ Reread(q) \/ Prompt(q) \/ Crash(q)
  BY <1>2 DEF Clean, Probe, Reread, Prompt, Crash
<1>3. CASE Link(q)
  BY <1>3 DEF Link
<1>4. CASE Lstat(q)
  BY <1>4 DEF Lstat
<1> QED  BY <1>1, <1>2, <1>3, <1>4 DEF Act, Work

\* The name a process tries is of its own kind and carries its prefix.
LEMMA TargetFacts ==
  ASSUME TypeOK, LocalInv, NEW p \in Procs, pc[p] \in Holding
  PROVE  /\ Target(p) \in Names
         /\ Target(p) = <<Target(p)[1], Target(p)[2], Target(p)[3]>>
         /\ Target(p)[1] = Command[p]
         /\ Command[p] = "import"  => Target(p)[2] = payload[p].prefix
         /\ Command[p] # "import"  => Target(p)[2] = PrefixOf[snap[p]]
         /\ Command[p] = "respond" => Target(p)[3] = attempt[p]
         /\ Command[p] # "respond" => Target(p)[3] = 1
<1>1. Command[p] \in Commands /\ PrefixOf[snap[p]] \in Prefixes /\ attempt[p] \in 1..MaxAttempts
  BY CommandAssumption, PrefixAssumption DEF TypeOK
<1>2. 1 \in 1..MaxAttempts
  BY RecordsBounds
<1>3. CASE Command[p] = "import"
  <2>1. payload[p] \in SheetType
    BY <1>3, SheetsAssumption DEF LocalInv, LocalAt, PayloadAt
  <2>2. payload[p].prefix \in Prefixes
    BY <2>1 DEF SheetType
  <2> QED  BY <1>2, <1>3, <2>2 DEF Target, NameFor, Names, Commands
<1>4. CASE Command[p] = "respond"
  BY <1>1, <1>4 DEF Target, NameFor, Names, Commands
<1>5. CASE Command[p] = "confirm"
  BY <1>1, <1>2, <1>5 DEF Target, NameFor, Names, Commands
<1> QED  BY <1>1, <1>3, <1>4, <1>5 DEF Commands

\* A name that a process tries stays the same while it does.
LEMMA TargetStays ==
  ASSUME NEW p \in Procs, payload'[p] = payload[p], snap'[p] = snap[p], attempt'[p] = attempt[p]
  PROVE  Target(p)' = Target(p)
BY DEF Target, NameFor

\* What the name of a record says of it.
Describes(n, r) ==
  /\ n[1] = "import"  => r \in Sheets /\ r.prefix = n[2]
  /\ n[1] = "respond" => r \in Responses /\ PrefixOf[r.to] = n[2]
  /\ n[1] = "confirm" => r \in ConfirmationType /\ PrefixOf[r.fp] = n[2]

\* What a process links is a record that its name describes.
LEMMA LinkedRecord ==
  ASSUME TypeOK, LocalInv, NEW p \in Procs, pc[p] = "link"
  PROVE  /\ Record(p) = [what |-> payload[p], whole |-> TRUE, ino |-> p]
         /\ Record(p) \in Entries /\ Record(p) # NoRecord
         /\ Describes(Target(p), payload[p])
<1>1. PayloadAt(p) /\ temp[p] = "whole" /\ pc[p] \in Holding
  BY DEF LocalInv, LocalAt, TempAt, Holding
<1>2. Command[p] \in {"import", "respond", "confirm"}
  BY CommandAssumption DEF Commands
<1>3. payload[p] \in Sheets \cup Responses \cup ConfirmationType
  BY <1>1, <1>2 DEF PayloadAt
<1>4. Record(p) = [what |-> payload[p], whole |-> TRUE, ino |-> p]
  BY <1>1 DEF Record
<1>5. Record(p) \in Entries
  BY <1>3, <1>4 DEF Entries
<1>6. Describes(Target(p), payload[p])
  BY <1>1, <1>2, TargetFacts DEF Describes, PayloadAt
<1> QED  BY <1>4, <1>5, <1>6, NoRecordAssumption


\* A record that a process owns is a record.
LEMMA OwnEntry ==
  ASSUME TypeOK, LocalInv, NEW p \in Procs, pc[p] \in Holding
  PROVE  /\ [what |-> payload[p], whole |-> TRUE, ino |-> p] \in Entries
         /\ [what |-> payload[p], whole |-> TRUE, ino |-> p] # NoRecord
<1>1. payload[p] \in Sheets \cup Responses \cup ConfirmationType
  BY CommandAssumption DEF LocalInv, LocalAt, PayloadAt, Commands
<1>2. [what |-> payload[p], whole |-> TRUE, ino |-> p] \in Entries
  BY <1>1 DEF Entries
<1> QED  BY <1>2, NoRecordAssumption

-----------------------------------------------------------------------------
(* Types and the store.                                                    *)

\* Commands start in an empty directory.
LEMMA InitStore == Init => StoreInv
<1> SUFFICES ASSUME Init PROVE StoreInv
  OBVIOUS
<1>1. TypeOK
  <2>1. 1 \in 1..MaxAttempts /\ 0 \in 0..MaxFaults /\ 0 \in 0..MaxEdits
    BY RecordsBounds
  <2> QED  BY <2>1 DEF Init, TypeOK, Points, Results
<1>2. Present = {}
  BY DEF Init, Present
<1>3. LocalInv /\ OwnInv
  BY DEF Init, LocalInv, LocalAt, InputAt, PayloadAt, TempAt, PromptAt, OwnInv, OwnAt, Holding
<1>4. RecordsReadable
  BY <1>2 DEF RecordsReadable
<1> QED  BY <1>1, <1>3, <1>4 DEF StoreInv

\* The sheets read from the directory are sheets.
LEMMA ListedSheets ==
  ASSUME TypeOK, RecordsReadable, NEW p \in Procs, Readable(p, "import")
  PROVE  Listed(p, "import") \subseteq Sheets
<1>1. ASSUME NEW n \in names[p], n[1] = "import" PROVE records[n].what \in Sheets
  <2>1. n \in Names /\ n \in Present
    BY <1>1 DEF TypeOK, Readable, Present
  <2> QED  BY <1>1, <2>1 DEF RecordsReadable
<1> QED  BY <1>1 DEF Listed

\* What a confirmation will hold.
LEMMA ConfirmationPayload ==
  ASSUME TypeOK, NEW p \in Procs, NEW responses
  PROVE  [fp |-> snap[p], sheets |-> seen[p],
          deferred |-> IdsOf(Unresolved(RevisionsIn(seen[p]), responses, snap[p]))]
            \in ConfirmationType
<1>1. snap[p] \in Fingerprints /\ seen[p] \in SUBSET Sheets
  BY DEF TypeOK
<1>2. RevisionsIn(seen[p]) \subseteq Revisions
  BY <1>1, SheetsAssumption DEF RevisionsIn, SheetType
<1>3. Unresolved(RevisionsIn(seen[p]), responses, snap[p]) \subseteq RevisionsIn(seen[p])
  BY DEF Unresolved, Effective
<1>4. ASSUME NEW R, R \subseteq Revisions PROVE IdsOf(R) \in SUBSET Ids
  BY <1>4 DEF IdsOf, Revisions
<1>5. IdsOf(Unresolved(RevisionsIn(seen[p]), responses, snap[p])) \in SUBSET Ids
  BY <1>2, <1>3, <1>4
<1> QED  BY <1>1, <1>5 DEF ConfirmationType

\* Faults and changes stay within their bounds.
LEMMA CountersKept ==
  ASSUME TypeOK, NEW k
  PROVE  /\ Fault(k) => faults' \in 0..MaxFaults /\ edits' = edits
         /\ UNCHANGED bounds => faults' = faults /\ edits' = edits
         /\ faults \in 0..MaxFaults /\ edits \in 0..MaxEdits
         /\ EditSources => edits' \in 0..MaxEdits
<1>1. faults \in 0..MaxFaults /\ edits \in 0..MaxEdits /\ MaxFaults \in Nat /\ MaxEdits \in Nat
  BY RecordsBounds DEF TypeOK
<1> QED  BY <1>1 DEF Fault, bounds, EditSources

\* The part of the types that every step keeps in the same way.
Shared ==
  /\ pc \in [Procs -> Points] /\ result \in [Procs -> Results]
  /\ temp \in [Procs -> {"none", "partial", "whole"}]
  /\ faults \in 0..MaxFaults /\ edits \in 0..MaxEdits
  /\ fp \in Fingerprints /\ snap \in [Procs -> Fingerprints]

\* Every step keeps these types.
LEMMA SharedKept ==
  ASSUME TypeOK, NEW q \in Procs, Act(q)
  PROVE  Shared'
<1> USE DEF Goto, Finish, Refuse, files, sight, writing
<1>0. /\ pc \in [Procs -> Points] /\ result \in [Procs -> Results]
      /\ temp \in [Procs -> {"none", "partial", "whole"}]
      /\ fp \in Fingerprints /\ snap \in [Procs -> Fingerprints]
      /\ faults \in 0..MaxFaults /\ edits \in 0..MaxEdits
  BY DEF TypeOK
<1>1. CASE Start(q)
  BY <1>0, <1>1 DEF Start, Shared, Points, Results, bounds
<1>2. CASE List(q)
  BY <1>0, <1>2, CountersKept DEF List, Shared, Points, Results
<1>3. CASE ReadToImport(q)
  BY <1>0, <1>3 DEF ReadToImport, Shared, Points, Results, bounds
<1>4. CASE ReadRevisions(q)
  BY <1>0, <1>4, CountersKept DEF ReadRevisions, Shared, Points, Results
<1>5. CASE JudgeResponse(q) \/ JudgeConfirm(q)
  BY <1>0, <1>5 DEF JudgeResponse, JudgeConfirm, Shared, Points, Results, bounds
<1>6. CASE OpenTemp(q)
  BY <1>0, <1>6, CountersKept DEF OpenTemp, Shared, Points, Results
<1>7. CASE WriteTemp(q)
  BY <1>0, <1>7, CountersKept DEF WriteTemp, Shared, Points, Results
<1>8. CASE Link(q)
  BY <1>0, <1>8, CountersKept DEF Link, Shared, Points, Results
<1>9. CASE Lstat(q)
  BY <1>0, <1>9, CountersKept DEF Lstat, Shared, Points, Results
<1>10. CASE Clean(q)
  BY <1>0, <1>10, CountersKept DEF Clean, Shared, Points, Results
<1>11. CASE Probe(q) \/ Reread(q) \/ Prompt(q) \/ Crash(q)
  BY <1>0, <1>11 DEF Probe, Reread, Prompt, Crash, Shared, Points, Results, bounds
<1> QED  BY <1>1, <1>2, <1>3, <1>4, <1>5, <1>6, <1>7, <1>8, <1>9, <1>10, <1>11 DEF Act, Work

\* The records keep their type.
LEMMA RecordsKept ==
  ASSUME TypeOK, LocalInv, NEW q \in Procs, Act(q)
  PROVE  records' \in [Names -> Entries \cup {NoRecord}]
<1>0. records \in [Names -> Entries \cup {NoRecord}]
  BY DEF TypeOK
<1>1. ASSUME pc[q] = "link" \/ pc[q] = "lstat" PROVE Target(q) \in Names
  BY <1>1, TargetFacts DEF Holding
<1>2. CASE records' = records
  BY <1>0, <1>2
<1>3. CASE Link(q) /\ pc[q] = "link" /\ records' = [records EXCEPT ![Target(q)] = Record(q)]
  BY <1>0, <1>1, <1>3, LinkedRecord, Updated
<1>4. CASE pc[q] = "lstat" /\ records' = [records EXCEPT ![Target(q)] = NoRecord]
  BY <1>0, <1>1, <1>4, Updated
<1> QED  BY <1>2, <1>3, <1>4, RecordsChange

\* A process is given what its command takes, once.
LEMMA InputKept ==
  ASSUME TypeOK, NEW q \in Procs, Act(q)
  PROVE  /\ input' \in [Procs -> Sheets \cup Responses \cup {NoRecord}]
         /\ InputAt(q) => InputAt(q)'
<1>0. /\ input \in [Procs -> Sheets \cup Responses \cup {NoRecord}]
      /\ pc \in [Procs -> Points]
      /\ Command[q] \in {"import", "respond", "confirm"}
  BY CommandAssumption DEF TypeOK, Commands
<1>1. CASE Start(q)
  BY <1>0, <1>1 DEF Start, InputAt
<1>2. CASE ~Start(q)
  <2>1. input' = input /\ pc[q] # "idle"
    <3>1. CASE Work(q)
      BY <3>1 DEF Work, List, ReadToImport, ReadRevisions, JudgeResponse, JudgeConfirm, OpenTemp,
              WriteTemp, Link, Lstat, Clean, Probe, Reread, sight
    <3>2. CASE Prompt(q) \/ Crash(q)
      BY <3>2 DEF Prompt, Crash, Running, sight
    <3> QED  BY <1>2, <3>1, <3>2 DEF Act
  <2> QED  BY <1>0, <2>1 DEF InputAt
<1> QED  BY <1>1, <1>2

\* What a process reads are names and sheets.
LEMMA ReadingKept ==
  ASSUME TypeOK, RecordsReadable, NEW q \in Procs, Act(q)
  PROVE  /\ names' \in [Procs -> SUBSET Names]
         /\ seen' \in [Procs -> SUBSET Sheets]
<1>0. names \in [Procs -> SUBSET Names] /\ seen \in [Procs -> SUBSET Sheets]
  BY DEF TypeOK
<1>1. Present \in SUBSET Names /\ {} \in SUBSET Names
  BY DEF Present
<1>2. Readable(q, "import") => Listed(q, "import") \in SUBSET Sheets
  BY ListedSheets
<1>3. CASE List(q)
  BY <1>0, <1>1, <1>3 DEF List
<1>4. CASE ReadToImport(q)
  BY <1>0, <1>2, <1>4 DEF ReadToImport, Refuse
<1>5. CASE ReadRevisions(q)
  BY <1>0, <1>1, <1>2, <1>5 DEF ReadRevisions
<1>6. CASE Start(q) \/ JudgeResponse(q) \/ JudgeConfirm(q) \/ OpenTemp(q) \/ WriteTemp(q) \/ Link(q)
  BY <1>0, <1>6 DEF Start, JudgeResponse, JudgeConfirm, OpenTemp, WriteTemp, Link, sight
<1>7. CASE Lstat(q) \/ Clean(q) \/ Probe(q) \/ Reread(q) \/ Prompt(q) \/ Crash(q)
  BY <1>0, <1>7 DEF Lstat, Clean, Probe, Reread, Prompt, Crash, sight
<1> QED  BY <1>3, <1>4, <1>5, <1>6, <1>7 DEF Act, Work

\* A process gets what it writes from its judgement, and keeps it.
LEMMA PayloadKept ==
  ASSUME TypeOK, LocalInv, NEW q \in Procs, Act(q)
  PROVE  /\ payload' \in [Procs -> Sheets \cup Responses \cup ConfirmationType \cup {NoRecord}]
         /\ PayloadAt(q)'
<1>0. /\ payload \in [Procs -> Sheets \cup Responses \cup ConfirmationType \cup {NoRecord}]
      /\ pc \in [Procs -> Points] /\ snap \in [Procs -> Fingerprints]
      /\ Command[q] \in {"import", "respond", "confirm"}
  BY CommandAssumption DEF TypeOK, Commands
<1>1. PayloadAt(q) /\ InputAt(q)
  BY DEF LocalInv, LocalAt
<1>2. CASE Start(q)
  BY <1>0, <1>2 DEF Start, PayloadAt, Holding, Goto, Finish, writing
<1>3. CASE List(q) \/ ReadRevisions(q)
  BY <1>0, <1>3 DEF List, ReadRevisions, PayloadAt, Holding, Goto, Finish, writing
<1>4. CASE ReadToImport(q)
  <2>1. input[q] \in Sheets /\ snap' = snap /\ Command[q] = "import"
    BY <1>1, <1>4 DEF ReadToImport, InputAt
  <2>2. CASE UNCHANGED payload /\ pc'[q] = "done"
    BY <1>0, <2>2 DEF PayloadAt, Holding
  <2>3. CASE payload' = [payload EXCEPT ![q] = input[q]]
    BY <1>0, <2>1, <2>3 DEF PayloadAt
  <2> QED  BY <1>0, <1>4, <2>2, <2>3 DEF ReadToImport, Refuse, Finish, Goto
<1>5. CASE JudgeResponse(q)
  <2>1. input[q] \in Responses /\ snap' = snap /\ Command[q] = "respond"
    BY <1>1, <1>5 DEF JudgeResponse, InputAt, sight
  <2>2. CASE UNCHANGED payload /\ pc'[q] = "done"
    BY <1>0, <2>2 DEF PayloadAt, Holding
  <2>3. CASE payload' = [payload EXCEPT ![q] = input[q]] /\ RespondAccepted(input[q], seen[q], snap[q])
    BY <1>0, <2>1, <2>3 DEF PayloadAt, RespondAccepted
  <2> QED  BY <1>0, <1>5, <2>2, <2>3 DEF JudgeResponse, Refuse, Finish, Goto
<1>6. CASE JudgeConfirm(q)
  <2> DEFINE what == [fp |-> snap[q], sheets |-> seen[q],
                      deferred |-> IdsOf(Unresolved(RevisionsIn(seen[q]), Listed(q, "respond"), snap[q]))]
  <2>1. what \in ConfirmationType /\ what.fp = snap[q]
    BY ConfirmationPayload
  <2>2. snap' = snap /\ Command[q] = "confirm"
    BY <1>6 DEF JudgeConfirm, sight
  <2>3. CASE UNCHANGED payload /\ pc'[q] = "done"
    BY <1>0, <2>3 DEF PayloadAt, Holding
  <2>4. CASE payload' = [payload EXCEPT ![q] = what]
    <3> HIDE DEF what
    <3> QED  BY <1>0, <2>1, <2>2, <2>4 DEF PayloadAt
  <2> QED  BY <1>0, <1>6, <2>3, <2>4 DEF JudgeConfirm, Refuse, Finish, Goto
<1>7. CASE ~(Start(q) \/ List(q) \/ ReadToImport(q) \/ ReadRevisions(q) \/ JudgeResponse(q) \/ JudgeConfirm(q))
  <2>1. payload' = payload /\ snap' = snap
    BY <1>7 DEF Act, Work, OpenTemp, WriteTemp, Link, Lstat, Clean, Probe, Reread, Prompt, Crash, sight, writing
  <2>2. pc[q] \in Holding \/ pc'[q] \in {"done", "crashed"}
    BY <1>0, <1>7 DEF Act, Work, OpenTemp, WriteTemp, Link, Lstat, Clean, Probe, Reread, Prompt, Crash, Goto, Holding
  <2> QED  BY <1>0, <1>1, <2>1, <2>2 DEF PayloadAt, Holding
<1> QED  BY <1>2, <1>3, <1>4, <1>5, <1>6, <1>7

\* A number is tried while there is one.
LEMMA AttemptKept ==
  ASSUME TypeOK, NEW q \in Procs, Act(q)
  PROVE  attempt' \in [Procs -> 1..MaxAttempts]
<1>0. attempt \in [Procs -> 1..MaxAttempts]
  BY DEF TypeOK
<1>1. CASE Link(q)
  <2>1. CASE attempt[q] < Attempts(q) /\ attempt' = [attempt EXCEPT ![q] = @ + 1]
    <3>1. attempt[q] + 1 \in 1..MaxAttempts
      BY <1>0, <2>1, RecordsBounds DEF Attempts
    <3> QED  BY <1>0, <2>1, <3>1
  <2>2. CASE attempt' = attempt
    BY <1>0, <2>2
  <2> QED  BY <1>1, <2>1, <2>2 DEF Link
<1>2. CASE ~Link(q)
  <2>1. attempt' = attempt
    BY <1>2 DEF Act, Start, Work, List, ReadToImport, ReadRevisions, JudgeResponse, JudgeConfirm, OpenTemp,
              WriteTemp, Lstat, Clean, Probe, Reread, Prompt, Crash, writing
  <2> QED  BY <1>0, <2>1
<1> QED  BY <1>1, <1>2

\* A file is linked after it has been written.
LEMMA TempKept ==
  ASSUME TypeOK, LocalInv, NEW q \in Procs, Act(q)
  PROVE  TempAt(q)'
<1>0. temp \in [Procs -> {"none", "partial", "whole"}] /\ pc \in [Procs -> Points] /\ TempAt(q)
  BY DEF TypeOK, LocalInv, LocalAt
<1>1. CASE WriteTemp(q)
  BY <1>0, <1>1 DEF WriteTemp, TempAt, Goto
<1>2. CASE Link(q)
  BY <1>0, <1>2 DEF Link, TempAt, Goto
<1>3. CASE ~WriteTemp(q) /\ ~Link(q)
  <2>1. pc'[q] # "link"
    <3>1. CASE Start(q) \/ List(q) \/ ReadToImport(q) \/ ReadRevisions(q) \/ JudgeResponse(q) \/ JudgeConfirm(q)
      BY <1>0, <3>1 DEF Start, List, ReadToImport, ReadRevisions, JudgeResponse, JudgeConfirm, Refuse, Finish, Goto
    <3>2. CASE OpenTemp(q) \/ Lstat(q) \/ Clean(q) \/ Probe(q) \/ Reread(q) \/ Prompt(q) \/ Crash(q)
      BY <1>0, <3>2 DEF OpenTemp, Lstat, Clean, Probe, Reread, Prompt, Crash, Finish, Goto
    <3> QED  BY <1>3, <3>1, <3>2 DEF Act, Work
  <2> QED  BY <2>1 DEF TempAt
<1> QED  BY <1>1, <1>2, <1>3

\* Only `review confirm` comes to the prompt.
LEMMA PromptKept ==
  ASSUME TypeOK, LocalInv, NEW q \in Procs, Act(q)
  PROVE  PromptAt(q)'
<1>0. pc \in [Procs -> Points] /\ PromptAt(q)
  BY DEF TypeOK, LocalInv, LocalAt
<1>1. CASE JudgeConfirm(q)
  BY <1>1 DEF JudgeConfirm, PromptAt
<1>2. CASE Start(q) \/ List(q) \/ ReadToImport(q) \/ ReadRevisions(q) \/ JudgeResponse(q)
  BY <1>0, <1>2 DEF Start, List, ReadToImport, ReadRevisions, JudgeResponse, Refuse, Finish, Goto, PromptAt
<1>3. CASE OpenTemp(q) \/ WriteTemp(q) \/ Link(q) \/ Lstat(q)
  BY <1>0, <1>3 DEF OpenTemp, WriteTemp, Link, Lstat, Finish, Goto, PromptAt
<1>4. CASE Clean(q) \/ Probe(q) \/ Reread(q) \/ Prompt(q) \/ Crash(q)
  BY <1>0, <1>4 DEF Clean, Probe, Reread, Prompt, Crash, Finish, Goto, PromptAt
<1> QED  BY <1>1, <1>2, <1>3, <1>4 DEF Act, Work

\* A process that has linked its record owns it until it has examined it.
LEMMA OwnKept ==
  ASSUME TypeOK, LocalInv, OwnInv, NEW q \in Procs, Act(q), NEW p \in Procs
  PROVE  OwnAt(p)'
<1> SUFFICES ASSUME pc'[p] = "lstat"
             PROVE  records'[Target(p)'] = [what |-> payload'[p], whole |-> TRUE, ino |-> p]
  BY DEF OwnAt
<1>0. /\ pc \in [Procs -> Points] /\ records \in [Names -> Entries \cup {NoRecord}]
      /\ attempt \in [Procs -> 1..MaxAttempts]
  BY DEF TypeOK
<1>1. CASE p = q
  <2>1. Link(q) /\ pc[q] = "link"
    <3>1. CASE Start(q) \/ List(q) \/ ReadToImport(q) \/ ReadRevisions(q) \/ JudgeResponse(q) \/ JudgeConfirm(q)
      BY <1>0, <1>1, <3>1 DEF Start, List, ReadToImport, ReadRevisions, JudgeResponse, JudgeConfirm, Refuse, Finish, Goto
    <3>2. CASE OpenTemp(q) \/ WriteTemp(q) \/ Lstat(q) \/ Clean(q) \/ Probe(q) \/ Reread(q) \/ Prompt(q) \/ Crash(q)
      BY <1>0, <1>1, <3>2 DEF OpenTemp, WriteTemp, Lstat, Clean, Probe, Reread, Prompt, Crash, Finish, Goto
    <3>3. CASE Link(q)
      BY <3>3 DEF Link
    <3> QED  BY <3>1, <3>2, <3>3 DEF Act, Work
  <2>2. /\ records' = [records EXCEPT ![Target(q)] = Record(q)]
        /\ UNCHANGED <<attempt, payload, snap>>
    BY <1>0, <1>1, <2>1 DEF Link, Goto, sight
  <2>3. Target(q)' = Target(q) /\ Target(q) \in Names
    BY <2>1, <2>2, TargetStays, TargetFacts DEF Holding
  <2>4. Record(q) = [what |-> payload[q], whole |-> TRUE, ino |-> q]
    BY <2>1, LinkedRecord
  <2> QED  BY <1>0, <1>1, <2>2, <2>3, <2>4, Updated
<1>2. CASE p # q
  <2>1. pc[p] = "lstat" /\ payload'[p] = payload[p] /\ snap'[p] = snap[p] /\ attempt'[p] = attempt[p]
    BY <1>2, OthersStay
  <2>2. Target(p)' = Target(p) /\ Target(p) \in Names
    BY <2>1, TargetStays, TargetFacts DEF Holding
  <2>3. records[Target(p)] = [what |-> payload[p], whole |-> TRUE, ino |-> p]
    BY <2>1 DEF OwnInv, OwnAt
  <2>4. records[Target(p)] # NoRecord
    BY <2>1, <2>3, OwnEntry DEF Holding
  <2>5. records'[Target(p)] = records[Target(p)]
    <3>1. CASE pc[q] = "link" /\ records[Target(q)] = NoRecord
               /\ records' = [records EXCEPT ![Target(q)] = Record(q)]
      BY <1>0, <2>2, <2>4, <3>1
    <3>2. CASE pc[q] = "lstat" /\ records' = [records EXCEPT ![Target(q)] = NoRecord]
      <4>1. records[Target(q)] = [what |-> payload[q], whole |-> TRUE, ino |-> q]
        BY <3>2 DEF OwnInv, OwnAt
      <4>2. records[Target(q)].ino = q /\ records[Target(p)].ino = p
        BY <2>3, <4>1
      <4> QED  BY <1>0, <1>2, <2>2, <3>2, <4>2
    <3> QED  BY <3>1, <3>2, RecordsChange
  <2> QED  BY <2>1, <2>2, <2>3, <2>5
<1> QED  BY <1>1, <1>2

\* A record is readable when it gets its name, and is not changed afterwards.
LEMMA ReadableKept ==
  ASSUME TypeOK, LocalInv, RecordsReadable, NEW q \in Procs, Act(q)
  PROVE  RecordsReadable'
<1>0. records \in [Names -> Entries \cup {NoRecord}]
  BY DEF TypeOK
<1>1. ASSUME NEW n \in Names, records'[n] # NoRecord
      PROVE  records'[n].whole /\ Describes(n, records'[n].what)
  <2>1. CASE records'[n] = records[n]
    BY <1>1, <2>1 DEF RecordsReadable, Present, Describes
  <2>2. CASE pc[q] = "link" /\ n = Target(q) /\ records'[n] = Record(q)
    BY <2>2, LinkedRecord
  <2>3. records'[n] = records[n] \/ (pc[q] = "link" /\ n = Target(q) /\ records'[n] = Record(q))
    <3>1. CASE pc[q] = "link" /\ records' = [records EXCEPT ![Target(q)] = Record(q)]
      BY <1>0, <3>1
    <3>2. CASE pc[q] = "lstat" /\ records' = [records EXCEPT ![Target(q)] = NoRecord]
      BY <1>0, <1>1, <3>2
    <3> QED  BY <3>1, <3>2, RecordsChange
  <2> QED  BY <2>1, <2>2, <2>3
<1> QED  BY <1>1 DEF RecordsReadable, Present, Describes

\* Steps that are no command's change neither what processes know nor records.
LEMMA QuietStep ==
  ASSUME StoreInv, EditSources \/ UNCHANGED vars
  PROVE  StoreInv'
<1>1. UNCHANGED <<records, pc, sight, writing, result>>
  BY DEF EditSources, vars, files
<1>2. fp' \in Fingerprints /\ faults' \in 0..MaxFaults /\ edits' \in 0..MaxEdits
  BY CountersKept DEF EditSources, vars, files, bounds, StoreInv, TypeOK
<1>3. TypeOK'
  BY <1>1, <1>2 DEF StoreInv, TypeOK, sight, writing
<1>4. LocalInv'
  BY <1>1 DEF StoreInv, LocalInv, LocalAt, InputAt, PayloadAt, TempAt, PromptAt, sight, writing
<1>5. OwnInv'
  <2>1. \A p \in Procs : Target(p)' = Target(p)
    BY <1>1 DEF Target, NameFor, sight, writing
  <2> QED  BY <1>1, <2>1 DEF StoreInv, OwnInv, OwnAt, sight, writing
<1>6. RecordsReadable'
  BY <1>1 DEF StoreInv, RecordsReadable, Present
<1> QED  BY <1>3, <1>4, <1>5, <1>6 DEF StoreInv

\* The invariant of the store is inductive.
LEMMA StoreStep == StoreInv /\ [Next]_vars => StoreInv'
<1> SUFFICES ASSUME StoreInv, [Next]_vars PROVE StoreInv'
  OBVIOUS
<1>0. TypeOK /\ LocalInv /\ OwnInv /\ RecordsReadable
  BY DEF StoreInv
<1>1. ASSUME NEW q \in Procs, Act(q) PROVE StoreInv'
  <2>1. TypeOK'
    <3>1. Shared'
      BY <1>0, <1>1, SharedKept
    <3>2. records' \in [Names -> Entries \cup {NoRecord}]
      BY <1>0, <1>1, RecordsKept
    <3>3. input' \in [Procs -> Sheets \cup Responses \cup {NoRecord}]
      BY <1>0, <1>1, InputKept
    <3>4. names' \in [Procs -> SUBSET Names] /\ seen' \in [Procs -> SUBSET Sheets]
      BY <1>0, <1>1, ReadingKept
    <3>5. payload' \in [Procs -> Sheets \cup Responses \cup ConfirmationType \cup {NoRecord}]
      BY <1>0, <1>1, PayloadKept
    <3>6. attempt' \in [Procs -> 1..MaxAttempts]
      BY <1>0, <1>1, AttemptKept
    <3> QED  BY <3>1, <3>2, <3>3, <3>4, <3>5, <3>6 DEF TypeOK, Shared
  <2>2. ASSUME NEW p \in Procs PROVE LocalAt(p)'
    <3>1. LocalAt(p)
      BY <1>0 DEF LocalInv
    <3>2. CASE p = q
      BY <1>0, <1>1, <3>1, <3>2, InputKept, PayloadKept, TempKept, PromptKept DEF LocalAt
    <3>3. CASE p # q
      BY <1>0, <1>1, <3>1, <3>3, OthersStay DEF LocalAt, InputAt, PayloadAt, TempAt, PromptAt
    <3> QED  BY <3>2, <3>3
  <2>3. OwnInv'
    BY <1>0, <1>1, OwnKept DEF OwnInv
  <2>4. RecordsReadable'
    BY <1>0, <1>1, ReadableKept
  <2> QED  BY <2>1, <2>2, <2>3, <2>4 DEF StoreInv, LocalInv
<1>2. CASE EditSources \/ UNCHANGED vars
  BY <1>2, QuietStep
<1> QED  BY <1>1, <1>2 DEF Next, Act

\* The store is sound in every state, for any number of processes.
THEOREM StoreInvariance == Spec => []StoreInv
<1>1. Init => StoreInv
  BY InitStore
<1>2. StoreInv /\ [Next]_vars => StoreInv'
  BY StoreStep
<1> QED  BY <1>1, <1>2, PTL DEF Spec

\* Every variable of the commands keeps its type.
THEOREM RecordTypes == Spec => []TypeOK
<1>1. StoreInv => TypeOK
  BY DEF StoreInv
<1> QED  BY <1>1, StoreInvariance, PTL

\* No record file is ever incomplete or under a name that does not fit it.
THEOREM RecordsStayReadable == Spec => []RecordsReadable
<1>1. StoreInv => RecordsReadable
  BY DEF StoreInv
<1> QED  BY <1>1, StoreInvariance, PTL

\* No record is replaced, and only its own writer withdraws one.
THEOREM RecordsStay == Spec => RecordsAreKept
<1> DEFINE Kept ==
      \A n \in Names :
        LET was == records[n]
        IN  was # NoRecord =>
              \/ records'[n] = was
              \/ /\ records'[n] = NoRecord
                 /\ pc[was.ino] = "lstat"
                 /\ result'[was.ino] = "write-failed"
<1>1. StoreInv /\ [Next]_vars => [Kept]_vars
  <2> SUFFICES ASSUME StoreInv, Next, NEW n \in Names, records[n] # NoRecord
               PROVE  \/ records'[n] = records[n]
                      \/ /\ records'[n] = NoRecord
                         /\ pc[records[n].ino] = "lstat"
                         /\ result'[records[n].ino] = "write-failed"
    OBVIOUS
  <2>0. TypeOK /\ OwnInv /\ records \in [Names -> Entries \cup {NoRecord}]
    BY DEF StoreInv, TypeOK
  <2>1. CASE EditSources
    BY <2>1 DEF EditSources
  <2>2. ASSUME NEW q \in Procs, Act(q)
        PROVE  \/ records'[n] = records[n]
               \/ /\ records'[n] = NoRecord
                  /\ pc[records[n].ino] = "lstat"
                  /\ result'[records[n].ino] = "write-failed"
    <3>1. CASE records[Target(q)] = NoRecord /\ records' = [records EXCEPT ![Target(q)] = Record(q)]
      BY <2>0, <3>1
    <3>2. CASE pc[q] = "lstat" /\ result'[q] = "write-failed"
               /\ records' = [records EXCEPT ![Target(q)] = NoRecord]
      <4>1. records[Target(q)] = [what |-> payload[q], whole |-> TRUE, ino |-> q]
        BY <2>0, <3>2 DEF OwnInv, OwnAt
      <4>2. records[Target(q)].ino = q
        BY <4>1
      <4> QED  BY <2>0, <3>2, <4>2
    <3> QED  BY <2>0, <2>2, <3>1, <3>2, RecordsChange
  <2> QED  BY <2>1, <2>2 DEF Next, Act
<1> QED  BY <1>1, StoreInvariance, PTL DEF Spec, RecordsAreKept

-----------------------------------------------------------------------------
(* The numbers of responses.                                               *)

\* A response that could not be written stays at the name it gave up.
LEMMA GivenUpStays ==
  ASSUME TypeOK, \A p \in Procs : ResultAt(p),
         NEW q \in Procs, Act(q), NEW n, GivenUp(n)
  PROVE  GivenUp(n)'
<1>1. PICK p \in Procs : result[p] = "write-failed" /\ Command[p] = "respond" /\ Target(p) = n
  BY DEF GivenUp
<1>2. result'[p] = result[p] /\ attempt'[p] = attempt[p] /\ snap'[p] = snap[p] /\ payload'[p] = payload[p]
  <2>1. CASE p # q
    BY <2>1, OthersStay
  <2>2. CASE p = q
    <3>1. pc[q] \in {"clean", "done", "crashed"}
      BY <1>1, <2>2 DEF ResultAt
    <3>2. UNCHANGED <<result, attempt, snap, payload>>
      BY <3>1 DEF Act, Start, Work, List, ReadToImport, ReadRevisions, JudgeResponse, JudgeConfirm,
            OpenTemp, WriteTemp, Link, Lstat, Clean, Probe, Reread, Prompt, Crash, sight, writing
    <3> QED  BY <2>2, <3>2
  <2> QED  BY <2>1, <2>2
<1>3. Target(p)' = Target(p)
  BY <1>2, TargetStays
<1> QED  BY <1>1, <1>2, <1>3 DEF GivenUp

\* A number that is taken is never free again, unless its writer gives it up.
LEMMA TakenStays ==
  ASSUME StoreInv, \A p \in Procs : ResultAt(p),
         NEW q \in Procs, Act(q), NEW n \in Names, n[1] = "respond", Taken(n)
  PROVE  Taken(n)'
<1>0. TypeOK /\ LocalInv /\ records \in [Names -> Entries \cup {NoRecord}]
  BY DEF StoreInv, TypeOK
<1>1. CASE GivenUp(n)
  BY <1>0, <1>1, GivenUpStays DEF Taken
<1>2. CASE records[n] # NoRecord
  <2>1. CASE records'[n] # NoRecord
    BY <2>1 DEF Taken
  <2>2. CASE records'[n] = NoRecord
    <3>1. /\ Lstat(q) /\ pc[q] = "lstat" /\ result'[q] = "write-failed"
          /\ records' = [records EXCEPT ![Target(q)] = NoRecord]
      <4>1. ~(records[Target(q)] = NoRecord /\ records' = [records EXCEPT ![Target(q)] = Record(q)])
        BY <1>0, <1>2, <2>2
      <4> QED  BY <1>0, <1>2, <2>2, <4>1, RecordsChange
    <3>2. n = Target(q)
      BY <1>0, <1>2, <2>2, <3>1
    <3>3. Command[q] = "respond"
      BY <1>0, <3>1, <3>2, TargetFacts DEF Holding
    <3>4. Target(q)' = Target(q)
      BY <3>1, TargetStays DEF Lstat, sight, writing
    <3> QED  BY <3>1, <3>2, <3>3, <3>4 DEF Taken, GivenUp
  <2> QED  BY <2>1, <2>2
<1> QED  BY <1>1, <1>2 DEF Taken

\* A response reports a failed write only when it is about to clean up.
LEMMA ResultKept ==
  ASSUME TypeOK, NEW p \in Procs, ResultAt(p), Act(p)
  PROVE  ResultAt(p)'
<1>0. pc \in [Procs -> Points] /\ result \in [Procs -> Results]
  BY DEF TypeOK
<1> USE DEF ResultAt, Goto, Finish
<1>1. CASE Start(p) \/ List(p) \/ ReadToImport(p) \/ ReadRevisions(p) \/ JudgeResponse(p) \/ JudgeConfirm(p)
  BY <1>0, <1>1 DEF Start, List, ReadToImport, ReadRevisions, JudgeResponse, JudgeConfirm, Refuse
<1>2. CASE OpenTemp(p) \/ WriteTemp(p)
  BY <1>0, <1>2 DEF OpenTemp, WriteTemp
<1>3. CASE Link(p) \/ Lstat(p)
  BY <1>0, <1>3 DEF Link, Lstat
<1>4. CASE Clean(p) \/ Probe(p) \/ Reread(p) \/ Prompt(p) \/ Crash(p)
  BY <1>0, <1>4 DEF Clean, Probe, Reread, Prompt, Crash, Running
<1> QED  BY <1>1, <1>2, <1>3, <1>4 DEF Act, Work

\* The first name is tried first.
LEMMA FirstKept ==
  ASSUME TypeOK, NEW p \in Procs, FirstAt(p), Act(p)
  PROVE  FirstAt(p)'
<1>0. pc \in [Procs -> Points] /\ attempt \in [Procs -> 1..MaxAttempts]
  BY DEF TypeOK
<1>1. CASE Link(p) \/ Lstat(p)
  BY <1>0, <1>1 DEF Link, Lstat, FirstAt, Goto, writing
<1>2. CASE Clean(p) \/ Probe(p) \/ Reread(p) \/ Prompt(p) \/ Crash(p)
  BY <1>0, <1>2 DEF Clean, Probe, Reread, Prompt, Crash, FirstAt, Goto, Finish, writing
<1>3. CASE ~(Link(p) \/ Lstat(p) \/ Clean(p) \/ Probe(p) \/ Reread(p) \/ Prompt(p) \/ Crash(p))
  <2>1. attempt' = attempt
    BY <1>3 DEF Act, Start, Work, List, ReadToImport, ReadRevisions, JudgeResponse, JudgeConfirm,
           OpenTemp, WriteTemp, writing
  <2>2. pc[p] \in {"idle", "list", "read", "judge", "open", "write"}
    BY <1>3 DEF Act, Start, Work, List, ReadToImport, ReadRevisions, JudgeResponse, JudgeConfirm,
           OpenTemp, WriteTemp
  <2> QED  BY <1>0, <2>1, <2>2 DEF FirstAt
<1> QED  BY <1>1, <1>2, <1>3

\* All numbers below the one a response tries are taken, its own steps
\* included: it goes on to the next number only where a name is taken.
LEMMA NumberKept ==
  ASSUME StoreInv, \A r \in Procs : ResultAt(r), NEW q \in Procs, Act(q),
         NEW p \in Procs, NumberAt(p), FirstAt(p)
  PROVE  NumberAt(p)'
<1> PICK x \in Prefixes : x = PrefixOf[snap[p]]
  BY PrefixAssumption DEF StoreInv, TypeOK
<1> DEFINE N(m) == <<"respond", x, m>>
<1>0. /\ TypeOK /\ LocalInv /\ pc \in [Procs -> Points] /\ attempt \in [Procs -> 1..MaxAttempts]
      /\ snap \in [Procs -> Fingerprints] /\ MaxAttempts \in Nat
  BY RecordsBounds DEF StoreInv, TypeOK
<1> SUFFICES ASSUME Command[p] = "respond", pc'[p] \in {"link", "lstat"},
                    NEW m \in 1..(attempt'[p] - 1)
             PROVE  Taken(<<"respond", PrefixOf[snap[p]], m>>)'
  BY DEF NumberAt
<1>1. snap'[p] = snap[p]
  <2>1. CASE p # q
    BY <1>0, <2>1, OthersStay
  <2>2. CASE p = q /\ Start(q)
    BY <1>0, <2>2 DEF Start, Goto, Finish
  <2>3. CASE p = q /\ ~Start(q)
    BY <2>3 DEF Act, Work, List, ReadToImport, ReadRevisions, JudgeResponse, JudgeConfirm,
          OpenTemp, WriteTemp, Link, Lstat, Clean, Probe, Reread, Prompt, Crash, sight
  <2> QED  BY <2>1, <2>2, <2>3
<1>2. ASSUME NEW k \in 1..MaxAttempts PROVE N(k) \in Names /\ N(k)[1] = "respond"
  BY <1>0, PrefixAssumption DEF Names, Commands
<1>3. m \in 1..MaxAttempts
  <2>1. attempt'[p] \in 1..MaxAttempts
    BY <1>0, AttemptKept
  <2> QED  BY <1>0, <2>1
<1>4. Taken(N(m))
  <2>1. CASE pc[p] \in {"link", "lstat"} /\ attempt'[p] = attempt[p]
    BY <2>1 DEF NumberAt
  <2>2. CASE pc[p] = "link" /\ attempt'[p] = attempt[p] + 1 /\ records[Target(p)] # NoRecord
    <3>1. Target(p) = N(attempt[p])
      BY <1>0, <2>2, TargetFacts DEF Holding
    <3>2. m \in 1..(attempt[p] - 1) \/ m = attempt[p]
      BY <1>0, <2>2
    <3>3. CASE m = attempt[p]
      BY <2>2, <3>1, <3>3 DEF Taken
    <3>4. CASE m \in 1..(attempt[p] - 1)
      BY <2>2, <3>4 DEF NumberAt
    <3> QED  BY <3>2, <3>3, <3>4
  <2>3. CASE pc[p] \notin {"link", "lstat"}
    <3>1. p = q
      BY <1>0, <2>3, OthersStay
    <3>2. WriteTemp(q)
      BY <1>0, <2>3, <3>1 DEF Act, Start, Work, List, ReadToImport, ReadRevisions, JudgeResponse, JudgeConfirm,
          OpenTemp, Link, Lstat, Clean, Probe, Reread, Prompt, Crash, Goto, Finish, Refuse
    <3>3. attempt'[p] = 1
      BY <3>1, <3>2 DEF WriteTemp, FirstAt
    <3> QED  BY <3>3
  <2>4. CASE p # q /\ pc[p] \in {"link", "lstat"}
    BY <1>0, <2>1, <2>4, OthersStay
  <2>5. CASE p = q /\ pc[p] \in {"link", "lstat"}
    <3>1. Link(q) \/ Lstat(q) \/ Crash(q)
      BY <2>5 DEF Act, Start, Work, List, ReadToImport, ReadRevisions, JudgeResponse, JudgeConfirm,
          OpenTemp, WriteTemp, Clean, Probe, Reread, Prompt
    <3>2. \/ attempt'[p] = attempt[p]
          \/ pc[p] = "link" /\ attempt'[p] = attempt[p] + 1 /\ records[Target(p)] # NoRecord
      BY <1>0, <2>5, <3>1 DEF Link, Lstat, Crash, writing
    <3> QED  BY <2>1, <2>2, <2>5, <3>2
  <2> QED  BY <2>3, <2>4, <2>5
<1>5. Taken(N(m))'
  BY <1>2, <1>3, <1>4, TakenStays
<1>6. N(m) = <<"respond", PrefixOf[snap'[p]], m>>
  BY <1>1
<1> QED  BY <1>5, <1>6 DEF Taken, GivenUp

\* A number is only taken after the one before it.
LEMMA NumberedKept ==
  ASSUME StoreInv, \A r \in Procs : ResultAt(r), \A r \in Procs : NumberAt(r),
         ResponsesNumbered, NEW q \in Procs, Act(q)
  PROVE  ResponsesNumbered'
<1>0. /\ TypeOK /\ LocalInv /\ records \in [Names -> Entries \cup {NoRecord}]
      /\ MaxAttempts \in Nat /\ attempt \in [Procs -> 1..MaxAttempts]
  BY RecordsBounds DEF StoreInv, TypeOK
<1> SUFFICES ASSUME NEW x \in Prefixes, NEW n \in 2..MaxAttempts,
                    records'[<<"respond", x, n>>] # NoRecord
             PROVE  Taken(<<"respond", x, n - 1>>)'
  BY DEF ResponsesNumbered, Taken, GivenUp
<1> DEFINE this == <<"respond", x, n>>
           before == <<"respond", x, n - 1>>
<1>1. this \in Names /\ before \in Names /\ before[1] = "respond"
  <2>1. n \in 1..MaxAttempts /\ n - 1 \in 1..MaxAttempts
    BY <1>0
  <2> QED  BY <2>1 DEF Names, Commands
<1>2. Taken(before)
  <2>1. CASE records[this] # NoRecord
    BY <2>1 DEF ResponsesNumbered, Taken
  <2>2. CASE records[this] = NoRecord
    <3>1. pc[q] = "link" /\ Target(q) = this
      <4>1. records'[this] # records[this]
        BY <2>2
      <4>2. ~(records' = [records EXCEPT ![Target(q)] = NoRecord])
        BY <1>0, <1>1, <2>2
      <4>3. pc[q] = "link" /\ records' = [records EXCEPT ![Target(q)] = Record(q)]
        BY <1>0, <4>1, <4>2, RecordsChange
      <4> QED  BY <1>0, <1>1, <4>1, <4>3
    <3>2. Command[q] = "respond" /\ PrefixOf[snap[q]] = x /\ attempt[q] = n
      <4>1. /\ Target(q)[1] = Command[q]
            /\ Command[q] # "import"  => Target(q)[2] = PrefixOf[snap[q]]
            /\ Command[q] = "respond" => Target(q)[3] = attempt[q]
        BY <1>0, <3>1, TargetFacts DEF Holding
      <4> QED  BY <3>1, <4>1
    <3>3. n - 1 \in 1..(attempt[q] - 1)
      BY <1>0, <3>2
    <3> QED  BY <3>1, <3>2, <3>3 DEF NumberAt
  <2> QED  BY <2>1, <2>2
<1>3. Taken(before)'
  BY <1>1, <1>2, TakenStays
<1> QED  BY <1>3

\* The invariant of the numbers is inductive.
LEMMA NumberStep == NumberInv /\ [Next]_vars => NumberInv'
<1> SUFFICES ASSUME NumberInv, [Next]_vars PROVE NumberInv'
  OBVIOUS
<1>0. /\ StoreInv /\ TypeOK /\ ResponsesNumbered
      /\ \A p \in Procs : ResultAt(p) /\ FirstAt(p) /\ NumberAt(p)
  BY DEF NumberInv, StoreInv
<1>1. StoreInv'
  BY <1>0, StoreStep
<1>2. ASSUME NEW q \in Procs, Act(q) PROVE NumberInv'
  <2>1. ASSUME NEW p \in Procs PROVE ResultAt(p)' /\ FirstAt(p)'
    <3>1. CASE p = q
      BY <1>0, <1>2, <3>1, ResultKept, FirstKept
    <3>2. CASE p # q
      BY <1>0, <1>2, <3>2, OthersStay DEF ResultAt, FirstAt
    <3> QED  BY <3>1, <3>2
  <2>2. ASSUME NEW p \in Procs PROVE NumberAt(p)'
    BY <1>0, <1>2, NumberKept
  <2>3. ResponsesNumbered'
    BY <1>0, <1>2, NumberedKept
  <2> QED  BY <1>1, <2>1, <2>2, <2>3 DEF NumberInv
<1>3. CASE EditSources \/ UNCHANGED vars
  <2>1. UNCHANGED <<records, pc, sight, writing, result>>
    BY <1>3 DEF EditSources, vars, files
  <2>2. \A p \in Procs : Target(p)' = Target(p)
    BY <2>1 DEF Target, NameFor, sight, writing
  <2>3. \A n : Taken(n)' <=> Taken(n)
    BY <2>1, <2>2 DEF Taken, GivenUp
  <2>4. \A p \in Procs : ResultAt(p)' /\ FirstAt(p)'
    BY <1>0, <2>1 DEF ResultAt, FirstAt, writing
  <2>5. ASSUME NEW p \in Procs PROVE NumberAt(p)'
    <3>1. NumberAt(p) /\ UNCHANGED <<pc, attempt, snap>>
      BY <1>0, <2>1 DEF sight, writing
    <3> QED  BY <2>3, <3>1 DEF NumberAt
  <2>6. ResponsesNumbered'
    BY <1>0, <2>1, <2>3 DEF ResponsesNumbered, Taken
  <2> QED  BY <1>1, <2>4, <2>5, <2>6 DEF NumberInv
<1> QED  BY <1>2, <1>3 DEF Next, Act

\* However many responses race for the numbers, and whichever of them fail or
\* are killed, a number is missing only where its writer has given it up.
THEOREM NumbersHaveNoGaps == Spec => []ResponsesNumbered
<1>1. Init => NumberInv
  <2> SUFFICES ASSUME Init PROVE NumberInv
    OBVIOUS
  <2>1. StoreInv
    BY InitStore
  <2>2. \A p \in Procs : ResultAt(p) /\ FirstAt(p) /\ NumberAt(p)
    BY DEF Init, ResultAt, FirstAt, NumberAt
  <2>3. ResponsesNumbered
    <3>1. ASSUME NEW x \in Prefixes, NEW n \in 2..MaxAttempts PROVE <<"respond", x, n>> \in Names
      <4>1. n \in 1..MaxAttempts
        BY RecordsBounds
      <4> QED  BY <4>1 DEF Names, Commands
    <3>2. \A n \in Names : records[n] = NoRecord
      BY DEF Init
    <3> QED  BY <3>1, <3>2 DEF ResponsesNumbered
  <2> QED  BY <2>1, <2>2, <2>3 DEF NumberInv
<1>2. NumberInv => ResponsesNumbered
  BY DEF NumberInv
<1> QED  BY <1>1, <1>2, NumberStep, PTL DEF Spec

-----------------------------------------------------------------------------
(* Sets of requests.                                                       *)

\* A part of a valid set is valid.
LEMMA ValidPart ==
  ASSUME NEW R, NEW Q \in SUBSET R, ValidSet(R)
  PROVE  ValidSet(Q)
<1>1. SameContentPerId(Q) /\ NoDoubledTarget(Q)
  BY DEF ValidSet, SameContentPerId, NoSupersedesConflict, NoDoubledTarget
<1>2. NoCycle(Q)
  <2> SUFFICES ASSUME NEW S \in SUBSET Q, S # {}
               PROVE  \E r \in S : \A q \in S : q.id # r.supersedes
    BY DEF NoCycle
  <2>1. S \in SUBSET R
    OBVIOUS
  <2> QED  BY <2>1 DEF ValidSet, NoSupersedesConflict, NoCycle
<1> QED  BY <1>1, <1>2 DEF ValidSet, NoSupersedesConflict

\* A sheet that `review import` does not refuse leaves a closed valid set
\* closed and valid.
LEMMA ImportKeepsValid ==
  ASSUME NEW R \in SUBSET Revisions, ValidSet(R), ClosedSet(R),
         NEW sheet \in SheetType, ~ImportRefused(sheet, R)
  PROVE  ValidSet(R \cup sheet.revisions) /\ ClosedSet(R \cup sheet.revisions)
<1> DEFINE N == sheet.revisions
           U == R \cup N
<1>1. /\ ValidSet(N)
      /\ \A a \in N, b \in R : a.id = b.id => a = b
      /\ N \in SUBSET Revisions
  BY DEF ImportRefused, ContentConflict, SheetType
<1>2. ASSUME NEW r \in N, r \notin R
      PROVE  /\ r.id \notin IdsOf(R)
             /\ r.supersedes # NoId => /\ r.supersedes \in IdsOf(U)
                                       /\ \A q \in U : q.supersedes = r.supersedes => q.id = r.id
  <2>1. r.id \notin IdsOf(R)
    BY <1>1, <1>2 DEF IdsOf
  <2>2. r \in Fresh(sheet, R)
    BY <2>1 DEF Fresh
  <2> QED  BY <2>1, <2>2 DEF ImportRefused, SupersedesRefused
<1>3. ClosedSet(U)
  <2> SUFFICES ASSUME NEW r \in U, r.supersedes # NoId PROVE r.supersedes \in IdsOf(U)
    BY DEF ClosedSet
  <2>1. CASE r \in R
    BY <2>1 DEF ClosedSet, IdsOf
  <2>2. CASE r \notin R
    BY <1>2, <2>2
  <2> QED  BY <2>1, <2>2
<1>4. SameContentPerId(U)
  BY <1>1 DEF ValidSet, SameContentPerId
<1>5. NoDoubledTarget(U)
  <2> SUFFICES ASSUME NEW a \in U, NEW b \in U, a.supersedes = b.supersedes, a.supersedes # NoId
               PROVE  a.id = b.id
    BY DEF NoDoubledTarget
  <2>1. CASE a \in R /\ b \in R
    BY <2>1 DEF ValidSet, NoSupersedesConflict, NoDoubledTarget
  <2>2. CASE a \notin R
    BY <1>2, <2>2
  <2>3. CASE b \notin R
    BY <1>2, <2>3
  <2> QED  BY <2>1, <2>2, <2>3
<1>6. NoCycle(U)
  <2> SUFFICES ASSUME NEW S \in SUBSET U, S # {}
               PROVE  \E r \in S : \A q \in S : q.id # r.supersedes
    BY DEF NoCycle
  <2>1. CASE S \cap R = {}
    <3>1. S \in (SUBSET N) \ {{}}
      BY <2>1
    <3> QED  BY <1>1, <3>1 DEF ValidSet, NoSupersedesConflict, NoCycle
  <2>2. CASE S \cap R # {}
    <3>1. PICK r \in S \cap R : \A q \in S \cap R : q.id # r.supersedes
      BY <2>2 DEF ValidSet, NoSupersedesConflict, NoCycle
    <3>2. ASSUME NEW q \in S, q \notin R PROVE q.id # r.supersedes
      <4>1. q.id \notin IdsOf(R) /\ q.id \in Ids
        BY <1>1, <1>2, <3>2 DEF Revisions
      <4>2. r.supersedes = NoId \/ r.supersedes \in IdsOf(R)
        BY <3>1 DEF ClosedSet
      <4> QED  BY <4>1, <4>2, NoIdAssumption
    <3> QED  BY <3>1, <3>2
  <2> QED  BY <2>1, <2>2
<1> QED  BY <1>3, <1>4, <1>5, <1>6 DEF ValidSet, NoSupersedesConflict

-----------------------------------------------------------------------------
(* Imports that do not overlap.                                            *)

\* The imported requests are requests.
LEMMA StoredType ==
  ASSUME TypeOK, RecordsReadable
  PROVE  Stored("import") \in SUBSET Sheets /\ StoredRevisions \in SUBSET Revisions
<1>1. Stored("import") \in SUBSET Sheets
  BY DEF Stored, Kind, RecordsReadable
<1> QED  BY <1>1, SheetsAssumption DEF StoredRevisions, RevisionsIn, SheetType

\* A command of another kind does not touch the sheets.
LEMMA SheetsStay ==
  ASSUME TypeOK, LocalInv, NEW q \in Procs, Act(q),
         Command[q] # "import" \/ records' = records
  PROVE  /\ Present' \cap {n \in Names : n[1] = "import"} = Present \cap {n \in Names : n[1] = "import"}
         /\ Kind("import")' = Kind("import")
         /\ \A n \in Kind("import") : records'[n] = records[n]
         /\ Stored("import")' = Stored("import") /\ StoredRevisions' = StoredRevisions
<1>1. ASSUME NEW n \in Names, n[1] = "import" PROVE records'[n] = records[n]
  <2>0. records \in [Names -> Entries \cup {NoRecord}]
    BY DEF TypeOK
  <2>1. CASE records' = records
    BY <2>1
  <2>2. ASSUME pc[q] = "link" \/ pc[q] = "lstat", Command[q] # "import" PROVE Target(q) # n
    BY <1>1, <2>2, TargetFacts DEF Holding
  <2> QED  BY <2>0, <2>1, <2>2, RecordsChange
<1>2. Kind("import") = {n \in Names : n[1] = "import" /\ records[n] # NoRecord}
  BY DEF Kind, Present
<1>3. Kind("import")' = {n \in Names : n[1] = "import" /\ records'[n] # NoRecord}
  BY DEF Kind, Present
<1>4. Kind("import")' = Kind("import")
  BY <1>1, <1>2, <1>3
<1>5. \A n \in Kind("import") : records'[n] = records[n]
  BY <1>1, <1>2
<1>6. Stored("import")' = Stored("import")
  BY <1>4, <1>5 DEF Stored
<1>7. Present' \cap {n \in Names : n[1] = "import"} = Present \cap {n \in Names : n[1] = "import"}
  BY <1>1 DEF Present
<1> QED  BY <1>4, <1>5, <1>6, <1>7 DEF StoredRevisions

\* An import adds its sheet, and takes away no other.
LEMMA SheetLinked ==
  ASSUME TypeOK, LocalInv, NEW q \in Procs, Command[q] = "import", pc[q] = "link", Link(q),
         records[Target(q)] = NoRecord, records' = [records EXCEPT ![Target(q)] = Record(q)]
  PROVE  /\ Stored("import")' = Stored("import") \cup {payload[q]}
         /\ Others(q)' = Stored("import")
<1>0. records \in [Names -> Entries \cup {NoRecord}]
  BY DEF TypeOK
<1>1. Target(q) \in Names /\ Target(q)[1] = "import"
  BY TargetFacts DEF Holding
<1>2. Record(q).what = payload[q] /\ Record(q) # NoRecord
  BY LinkedRecord
<1>3. Target(q)' = Target(q)
  <2>1. CASE attempt' = attempt
    BY <2>1, TargetStays DEF Link, sight
  <2>2. CASE attempt' # attempt
    <3>1. FALSE
      <4>1. records' # records
        BY <1>0, <1>1, <1>2
      <4> QED  BY <2>2, <4>1 DEF Link
    <3> QED  BY <3>1
  <2> QED  BY <2>1, <2>2
<1>4. /\ Kind("import") = {n \in Names : n[1] = "import" /\ records[n] # NoRecord}
      /\ Kind("import")' = {n \in Names : n[1] = "import" /\ records'[n] # NoRecord}
  BY DEF Kind, Present
<1>5. /\ records'[Target(q)] = Record(q)
      /\ \A n \in Names : n # Target(q) => records'[n] = records[n]
  BY <1>0, <1>1
<1>6. Kind("import")' = Kind("import") \cup {Target(q)} /\ Target(q) \notin Kind("import")
  BY <1>1, <1>2, <1>4, <1>5
<1>7. \A n \in Kind("import") : n \in Names /\ n # Target(q)
  BY <1>4, <1>6
<1>8. Stored("import") = {records[n].what : n \in Kind("import")}
  BY DEF Stored
<1>9. Stored("import")' = {records'[n].what : n \in Kind("import")'}
  BY DEF Stored
<1>10. Others(q)' = {records'[n].what : n \in Kind("import")' \ {Target(q)}}
  BY <1>3 DEF Others
<1>11. Kind("import")' \ {Target(q)} = Kind("import")
  BY <1>6
<1>12. \A n \in Kind("import") : records'[n] = records[n]
  BY <1>5, <1>7
<1>13. Others(q)' = Stored("import")
  BY <1>8, <1>10, <1>11, <1>12
<1>14. Stored("import")' = Stored("import") \cup {payload[q]}
  BY <1>2, <1>5, <1>6, <1>8, <1>9, <1>12
<1> QED  BY <1>13, <1>14

\* A sheet that is withdrawn leaves the others.
LEMMA SheetWithdrawn ==
  ASSUME TypeOK, LocalInv, NEW q \in Procs, Command[q] = "import", pc[q] = "lstat",
         records' = [records EXCEPT ![Target(q)] = NoRecord]
  PROVE  Stored("import")' = Others(q)
<1>0. records \in [Names -> Entries \cup {NoRecord}]
  BY DEF TypeOK
<1>1. Target(q) \in Names
  BY TargetFacts DEF Holding
<1>2. /\ Kind("import") = {n \in Names : n[1] = "import" /\ records[n] # NoRecord}
      /\ Kind("import")' = {n \in Names : n[1] = "import" /\ records'[n] # NoRecord}
  BY DEF Kind, Present
<1>3. Kind("import")' = Kind("import") \ {Target(q)}
  BY <1>0, <1>1, <1>2
<1>4. \A n \in Kind("import") \ {Target(q)} : records'[n] = records[n]
  BY <1>0, <1>2
<1> QED  BY <1>3, <1>4 DEF Stored, Others

\* No import begins while another one is running.
LEMMA AloneKept ==
  ASSUME TypeOK, AloneInv, SerialImports, NEW q \in Procs, Act(q)
  PROVE  AloneInv'
<1>0. pc \in [Procs -> Points]
  BY DEF TypeOK
<1>1. \A p \in Procs : p # q => (Importing(p)' <=> Importing(p))
  BY OthersStay DEF Importing, Running
<1>2. CASE Start(q)
  <2>1. Command[q] = "import" => \A p \in Procs : ~Importing(p)
    BY <1>2 DEF Start, Importing
  <2>2. Command[q] # "import" => ~Importing(q)'
    BY DEF Importing
  <2> QED  BY <1>1, <2>1, <2>2 DEF AloneInv
<1>3. CASE ~Start(q)
  <2>1. Running(q)
    BY <1>3 DEF Act, Work, List, ReadToImport, ReadRevisions, JudgeResponse, JudgeConfirm, OpenTemp,
          WriteTemp, Link, Lstat, Clean, Probe, Reread, Prompt, Crash, Running
  <2>2. Importing(q)' => Importing(q)
    BY <2>1 DEF Importing
  <2> QED  BY <1>1, <2>2 DEF AloneInv
<1> QED  BY <1>2, <1>3

\* While an import runs, its own steps are the only ones that change sheets.
LEMMA ImportAtKept ==
  ASSUME StoreInv, AloneInv, SerialImports, "list" \notin FaultKinds,
         NEW q \in Procs, Act(q), NEW p \in Procs, ImportAt(p),
         ClosedSet(StoredRevisions)
  PROVE  ImportAt(p)'
<1> SUFFICES ASSUME Command[p] = "import", pc'[p] \in {"read", "open", "write", "link", "lstat"}
             PROVE  /\ pc'[p] = "read" => \A n \in Names : n[1] = "import" => (n \in names'[p] <=> n \in Present')
                    /\ pc'[p] \in {"open", "write", "link"} => ~ImportRefused(payload'[p], StoredRevisions')
                    /\ pc'[p] = "lstat" => ClosedSet(RevisionsIn(Others(p)'))
  BY DEF ImportAt, ImportRefused, ValidSet, SameContentPerId, NoSupersedesConflict, NoDoubledTarget, NoCycle,
         ContentConflict, SupersedesRefused, Fresh, IdsOf, ClosedSet, RevisionsIn
<1>0. /\ TypeOK /\ LocalInv /\ OwnInv /\ pc \in [Procs -> Points]
      /\ names \in [Procs -> SUBSET Names] /\ attempt \in [Procs -> 1..MaxAttempts]
      /\ payload \in [Procs -> Sheets \cup Responses \cup ConfirmationType \cup {NoRecord}]
  BY DEF StoreInv, TypeOK
<1>1. CASE p # q
  <2>1. /\ pc'[p] = pc[p] /\ names'[p] = names[p] /\ payload'[p] = payload[p]
        /\ snap'[p] = snap[p] /\ attempt'[p] = attempt[p]
    BY <1>0, <1>1, OthersStay
  <2>2. Importing(p)
    BY <2>1 DEF Importing, Running
  <2>3. Command[q] # "import"
    <3>1. CASE Start(q) /\ Command[q] = "import"
      BY <2>2, <3>1 DEF Start, Importing
    <3>2. CASE ~Start(q)
      <4>1. Running(q)
        BY <3>2 DEF Act, Work, List, ReadToImport, ReadRevisions, JudgeResponse, JudgeConfirm, OpenTemp,
              WriteTemp, Link, Lstat, Clean, Probe, Reread, Prompt, Crash, Running
      <4> QED  BY <1>1, <2>2, <4>1 DEF AloneInv, Importing
    <3> QED  BY <3>1, <3>2
  <2>4. /\ StoredRevisions' = StoredRevisions /\ Kind("import")' = Kind("import")
        /\ \A n \in Kind("import") : records'[n] = records[n]
        /\ \A n \in Names : n[1] = "import" => (n \in Present' <=> n \in Present)
    BY <1>0, <2>3, SheetsStay
  <2>5. Target(p)' = Target(p)
    BY <2>1, TargetStays
  <2>6. Others(p)' = Others(p)
    BY <2>4, <2>5 DEF Others
  <2> QED  BY <2>1, <2>4, <2>6 DEF ImportAt
<1>2. CASE p = q
  <2>1. CASE List(q)
    <3>1. names' = [names EXCEPT ![q] = Present] /\ pc' = [pc EXCEPT ![q] = "read"] /\ records' = records
      BY <1>0, <1>2, <2>1 DEF List, Fault, Finish, Goto, files
    <3>2. Present' = Present
      BY <3>1 DEF Present
    <3> QED  BY <1>0, <1>2, <3>1, <3>2
  <2>2. CASE ReadToImport(q)
    <3>1. /\ pc[q] = "read" /\ records' = records /\ pc'[q] = "open" /\ payload'[q] = input[q]
          /\ ~ImportRefused(input[q], RevisionsIn(Listed(q, "import")))
      BY <1>0, <1>2, <2>2 DEF ReadToImport, Refuse, Finish, Goto, files
    <3>2. Listed(q, "import") = Stored("import")
      <4>1. \A n \in Names : n[1] = "import" => (n \in names[q] <=> n \in Present)
        BY <1>2, <3>1 DEF ImportAt
      <4>2. {n \in names[q] : n[1] = "import"} = {n \in Present : n[1] = "import"}
        BY <1>0, <4>1 DEF Present
      <4> QED  BY <4>2 DEF Listed, Stored, Kind
    <3>3. StoredRevisions' = StoredRevisions
      BY <1>0, <3>1, SheetsStay
    <3> QED  BY <1>2, <3>1, <3>2, <3>3 DEF StoredRevisions
  <2>3. CASE OpenTemp(q) \/ WriteTemp(q)
    <3>1. /\ pc[q] \in {"open", "write"} /\ pc'[q] \in {"write", "link"} /\ records' = records
          /\ payload' = payload
      BY <1>0, <1>2, <2>3 DEF OpenTemp, WriteTemp, Finish, Goto, files, sight
    <3>2. StoredRevisions' = StoredRevisions
      BY <1>0, <3>1, SheetsStay
    <3> QED  BY <1>2, <3>1, <3>2 DEF ImportAt
  <2>4. CASE Link(q)
    <3>1. pc[q] = "link" /\ payload' = payload
      BY <2>4 DEF Link
    <3>2. CASE pc'[q] = "link"
      <4>1. records' = records
        BY <1>0, <2>4, <3>2 DEF Link, Goto
      <4>2. StoredRevisions' = StoredRevisions
        BY <1>0, <4>1, SheetsStay
      <4> QED  BY <1>2, <3>1, <3>2, <4>2 DEF ImportAt
    <3>3. CASE pc'[q] = "lstat"
      <4>1. records[Target(q)] = NoRecord /\ records' = [records EXCEPT ![Target(q)] = Record(q)]
        BY <1>0, <2>4, <3>3 DEF Link, Goto
      <4>2. Others(q)' = Stored("import")
        BY <1>0, <1>2, <2>4, <3>1, <4>1, SheetLinked
      <4> QED  BY <1>2, <3>3, <4>2 DEF StoredRevisions
    <3>4. pc'[q] \in {"link", "lstat", "clean"}
      BY <1>0, <2>4 DEF Link, Goto
    <3> QED  BY <1>2, <3>2, <3>3, <3>4
  <2>5. CASE ~(List(q) \/ ReadToImport(q) \/ OpenTemp(q) \/ WriteTemp(q) \/ Link(q))
    <3>1. pc'[q] \notin {"read", "open", "write", "link", "lstat"}
      <4>1. CASE Start(q) \/ ReadRevisions(q) \/ JudgeResponse(q) \/ JudgeConfirm(q)
        BY <1>0, <1>2, <4>1 DEF Start, ReadRevisions, JudgeResponse, JudgeConfirm, Goto, Finish
      <4>2. CASE Lstat(q) \/ Clean(q) \/ Probe(q) \/ Reread(q) \/ Crash(q)
        BY <1>0, <1>2, <4>2 DEF Lstat, Clean, Probe, Reread, Crash, Goto, Finish
      <4>3. CASE Prompt(q)
        <5>1. Command[q] = "confirm"
          BY <1>0, <4>3 DEF Prompt, LocalInv, LocalAt, PromptAt
        <5> QED  BY <1>2, <5>1
      <4> QED  BY <2>5, <4>1, <4>2, <4>3 DEF Act, Work
    <3> QED  BY <1>2, <3>1
  <2> QED  BY <2>1, <2>2, <2>3, <2>4, <2>5
<1> QED  BY <1>1, <1>2

\* The imported set stays consistent when a sheet is added or withdrawn.
LEMMA SetKept ==
  ASSUME StoreInv, NEW q \in Procs, Act(q), ImportAt(q),
         ImportedSetValid, ClosedSet(StoredRevisions)
  PROVE  ValidSet(StoredRevisions') /\ ClosedSet(StoredRevisions')
<1>0. /\ TypeOK /\ LocalInv /\ OwnInv /\ RecordsReadable /\ ValidSet(StoredRevisions)
      /\ StoredRevisions \in SUBSET Revisions
  BY StoredType DEF StoreInv, ImportedSetValid
<1>1. CASE Command[q] # "import" \/ records' = records
  BY <1>0, <1>1, SheetsStay
<1>2. CASE /\ Command[q] = "import" /\ Link(q) /\ pc[q] = "link" /\ records[Target(q)] = NoRecord
           /\ records' = [records EXCEPT ![Target(q)] = Record(q)]
  <2>1. payload[q] \in SheetType /\ ~ImportRefused(payload[q], StoredRevisions)
    BY <1>0, <1>2, SheetsAssumption DEF LocalInv, LocalAt, PayloadAt, Holding, ImportAt
  <2>2. ValidSet(StoredRevisions \cup payload[q].revisions) /\ ClosedSet(StoredRevisions \cup payload[q].revisions)
    BY <1>0, <2>1, ImportKeepsValid
  <2>3. Stored("import")' = Stored("import") \cup {payload[q]}
    BY <1>0, <1>2, SheetLinked
  <2>4. StoredRevisions' = StoredRevisions \cup payload[q].revisions
    BY <2>3 DEF StoredRevisions, RevisionsIn
  <2> QED  BY <2>2, <2>4
<1>3. CASE Command[q] = "import" /\ pc[q] = "lstat" /\ records' = [records EXCEPT ![Target(q)] = NoRecord]
  <2>1. StoredRevisions' = RevisionsIn(Others(q))
    BY <1>0, <1>3, SheetWithdrawn DEF StoredRevisions, RevisionsIn
  <2>2. RevisionsIn(Others(q)) \in SUBSET StoredRevisions
    BY DEF RevisionsIn, Others, StoredRevisions, Stored
  <2>3. ValidSet(RevisionsIn(Others(q)))
    BY <1>0, <2>2, ValidPart
  <2>4. ClosedSet(RevisionsIn(Others(q)))
    BY <1>3 DEF ImportAt
  <2> QED  BY <2>1, <2>3, <2>4
<1> QED  BY <1>0, <1>1, <1>2, <1>3, RecordsChange

\* The invariant of serial imports is inductive.
LEMMA ImportsStep ==
  ASSUME SerialImports, "list" \notin FaultKinds
  PROVE  ImportsInv /\ [Next]_vars => ImportsInv'
<1> SUFFICES ASSUME ImportsInv, [Next]_vars PROVE ImportsInv'
  OBVIOUS
<1>0. /\ StoreInv /\ TypeOK /\ AloneInv /\ ImportedSetValid /\ ClosedSet(StoredRevisions)
      /\ \A p \in Procs : ImportAt(p)
  BY DEF ImportsInv, StoreInv
<1>1. StoreInv'
  BY <1>0, StoreStep
<1> USE DEF ImportedSetValid, ValidSet, SameContentPerId, NoSupersedesConflict, NoDoubledTarget, NoCycle,
            ClosedSet, IdsOf
<1>2. ASSUME NEW q \in Procs, Act(q) PROVE ImportsInv'
  <2>1. AloneInv'
    BY <1>0, <1>2, AloneKept
  <2>2. \A p \in Procs : ImportAt(p)'
    BY <1>0, <1>2, ImportAtKept
  <2>3. ValidSet(StoredRevisions') /\ ClosedSet(StoredRevisions')
    BY <1>0, <1>2, SetKept
  <2> QED  BY <1>1, <2>1, <2>2, <2>3 DEF ImportsInv
<1>3. CASE EditSources \/ UNCHANGED vars
  <2>1. UNCHANGED <<records, pc, names, payload, snap, attempt>>
    BY <1>3 DEF EditSources, vars, files, sight, writing
  <2>2. \A p \in Procs : Target(p)' = Target(p)
    BY <2>1 DEF Target, NameFor
  <2>3. Present' = Present /\ Kind("import")' = Kind("import") /\ StoredRevisions' = StoredRevisions
    BY <2>1 DEF Present, Kind, StoredRevisions, RevisionsIn, Stored
  <2>4. \A p \in Procs : Others(p)' = Others(p)
    BY <2>1, <2>2, <2>3 DEF Others
  <2>5. AloneInv'
    BY <1>0, <2>1 DEF AloneInv, Importing, Running
  <2>6. ASSUME NEW p \in Procs PROVE ImportAt(p)'
    <3>1. ImportAt(p)
      BY <1>0
    <3> QED  BY <2>1, <2>3, <2>4, <3>1
             DEF ImportAt, ImportRefused, ContentConflict, SupersedesRefused, Fresh, RevisionsIn
  <2> QED  BY <1>0, <1>1, <2>3, <2>5, <2>6 DEF ImportsInv
<1> QED  BY <1>2, <1>3 DEF Next, Act

\* Imports that do not overlap never make the imported set inconsistent,
\* whatever fails or is killed, if the directory can be listed.
THEOREM ImportsStayValid ==
  ASSUME SerialImports, "list" \notin FaultKinds
  PROVE  Spec => []ImportedSetValid
<1>1. Init => ImportsInv
  <2> SUFFICES ASSUME Init PROVE ImportsInv
    OBVIOUS
  <2>1. StoreInv
    BY InitStore
  <2>2. Present = {}
    BY DEF Init, Present
  <2>3. StoredRevisions = {}
    BY <2>2 DEF StoredRevisions, RevisionsIn, Stored, Kind
  <2>4. AloneInv /\ \A p \in Procs : ImportAt(p)
    BY DEF Init, AloneInv, Importing, Running, ImportAt
  <2>5. ValidSet({}) /\ ClosedSet({})
    BY DEF ValidSet, SameContentPerId, NoSupersedesConflict, NoDoubledTarget, NoCycle, ClosedSet
  <2> QED  BY <2>1, <2>3, <2>4, <2>5 DEF ImportsInv, ImportedSetValid
<1>2. ImportsInv => ImportedSetValid
  BY DEF ImportsInv
<1>3. ImportsInv /\ [Next]_vars => ImportsInv'
  BY ImportsStep
<1> QED  BY <1>1, <1>2, <1>3, PTL DEF Spec

-----------------------------------------------------------------------------
(* Records that are never withdrawn.                                        *)

\* What is recorded stays recorded.
Grows == \A n \in Present : n \in Present' /\ records'[n] = records[n]

\* No record goes away while files just linked can be examined.
LEMMA RecordsGrow ==
  ASSUME StoreInv, "lstat" \notin FaultKinds, NEW q \in Procs, Act(q)
  PROVE  Grows
<1>0. TypeOK /\ OwnInv /\ LocalInv /\ records \in [Names -> Entries \cup {NoRecord}]
  BY DEF StoreInv, TypeOK
<1>1. CASE Lstat(q)
  <2>1. Owns(q)
    <3>1. pc[q] = "lstat"
      BY <1>1 DEF Lstat
    <3>2. records[Target(q)] = [what |-> payload[q], whole |-> TRUE, ino |-> q]
      BY <1>0, <3>1 DEF OwnInv, OwnAt
    <3>3. records[Target(q)] # NoRecord
      BY <1>0, <3>1, <3>2, OwnEntry DEF Holding
    <3>4. records[Target(q)].ino = q
      BY <3>2
    <3> QED  BY <3>3, <3>4 DEF Owns
  <2>2. records' = records
    BY <1>1, <2>1 DEF Lstat, Fault
  <2> QED  BY <2>2 DEF Grows, Present
<1>2. CASE ~Lstat(q)
  <2>1. records' = records \/ (records[Target(q)] = NoRecord /\ records' = [records EXCEPT ![Target(q)] = Record(q)])
    BY <1>0, <1>2, RecordsChange
  <2> QED  BY <1>0, <2>1 DEF Grows, Present
<1> QED  BY <1>1, <1>2

\* What is true of the stored records stays true of more of them.
LEMMA MoreStored ==
  ASSUME Grows
  PROVE  /\ \A k : Stored(k) \subseteq Stored(k)'
         /\ StoredRevisions \subseteq StoredRevisions'
<1>1. ASSUME NEW k, NEW n \in Kind(k) PROVE n \in Kind(k)' /\ records'[n].what = records[n].what
  BY DEF Grows, Kind
<1>2. \A k : Stored(k) \subseteq Stored(k)'
  BY <1>1 DEF Stored
<1> QED  BY <1>2 DEF StoredRevisions, RevisionsIn

\* A response that covers its sheets does so in a larger directory.
LEMMA CoversStays ==
  ASSUME Grows, NEW r, CoversItsSheets(r)
  PROVE  CoversItsSheets(r)'
BY MoreStored DEF CoversItsSheets, IdsOf, RevisionsIn

\* A confirmation that is earned is so in a larger directory.
LEMMA EarnedStays ==
  ASSUME Grows, NEW c, Earned(c)
  PROVE  Earned(c)'
<1>1. ASSUME NEW r, Settled(r, c) PROVE Settled(r, c)'
  BY <1>1, MoreStored DEF Settled
<1>2. /\ c.fp \in Complete /\ ValidSet(RevisionsIn(c.sheets))
      /\ c.sheets \subseteq Stored("import")'
      /\ \A r \in Effective(RevisionsIn(c.sheets)) : Settled(r, c)'
  BY <1>1, MoreStored DEF Earned
<1> QED  BY <1>2 DEF Earned, ValidSet, SameContentPerId, NoSupersedesConflict, NoDoubledTarget, NoCycle,
                     Effective, RevisionsIn

\* A record comes from a process that has just linked it.
LEMMA StoredSource ==
  ASSUME StoreInv, NEW q \in Procs, Act(q), NEW k, NEW x \in Stored(k)'
  PROVE  x \in Stored(k) \/ (x = payload[q] /\ k = Command[q] /\ pc[q] = "link")
<1>0. TypeOK /\ LocalInv /\ records \in [Names -> Entries \cup {NoRecord}]
  BY DEF StoreInv, TypeOK
<1>1. PICK n \in Names : n[1] = k /\ records'[n] # NoRecord /\ x = records'[n].what
  BY DEF Stored, Kind, Present
<1>2. CASE records'[n] = records[n]
  BY <1>1, <1>2 DEF Stored, Kind, Present
<1>3. CASE records'[n] # records[n]
  <2>1. ~(records' = [records EXCEPT ![Target(q)] = NoRecord])
    BY <1>0, <1>1, <1>3
  <2>2. pc[q] = "link" /\ records' = [records EXCEPT ![Target(q)] = Record(q)]
    BY <1>0, <1>3, <2>1, RecordsChange
  <2>3. n = Target(q) /\ records'[n] = Record(q)
    BY <1>0, <1>1, <1>3, <2>2
  <2>4. Record(q).what = payload[q] /\ Target(q)[1] = Command[q]
    BY <1>0, <2>2, TargetFacts, LinkedRecord DEF Holding
  <2> QED  BY <1>1, <2>2, <2>3, <2>4
<1> QED  BY <1>2, <1>3

\* The three properties are kept by every step of a command.
LEMMA JustifiedKept ==
  ASSUME StoreInv, Grows, NEW q \in Procs, Act(q), SeenAt(q), JudgedAt(q),
         SupersededIsStored, ResponsesCoverTheirSheets, ConfirmationsAreEarned
  PROVE  SupersededIsStored' /\ ResponsesCoverTheirSheets' /\ ConfirmationsAreEarned'
<1>1. SupersededIsStored'
  <2> SUFFICES ASSUME NEW r \in StoredRevisions', r.supersedes # NoId
               PROVE  \E t \in StoredRevisions' : r.supersedes = t.id
    BY DEF SupersededIsStored, IdsOf
  <2>1. PICK s \in Stored("import")' : r \in s.revisions
    BY DEF StoredRevisions, RevisionsIn
  <2>2. CASE s \in Stored("import")
    <3>1. r \in StoredRevisions
      BY <2>1, <2>2 DEF StoredRevisions, RevisionsIn
    <3> QED  BY <3>1, MoreStored DEF SupersededIsStored, IdsOf
  <2>3. CASE s = payload[q] /\ Command[q] = "import" /\ pc[q] = "link"
    <3>1. ClosedSet(RevisionsIn(seen[q]) \cup s.revisions) /\ seen[q] \subseteq Stored("import")
      BY <2>3 DEF JudgedAt, SeenAt
    <3>2. PICK t \in RevisionsIn(seen[q]) \cup s.revisions : r.supersedes = t.id
      BY <2>1, <3>1 DEF ClosedSet, IdsOf
    <3>3. RevisionsIn(seen[q]) \subseteq StoredRevisions
      BY <3>1 DEF RevisionsIn, StoredRevisions
    <3>4. s.revisions \subseteq StoredRevisions'
      BY <2>1 DEF RevisionsIn, StoredRevisions
    <3> QED  BY <3>2, <3>3, <3>4, MoreStored
  <2> QED  BY <2>1, <2>2, <2>3, StoredSource
<1>2. ASSUME NEW r \in Stored("respond")' PROVE CoversItsSheets(r)'
  <2>1. CoversItsSheets(r)
    BY <1>2, StoredSource DEF JudgedAt, ResponsesCoverTheirSheets
  <2> QED  BY <2>1, CoversStays
<1>3. ASSUME NEW c \in Stored("confirm")' PROVE Earned(c)'
  <2>1. Earned(c)
    BY <1>3, StoredSource DEF JudgedAt, ConfirmationsAreEarned
  <2> QED  BY <2>1, EarnedStays
<1> QED  BY <1>1, <1>2, <1>3 DEF ResponsesCoverTheirSheets, ConfirmationsAreEarned

\* What a process has seen of a growing directory stays there.
LEMMA SightStays ==
  ASSUME TypeOK, Grows, NEW p \in Procs, SeenAt(p),
         names'[p] = names[p], seen'[p] \in {seen[p], Listed(p, "import")}
  PROVE  SeenAt(p)'
<1>1. names'[p] \subseteq Present'
  BY DEF Grows, SeenAt
<1>2. \A n \in names[p] : records'[n] = records[n]
  BY DEF Grows, SeenAt
<1>3. Listed(p, "import")' = Listed(p, "import")
  BY <1>2 DEF Listed
<1>4. Listed(p, "import") \subseteq Stored("import")
  BY DEF SeenAt, Listed, Stored, Kind
<1>5. seen'[p] \subseteq Stored("import")'
  BY <1>4, MoreStored DEF SeenAt
<1>6. ClosedSet(RevisionsIn(Listed(p, "import")))'
  BY <1>3 DEF SeenAt, ClosedSet, RevisionsIn, IdsOf
<1> QED  BY <1>1, <1>5, <1>6 DEF SeenAt

\* A listing shows all sheets, or none.
LEMMA SightTaken ==
  ASSUME TypeOK, NEW p \in Procs, SeenAt(p), SupersededIsStored, records' = records,
         names'[p] \in {Present, {}}, seen'[p] \in {seen[p], Listed(p, "import")}
  PROVE  SeenAt(p)'
<1>1. Present' = Present /\ Stored("import")' = Stored("import")
  BY DEF Present, Stored, Kind
<1>2. Listed(p, "import") \subseteq Stored("import")
  BY DEF SeenAt, Listed, Stored, Kind
<1>3. Listed(p, "import")' \in {Stored("import"), {}}
  BY DEF Listed, Stored, Kind
<1>4. ClosedSet(RevisionsIn(Stored("import"))) /\ ClosedSet(RevisionsIn({}))
  BY DEF SupersededIsStored, StoredRevisions, ClosedSet, RevisionsIn, IdsOf
<1>5. ClosedSet(RevisionsIn(Listed(p, "import")))'
  BY <1>3, <1>4 DEF ClosedSet, RevisionsIn, IdsOf
<1> QED  BY <1>1, <1>2, <1>5 DEF SeenAt

\* No step takes away what a process has seen.
LEMMA SeenKept ==
  ASSUME StoreInv, Grows, SupersededIsStored, NEW q \in Procs, Act(q),
         NEW p \in Procs, SeenAt(p)
  PROVE  SeenAt(p)'
<1>0. TypeOK
  BY DEF StoreInv
<1>1. CASE p # q
  <2>1. names'[p] = names[p] /\ seen'[p] = seen[p]
    BY <1>0, <1>1, OthersStay
  <2> QED  BY <1>0, <2>1, SightStays
<1>2. CASE p = q
  <2>0. names \in [Procs -> SUBSET Names] /\ seen \in [Procs -> SUBSET Sheets]
    BY <1>0 DEF TypeOK
  <2>1. CASE List(q)
    <3>1. records' = records /\ seen' = seen /\ names'[p] \in {Present, {}, names[p]}
      BY <1>2, <2>0, <2>1 DEF List, files
    <3> QED  BY <1>0, <3>1, SightStays, SightTaken
  <2>2. CASE ReadToImport(q)
    <3>1. names' = names /\ seen'[p] \in {seen[p], Listed(p, "import")}
      BY <1>2, <2>0, <2>2 DEF ReadToImport
    <3> QED  BY <1>0, <3>1, SightStays
  <2>3. CASE ReadRevisions(q)
    <3>1. /\ records' = records /\ seen'[p] \in {seen[p], Listed(p, "import")}
          /\ names'[p] \in {Present, {}, names[p]}
      BY <1>2, <2>0, <2>3 DEF ReadRevisions, files
    <3> QED  BY <1>0, <3>1, SightStays, SightTaken
  <2>4. CASE Start(q) \/ JudgeResponse(q) \/ JudgeConfirm(q) \/ OpenTemp(q) \/ WriteTemp(q) \/ Link(q)
    <3>1. names' = names /\ seen' = seen
      BY <2>4 DEF Start, JudgeResponse, JudgeConfirm, OpenTemp, WriteTemp, Link, sight
    <3> QED  BY <1>0, <3>1, SightStays
  <2>5. CASE Lstat(q) \/ Clean(q) \/ Probe(q) \/ Reread(q) \/ Prompt(q) \/ Crash(q)
    <3>1. names' = names /\ seen' = seen
      BY <2>5 DEF Lstat, Clean, Probe, Reread, Prompt, Crash, sight
    <3> QED  BY <1>0, <3>1, SightStays
  <2> QED  BY <1>2, <2>1, <2>2, <2>3, <2>4, <2>5 DEF Act, Work
<1> QED  BY <1>1, <1>2

\* A judgement stays sound as long as its payload, its reading and its
\* fingerprint are kept.
LEMMA JudgementStays ==
  ASSUME StoreInv, Grows, NEW p \in Procs, JudgedAt(p),
         payload'[p] = payload[p], seen'[p] = seen[p], snap'[p] = snap[p],
         pc'[p] \in {"open", "write", "link"} => pc[p] \in {"prompt", "open", "write", "link"},
         pc'[p] = "prompt" => pc[p] = "prompt",
         Command[p] = "confirm" /\ Running(p)' => Running(p)
  PROVE  JudgedAt(p)'
<1>0. pc[p] = "prompt" => Command[p] = "confirm"
  BY DEF StoreInv, LocalInv, LocalAt, PromptAt
<1>1. ASSUME Command[p] = "import", pc'[p] \in {"open", "write", "link"}
      PROVE  ClosedSet(RevisionsIn(seen[p]) \cup payload[p].revisions)'
  BY <1>0, <1>1 DEF JudgedAt, ClosedSet, RevisionsIn, IdsOf
<1>2. ASSUME Command[p] = "respond", pc'[p] \in {"open", "write", "link"}
      PROVE  CoversItsSheets(payload[p])'
  <2>1. CoversItsSheets(payload[p])
    BY <1>0, <1>2 DEF JudgedAt
  <2>2. PICK r : r = payload[p]
    OBVIOUS
  <2>3. CoversItsSheets(r) /\ payload'[p] = r
    BY <2>1, <2>2
  <2>4. CoversItsSheets(r)'
    BY <2>3, CoversStays
  <2> QED  BY <2>3, <2>4 DEF CoversItsSheets
<1>3. ASSUME Command[p] = "confirm", Running(p)' PROVE (snap[p] \in Complete)'
  BY <1>3 DEF JudgedAt
<1>4. ASSUME Command[p] = "confirm", pc'[p] \in {"prompt", "open", "write", "link"}
      PROVE  Earned(payload[p])'
  <2>1. Earned(payload[p])
    BY <1>4 DEF JudgedAt
  <2>2. PICK r : r = payload[p]
    OBVIOUS
  <2>3. Earned(r) /\ payload'[p] = r
    BY <2>1, <2>2
  <2>4. Earned(r)'
    BY <2>3, EarnedStays
  <2> QED  BY <2>3, <2>4 DEF Earned, Settled
<1> QED  BY <1>1, <1>2, <1>3, <1>4 DEF JudgedAt

\* `review import` only writes a sheet whose requests supersede known ones.
LEMMA ImportJudged ==
  ASSUME StoreInv, NEW p \in Procs, SeenAt(p), JudgedAt(p), ReadToImport(p)
  PROVE  JudgedAt(p)'
<1>0. TypeOK /\ InputAt(p) /\ RecordsReadable
  BY DEF StoreInv, LocalInv, LocalAt
<1>1. pc[p] = "read" /\ Command[p] = "import" /\ pc \in [Procs -> Points]
  BY <1>0 DEF ReadToImport, TypeOK
<1>2. CASE pc'[p] = "done"
  BY <1>1, <1>2 DEF JudgedAt, Running
<1>3. CASE pc'[p] # "done"
  <2>1. /\ Readable(p, "import") /\ ~ImportRefused(input[p], RevisionsIn(Listed(p, "import")))
        /\ seen' = [seen EXCEPT ![p] = Listed(p, "import")]
        /\ payload' = [payload EXCEPT ![p] = input[p]]
    BY <1>1, <1>3 DEF ReadToImport, Refuse, Finish, Goto
  <2>2. seen'[p] = Listed(p, "import") /\ payload'[p] = input[p]
    BY <1>0, <2>1 DEF TypeOK
  <2>3. input[p] \in SheetType /\ RevisionsIn(Listed(p, "import")) \in SUBSET Revisions
    <3>1. input[p] \in Sheets /\ Listed(p, "import") \subseteq Sheets
      BY <1>0, <1>1, <2>1, ListedSheets DEF InputAt
    <3> QED  BY <3>1, SheetsAssumption DEF RevisionsIn, SheetType
  <2>4. ClosedSet(RevisionsIn(Listed(p, "import"))) /\ ValidSet(RevisionsIn(Listed(p, "import")))
    BY <2>1 DEF SeenAt, ImportRefused
  <2>5. ClosedSet(RevisionsIn(Listed(p, "import")) \cup input[p].revisions)
    BY <2>1, <2>3, <2>4, ImportKeepsValid
  <2>6. ClosedSet(RevisionsIn(seen[p]) \cup payload[p].revisions)'
    BY <2>2, <2>5 DEF ClosedSet, RevisionsIn, IdsOf
  <2> QED  BY <1>1, <2>6 DEF JudgedAt
<1> QED  BY <1>2, <1>3

\* `review respond` only writes a response that covers its sheets.
LEMMA ResponseJudged ==
  ASSUME StoreInv, Grows, NEW p \in Procs, SeenAt(p), JudgedAt(p), JudgeResponse(p)
  PROVE  JudgedAt(p)'
<1>0. TypeOK
  BY DEF StoreInv
<1>1. pc[p] = "judge" /\ Command[p] = "respond" /\ pc \in [Procs -> Points]
  BY <1>0 DEF JudgeResponse, TypeOK
<1>2. CASE pc'[p] = "done"
  BY <1>1, <1>2 DEF JudgedAt
<1>3. CASE pc'[p] # "done"
  <2>1. /\ RespondAccepted(input[p], seen[p], snap[p])
        /\ payload' = [payload EXCEPT ![p] = input[p]]
    BY <1>1, <1>3 DEF JudgeResponse, Refuse, Finish, Goto
  <2>2. payload'[p] = input[p]
    BY <1>0, <2>1 DEF TypeOK
  <2>3. PICK r : r = input[p]
    OBVIOUS
  <2>4. RespondAccepted(r, seen[p], snap[p]) /\ payload'[p] = r
    BY <2>1, <2>2, <2>3
  <2>5. CoversItsSheets(r)
    <3>1. r.sheets \subseteq seen[p] /\ seen[p] \subseteq Stored("import")
      BY <2>4 DEF RespondAccepted, SeenAt
    <3>2. IdsOf(r.answers) = IdsOf(RevisionsIn(r.sheets)) \cap IdsOf(Effective(RevisionsIn(seen[p])))
      BY <2>4 DEF RespondAccepted, Covered, ToAnswer
    <3>3. ASSUME NEW v \in RevisionsIn(r.sheets)
          PROVE  v.id \in IdsOf(r.answers) \/ \E q \in StoredRevisions : q.supersedes = v.id
      <4>1. v \in RevisionsIn(seen[p]) /\ v.id \in IdsOf(RevisionsIn(r.sheets))
        BY <3>1, <3>3 DEF RevisionsIn, IdsOf
      <4>2. CASE v \in Effective(RevisionsIn(seen[p]))
        BY <3>2, <4>1, <4>2 DEF IdsOf
      <4>3. CASE v \notin Effective(RevisionsIn(seen[p]))
        <5>1. PICK q \in RevisionsIn(seen[p]) : q.supersedes = v.id
          BY <4>1, <4>3 DEF Effective
        <5>2. q \in StoredRevisions
          BY <3>1, <5>1 DEF StoredRevisions, RevisionsIn
        <5> QED  BY <5>1, <5>2
      <4> QED  BY <4>2, <4>3
    <3> QED  BY <3>1, <3>2, <3>3 DEF CoversItsSheets
  <2>6. CoversItsSheets(r)'
    BY <2>5, CoversStays
  <2>7. CoversItsSheets(payload[p])'
    BY <2>4, <2>6 DEF CoversItsSheets
  <2> QED  BY <1>1, <2>7 DEF JudgedAt
<1> QED  BY <1>2, <1>3

\* `review confirm` only asks for a confirmation that is earned.
LEMMA ConfirmationJudged ==
  ASSUME StoreInv, Grows, NEW p \in Procs, SeenAt(p), JudgedAt(p), JudgeConfirm(p)
  PROVE  JudgedAt(p)'
<1>0. TypeOK
  BY DEF StoreInv
<1>1. /\ pc[p] = "judge" /\ Command[p] = "confirm" /\ pc \in [Procs -> Points]
      /\ snap' = snap /\ snap[p] \in Complete
  BY <1>0 DEF JudgeConfirm, TypeOK, JudgedAt, Running, sight
<1>2. CASE pc'[p] = "done"
  BY <1>1, <1>2 DEF JudgedAt
<1>3. CASE pc'[p] # "done"
  <2> DEFINE R    == RevisionsIn(seen[p])
             open == Unresolved(R, Listed(p, "respond"), snap[p])
             new  == [fp |-> snap[p], sheets |-> seen[p], deferred |-> IdsOf(open)]
  <2>1. /\ ValidSet(R) /\ \A r \in open : ~r.blocking
        /\ payload' = [payload EXCEPT ![p] = new]
    BY <1>1, <1>3 DEF JudgeConfirm, Refuse, Finish, Goto
  <2>2. payload'[p] = new
    BY <1>0, <2>1 DEF TypeOK
  <2>3. Earned(new)
    <3>1. /\ new.fp = snap[p] /\ new.sheets = seen[p] /\ new.deferred = IdsOf(open)
          /\ new.fp \in Complete /\ new.sheets \subseteq Stored("import")
      BY <1>1 DEF SeenAt
    <3>2. Listed(p, "respond") \subseteq Stored("respond")
      BY DEF SeenAt, Listed, Stored, Kind
    <3>3. ASSUME NEW r \in Effective(R) PROVE Settled(r, new)
      <4>1. CASE r \in open
        BY <2>1, <3>1, <4>1 DEF Settled, IdsOf
      <4>2. CASE r \notin open
        BY <3>1, <3>2, <3>3, <4>2 DEF Settled, Unresolved
      <4> QED  BY <4>1, <4>2
    <3> QED  BY <2>1, <3>1, <3>3 DEF Earned
  <2>4. PICK c : c = new
    OBVIOUS
  <2>5. Earned(c) /\ payload'[p] = c
    BY <2>2, <2>3, <2>4
  <2>6. Earned(c)'
    BY <2>5, EarnedStays
  <2>7. Earned(payload[p])'
    BY <2>5, <2>6 DEF Earned, Settled
  <2> QED  BY <1>1, <2>7 DEF JudgedAt
<1> QED  BY <1>2, <1>3

\* No step makes a judgement unsound, its own or that of another process.
LEMMA JudgedKept ==
  ASSUME StoreInv, Grows, NEW q \in Procs, Act(q), NEW p \in Procs, SeenAt(p), JudgedAt(p)
  PROVE  JudgedAt(p)'
<1>0. TypeOK /\ pc \in [Procs -> Points]
  BY DEF StoreInv, TypeOK
<1>1. CASE p # q
  <2>1. /\ payload'[p] = payload[p] /\ seen'[p] = seen[p] /\ snap'[p] = snap[p]
        /\ pc'[p] = pc[p]
    BY <1>0, <1>1, OthersStay
  <2> QED  BY <2>1, JudgementStays DEF Running
<1>2. CASE p = q /\ Start(q)
  <2>1. pc'[p] \in {"list", "done"}
    BY <1>0, <1>2 DEF Start, Goto, Finish
  <2>2. Command[p] = "confirm" /\ pc'[p] # "done" => snap'[p] \in Complete
    BY <1>0, <1>2 DEF Start, Finish, Goto, TypeOK
  <2> QED  BY <2>1, <2>2 DEF JudgedAt, Running
<1>3. CASE p = q /\ ReadToImport(q)
  BY <1>3, ImportJudged
<1>4. CASE p = q /\ JudgeResponse(q)
  BY <1>4, ResponseJudged
<1>5. CASE p = q /\ JudgeConfirm(q)
  BY <1>5, ConfirmationJudged
<1>6. CASE p = q /\ (List(q) \/ ReadRevisions(q))
  <2>1. /\ pc'[p] \in {"read", "judge", "done"} /\ snap' = snap
        /\ pc[p] \in {"list", "read"}
    BY <1>0, <1>6 DEF List, ReadRevisions, Goto, Finish
  <2> QED  BY <2>1 DEF JudgedAt, Running
<1>7. CASE p = q /\ (OpenTemp(q) \/ WriteTemp(q) \/ Link(q) \/ Prompt(q))
  <2>1. /\ payload' = payload /\ seen' = seen /\ snap' = snap
        /\ pc[p] \in {"prompt", "open", "write", "link"}
        /\ pc'[p] # "prompt"
    BY <1>0, <1>7 DEF OpenTemp, WriteTemp, Link, Prompt, Goto, Finish, sight, writing
  <2> QED  BY <2>1, JudgementStays DEF Running
<1>8. CASE p = q /\ (Lstat(q) \/ Clean(q) \/ Probe(q) \/ Reread(q) \/ Crash(q))
  <2>1. /\ snap' = snap /\ Running(p)
        /\ pc'[p] \in {"clean", "probe", "reread", "done", "crashed"}
    BY <1>0, <1>8 DEF Lstat, Clean, Probe, Reread, Crash, Goto, Finish, sight, Running
  <2> QED  BY <2>1 DEF JudgedAt, Running
<1> QED  BY <1>1, <1>2, <1>3, <1>4, <1>5, <1>6, <1>7, <1>8 DEF Act, Work

\* A step that touches neither the records nor a process keeps it all.
LEMMA GrowQuiet ==
  ASSUME GrowInv, EditSources \/ UNCHANGED vars, NEW p \in Procs
  PROVE  SeenAt(p)' /\ JudgedAt(p)'
<1>1. UNCHANGED <<records, pc, names, seen, payload, snap>>
  BY DEF EditSources, vars, files, sight, writing
<1>2. SeenAt(p) /\ JudgedAt(p) /\ StoreInv /\ SupersededIsStored /\ TypeOK
  BY DEF GrowInv, StoreInv
<1>3. Grows
  BY <1>1 DEF Grows, Present
<1>4. SeenAt(p)'
  BY <1>1, <1>2, <1>3, SightStays
<1>5. JudgedAt(p)'
  BY <1>1, <1>2, <1>3, JudgementStays DEF Running
<1> QED  BY <1>4, <1>5

\* Nor does such a step touch what is stored.
LEMMA JustifiedQuiet ==
  ASSUME GrowInv, EditSources \/ UNCHANGED vars
  PROVE  SupersededIsStored' /\ ResponsesCoverTheirSheets' /\ ConfirmationsAreEarned'
<1>1. records' = records
  BY DEF EditSources, vars, files
<1>2. Grows
  BY <1>1 DEF Grows, Present
<1>3. \A k : Stored(k)' = Stored(k)
  BY <1>1 DEF Stored, Kind, Present
<1>4. StoredRevisions' = StoredRevisions
  BY <1>3 DEF StoredRevisions, RevisionsIn
<1>5. SupersededIsStored'
  BY <1>4 DEF GrowInv, SupersededIsStored, IdsOf
<1>6. ASSUME NEW r \in Stored("respond")' PROVE CoversItsSheets(r)'
  <2>1. CoversItsSheets(r)
    BY <1>3, <1>6 DEF GrowInv, ResponsesCoverTheirSheets
  <2> QED  BY <1>2, <2>1, CoversStays
<1>7. ASSUME NEW c \in Stored("confirm")' PROVE Earned(c)'
  <2>1. Earned(c)
    BY <1>3, <1>7 DEF GrowInv, ConfirmationsAreEarned
  <2> QED  BY <1>2, <2>1, EarnedStays
<1> QED  BY <1>5, <1>6, <1>7 DEF ResponsesCoverTheirSheets, ConfirmationsAreEarned

\* The invariant of a growing directory is inductive.
LEMMA GrowStep ==
  ASSUME "lstat" \notin FaultKinds
  PROVE  GrowInv /\ [Next]_vars => GrowInv'
<1> SUFFICES ASSUME GrowInv, [Next]_vars PROVE GrowInv'
  OBVIOUS
<1>0. /\ StoreInv /\ SupersededIsStored /\ ResponsesCoverTheirSheets /\ ConfirmationsAreEarned
      /\ \A p \in Procs : SeenAt(p) /\ JudgedAt(p)
  BY DEF GrowInv
<1>1. StoreInv'
  BY <1>0, StoreStep
<1>2. ASSUME NEW q \in Procs, Act(q) PROVE GrowInv'
  <2>1. Grows
    BY <1>0, <1>2, RecordsGrow
  <2>2. \A p \in Procs : SeenAt(p)' /\ JudgedAt(p)'
    BY <1>0, <1>2, <2>1, SeenKept, JudgedKept
  <2>3. SupersededIsStored' /\ ResponsesCoverTheirSheets' /\ ConfirmationsAreEarned'
    BY <1>0, <1>2, <2>1, JustifiedKept
  <2> QED  BY <1>1, <2>2, <2>3 DEF GrowInv
<1>3. CASE EditSources \/ UNCHANGED vars
  BY <1>1, <1>3, GrowQuiet, JustifiedQuiet DEF GrowInv
<1> QED  BY <1>2, <1>3 DEF Next, Act

\* An empty directory promises nothing.
LEMMA InitGrow == Init => GrowInv
<1> SUFFICES ASSUME Init PROVE GrowInv
  OBVIOUS
<1>1. StoreInv
  BY InitStore
<1>2. Present = {}
  BY DEF Init, Present
<1>3. (\A k : Stored(k) = {}) /\ StoredRevisions = {}
  BY <1>2 DEF StoredRevisions, RevisionsIn, Stored, Kind
<1>4. ASSUME NEW p \in Procs PROVE SeenAt(p) /\ JudgedAt(p)
  <2>1. pc[p] = "idle" /\ names[p] = {} /\ seen[p] = {}
    BY DEF Init
  <2>2. Listed(p, "import") = {}
    BY <2>1 DEF Listed
  <2> QED  BY <2>1, <2>2 DEF SeenAt, JudgedAt, Running, ClosedSet, RevisionsIn
<1> QED  BY <1>1, <1>3, <1>4 DEF GrowInv, SupersededIsStored, ResponsesCoverTheirSheets, ConfirmationsAreEarned

\* A directory whose records are never withdrawn: each of the following holds
\* whatever else fails, is killed, or overlaps.
THEOREM GrowingStore ==
  ASSUME "lstat" \notin FaultKinds
  PROVE  Spec => []GrowInv
BY InitGrow, GrowStep, PTL DEF Spec

\* What an imported request supersedes has been imported.
THEOREM SupersededStaysStored ==
  ASSUME "lstat" \notin FaultKinds
  PROVE  Spec => []SupersededIsStored
<1>1. GrowInv => SupersededIsStored
  BY DEF GrowInv
<1> QED  BY <1>1, GrowingStore, PTL

\* A response covers the imported sheets it is to.
THEOREM ResponsesStayCovering ==
  ASSUME "lstat" \notin FaultKinds
  PROVE  Spec => []ResponsesCoverTheirSheets
<1>1. GrowInv => ResponsesCoverTheirSheets
  BY DEF GrowInv
<1> QED  BY <1>1, GrowingStore, PTL

\* A confirmation is earned, whatever happened while the person was typing.
THEOREM ConfirmationsStayEarned ==
  ASSUME "lstat" \notin FaultKinds
  PROVE  Spec => []ConfirmationsAreEarned
<1>1. GrowInv => ConfirmationsAreEarned
  BY DEF GrowInv
<1> QED  BY <1>1, GrowingStore, PTL

-----------------------------------------------------------------------------
(* What the commands report.                                                *)

\* A record that appears is that of the process which takes the step.
LEMMA NewIsOwn ==
  ASSUME StoreInv, "lstat" \notin FaultKinds, NEW q \in Procs, Act(q), NEW n \in Present'
  PROVE  \/ n \in Present /\ records'[n] = records[n]
         \/ pc[q] = "link" /\ pc'[q] = "lstat" /\ records'[n].ino = q
<1>0. TypeOK /\ LocalInv /\ records \in [Names -> Entries \cup {NoRecord}]
  BY DEF StoreInv, TypeOK
<1>1. n \in Names /\ records'[n] # NoRecord
  BY DEF Present
<1>2. CASE records' = records
  BY <1>1, <1>2 DEF Present
<1>3. CASE /\ pc[q] = "link" /\ pc'[q] = "lstat"
           /\ records' = [records EXCEPT ![Target(q)] = Record(q)]
  <2>1. Record(q).ino = q
    BY DEF Record
  <2>2. n # Target(q) => records'[n] = records[n] /\ n \in Present
    BY <1>0, <1>1, <1>3 DEF Present
  <2>3. n = Target(q) => records'[n] = Record(q)
    BY <1>0, <1>1, <1>3
  <2> QED  BY <1>3, <2>1, <2>2, <2>3
<1>4. CASE records' = [records EXCEPT ![Target(q)] = NoRecord]
  BY <1>0, <1>1, <1>4 DEF Present
<1> QED  BY <1>0, <1>2, <1>3, <1>4, RecordsChange

\* What a process says stays true while the others go on.
LEMMA TruthStays ==
  ASSUME NEW p \in Procs, TruthAt(p), Grows,
         \A n \in Present' : (n \in Present /\ records'[n] = records[n]) \/ records'[n].ino # p,
         pc'[p] = pc[p], result'[p] = result[p],
         payload'[p] = payload[p], snap'[p] = snap[p], attempt'[p] = attempt[p]
  PROVE  TruthAt(p)'
<1>1. Target(p)' = Target(p)
  BY TargetStays
<1>2. There(p) => There(p)' /\ records'[Target(p)] = records[Target(p)]
  BY <1>1 DEF Grows, There
<1>3. Owns(p) /\ There(p) => Owns(p)'
  BY <1>1, <1>2 DEF Owns
<1>4. (\A n \in Present : records[n].ino # p) => \A n \in Present' : records'[n].ino # p
  OBVIOUS
<1> QED  BY <1>1, <1>2, <1>3, <1>4 DEF TruthAt

\* Until it has a record, a process has none to report.
LEMMA TruthBefore ==
  ASSUME TypeOK, NEW p \in Procs, TruthAt(p),
         \/ Start(p) \/ List(p) \/ ReadToImport(p) \/ ReadRevisions(p) \/ JudgeResponse(p)
         \/ JudgeConfirm(p) \/ Prompt(p) \/ OpenTemp(p) \/ WriteTemp(p)
  PROVE  TruthAt(p)'
<1> DEFINE Before == {"idle", "list", "read", "judge", "prompt", "open", "write"}
           Quiet  == {"none", "duplicate", "refused", "aborted", "unsafe", "write-failed"}
<1>0. pc \in [Procs -> Points] /\ result \in [Procs -> Results]
  BY DEF TypeOK
<1>1. pc[p] \in Before /\ records' = records
  BY DEF Start, List, ReadToImport, ReadRevisions, JudgeResponse, JudgeConfirm, Prompt,
         OpenTemp, WriteTemp, files
<1>2. result[p] \in Quiet
  BY <1>0, <1>1 DEF TruthAt, Results
<1>3. pc'[p] # "reread" /\ result'[p] \in Quiet
  <2> USE DEF Goto, Finish, Refuse
  <2>1. CASE Start(p) \/ List(p)
    BY <1>0, <1>2, <2>1 DEF Start, List
  <2>2. CASE ReadToImport(p) \/ ReadRevisions(p)
    BY <1>0, <1>2, <2>2 DEF ReadToImport, ReadRevisions
  <2>3. CASE JudgeResponse(p) \/ JudgeConfirm(p) \/ Prompt(p)
    BY <1>0, <1>2, <2>3 DEF JudgeResponse, JudgeConfirm, Prompt
  <2>4. CASE OpenTemp(p) \/ WriteTemp(p)
    BY <1>0, <1>2, <2>4 DEF OpenTemp, WriteTemp
  <2> QED  BY <2>1, <2>2, <2>3, <2>4
<1>4. \A n \in Present' : records'[n].ino # p
  BY <1>1, <1>2 DEF TruthAt, Present
<1> QED  BY <1>3, <1>4 DEF TruthAt

\* From the link on, a process knows what became of its record.
LEMMA TruthAfter ==
  ASSUME StoreInv, "lstat" \notin FaultKinds, NEW p \in Procs, TruthAt(p),
         \/ Link(p) \/ Lstat(p) \/ Clean(p) \/ Probe(p) \/ Reread(p) \/ Crash(p)
  PROVE  TruthAt(p)'
<1>0. /\ TypeOK /\ LocalInv /\ OwnInv /\ RecordsReadable
      /\ pc \in [Procs -> Points] /\ result \in [Procs -> Results]
  BY DEF StoreInv, TypeOK
<1>1. CASE Link(p)
  <2>1. pc[p] = "link" /\ result[p] \notin {"written", "exists", "collision"}
    BY <1>1 DEF Link, TruthAt
  <2>2. CASE Goto(p, "lstat") /\ UNCHANGED result
    BY <1>0, <2>1, <2>2 DEF Goto, TruthAt
  <2>3. CASE /\ records' = records
             /\ \/ UNCHANGED <<pc, result>>
                \/ result' = [result EXCEPT ![p] = "write-failed"] /\ Goto(p, "clean")
    <3>1. /\ pc'[p] \in {"link", "clean"}
          /\ result'[p] \notin {"written", "exists", "collision"}
      BY <1>0, <2>1, <2>3 DEF Goto
    <3>2. \A n \in Present' : records'[n].ino # p
      BY <2>1, <2>3 DEF TruthAt, Present
    <3> QED  BY <3>1, <3>2 DEF TruthAt
  <2> QED  BY <1>1, <2>2, <2>3 DEF Link
<1>2. CASE Lstat(p)
  <2>1. pc[p] = "lstat" /\ UNCHANGED <<payload, snap, attempt>>
    BY <1>2 DEF Lstat, sight, writing
  <2>2. records[Target(p)] = [what |-> payload[p], whole |-> TRUE, ino |-> p]
    BY <1>0, <2>1 DEF OwnInv, OwnAt
  <2>3. Target(p) \in Names /\ records[Target(p)] # NoRecord
    BY <1>0, <2>1, <2>2, OwnEntry, TargetFacts DEF Holding
  <2>4. Owns(p) /\ There(p) /\ records[Target(p)].what = payload[p]
    BY <2>2, <2>3 DEF Owns, There, Present
  <2>5. UNCHANGED records /\ pc'[p] = "clean" /\ result'[p] = "written"
    BY <1>0, <1>2, <2>4 DEF Lstat, Fault, Goto
  <2>6. Target(p)' = Target(p)
    BY <2>1, TargetStays
  <2> QED  BY <2>1, <2>4, <2>5, <2>6 DEF TruthAt, Owns, There, Present
<1>3. CASE Clean(p) \/ Probe(p) \/ Crash(p)
  <2>1. /\ UNCHANGED <<records, payload, snap, attempt, result>>
        /\ pc[p] \notin {"idle", "done", "crashed"}
    BY <1>3 DEF Clean, Probe, Crash, Running, files, sight, writing
  <2>2. Target(p)' = Target(p)
    BY <2>1, TargetStays
  <2>3. /\ pc'[p] \in {"done", "probe", "reread", "crashed"}
        /\ pc'[p] = "crashed" \/ pc[p] \in {"clean", "probe"}
        /\ result[p] = "written" => pc'[p] \in {"done", "crashed"}
        /\ pc'[p] = "reread" => pc[p] = "probe" /\ records[Target(p)] # NoRecord
    BY <1>0, <1>3 DEF Clean, Probe, Crash, Goto, TruthAt
  <2>4. pc[p] = "probe" => Target(p) \in Names
    BY <1>0, TargetFacts DEF Holding
  <2> QED  BY <2>1, <2>2, <2>3, <2>4 DEF TruthAt, Owns, There, Present
<1>4. CASE Reread(p)
  <2>1. pc[p] = "reread" /\ UNCHANGED <<records, payload, snap, attempt>>
    BY <1>4 DEF Reread, files, sight, writing
  <2>2. There(p) /\ records[Target(p)] # NoRecord /\ records[Target(p)].whole
    BY <1>0, <2>1 DEF TruthAt, There, Present, RecordsReadable
  <2>3. /\ pc'[p] = "done"
        /\ result'[p] = IF records[Target(p)].what.fp = snap[p] THEN "exists" ELSE "collision"
    BY <1>0, <1>4, <2>2 DEF Reread, Finish, Goto
  <2>4. Target(p)' = Target(p)
    BY <2>1, TargetStays
  <2>5. \A n \in Present : records[n].ino # p
    BY <2>1 DEF TruthAt
  <2> QED  BY <2>1, <2>2, <2>3, <2>4, <2>5 DEF TruthAt, There, Present
<1> QED  BY <1>1, <1>2, <1>3, <1>4

\* What the processes report is kept true by every step.
LEMMA TruthStep ==
  ASSUME "lstat" \notin FaultKinds
  PROVE  StoreInv /\ TruthInv /\ [Next]_vars => TruthInv'
<1> SUFFICES ASSUME StoreInv, TruthInv, [Next]_vars, NEW p \in Procs PROVE TruthAt(p)'
  BY DEF TruthInv
<1>0. TypeOK /\ TruthAt(p)
  BY DEF StoreInv, TruthInv
<1>1. ASSUME NEW q \in Procs, Act(q), p # q PROVE TruthAt(p)'
  <2>1. /\ pc'[p] = pc[p] /\ snap'[p] = snap[p] /\ payload'[p] = payload[p]
        /\ attempt'[p] = attempt[p] /\ result'[p] = result[p]
    BY <1>0, <1>1, OthersStay
  <2>2. Grows
    BY <1>1, RecordsGrow
  <2>3. \A n \in Present' : (n \in Present /\ records'[n] = records[n]) \/ records'[n].ino # p
    BY <1>1, NewIsOwn
  <2> QED  BY <1>0, <2>1, <2>2, <2>3, TruthStays
<1>2. ASSUME Act(p) PROVE TruthAt(p)'
  BY <1>0, <1>2, TruthBefore, TruthAfter DEF Act, Work
<1>3. CASE EditSources \/ UNCHANGED vars
  <2>1. UNCHANGED <<records, pc, snap, payload, attempt, result>>
    BY <1>3 DEF EditSources, vars, files, sight, writing
  <2>2. Grows /\ \A n \in Present' : n \in Present /\ records'[n] = records[n]
    BY <2>1 DEF Grows, Present
  <2> QED  BY <1>0, <2>1, <2>2, TruthStays
<1> QED  BY <1>1, <1>2, <1>3 DEF Next, Act

\* What import, respond and confirm report of the record they meant to write is
\* so and stays so, whatever others write under the same name.
THEOREM ResultsStayTrue ==
  ASSUME "lstat" \notin FaultKinds
  PROVE  Spec => []ResultsAreTrue
<1>1. Init => TruthInv
  <2> SUFFICES ASSUME Init, NEW p \in Procs PROVE TruthAt(p)
    BY DEF TruthInv
  <2>1. pc[p] = "idle" /\ result[p] = "none" /\ Present = {}
    BY DEF Init, Present
  <2> QED  BY <2>1 DEF TruthAt
<1>2. StoreInv /\ TruthInv /\ [Next]_vars => TruthInv'
  BY TruthStep
<1>3. TruthInv => ResultsAreTrue
  BY DEF TruthInv, TruthAt, ResultsAreTrue, There, Present
<1> QED  BY <1>1, <1>2, <1>3, StoreInvariance, PTL DEF Spec
=============================================================================
