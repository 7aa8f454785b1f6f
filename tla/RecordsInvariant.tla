--------------------------- MODULE RecordsInvariant ---------------------------
(***************************************************************************)
(* The inductive invariants of ReviewRecords.  What a record promises         *)
(* depends on what its writer had read when it judged, several steps before   *)
(* the record got its name.                                                 *)
(***************************************************************************)
EXTENDS ReviewRecords

\* A process that has something to write.
Holding == {"prompt", "open", "write", "link", "lstat", "clean", "probe", "reread"}

InputAt(p) ==
  pc[p] # "idle" =>
    /\ Command[p] = "import"  => input[p] \in Sheets
    /\ Command[p] = "respond" => input[p] \in Responses

PayloadAt(p) ==
  pc[p] \in Holding =>
    /\ Command[p] = "import"  => payload[p] \in Sheets
    /\ Command[p] = "respond" => payload[p] \in Responses /\ payload[p].to = snap[p]
    /\ Command[p] = "confirm" => payload[p] \in ConfirmationType /\ payload[p].fp = snap[p]

\* What is linked has been written, and is the writer's until it is examined.
TempAt(p) == pc[p] = "link" => temp[p] = "whole"
OwnAt(p) ==
  pc[p] = "lstat" =>
    records[Target(p)] = [what |-> payload[p], whole |-> TRUE, ino |-> p]

\* Only a confirmation asks the person.
PromptAt(p) == pc[p] = "prompt" => Command[p] = "confirm"

LocalAt(p) == InputAt(p) /\ PayloadAt(p) /\ TempAt(p) /\ PromptAt(p)
LocalInv   == \A p \in Procs : LocalAt(p)
OwnInv     == \A p \in Procs : OwnAt(p)

StoreInv == TypeOK /\ LocalInv /\ OwnInv /\ RecordsReadable

-----------------------------------------------------------------------------
\* The numbers below the one a process tries are taken, or given up.
Taken(n)  == records[n] # NoRecord \/ GivenUp(n)
ResultAt(p) ==
  Command[p] = "respond" /\ result[p] = "write-failed" =>
    pc[p] \in {"clean", "done", "crashed"}
NumberAt(p) ==
  Command[p] = "respond" /\ pc[p] \in {"link", "lstat"} =>
    \A m \in 1..(attempt[p] - 1) : Taken(<<"respond", PrefixOf[snap[p]], m>>)
FirstAt(p) == pc[p] \notin {"link", "lstat", "clean", "probe", "reread", "done", "crashed"} => attempt[p] = 1

NumberInv ==
  /\ StoreInv
  /\ \A p \in Procs : ResultAt(p) /\ FirstAt(p) /\ NumberAt(p)
  /\ ResponsesNumbered

-----------------------------------------------------------------------------
(* Imports that do not overlap, in a directory that can always be listed.    *)

\* What a request supersedes is known.
ClosedSet(R) == \A r \in R : r.supersedes # NoId => r.supersedes \in IdsOf(R)

\* The sheets other than the one p has just linked.
Others(p) == {records[n].what : n \in Kind("import") \ {Target(p)}}

Importing(p) == Command[p] = "import" /\ Running(p)
AloneInv == \A p, q \in Procs : Importing(p) /\ Importing(q) => p = q

ImportAt(p) ==
  Command[p] = "import" =>
    /\ pc[p] = "read" => \A n \in Names : n[1] = "import" => (n \in names[p] <=> n \in Present)
    /\ pc[p] \in {"open", "write", "link"} => ~ImportRefused(payload[p], StoredRevisions)
    /\ pc[p] = "lstat" => ClosedSet(RevisionsIn(Others(p)))

ImportsInv ==
  /\ StoreInv
  /\ AloneInv
  /\ \A p \in Procs : ImportAt(p)
  /\ ImportedSetValid
  /\ ClosedSet(StoredRevisions)

-----------------------------------------------------------------------------
(* Records that are never withdrawn: what was judged on them stays true.     *)

SeenAt(p) ==
  /\ names[p] \subseteq Present
  /\ seen[p] \subseteq Stored("import")
  /\ ClosedSet(RevisionsIn(Listed(p, "import")))

JudgedAt(p) ==
  /\ Command[p] = "import" /\ pc[p] \in {"open", "write", "link"} =>
       ClosedSet(RevisionsIn(seen[p]) \cup payload[p].revisions)
  /\ Command[p] = "respond" /\ pc[p] \in {"open", "write", "link"} =>
       CoversItsSheets(payload[p])
  /\ Command[p] = "confirm" /\ Running(p) => snap[p] \in Complete
  /\ Command[p] = "confirm" /\ pc[p] \in {"prompt", "open", "write", "link"} =>
       Earned(payload[p])

GrowInv ==
  /\ StoreInv
  /\ \A p \in Procs : SeenAt(p) /\ JudgedAt(p)
  /\ SupersededIsStored
  /\ ResponsesCoverTheirSheets
  /\ ConfirmationsAreEarned

-----------------------------------------------------------------------------
(* What a process says of its record, if records are never withdrawn.        *)

\* What is at the name that the process tries, if there is a record.
There(p) == Target(p) \in Present

TruthAt(p) ==
  /\ pc[p] \notin {"lstat", "crashed"} /\ result[p] # "written" =>
       \A n \in Present : records[n].ino # p
  /\ result[p] = "written" =>
       /\ pc[p] \in {"clean", "done", "crashed"}
       /\ There(p) /\ Owns(p) /\ records[Target(p)].what = payload[p]
  /\ result[p] \in {"exists", "collision"} =>
       /\ pc[p] = "done"
       /\ There(p) /\ (result[p] = "exists" <=> records[Target(p)].what.fp = snap[p])
  /\ pc[p] = "reread" => There(p)

TruthInv == \A p \in Procs : TruthAt(p)
=============================================================================
