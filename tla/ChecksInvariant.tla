----------------------------- MODULE ChecksInvariant -----------------------------
(***************************************************************************)
(* Why Doctor's verdict is about one tree, and why the outcome of           *)
(* make verify is the child's: an inductive invariant of Checks.  A         *)
(* directory that is held, and still has the inode it was held by, was      *)
(* never exchanged, so all that was read below it was read through it;      *)
(* what a stream has written is either passed on, held or in its pipe.      *)
(* And what `story check` and `verification check` judge are documents       *)
(* they have read, one entry for every subject.                              *)
(***************************************************************************)
EXTENDS Checks

-----------------------------------------------------------------------------
(* Types *)

WalkFields == {"pc", "held", "todo", "listed", "dir", "story", "acceptance", "record", "wanted",
               "decided", "decisions", "result"}
HandoffFields == {"pc", "held", "file", "result"}
ChildFields == {"pc", "started", "status", "signal", "settled", "left", "written", "piped", "held",
                "forwarded", "open"}
SnapshotFields == {"agents", "specs", "stories", "makefile", "marker", "legacy", "guidance",
                   "guidanceEntry", "skills", "agentSkills", "github", "story", "handoff", "held"}
VerdictFields == {"outcome", "issues", "required"}

TypeOK ==
    /\ disk \in DiskType /\ swaps \in Nat
    /\ DOMAIN walk = WalkFields /\ walk.listed \subseteq ToSet(Names)
    /\ DOMAIN handoff = HandoffFields
    /\ DOMAIN snapshot = SnapshotFields
    /\ DOMAIN verdict = VerdictFields
    /\ DOMAIN child = ChildFields
    /\ entries \in Seq(ToSet(entries))

-----------------------------------------------------------------------------
(* Where the command is *)

Early == {"start", "observe", "hold", "under", "guidance"}
CheckPhases == {"subjects", "story", "acceptance", "decisions", "record"}
Reading == {"read", "root", "decide", "settle"}
Walking == {"next", "keep"} \cup Reading

PhaseInv ==
    /\ phase \in Early \cup CheckPhases \cup {"contracts", "spawn", "await", "done"}
    /\ phase \in Early \cup CheckPhases =>
          walk.pc = "idle" /\ walk.result = "not-checked" /\ handoff = NoHandoff
    /\ phase \in Early => entries = <<>>
    /\ phase \in Early \cup CheckPhases \cup {"contracts"} =>
          child = NoChild /\ verdict.outcome = "none"
    /\ phase = "spawn" => child = NoChild
    /\ phase \in {"spawn", "await"} => Confirmed(verdict.required)
    /\ phase = "await" <=> child.pc \in {"failed", "running", "exited"}

-----------------------------------------------------------------------------
(* What was read through which directory *)

\* An inode that no directory will get any more.
Old(left, ino) == ino \in Nat /\ (ino <= HighestFound \/ ino > HighestFound + left)

Only(seen, dir, ino) == \A r \in seen : r.dir = dir => r.ino = ino
OneInode(seen, dir) == \A r, q \in seen : r.dir = dir /\ q.dir = dir => r.ino = q.ino
Unread(seen, dir) == \A r \in seen : r.dir # dir

\* As long as it has the inode it was held by, all was read through that one.
Guarded(seen, left, dir, now, held) ==
    Old(left, held) /\ (now = held => Only(seen, dir, held))

SpecsLabel == <<"specs">>
StoriesLabel == <<"stories">>
StoryLabel(name) == <<"story", name>>
DecisionsLabel(name) == <<"decisions", name>>

OldInv ==
    /\ Old(swaps, Specs.ino) /\ Old(swaps, Stories.ino) /\ Old(swaps, Decisions.ino)
    /\ \A name \in ToSet(Names) : Old(swaps, DirOf(name).ino)

LabelInv ==
    \A r \in reads : \/ r.dir \in {SpecsLabel, StoriesLabel}
                     \/ \E name \in ToSet(Names) : r.dir \in {StoryLabel(name), DecisionsLabel(name)}

SpecsInv ==
    /\ phase \in {"start", "observe", "hold"} => reads = {}
    /\ phase \in {"start", "observe", "hold"} => snapshot.held = NotHeld
    /\ phase \in {"under", "guidance", "contracts"} =>
          Guarded(reads, swaps, SpecsLabel, Specs.ino, snapshot.held)

StoriesInv ==
    /\ walk.pc \in {"idle", "hold", "list"} => \A r \in reads : r.dir = SpecsLabel
    /\ walk.pc = "list" => Old(swaps, walk.held)
    /\ walk.pc \in Walking => Guarded(reads, swaps, StoriesLabel, Stories.ino, walk.held)
    /\ walk.pc = "end" /\ walk.result # "error" => OneInode(reads, StoriesLabel)

\* The Stories before the current one were read through one directory each, those
\* after it not at all.
NamesInv ==
    walk.pc \in Walking \cup {"end"} /\ walk.result # "error" =>
        \A name \in ToSet(Names) :
            /\ name \in walk.listed /\ ~(walk.pc \in Reading /\ name = Current) =>
                  Unread(reads, StoryLabel(name)) /\ Unread(reads, DecisionsLabel(name))
            /\ name \notin walk.listed =>
                  OneInode(reads, StoryLabel(name)) /\ OneInode(reads, DecisionsLabel(name))

CurrentInv ==
    /\ walk.pc \in Reading \cup {"keep"} => walk.listed # {}
    /\ walk.pc \in Reading =>
          /\ Guarded(reads, swaps, StoryLabel(Current), DirOf(Current).ino, walk.dir)
          /\ walk.pc \in {"read", "root"} => Unread(reads, DecisionsLabel(Current))
          /\ walk.pc = "decide" =>
                Guarded(reads, swaps, DecisionsLabel(Current), Decisions.ino, walk.decisions)
          /\ walk.pc = "settle" => OneInode(reads, DecisionsLabel(Current))

-----------------------------------------------------------------------------
(* What was made of it *)

WalkInv ==
    /\ walk.pc \in {"idle", "hold", "list", "end"} \cup Walking
    /\ walk.pc # "end" => walk.result = "not-checked"
    /\ walk.pc = "end" => /\ walk.result \in {"error", "no-stories", "incomplete", "ok"}
                          /\ walk.listed = {}
    /\ walk.pc = "end" /\ walk.result \in {"no-stories", "ok"} =>
          \A i \in 1..Len(entries) : ContractHolds(entries[i])

\* Every Story directory that was there from the beginning is still to be looked at,
\* or was judged.
Judged(list, name) == \E i \in 1..Len(list) : list[i].name = name
JudgedInv ==
    walk.pc \in Walking \cup {"end"} /\ walk.result # "error" =>
        \A name \in ToSet(Names) :
            DirOf(name).kind = "directory" /\ DirOf(name).ino <= HighestFound =>
                name \in walk.listed \/ Judged(entries, name)

HandoffInv ==
    /\ handoff.pc = "end" => handoff.result \in {"error", "not-present", "incomplete", "ok"}
    /\ handoff.pc = "end" /\ handoff.result \in {"not-present", "ok"}
          /\ handoff.file.kind # "missing" =>
             Readable(handoff.file) /\ HandoffHolds(handoff.file.doc)

-----------------------------------------------------------------------------
(* The child *)

\* What was written is passed on, or the half of a character, or in the pipe; a
\* stream that has ended has nothing left.
Balanced(c, s) ==
    /\ c.left[s] \in Nat /\ c.written[s] \in Nat /\ c.piped[s] \in Nat
    /\ c.held[s] \in 0..1 /\ c.forwarded[s] \in Nat
    /\ c.written[s] = c.forwarded[s] + c.held[s] + c.piped[s]
    /\ s \notin c.open => c.left[s] = 0 /\ c.held[s] = 0 /\ c.piped[s] = 0

ChildInv ==
    /\ child.pc \in {"none", "failed", "running", "exited", "refused", "closed"}
    /\ child.settled <=> child.pc \in {"refused", "closed"}
    /\ child.pc \in {"failed", "running", "exited", "refused"} => child.started = 1
    /\ child.open \subseteq Streams
    /\ child.open # {} => child.pc \in {"running", "exited"}
    /\ child.pc \in {"none", "failed", "refused"} => \A s \in Streams : child.written[s] = 0
    /\ DOMAIN child.left = Streams /\ DOMAIN child.written = Streams
    /\ DOMAIN child.piped = Streams /\ DOMAIN child.held = Streams
    /\ DOMAIN child.forwarded = Streams
    /\ \A s \in Streams : Balanced(child, s)

VerdictInv ==
    /\ verdict.outcome \in {"STRUCTURE_OK", "CONTRACT_DRIFT"} => phase \in {"spawn", "await", "done"}
    /\ verdict.outcome \in {"VERIFIED_LOCAL", "VERIFICATION_FAILED"} => child.pc = "closed"
    /\ DoctorReadsOneTree
    /\ CleanMeansContracts
    /\ OutcomeIsTheChilds

IInv ==
    /\ TypeOK /\ PhaseInv
    /\ OldInv /\ LabelInv /\ SpecsInv /\ StoriesInv /\ NamesInv /\ CurrentInv
    /\ WalkInv /\ JudgedInv /\ HandoffInv
    /\ ChildInv /\ VerdictInv
-----------------------------------------------------------------------------
(* The documents that were read, and the subjects still to come *)

\* What a look for a decision may find, and every decision a Story refers to.
Usable(decided) ==
    \A id \in DOMAIN decided :
        /\ decided[id].kind \in {"missing", "ambiguous", "unreadable", "retired", "found"}
        /\ decided[id].kind = "found" => decided[id].doc \in 1..Len(DecisionDocs)
Decided(story, decided) == ReadStoryDecisions(StoryDocs[story]) \subseteq DOMAIN decided

\* An entry that is not an error names the documents it was made of.
Documented(entry) ==
    /\ entry.kind \in {"error", "record-error", "story", "plan", "record"}
    /\ entry.kind # "error" =>
          /\ entry.story \in 1..Len(StoryDocs) /\ entry.acceptance \in 1..Len(AcceptanceDocs)
          /\ entry.record \in 0..Len(RecordDocs)
    /\ entry.kind = "story" => Usable(entry.decided) /\ Decided(entry.story, entry.decided)

EntriesInv == \A i \in 1..Len(entries) : Documented(entries[i])

HasBoth == walk.story > 0 /\ walk.acceptance > 0
SourcesInv ==
    /\ walk.story \in 0..Len(StoryDocs) /\ walk.acceptance \in 0..Len(AcceptanceDocs)
    /\ Usable(walk.decided)
    /\ phase \in {"acceptance", "decisions", "record"} => walk.story > 0
    /\ phase \in {"decisions", "record"} => HasBoth
    /\ walk.pc \in {"root", "decide", "settle"} =>
          HasBoth /\ walk.wanted = ReadStoryDecisions(StoryDocs[walk.story])
    /\ walk.pc = "settle" => walk.wanted \subseteq DOMAIN walk.decided

\* As many entries as subjects that are no longer to come.
SubjectsInv ==
    /\ command \in CommandType /\ walk.todo \in Seq(ToSet(Names))
    /\ phase \in CheckPhases /\ command.subjects # <<>> =>
          Len(entries) + Len(walk.todo) = Len(command.subjects)
    /\ phase \in CheckPhases \ {"subjects"} => walk.todo # <<>>

PassInv ==
    verdict.outcome = "VERIFICATION_PASS" =>
        /\ phase = "done" /\ RecordOutcome(entries) = "VERIFICATION_PASS"
        /\ command.subjects # <<>> => Len(entries) = Len(command.subjects)

DocumentsInv == EntriesInv /\ SourcesInv /\ SubjectsInv /\ PassInv
=============================================================================
