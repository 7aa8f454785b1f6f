--------------------------------- MODULE Checks ---------------------------------
(***************************************************************************)
(* The static checks as commands over a tree that may change under them:    *)
(* `doctor`, `doctor --run-verify` and `verify` (packages/cli/src/doctor.ts, *)
(* doctor-execution.ts, verify.ts, canonical-verification.ts), `story check` *)
(* (story.ts), `verification check` (verification.ts) and `handoff check`   *)
(* (handoff.ts).                                                            *)
(*                                                                         *)
(* Doctor inspects the Stories and the handoff concurrently and trusts what *)
(* it read only while the directories it went through keep their inodes;    *)
(* another process may put a fresh directory in the place of one, a bounded *)
(* number of times. `make verify` runs as a child whose output comes through pipes a  *)
(* grandchild may keep open.                                                *)
(***************************************************************************)
EXTENDS CheckedTree

CONSTANTS
    Cases,          \* [command, disk, swaps]: a command, the tree it finds, how many
                    \* directories the other process may replace meanwhile
    Others,         \* the Story directories it may put there instead
    Names,          \* the names of the Story directories, in byte order
    MaxOutput,      \* how many bytes the child writes to each of its streams
    PipeSize        \* how many bytes a pipe holds

-----------------------------------------------------------------------------
(* Trees *)

\* What there may be at a path; "locked" is one that may not be read.
Kinds == {"file", "directory", "symlink", "missing", "other", "locked", "unconfirmable"}
FileType(docs) == [kind : Kinds, doc : 0..Len(docs)]
ObservedType == [kind : Kinds, readable : BOOLEAN, searchable : BOOLEAN, got : BOOLEAN,
                 text : Seq(STRING)]
TopType == [agents : ObservedType, makefile : ObservedType, guidance : ObservedType,
            guidanceEntry : ObservedType, skills : ObservedType, agentSkills : ObservedType,
            github : ObservedType]
DirType == [kind : Kinds, ino : Nat, story : FileType(StoryDocs),
            acceptance : FileType(AcceptanceDocs), record : FileType(RecordDocs)]
StoriesType == [kind : Kinds, ino : Nat, dirs : [ToSet(Names) -> DirType]]
DecisionsType == [kind : Kinds, ino : Nat, records : [DecisionIds -> Seq(FileType(DecisionDocs))]]
SpecsType == [kind : Kinds, ino : Nat, marker : ObservedType, legacy : ObservedType,
              handoff : FileType(HandoffDocs), stories : StoriesType, decisions : DecisionsType]
DiskType == [root : STRING, top : TopType, specs : SpecsType]
CommandType == [name : STRING, ready : BOOLEAN, record : BOOLEAN, retired : BOOLEAN,
                subjects : Seq(ToSet(Names))]

\* What a command finds has inodes up to this one; the other process brings higher ones.
HighestFound == 100
FoundInodes(tree) == {tree.specs.ino, tree.specs.stories.ino, tree.specs.decisions.ino}
                       \cup {tree.specs.stories.dirs[n].ino : n \in ToSet(Names)}

\* What the documents a command may meet are made of.
ASSUME DocsAssumption ==
    /\ StoryDocs \in Seq(DocType) /\ AcceptanceDocs \in Seq(DocType)
    /\ RecordDocs \in Seq(DocType) /\ DecisionDocs \in Seq(DocType)

ASSUME CasesAssumption ==
    /\ Names \in Seq(STRING)
    /\ Others \subseteq DirType
    /\ MaxOutput \in Nat
    /\ \A case \in Cases : /\ case.command \in CommandType /\ case.disk \in DiskType /\ case.swaps \in Nat
                           /\ FoundInodes(case.disk) \subseteq 0..HighestFound

-----------------------------------------------------------------------------
VARIABLES
    command,        \* [name, ready, record, retired, subjects]
    disk,           \* [root, top, specs]: the tree
    swaps,          \* how many replacements are still to come
    phase,          \* where the command is
    snapshot,       \* what Doctor observed
    walk,           \* the Story that is being read, and those still to come: Doctor has a set
                    \* of the listed names, the other commands a list of their subjects
    entries,        \* what was made of the Stories that were read
    handoff,        \* Doctor's handoff inspection
    child,          \* make verify
    verdict,        \* what the command reported
    reads           \* history: the inodes Doctor's contract reads went through

vars == <<command, disk, swaps, phase, snapshot, walk, entries, handoff, child, verdict, reads>>

Streams == {"stdout", "stderr"}
NotHeld == 0
NoWalk == [pc |-> "idle", held |-> NotHeld, todo |-> <<>>, listed |-> {}, dir |-> NotHeld,
           story |-> 0, acceptance |-> 0, record |-> 0, wanted |-> {}, decided |-> NoDecisions,
           decisions |-> NotHeld, result |-> "not-checked"]
NoHandoff == [pc |-> "idle", held |-> NotHeld, file |-> Absent, result |-> "not-checked"]
NoChild == [pc |-> "none", started |-> 0, status |-> 0, signal |-> FALSE, settled |-> FALSE,
            left |-> [s \in Streams |-> 0], written |-> [s \in Streams |-> 0],
            piped |-> [s \in Streams |-> 0], held |-> [s \in Streams |-> 0],
            forwarded |-> [s \in Streams |-> 0], open |-> {}]
NoSnapshot ==
    [agents |-> Missing, specs |-> Missing, stories |-> Missing, makefile |-> Missing,
     marker |-> Missing, legacy |-> Missing, guidance |-> Missing, guidanceEntry |-> Missing,
     skills |-> Missing, agentSkills |-> Missing, github |-> Missing,
     story |-> "not-checked", handoff |-> "not-checked", held |-> NotHeld]
NoRequired == [agents |-> "INCOMPLETE", stories |-> "INCOMPLETE", makefile |-> "INCOMPLETE",
               verifyRule |-> "UNCONFIRMED", limited |-> FALSE]
NoVerdict == [outcome |-> "none", issues |-> <<>>, required |-> NoRequired]

DoctorCommands == {"doctor", "run-verify"}

Init ==
    /\ \E case \in Cases : command = case.command /\ disk = case.disk /\ swaps = case.swaps
    /\ phase = "start"
    /\ snapshot = NoSnapshot /\ walk = NoWalk /\ handoff = NoHandoff /\ child = NoChild
    /\ entries = <<>> /\ verdict = NoVerdict /\ reads = {}

-----------------------------------------------------------------------------
(* Paths *)

Specs == disk.specs
Stories == disk.specs.stories
DirOf(name) == disk.specs.stories.dirs[name]
Decisions == disk.specs.decisions

\* A path is followed through links by stat and by every read below it.
Leads(node) == node.kind \in {"directory", "symlink"}

\* The directories a path goes through, as a reader finds them now.
Through(dir, ino) == {[dir |-> dir, ino |-> ino]}
ThroughSpecs == Through(<<"specs">>, Specs.ino)
ThroughStories == ThroughSpecs \cup Through(<<"stories">>, Stories.ino)
ThroughDir(name) == ThroughStories \cup Through(<<"story", name>>, DirOf(name).ino)
ThroughDecisions(name) == ThroughSpecs \cup Through(<<"decisions", name>>, Decisions.ino)

\* observe() of a directory path: what lstat says of it, nothing behind it.
ObserveDirectory(node) ==
    CASE node.kind = "directory" -> Directory
      [] node.kind = "locked"    -> OfKind("directory")
      [] OTHER -> OfKind(node.kind)

\* stableDirectory and remainsStable: a real directory, by its inode.
Holds(node, ino) == node.kind \in {"directory", "locked"} /\ node.ino = ino

\* mistaken: a directory is the same while its path is one
StillADirectory(node, ino) == node.kind \in {"directory", "locked"}
RemainsStable(node, ino) == Holds(node, ino)

\* What a path of a text file is observed as.
ReadsAsText(file) == file.kind = "file" /\ file.doc > 0

-----------------------------------------------------------------------------
(* The other process *)

\* A fresh inode never comes back.
Fresh == HighestFound + swaps
Replaced(node, kind) == [node EXCEPT !.ino = Fresh, !.kind = kind]

\* It puts another directory, a link or nothing in the place of one the commands
\* read; what a fresh directory holds may differ.
Swap ==
    /\ phase # "done" /\ swaps > 0
    /\ swaps' = swaps - 1
    /\ \/ \E kind \in {"directory", "symlink", "missing"} :
            \/ disk' = [disk EXCEPT !.specs = Replaced(@, kind)]
            \/ disk' = [disk EXCEPT !.specs.stories = Replaced(@, kind)]
            \/ disk' = [disk EXCEPT !.specs.decisions = Replaced(@, kind)]
            \/ \E name \in ToSet(Names) :
                 disk' = [disk EXCEPT !.specs.stories.dirs[name] = Replaced(@, kind)]
       \/ \E other \in Others, name \in ToSet(Names) :
            disk' = [disk EXCEPT !.specs.stories.dirs[name] = Replaced(other, "directory")]
    /\ UNCHANGED <<command, phase, snapshot, walk, entries, handoff, child, verdict, reads>>

-----------------------------------------------------------------------------
(* Doctor: the repository *)

Report(v) == phase' = "done" /\ verdict' = v

\* The root must be a directory; nothing is inspected otherwise.
ResolveRoot ==
    /\ phase = "start" /\ command.name \in DoctorCommands
    /\ IF disk.root = "directory" THEN phase' = "observe" /\ verdict' = verdict
       ELSE Report([NoVerdict EXCEPT !.outcome = "ERROR", !.issues = <<"REPOSITORY_ROOT_INVALID">>])
    /\ UNCHANGED <<command, disk, swaps, snapshot, walk, entries, handoff, child, reads>>

\* The top-level paths, and specs/ itself, before anything behind them.
ObserveTop ==
    /\ phase = "observe"
    /\ snapshot' = [snapshot EXCEPT !.agents = disk.top.agents, !.makefile = disk.top.makefile,
                        !.guidance = disk.top.guidance, !.skills = disk.top.skills,
                        !.agentSkills = disk.top.agentSkills, !.github = disk.top.github,
                        !.specs = ObserveDirectory(Specs)]
    /\ phase' = IF Specs.kind = "directory" THEN "hold" ELSE "guidance"
    /\ UNCHANGED <<command, disk, swaps, walk, entries, handoff, child, verdict, reads>>

HoldSpecs ==
    /\ phase = "hold"
    /\ snapshot' = [snapshot EXCEPT !.held =
                        IF Specs.kind \in {"directory", "locked"} THEN Specs.ino ELSE NotHeld]
    /\ phase' = "under"
    /\ UNCHANGED <<command, disk, swaps, walk, entries, handoff, child, verdict, reads>>

\* The Story collection and the two markers, observed together.
ObserveUnder ==
    /\ phase = "under"
    /\ snapshot' = IF Leads(Specs)
                     THEN [snapshot EXCEPT !.stories = ObserveDirectory(Stories),
                              !.marker = Specs.marker, !.legacy = Specs.legacy]
                     ELSE snapshot
    /\ reads' = IF Leads(Specs) THEN reads \cup ThroughSpecs ELSE reads
    /\ phase' = "guidance"
    /\ UNCHANGED <<command, disk, swaps, walk, entries, handoff, child, verdict>>

\* Only the required structure decides whether the contracts are inspected.
Preliminary(s) == EvaluateRepositoryDoctor([s EXCEPT !.marker = Missing, !.guidance = Missing,
                                                     !.guidanceEntry = Missing])

\* hasConfirmedRequiredStructure: these three facts alone authorize make verify.
Confirmed(required) ==
    required.agents = "OK" /\ required.stories = "OK" /\ required.makefile = "OK"

Conclude(evaluation) ==
    /\ verdict' = [outcome |-> evaluation.outcome, issues |-> evaluation.issues,
                   required |-> evaluation.required]
    /\ phase' = IF command.name = "run-verify" /\ Confirmed(evaluation.required)
                  THEN "spawn" ELSE "done"

JudgeStructure ==
    /\ phase = "guidance"
    /\ LET s == IF snapshot.guidance.kind = "directory" /\ snapshot.guidance.searchable
                  THEN [snapshot EXCEPT !.guidanceEntry = disk.top.guidanceEntry] ELSE snapshot
       IN  /\ snapshot' = s
           /\ IF Preliminary(s).outcome \in {"ERROR", "STRUCTURE_INCOMPLETE"}
                THEN Conclude(Preliminary(s)) /\ UNCHANGED <<walk, handoff>>
                ELSE /\ phase' = "contracts"
                     /\ walk' = [walk EXCEPT !.pc = "hold"]
                     /\ handoff' = [handoff EXCEPT !.pc = "hold"]
                     /\ UNCHANGED verdict
    /\ UNCHANGED <<command, disk, swaps, entries, child, reads>>

-----------------------------------------------------------------------------
(* Doctor: the Stories *)

Inspecting(pc) == phase = "contracts" /\ walk.pc = pc
OfStories == <<command, disk, swaps, phase, snapshot, handoff, child, verdict>>

Ends(result) == walk' = [NoWalk EXCEPT !.pc = "end", !.result = result]

HoldStories ==
    /\ Inspecting("hold")
    /\ IF Leads(Specs) /\ Stories.kind \in {"directory", "locked"}
         THEN walk' = [walk EXCEPT !.held = Stories.ino, !.pc = "list"] ELSE Ends("error")
    /\ UNCHANGED <<entries, reads, OfStories>>

ListStories ==
    /\ Inspecting("list")
    /\ IF Leads(Specs) /\ Leads(Stories)
         THEN /\ walk' = [walk EXCEPT !.pc = "next",
                    !.listed = {n \in ToSet(Names) : DirOf(n).kind # "missing"}]
              /\ reads' = reads \cup ThroughStories
         ELSE Ends("error") /\ UNCHANGED reads
    /\ UNCHANGED <<entries, OfStories>>

\* The names that were listed are walked in the order of their bytes.
Position(name) == CHOOSE i \in 1..Len(Names) : Names[i] = name
Current == CHOOSE n \in walk.listed : \A m \in walk.listed : Position(n) <= Position(m)

Reachable(name) == Leads(Specs) /\ Leads(Stories) /\ DirOf(name).kind # "missing"

\* The next name: a link is an error, a file is passed over.
LookAtStory ==
    /\ Inspecting("next") /\ walk.listed # {}
    /\ LET name == Current
       IN  IF ~Reachable(name) \/ DirOf(name).kind = "symlink" THEN Ends("error")
           ELSE IF DirOf(name).kind = "other"
             THEN walk' = [walk EXCEPT !.listed = @ \ {Current}]
           ELSE walk' = [walk EXCEPT !.pc = "keep"]
    /\ UNCHANGED <<entries, reads, OfStories>>

HoldStory ==
    /\ Inspecting("keep")
    /\ LET name == Current
       IN  IF Reachable(name) /\ DirOf(name).kind \in {"directory", "locked"}
             THEN walk' = [walk EXCEPT !.pc = "read", !.dir = DirOf(name).ino,
                              !.story = 0, !.acceptance = 0, !.decided = NoDecisions, !.wanted = {}]
             ELSE Ends("error")
    /\ UNCHANGED <<entries, reads, OfStories>>

\* The two files are read concurrently, in either order; an empty one is an error
\* once both have been seen.
ReadEither(field) ==
    /\ walk[field] = 0
    /\ LET name == Current
           file == DirOf(name)[field]
           reached == Reachable(name) /\ Leads(DirOf(name))
       IN  IF reached /\ ReadsAsText(file)
             THEN /\ walk' = [walk EXCEPT ![field] = file.doc]
                  /\ reads' = reads \cup ThroughDir(name)
             ELSE Ends("error") /\ UNCHANGED reads
    /\ UNCHANGED <<entries, OfStories>>

ReadStorySource == Inspecting("read") /\ \E field \in {"story", "acceptance"} : ReadEither(field)

\* The decisions are looked up only when the Story refers to some.
WantDecisions ==
    /\ Inspecting("read") /\ walk.story > 0 /\ walk.acceptance > 0
    /\ LET wanted == ReadStoryDecisions(StoryDocs[walk.story])
       IN  walk' = [walk EXCEPT !.wanted = wanted,
                        !.pc = IF wanted = {} THEN "settle" ELSE "root"]
    /\ UNCHANGED <<entries, reads, OfStories>>

HoldDecisions ==
    /\ Inspecting("root")
    /\ IF Leads(Specs) /\ Decisions.kind \in {"directory", "locked"}
         THEN walk' = [walk EXCEPT !.pc = "decide", !.decisions = Decisions.ino] ELSE Ends("error")
    /\ UNCHANGED <<entries, reads, OfStories>>

ReadOneDecision ==
    /\ Inspecting("decide")
    /\ \E id \in walk.wanted \ DOMAIN walk.decided :
         LET record == IF Leads(Specs) THEN ReadDecision(Decisions, id, FALSE)
                                       ELSE Decision("missing", 0)
         IN  walk' = [walk EXCEPT !.decided = Knowing(@, id, record)]
    /\ reads' = IF Leads(Specs) THEN reads \cup ThroughDecisions(Current) ELSE reads
    /\ UNCHANGED <<entries, OfStories>>

DecisionsRemain ==
    /\ Inspecting("decide") /\ walk.wanted = DOMAIN walk.decided
    /\ IF Leads(Specs) /\ RemainsStable(Decisions, walk.decisions)
         THEN walk' = [walk EXCEPT !.pc = "settle"] ELSE Ends("error")
    /\ UNCHANGED <<entries, reads, OfStories>>

\* What was read counts only if the Story directory is still the one it was read from.
SettleStory ==
    /\ Inspecting("settle")
    /\ LET name == Current
       IN  IF Reachable(name) /\ RemainsStable(DirOf(name), walk.dir)
             THEN /\ entries' = Append(entries, Entry_("story", name, "", walk.story,
                                                       walk.acceptance, 0, walk.decided))
                  /\ walk' = [NoWalk EXCEPT !.pc = "next", !.held = walk.held,
                                              !.listed = walk.listed \ {Current}]
             ELSE Ends("error") /\ UNCHANGED entries
    /\ UNCHANGED <<reads, OfStories>>

\* mistaken: the Story that was read last decides
SettleByLastStory ==
    /\ Inspecting("next") /\ walk.listed = {}
    /\ Ends(IF ~(Leads(Specs) /\ RemainsStable(Stories, walk.held)) THEN "error"
            ELSE IF entries = <<>> THEN "no-stories"
            ELSE IF ~ContractHolds(Last(entries)) THEN "incomplete"
            ELSE "ok")
    /\ UNCHANGED <<entries, reads, OfStories>>

\* One Story that does not hold its contract is enough.
SettleStories ==
    /\ Inspecting("next") /\ walk.listed = {}
    /\ Ends(IF ~(Leads(Specs) /\ RemainsStable(Stories, walk.held)) THEN "error"
            ELSE IF entries = <<>> THEN "no-stories"
            ELSE IF \E i \in 1..Len(entries) : ~ContractHolds(entries[i]) THEN "incomplete"
            ELSE "ok")
    /\ UNCHANGED <<entries, reads, OfStories>>

-----------------------------------------------------------------------------
(* Doctor: the handoff, and the whole *)

OfHandoff == <<command, disk, swaps, phase, snapshot, walk, entries, child, verdict>>

HoldForHandoff ==
    /\ phase = "contracts" /\ handoff.pc = "hold"
    /\ handoff' = IF Specs.kind \in {"directory", "locked"}
                    THEN [handoff EXCEPT !.pc = "read", !.held = Specs.ino]
                    ELSE [handoff EXCEPT !.pc = "end", !.result = "error"]
    /\ UNCHANGED <<reads, OfHandoff>>

ReadHandoff ==
    /\ phase = "contracts" /\ handoff.pc = "read"
    /\ handoff' = [handoff EXCEPT !.pc = "settle",
                       !.file = IF Leads(Specs) THEN Specs.handoff ELSE Absent]
    /\ reads' = IF Leads(Specs) THEN reads \cup ThroughSpecs ELSE reads
    /\ UNCHANGED OfHandoff

SettleHandoff ==
    /\ phase = "contracts" /\ handoff.pc = "settle"
    /\ handoff' = [handoff EXCEPT !.pc = "end", !.result =
           CASE ~RemainsStable(Specs, handoff.held) -> "error"
             [] RemainsStable(Specs, handoff.held) /\ handoff.file.kind = "missing" -> "not-present"
             [] RemainsStable(Specs, handoff.held) /\ ReadsAsText(handoff.file) ->
                  IF HandoffHolds(handoff.file.doc) THEN "ok" ELSE "incomplete"
             [] OTHER -> "error"]
    /\ UNCHANGED <<reads, OfHandoff>>

\* Both inspections are over: they count if specs/ is still the one that was held.
Settle ==
    /\ phase = "contracts" /\ walk.pc = "end" /\ handoff.pc = "end"
    /\ LET stable == snapshot.held # NotHeld /\ RemainsStable(Specs, snapshot.held)
       IN  /\ snapshot' = [snapshot EXCEPT !.story = IF stable THEN walk.result ELSE "error",
                                           !.handoff = IF stable THEN handoff.result ELSE "error"]
           /\ Conclude(EvaluateRepositoryDoctor(snapshot'))
    /\ UNCHANGED <<command, disk, swaps, walk, entries, handoff, child, reads>>

-----------------------------------------------------------------------------
(* make verify *)

OfChild == <<command, disk, swaps, snapshot, walk, entries, handoff, reads>>

Outcome(name) == [verdict EXCEPT !.outcome = name]

\* finish: the first observation settles the run, every later one is ignored.
Finish(name) ==
    IF child.settled THEN UNCHANGED <<phase, verdict>>
    ELSE phase' = "done" /\ verdict' = Outcome(name)

\* The child is started once; that may fail at once, or be learned later.
Spawn ==
    /\ phase = "spawn"
    /\ \/ /\ child' = [child EXCEPT !.settled = TRUE, !.pc = "closed"]
          /\ Finish("ERROR")
       \/ /\ child' = [child EXCEPT !.pc = "failed", !.started = @ + 1]
          /\ phase' = "await" /\ UNCHANGED verdict
       \/ /\ \E output \in [Streams -> 0..MaxOutput] :
               child' = [child EXCEPT !.pc = "running", !.started = @ + 1,
                                      !.left = output, !.open = Streams]
          /\ phase' = "await" /\ UNCHANGED verdict
    /\ UNCHANGED OfChild

\* The child, or what it left running, writes while there is room in the pipe.
Writes(s) ==
    /\ s \in child.open /\ child.left[s] > 0 /\ child.piped[s] < PipeSize
    /\ child' = [child EXCEPT !.left[s] = @ - 1, !.written[s] = @ + 1, !.piped[s] = @ + 1]
    /\ UNCHANGED <<phase, verdict, OfChild>>

\* It ends, with a status or by a signal; what it left running may go on writing.
Exits ==
    /\ child.pc = "running"
    /\ \E status \in {0, 2}, signal \in BOOLEAN, left \in {child.left, NoChild.left} :
         child' = [child EXCEPT !.pc = "exited", !.status = status, !.signal = signal,
                                !.left = left]
    /\ UNCHANGED <<phase, verdict, OfChild>>

\* mistaken: nobody reads what the child writes to stderr
ReadStdoutChunk(s) ==
    /\ s = "stdout" /\ child.piped[s] > 0
    /\ child' = [child EXCEPT !.piped[s] = 0, !.held[s] = (@ + child.piped[s]) % 2,
                   !.forwarded[s] = @ + 2 * ((child.held[s] + child.piped[s]) \div 2)]
    /\ UNCHANGED <<phase, verdict, OfChild>>

\* A chunk of bytes: whole characters (of two bytes) are passed on, a half is held.
ReadChunk(s) ==
    /\ child.piped[s] > 0
    /\ \E k \in 1..child.piped[s] :
         child' = [child EXCEPT !.piped[s] = @ - k,
                       !.held[s] = (@ + k) % 2,
                       !.forwarded[s] = @ + 2 * ((child.held[s] + k) \div 2)]
    /\ UNCHANGED <<phase, verdict, OfChild>>

\* The stream ends when nobody can write to it any more and it was read: what the
\* decoder holds is passed on.
StreamEnds(s) ==
    /\ s \in child.open /\ child.pc = "exited" /\ child.left[s] = 0 /\ child.piped[s] = 0
    /\ child' = [child EXCEPT !.open = @ \ {s}, !.forwarded[s] = @ + child.held[s], !.held[s] = 0]
    /\ UNCHANGED <<phase, verdict, OfChild>>

\* The child could not be started after all.
ErrorEvent ==
    /\ child.pc = "failed"
    /\ child' = [child EXCEPT !.pc = "refused", !.settled = TRUE]
    /\ Finish("ERROR")
    /\ UNCHANGED OfChild

\* mistaken: the exit of the child settles the run
ExitEvent ==
    /\ child.pc \in {"exited", "refused"}
    /\ child' = [child EXCEPT !.pc = "closed", !.settled = TRUE]
    /\ Finish(IF child.pc = "exited" /\ child.status = 0 /\ ~child.signal
                THEN "VERIFIED_LOCAL" ELSE "VERIFICATION_FAILED")
    /\ UNCHANGED OfChild

\* close comes after exit and the end of both streams, and after an error too.
CloseEvent ==
    /\ \/ child.pc = "exited" /\ child.open = {}
       \/ child.pc = "refused"
    /\ child' = [child EXCEPT !.pc = "closed", !.settled = TRUE]
    /\ Finish(IF child.pc = "exited" /\ child.status = 0 /\ ~child.signal
                THEN "VERIFIED_LOCAL" ELSE "VERIFICATION_FAILED")
    /\ UNCHANGED OfChild

-----------------------------------------------------------------------------
(* story check, verification check, handoff check *)

OfCheck == <<command, disk, swaps, snapshot, handoff, child, reads>>

Checking(pc) == phase = pc /\ command.name \in {"story", "verification"}

\* Explicit subjects, or every name under specs/stories/ that leads to a directory.
BeginCheck ==
    /\ Checking("start")
    /\ IF command.subjects # <<>>
         THEN walk' = [walk EXCEPT !.todo = command.subjects] /\ phase' = "subjects"
              /\ UNCHANGED verdict
       ELSE IF Leads(Specs) /\ Leads(Stories)
         THEN walk' = [walk EXCEPT !.todo = Where(Names, LAMBDA n : Leads(DirOf(n)))]
              /\ phase' = "subjects" /\ UNCHANGED verdict
       ELSE Report(Outcome("ERROR")) /\ UNCHANGED walk
    /\ UNCHANGED <<entries, OfCheck>>

Add(entry) ==
    /\ entries' = Append(entries, entry)
    /\ walk' = [NoWalk EXCEPT !.todo = Tail(walk.todo)]
    /\ phase' = "subjects"

\* A discovered Story is not looked up again by `verification check`.
TakesItAsFound == command.name = "verification" /\ command.subjects = <<>>

NextSubject ==
    /\ Checking("subjects") /\ walk.todo # <<>>
    /\ IF TakesItAsFound \/ (Reachable(Head(walk.todo)) /\ Leads(DirOf(Head(walk.todo))))
         THEN phase' = "story" /\ UNCHANGED <<walk, entries>>
         ELSE Add(ErrorEntry(Head(walk.todo), "missing"))
    /\ UNCHANGED <<verdict, OfCheck>>

\* readSafeSource of one file of the Story at hand, as its path leads now.
SourceOf(field) ==
    LET name == Head(walk.todo)
    IN  IF Reachable(name) /\ Leads(DirOf(name)) THEN DirOf(name)[field] ELSE Absent

ReadRequired(field, next) ==
    LET file == SourceOf(field)
    IN  IF Readable(file)
          THEN walk' = [walk EXCEPT ![field] = file.doc] /\ phase' = next /\ UNCHANGED entries
          ELSE Add(ErrorEntry(Head(walk.todo),
                              IF file.kind = "symlink" THEN "symlink" ELSE "unavailable"))

ReadStoryFile ==
    /\ Checking("story") /\ ReadRequired("story", "acceptance")
    /\ UNCHANGED <<verdict, OfCheck>>

ReadAcceptanceFile ==
    /\ Checking("acceptance")
    /\ ReadRequired("acceptance", IF command.name = "story" THEN "decisions" ELSE "record")
    /\ UNCHANGED <<verdict, OfCheck>>

\* Every decision the Story refers to, one after the other, and then the verdict.
ReadDecisions ==
    /\ Checking("decisions")
    /\ LET wanted == ReadStoryDecisions(StoryDocs[walk.story]) \ DOMAIN walk.decided
           name == Head(walk.todo)
       IN  IF wanted = {}
             THEN Add(Entry_("story", name, "", walk.story, walk.acceptance, 0, walk.decided))
             ELSE /\ \E id \in wanted :
                       LET found == IF Leads(Specs) /\ Leads(Stories)
                                      THEN ReadDecision(Decisions, id, command.retired)
                                      ELSE ReadDecision(Absent, id, command.retired)
                       IN  walk' = [walk EXCEPT !.decided = Knowing(@, id, found)]
                  /\ UNCHANGED <<entries, phase>>
    /\ UNCHANGED <<verdict, OfCheck>>

\* The recorded result: a link is an error of the run, anything else that cannot be
\* read is a record that is missing.
ReadRecord ==
    /\ Checking("record")
    /\ LET file == SourceOf("record")
           Of(kind, doc) == Entry_(kind, Head(walk.todo), "", walk.story, walk.acceptance, doc,
                                   NoDecisions)
       IN  CASE ~command.record -> Add(Of("plan", 0))
             [] command.record /\ file.kind = "symlink" -> Add(Of("record-error", 0))
             [] command.record /\ file.kind # "symlink" ->
                  Add(Of("record", IF Readable(file) THEN file.doc ELSE 0))
    /\ UNCHANGED <<verdict, OfCheck>>

EndCheck ==
    /\ Checking("subjects") /\ walk.todo = <<>>
    /\ Report(Outcome(CASE command.name = "story" -> StoryOutcome(entries, command.ready)
                        [] command.name = "verification" /\ command.record ->
                             RecordOutcome(entries)
                        [] OTHER -> PlanOutcome(entries)))
    /\ UNCHANGED <<walk, entries, OfCheck>>

CheckHandoff ==
    /\ phase = "start" /\ command.name = "handoff"
    /\ Report(Outcome(HandoffOutcome(IF Leads(Specs) THEN Specs.handoff ELSE Absent)))
    /\ UNCHANGED <<walk, entries, OfCheck>>

-----------------------------------------------------------------------------
(* The specification *)

Doctor ==
    \/ ResolveRoot \/ ObserveTop \/ HoldSpecs \/ ObserveUnder \/ JudgeStructure
    \/ HoldStories \/ ListStories \/ LookAtStory \/ HoldStory \/ ReadStorySource
    \/ WantDecisions \/ HoldDecisions \/ ReadOneDecision \/ DecisionsRemain
    \/ SettleStory \/ SettleStories
    \/ HoldForHandoff \/ ReadHandoff \/ SettleHandoff \/ Settle
MakeVerify ==
    \/ Spawn \/ Exits \/ ErrorEvent \/ CloseEvent
    \/ \E s \in Streams : Writes(s) \/ ReadChunk(s) \/ StreamEnds(s)
Contracts ==
    \/ BeginCheck \/ NextSubject \/ ReadStoryFile \/ ReadAcceptanceFile \/ ReadDecisions
    \/ ReadRecord \/ EndCheck \/ CheckHandoff

Done == phase = "done" /\ child.pc \in {"none", "closed"} /\ UNCHANGED vars

Next == Swap \/ Doctor \/ MakeVerify \/ Contracts \/ Done

\* The child and what it left running write what they have to and end, and their
\* events are delivered. Nothing obliges the other process; that the sequential code
\* of the commands goes on is not used.
Spec == /\ Init /\ [][Next]_vars
        /\ WF_vars(Spawn \/ Exits \/ ErrorEvent \/ CloseEvent)
        /\ \A s \in Streams : WF_vars(Writes(s)) /\ WF_vars(ReadChunk(s)) /\ WF_vars(StreamEnds(s))

-----------------------------------------------------------------------------
(* Correctness *)

\* What Doctor reports as sound or as drifted was read from one tree: every
\* contract read below specs/ went through one specs/, one specs/stories/, one
\* directory per Story and one decisions/ per Story (doctor.ts:169-203, 245-333,
\* 422). A directory replaced in between makes the report an error instead.
DoctorReadsOneTree ==
    verdict.outcome \in {"STRUCTURE_OK", "CONTRACT_DRIFT"} =>
        \A r, q \in reads : r.dir = q.dir => r.ino = q.ino

\* STRUCTURE_OK means the contracts hold: the required paths are there, every
\* Story directory that stayed in place was judged and holds its contract, the
\* handoff is complete if there is one, and the adopted version is this one.
CleanMeansContracts ==
    verdict.outcome = "STRUCTURE_OK" =>
        /\ Confirmed(verdict.required)
        /\ \A i \in 1..Len(entries) : ContractHolds(entries[i])
        /\ \A name \in ToSet(Names) :
              DirOf(name).kind = "directory" /\ DirOf(name).ino <= HighestFound
                => \E i \in 1..Len(entries) : entries[i].name = name
        /\ handoff.file.kind # "missing" => Readable(handoff.file) /\ HandoffHolds(handoff.file.doc)
        /\ snapshot.marker.kind # "missing" => snapshot.marker.text[1] = CheckoutVersion
        /\ snapshot.legacy.kind = "missing"

\* The outcome of make verify is the child's own: verified only if it was started
\* once from a confirmed structure, ended with status 0 by itself and all it and
\* its descendants wrote was passed on; failed only if it ran and did not pass; an
\* error only if it never ran (canonical-verification.ts:37-93, 161-183).
OutcomeIsTheChilds ==
    LET ended == child.pc \in {"exited", "closed"} /\ child.started = 1
        passed == child.status = 0 /\ ~child.signal
    IN  /\ verdict.outcome = "VERIFIED_LOCAL" =>
              /\ ended /\ passed /\ Confirmed(verdict.required)
              /\ \A s \in Streams : child.left[s] = 0 /\ child.forwarded[s] = child.written[s]
        /\ verdict.outcome = "VERIFICATION_FAILED" => ended /\ ~passed
        /\ verdict.outcome = "ERROR" /\ child.settled =>
              child.pc \in {"refused", "closed"} /\ \A s \in Streams : child.written[s] = 0

\* A section declares a value for a label, wherever the section stands.
Says(source, heading, label, value) ==
    \E l \in ToSet(Section(source, heading).entries) : IsDecl(l) /\ l.h = label /\ l.v = value
HasDetail(line) == line.cells # <<>> /\ ExactLiteral(line.cells[1])

\* VERIFICATION_PASS is proven by the documents that were read: at least one Story,
\* each with a plan of no issue, a passing line for every layer its risk and impact
\* require, a passing line for every acceptance criterion, no failing line, and no
\* operation used that the Story does not say yes to or may use by default.
PassIsProven ==
    verdict.outcome = "VERIFICATION_PASS" =>
        /\ entries # <<>>
        /\ command.subjects # <<>> => Len(entries) = Len(command.subjects)
        /\ \A i \in 1..Len(entries) :
             LET story == StoryDocs[entries[i].story]
                 record == RecordDocs[entries[i].record]
                 checks == ToSet(Section(record, "## Checks").entries)
                 evidence == ToSet(Section(record, "## Evidence").entries)
                 Passing(lines, name) == \E l \in lines : l.h = name /\ l.v = Plain("pass")
                                                           /\ HasDetail(l)
                 level == Values(Section(story, "## Risk").entries, "Level")
                 impact == Values(Section(story, "## Architecture").entries, "Impact")
             IN  /\ PlanIssues(story) = <<>>
                 /\ \A layer \in {"lint", "static", "unit"} : Passing(checks, layer)
                 /\ level \in {<<Plain("medium")>>, <<Plain("high")>>} =>
                        Passing(checks, "integration")
                 /\ level = <<Plain("high")>> =>
                        Passing(checks, "contract") /\ Passing(checks, "e2e")
                 /\ impact \in {<<Plain("medium")>>, <<Plain("high")>>} =>
                        Passing(checks, "architecture")
                 /\ \A box \in ToSet(ContentLines(AcceptanceDocs[entries[i].acceptance])) :
                        box.t = "box" /\ box.h \in AcceptanceIds => Passing(evidence, box.h)
                 /\ ~\E l \in checks \cup evidence : l.v = Plain("fail")
                 /\ \A l \in ToSet(Section(record, "## Authority Used").entries) :
                        \/ Says(story, "## Authority", l.v.s[1], Plain("yes"))
                        \/ l.v.s[1] \in {"plan", "modify"}
                             /\ ~Says(story, "## Authority", l.v.s[1], Plain("no"))

\* Asking for readiness changes nothing of what `story check` reports of the
\* default contract: the same diagnostics in the same order (story.ts:494-522).
ReadinessKeepsStructure ==
    \A i \in 1..Len(entries) : phase = "done" /\ entries[i].kind = "story" =>
        StructureOf(StoryDiagnostics(entries[i], TRUE)) = StoryDiagnostics(entries[i], FALSE)

\* The two readers of a Story's governance agree: what `story check` finds nothing
\* wrong with resolves, in `verification check`, to a plan without issues and to the
\* same task mode, authority, risk level and architecture impact.
ContractImpliesPlan ==
    \A i \in 1..Len(entries) :
      phase = "done" /\ entries[i].kind = "story" /\ ContractHolds(entries[i]) =>
        LET story == StoryDocs[entries[i].story]
            plan == ResolvePlan(story)
        IN  /\ PlanIssues(story) = <<>>
            /\ plan.taskMode = ReadTaskMode(story)
            /\ plan.authority = ReadAuthority(story, ReadTaskMode(story))
            /\ plan.riskLevel = ReadRiskLevel(story)
            /\ plan.architectureImpact
                 = ReadLevel(Values(Section(story, "## Architecture").entries, "Impact"))

\* A run of make verify is always settled: however much the child writes to either
\* stream and in whatever order, it is never left waiting for a pipe nobody empties,
\* as long as what it started ends (canonical-verification.ts:79-93, 161-183).
VerificationEnds == (phase = "await") ~> (phase = "done")
=============================================================================
