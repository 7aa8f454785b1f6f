----------------------------- MODULE InitMutation -----------------------------
(***************************************************************************)
(* The file mutation of `praxisbound init`: executeInitMutation and its     *)
(* helpers in packages/cli/src/init-mutation.ts, one action per operating   *)
(* system operation it awaits, together with the world it runs in: faults   *)
(* of those operations, the signals it catches, a crash, and somebody else  *)
(* editing the same target.                                                 *)
(*                                                                         *)
(* A fault "before" makes an operation fail without an effect; a fault      *)
(* "after" makes it report a failure although its effect took place.        *)
(* Operators marked "mistaken" are as in InitPlan.                          *)
(***************************************************************************)
EXTENDS InitPlan

CONSTANTS
  Root,          \* the target directory itself
  Parent,        \* the managed directory (or Root) each path and directory is in
  FaultKinds,    \* the faults an operation may have: a subset of {"before", "after"}
  MaxFaults,     \* bound: faults in one execution
  MaxEdits,      \* bound: edits by somebody else in one execution
  CanCrash       \* whether the process may be killed

ASSUME ParentAssumption ==
  /\ Parent \in [Paths \cup Directories -> Directories \cup {Root}]
  /\ Root \notin Directories
ASSUME BoundAssumption ==
  /\ FaultKinds \subseteq {"before", "after"}
  /\ MaxFaults \in Nat
  /\ MaxEdits \in Nat
  /\ CanCrash \in BOOLEAN

VARIABLES
  disk,        \* destination |-> what is there
  dirs,        \* managed directory |-> what is there, and whose it is
  stage,       \* destination |-> its private staging directory
  mode,        \* the requested mode
  pre,         \* the preconditions of the plan: the observed disk and dirs
  effects,     \* the effects of the plan, in order
  pc,          \* what the execution does next
  cursor,      \* the index of the loop that is running
  created,     \* createdDirectories, in creation order
  staged,      \* createdStages, in creation order, named by their destination
  prepared, attempted, applied, recoveryAttempted,
  restored, unrecovered, invalidated, invalidationFailed,
  stageResidue, dirResidue,
  mismatched,  \* preconditionMismatches is not empty
  committed,
  failure,
  interrupted, \* a caught signal has set the flag shouldAbort reads
  outcome,     \* the outcome of the result, once there is one
  faults,      \* faults so far
  edits,       \* edits by somebody else so far
  theirs,      \* history: the target as it would be without this execution
  touched      \* history: when somebody else last touched a path or its stage

filesystem == <<disk, dirs, stage>>
plan       == <<mode, pre, effects>>
progress   == <<prepared, attempted, applied>>
recovery   == <<recoveryAttempted, restored, unrecovered, invalidated,
                invalidationFailed>>
residue    == <<stageResidue, dirResidue>>
verdict    == <<mismatched, committed, failure, outcome>>
history    == <<edits, theirs, touched>>
vars == <<filesystem, plan, pc, cursor, created, staged, progress, recovery,
          residue, verdict, interrupted, faults, history>>

NoStage  == [owner |-> "none", original |-> "missing", new |-> FALSE]
StageWithUnknownBackup == [owner |-> "run", original |-> "unknown", new |-> FALSE] \* mistaken
NewStage == [owner |-> "run", original |-> "missing", new |-> FALSE]
Stages   == [owner : {"none", "run", "foreign"},
             original : FileKinds, new : BOOLEAN]

Terminal == {"done", "crashed"}
Planning == {"plan"}
Preparing == {"validate", "directories", "make stage", "copy original",
              "write new", "recapture", "poll"}
Mutating == {"apply", "recover", "invalidate", "clean stages",
             "clean directories", "finish"}

\* There is room for p: the directory it belongs in exists.
HasParent(x) ==
  Parent[x] \in {Root} \cup {d \in Directories : dirs[d] \in {"theirs", "ours", "foreign"}}

IsEmpty(d) ==
  /\ \A p \in Paths : Parent[p] = d => disk[p] = "missing" /\ stage[p].owner = "none"
  /\ \A e \in Directories : Parent[e] = d => dirs[e] = "missing"

\* What an InitMutationExecutionObservation reports.
Observation ==
  [committed |-> committed, prepared |-> prepared, attempted |-> attempted,
   applied |-> applied, recoveryAttempted |-> recoveryAttempted,
   restored |-> restored, unrecovered |-> unrecovered,
   invalidated |-> invalidated, invalidationFailed |-> invalidationFailed,
   retained |-> IF unrecovered = {} THEN <<>> ELSE staged,
   stageResidue |-> stageResidue, dirResidue |-> dirResidue,
   mismatched |-> mismatched, failure |-> failure]

-----------------------------------------------------------------------------
(* The operating system: f is the fault of one operation, or "none".       *)

Operation(f) ==
  /\ f \in FaultKinds \cup {"none"}
  /\ f # "none" => faults < MaxFaults
  /\ faults' = IF f = "none" THEN faults ELSE faults + 1

HasEffect(f) == f # "before"

-----------------------------------------------------------------------------
Init ==
  /\ mode \in Modes
  /\ disk \in [Paths -> FileKinds]
  /\ dirs \in [Directories -> {"missing", "odd", "theirs"}]
  /\ \A x \in Paths : disk[x] # "missing" => HasParent(x)
  /\ \A d \in Directories : dirs[d] # "missing" => HasParent(d)
  /\ stage = [p \in Paths |-> NoStage]
  /\ pre = [files |-> disk, dirs |-> dirs]
  /\ effects = <<>>
  /\ pc = "plan"
  /\ cursor = 0
  /\ created = <<>> /\ staged = <<>>
  /\ prepared = <<>> /\ attempted = <<>> /\ applied = <<>>
  /\ recoveryAttempted = <<>> /\ restored = {} /\ unrecovered = {}
  /\ invalidated = {} /\ invalidationFailed = {}
  /\ stageResidue = {} /\ dirResidue = {}
  /\ mismatched = FALSE /\ committed = FALSE
  /\ failure = NoFailure
  /\ interrupted = FALSE
  /\ outcome = "none"
  /\ faults = 0 /\ edits = 0
  /\ theirs = disk
  /\ touched = [p \in Paths |-> "never"]

(* planInit: capture the observation scope and plan, or refuse.            *)
Plan ==
  /\ pc = "plan"
  /\ pre' = [files |-> disk, dirs |-> dirs]
  /\ LET result == PlanOutcome(mode, disk, dirs) IN
       IF result = "INIT_PREVIEW"
       THEN /\ effects' = PlanEffects(mode, disk)
            /\ pc' = "validate"
            /\ UNCHANGED outcome
       ELSE /\ outcome' = result
            /\ pc' = "done"
            /\ UNCHANGED effects
  /\ UNCHANGED <<filesystem, mode, cursor, created, staged, progress, recovery,
                 residue, mismatched, committed, failure, interrupted, faults,
                 history>>

StaleExistence == \* mistaken
  {p \in Destinations(mode) : (disk[p] = "missing") # (pre.files[p] = "missing")}
StalePaths ==
  {p \in Destinations(mode) : disk[p] # pre.files[p]}

\* A directory this execution created counts as the missing one it replaced.
StaleDirectories ==
  {d \in Range(ActiveDirectories(mode)) :
     /\ dirs[d] # pre.dirs[d]
     /\ ~(pre.dirs[d] = "missing" /\ dirs[d] = "ours")}

(* The root identity, the payloads and every precondition are checked, in    *)
(* this order, before the first mutation; the first two may refuse.          *)
Validate ==
  /\ pc = "validate"
  /\ \E refusal \in {"none", "INIT_STALE_PLAN", "INIT_PAYLOAD_INVALID"} : LET
         collision == \E p \in Range(effects) : stage[p].owner # "none"
         stale == StalePaths \cup StaleDirectories # {}
       IN
       IF refusal # "none"
       THEN /\ failure' = Failure("precondition", refusal)
            /\ pc' = "finish"
            /\ UNCHANGED <<mismatched, cursor>>
       ELSE IF stale \/ collision
       THEN /\ failure' = Failure("precondition",
                            IF stale THEN "INIT_STALE_PLAN" ELSE "INIT_STAGE_COLLISION")
            /\ mismatched' = TRUE
            /\ pc' = "finish"
            /\ UNCHANGED cursor
       ELSE /\ pc' = "directories"
            /\ cursor' = 1
            /\ UNCHANGED <<mismatched, failure>>
  /\ UNCHANGED <<filesystem, plan, created, staged, progress, recovery, residue,
                 committed, outcome, interrupted, faults, history>>

\* cleanupStages visits every recorded stage, latest first.
CleanAllButLast == IF staged = <<>> THEN 0 ELSE Len(staged) - 1 \* mistaken
CleanFrom == Len(staged)

\* A failed preparation removes what it made, latest first.
PrepareFailed ==
  /\ failure' = Failure("prepare", "INIT_PREPARATION_FAILED")
  /\ pc' = "clean stages"
  /\ cursor' = CleanFrom

(* One iteration over scope.directories: mkdir, then lstat for the identity. *)
(* When the mkdir took place but the call failed, the directory is not       *)
(* recorded in createdDirectories.                                          *)
MakeDirectory ==
  /\ pc = "directories"
  /\ cursor <= Len(ActiveDirectories(mode))
  /\ LET d == ActiveDirectories(mode)[cursor] IN
       IF pre.dirs[d] # "missing"
       THEN /\ cursor' = cursor + 1
            /\ UNCHANGED <<pc, dirs, created, failure, faults>>
       ELSE \E f \in FaultKinds \cup {"none"} :
         LET possible == dirs[d] = "missing" /\ HasParent(d) IN
         /\ Operation(f)
         /\ dirs' = IF possible /\ HasEffect(f) THEN [dirs EXCEPT ![d] = "ours"] ELSE dirs
         /\ IF possible /\ f = "none"
            THEN /\ created' = Append(created, d)
                 /\ cursor' = cursor + 1
                 /\ UNCHANGED <<pc, failure>>
            ELSE /\ PrepareFailed
                 /\ UNCHANGED created
  /\ UNCHANGED <<disk, stage, plan, staged, progress, recovery, residue,
                 mismatched, committed, outcome, interrupted, history>>

DirectoriesMade ==
  /\ pc = "directories"
  /\ cursor > Len(ActiveDirectories(mode))
  /\ pc' = "make stage"
  /\ UNCHANGED <<filesystem, plan, cursor, created, staged, progress, recovery,
                 residue, verdict, interrupted, faults, history>>

\* The destination whose effect is being prepared.
Current == effects[Len(prepared) + 1]

MakeStage ==
  /\ pc = "make stage"
  /\ Len(prepared) < Len(effects)
  /\ \E f \in FaultKinds \cup {"none"} : LET
         p == Current
         possible == stage[p].owner = "none" /\ HasParent(p)
       IN
       /\ Operation(f)
       /\ stage' = IF possible /\ HasEffect(f) THEN [stage EXCEPT ![p] = NewStage] ELSE stage
       /\ IF possible /\ f = "none"
          THEN /\ staged' = Append(staged, p)
               /\ pc' = "copy original"
               /\ UNCHANGED <<cursor, failure>>
          ELSE /\ PrepareFailed
               /\ UNCHANGED staged
  /\ UNCHANGED <<disk, dirs, plan, created, progress, recovery, residue,
                 mismatched, committed, outcome, interrupted, history>>

BackUp(p) ==
  /\ stage' = [stage EXCEPT ![p].original = disk[p]]
  /\ UNCHANGED disk

CopyOriginal ==
  /\ pc = "copy original"
  /\ LET p == Current IN
       IF pre.files[p] = "missing"
       THEN /\ pc' = "write new"
            /\ UNCHANGED <<disk, stage, cursor, failure, faults>>
       ELSE \E f \in FaultKinds \cup {"none"} :
         LET possible == disk[p] \in Contents /\ stage[p].owner = "run" IN
         /\ Operation(f)
         /\ IF possible /\ HasEffect(f) THEN BackUp(p) ELSE UNCHANGED <<disk, stage>>
         /\ IF possible /\ f = "none"
            THEN /\ pc' = "write new"
                 /\ UNCHANGED <<cursor, failure>>
            ELSE PrepareFailed
  /\ UNCHANGED <<dirs, plan, created, staged, progress, recovery, residue,
                 mismatched, committed, outcome, interrupted, history>>

WriteNew ==
  /\ pc = "write new"
  /\ LET p == Current IN
       IF p = LegacyMarker
       THEN /\ prepared' = Append(prepared, p)
            /\ pc' = "make stage"
            /\ UNCHANGED <<stage, cursor, failure, faults>>
       ELSE \E f \in FaultKinds \cup {"none"} :
         LET possible == stage[p].owner = "run" IN
         /\ Operation(f)
         /\ stage' = IF possible /\ HasEffect(f) THEN [stage EXCEPT ![p].new = TRUE] ELSE stage
         /\ IF possible /\ f = "none"
            THEN /\ prepared' = Append(prepared, p)
                 /\ pc' = "make stage"
                 /\ UNCHANGED <<cursor, failure>>
            ELSE /\ PrepareFailed
                 /\ UNCHANGED prepared
  /\ UNCHANGED <<disk, dirs, plan, created, staged, attempted, applied, recovery,
                 residue, mismatched, committed, outcome, interrupted, history>>

AllPrepared ==
  /\ pc = "make stage"
  /\ Len(prepared) = Len(effects)
  /\ pc' = "recapture"
  /\ UNCHANGED <<filesystem, plan, cursor, created, staged, progress, recovery,
                 residue, verdict, interrupted, faults, history>>

(* The full equality recapture before the first destination is replaced.    *)
Recapture ==
  /\ pc = "recapture"
  /\ LET changedOwned == \/ \E d \in Range(created) : dirs[d] # "ours"
                         \/ \E p \in Range(staged) : stage[p].owner # "run"
     IN IF StalePaths \cup StaleDirectories # {} \/ changedOwned
        THEN /\ mismatched' = TRUE
             /\ failure' = Failure("precondition", "INIT_STALE_PLAN")
             /\ pc' = "clean stages"
             /\ cursor' = CleanFrom
        ELSE /\ pc' = "poll"
             /\ UNCHANGED <<mismatched, failure, cursor>>
  /\ UNCHANGED <<filesystem, plan, created, staged, progress, recovery, residue,
                 committed, outcome, interrupted, faults, history>>

ShouldAbort(last) == interrupted

PollBeforeApply ==
  /\ pc = "poll"
  /\ IF ShouldAbort(FALSE)
     THEN /\ failure' = Failure("prepare", "INIT_INTERRUPTED")
          /\ pc' = "clean stages"
          /\ cursor' = CleanFrom
     ELSE /\ pc' = "apply"
          /\ UNCHANGED <<failure, cursor>>
  /\ UNCHANGED <<filesystem, plan, created, staged, progress, recovery, residue,
                 mismatched, committed, outcome, interrupted, faults, history>>

-----------------------------------------------------------------------------
(* The apply loop: one replacement or removal, then the poll of the flag.   *)
(* The poll that follows the last effect is the last one there is.          *)
ApplyEffect ==
  /\ pc = "apply"
  /\ Len(attempted) < Len(effects)
  /\ \E f \in FaultKinds \cup {"none"} : LET
         p == effects[Len(attempted) + 1]
         possible == IF p = LegacyMarker THEN TRUE ELSE stage[p].new
         last == Len(attempted) + 1 = Len(effects)
       IN
       /\ Operation(f)
       /\ attempted' = Append(attempted, p)
       /\ IF possible /\ HasEffect(f)
          THEN /\ disk' = [disk EXCEPT ![p] = Target(p)]
               /\ stage' = [stage EXCEPT ![p].new = FALSE]
          ELSE UNCHANGED <<disk, stage>>
       /\ IF possible /\ f = "none"
          THEN applied' = Append(applied, p)
          ELSE UNCHANGED applied
       /\ IF possible /\ f = "none" /\ ~ShouldAbort(last)
          THEN /\ committed' = last
               /\ IF last THEN pc' = "clean stages" /\ cursor' = CleanFrom
                          ELSE UNCHANGED <<pc, cursor>>
               /\ UNCHANGED failure
          ELSE /\ failure' = Failure("apply", IF possible /\ f = "none"
                                              THEN "INIT_INTERRUPTED"
                                              ELSE "INIT_REPLACEMENT_FAILED")
               /\ pc' = "recover"
               /\ UNCHANGED <<committed, cursor>>
  /\ UNCHANGED <<dirs, plan, created, staged, prepared, recovery, residue,
                 mismatched, outcome, interrupted, history>>

(* Recovery visits every attempted effect, latest first, and goes on with   *)
(* the others when one cannot be restored.                                  *)
AllButOneRecovered == Len(recoveryAttempted) + 1 >= Len(attempted) \* mistaken
Recovered == Len(recoveryAttempted) = Len(attempted)

Absence(p) == "missing" \* mistaken
Restoration(p) == IF pre.files[p] = "missing" THEN "missing" ELSE stage[p].original

RecoverEffect ==
  /\ pc = "recover"
  /\ ~Recovered
  /\ \E f \in FaultKinds \cup {"none"} : LET
         p == attempted[Len(attempted) - Len(recoveryAttempted)]
         possible == pre.files[p] = "missing" \/ stage[p].original \in Contents
       IN
       /\ Operation(f)
       /\ recoveryAttempted' = Append(recoveryAttempted, p)
       /\ IF possible /\ HasEffect(f)
          THEN disk' = [disk EXCEPT ![p] = Restoration(p)]
          ELSE UNCHANGED disk
       /\ IF possible /\ f = "none"
          THEN /\ restored' = restored \cup {p}
               /\ UNCHANGED <<unrecovered, pc>>
          ELSE /\ unrecovered' = unrecovered \cup {p}
               /\ pc' = IF p = Marker THEN "invalidate" ELSE pc
               /\ UNCHANGED restored
  /\ UNCHANGED <<dirs, stage, plan, cursor, created, staged, progress,
                 invalidated, invalidationFailed, residue, verdict, interrupted,
                 history>>

\* A marker that can vouch for nothing any more is removed.
Invalidate ==
  /\ pc = "invalidate"
  /\ \E f \in FaultKinds \cup {"none"} :
       /\ Operation(f)
       /\ IF HasEffect(f) THEN disk' = [disk EXCEPT ![Marker] = "missing"]
                          ELSE UNCHANGED disk
       /\ IF f = "none"
          THEN /\ invalidated' = {Marker}
               /\ UNCHANGED invalidationFailed
          ELSE /\ invalidationFailed' = {Marker}
               /\ UNCHANGED invalidated
  /\ pc' = "recover"
  /\ UNCHANGED <<dirs, stage, plan, cursor, created, staged, progress,
                 recoveryAttempted, restored, unrecovered, residue, verdict,
                 interrupted, history>>

MarkerHandled == Marker \in invalidated \cup invalidationFailed

CleansAnyway == FALSE \* mistaken
KeepsBackups == unrecovered # {}

(* After the recovery loop: clean up, or keep the backups and report.       *)
RecoveryEnds ==
  /\ pc = "recover"
  /\ Recovered
  /\ IF ~KeepsBackups
     THEN /\ pc' = "clean stages"
          /\ cursor' = CleanFrom
          /\ UNCHANGED failure
     ELSE IF ~MarkerHandled
     THEN /\ pc' = "invalidate"
          /\ UNCHANGED <<cursor, failure>>
     ELSE /\ failure' = Failure("recovery", "INIT_RESTORE_FAILED")
          /\ pc' = "finish"
          /\ UNCHANGED cursor
  /\ UNCHANGED <<filesystem, plan, created, staged, progress, recovery, residue,
                 mismatched, committed, outcome, interrupted, faults, history>>

-----------------------------------------------------------------------------
\* What may be left of a stage when its cleanup fails: files go one by one.
PartlyCleaned(s) == {s, [s EXCEPT !.new = FALSE],
                     [s EXCEPT !.new = FALSE, !.original = "missing"]}

RemainsOurs(p) == stage[p].owner = "run" \* mistaken
Remains(p) == stage[p].owner # "none"

(* One iteration of cleanupStages: only a directory with the identity this  *)
(* execution recorded is emptied and removed; whatever is left is residue.   *)
CleanStage ==
  /\ pc = "clean stages"
  /\ cursor > 0
  /\ cursor' = cursor - 1
  /\ LET p == staged[cursor] IN
       IF stage[p].owner = "run"
       THEN \E f \in FaultKinds \cup {"none"} :
              /\ Operation(f)
              /\ \/ /\ HasEffect(f)
                    /\ stage' = [stage EXCEPT ![p] = NoStage]
                    /\ UNCHANGED stageResidue
                 \/ /\ ~HasEffect(f)
                    /\ \E left \in PartlyCleaned(stage[p]) :
                         stage' = [stage EXCEPT ![p] = left]
                    /\ stageResidue' = stageResidue \cup {p}
       ELSE /\ stageResidue' = IF Remains(p) THEN stageResidue \cup {p} ELSE stageResidue
            /\ UNCHANGED <<stage, faults>>
  /\ UNCHANGED <<disk, dirs, plan, pc, created, staged, progress, recovery,
                 dirResidue, verdict, interrupted, history>>

\* A committed execution keeps the directories it created.
StagesCleaned ==
  /\ pc = "clean stages"
  /\ cursor = 0
  /\ IF committed THEN pc' = "finish" /\ UNCHANGED cursor
                  ELSE pc' = "clean directories" /\ cursor' = Len(created)
  /\ UNCHANGED <<filesystem, plan, created, staged, progress, recovery, residue,
                 verdict, interrupted, faults, history>>

(* One iteration of cleanupDirectories: rmdir, which only removes an empty  *)
(* directory.                                                              *)
CleanDirectory ==
  /\ pc = "clean directories"
  /\ cursor > 0
  /\ cursor' = cursor - 1
  /\ LET d == created[cursor] IN
       IF dirs[d] = "ours" /\ IsEmpty(d)
       THEN \E f \in FaultKinds \cup {"none"} :
              /\ Operation(f)
              /\ IF HasEffect(f)
                 THEN dirs' = [dirs EXCEPT ![d] = "missing"] /\ UNCHANGED dirResidue
                 ELSE dirResidue' = dirResidue \cup {d} /\ UNCHANGED dirs
       ELSE /\ dirResidue' = IF dirs[d] = "missing" THEN dirResidue
                             ELSE dirResidue \cup {d}
            /\ UNCHANGED <<dirs, faults>>
  /\ UNCHANGED <<disk, stage, plan, pc, created, staged, progress, recovery,
                 stageResidue, verdict, interrupted, history>>

DirectoriesCleaned ==
  /\ pc = "clean directories"
  /\ cursor = 0
  /\ pc' = "finish"
  /\ UNCHANGED <<filesystem, plan, cursor, created, staged, progress, recovery,
                 residue, verdict, interrupted, faults, history>>

\* The failure that is reported: residue turns one into a cleanup failure.
ReportedFailure ==
  IF stageResidue = {} /\ dirResidue = {} THEN failure
  ELSE IF committed THEN Failure("cleanup", "INIT_CLEANUP_FAILED")
  ELSE CASE failure.stage = "prepare" -> Failure("prepare", "INIT_RECOVERY_CLEANUP_FAILED")
         [] failure.stage = "apply" -> Failure("recovery", "INIT_RECOVERY_CLEANUP_FAILED")
         [] OTHER -> failure

(* The observation is returned and Core evaluates it.                       *)
Finish ==
  /\ pc = "finish"
  /\ failure' = ReportedFailure
  /\ outcome' = EvaluateInitMutation(effects, [Observation EXCEPT !.failure = ReportedFailure])
  /\ pc' = "done"
  /\ UNCHANGED <<filesystem, plan, cursor, created, staged, progress, recovery,
                 residue, mismatched, committed, interrupted, faults, history>>

-----------------------------------------------------------------------------
(* The environment.                                                        *)

Executing == pc \in Preparing \cup Mutating

\* SIGHUP, SIGINT and SIGTERM set a flag while the mutation runs.
Signal ==
  /\ Executing
  /\ ~interrupted
  /\ interrupted' = TRUE
  /\ UNCHANGED <<filesystem, plan, pc, cursor, created, staged, progress,
                 recovery, residue, verdict, faults, history>>

\* SIGKILL or a power loss.
Crash ==
  /\ CanCrash
  /\ pc \notin Terminal
  /\ pc' = "crashed"
  /\ UNCHANGED <<filesystem, plan, cursor, created, staged, progress, recovery,
                 residue, verdict, interrupted, faults, history>>

(* Somebody else changes the target while the mutation runs.  Up to the     *)
(* recapture such a change is early, after it late.                         *)
Edit ==
  /\ Executing
  /\ edits < MaxEdits
  /\ edits' = edits + 1
  /\ UNCHANGED <<plan, pc, cursor, created, staged, progress, recovery, residue,
                 verdict, interrupted, faults>>

Touch(p) ==
  touched' = [touched EXCEPT ![p] =
                IF pc \in Preparing \ {"poll"} THEN "early" ELSE "late"]

EditFile(p, c) ==
  /\ Edit
  /\ disk[p] # c
  /\ HasParent(p)
  /\ disk' = [disk EXCEPT ![p] = c]
  /\ theirs' = [theirs EXCEPT ![p] = c]
  /\ Touch(p)
  /\ UNCHANGED <<dirs, stage>>

\* A staging directory is removed, replaced, or made by another run.
EditStage(p, owner) ==
  /\ Edit
  /\ stage[p].owner # owner
  /\ HasParent(p)
  /\ stage' = [stage EXCEPT ![p] = [NoStage EXCEPT !.owner = owner]]
  /\ Touch(p)
  /\ UNCHANGED <<disk, dirs, theirs>>

\* A missing directory is made, or an empty one removed or replaced.
EditDirectory(d, kind) ==
  /\ Edit
  /\ dirs[d] # kind
  /\ HasParent(d) /\ IsEmpty(d)
  /\ dirs' = [dirs EXCEPT ![d] = kind]
  /\ UNCHANGED <<disk, stage, theirs, touched>>

-----------------------------------------------------------------------------
Step ==
  \/ Plan \/ Validate \/ MakeDirectory \/ DirectoriesMade
  \/ MakeStage \/ CopyOriginal \/ WriteNew \/ AllPrepared
  \/ Recapture \/ PollBeforeApply
  \/ ApplyEffect \/ RecoverEffect \/ Invalidate \/ RecoveryEnds
  \/ CleanStage \/ StagesCleaned \/ CleanDirectory \/ DirectoriesCleaned
  \/ Finish

Environment ==
  \/ Signal
  \/ Crash
  \/ \E p \in Paths : \/ \E c \in FileKinds : EditFile(p, c)
                      \/ \E owner \in {"none", "foreign"} : EditStage(p, owner)
  \/ \E d \in Directories, kind \in {"missing", "foreign"} : EditDirectory(d, kind)

Next == Step \/ Environment

Spec == Init /\ [][Next]_vars

-----------------------------------------------------------------------------
(* Properties.                                                             *)

Planned == {effects[i] : i \in 1..Len(effects)}

\* Every variable has a value the execution can give it.
TypeOK ==
  /\ mode \in Modes
  /\ disk \in [Paths -> FileKinds]
  /\ dirs \in [Directories -> DirKinds]
  /\ stage \in [Paths -> Stages]
  /\ pre \in [files : [Paths -> FileKinds], dirs : [Directories -> DirKinds]]
  /\ effects \in Seq(Paths)
  /\ pc \in Planning \cup Preparing \cup Mutating \cup Terminal
  /\ cursor \in Nat
  /\ created \in Seq(Directories)
  /\ staged \in Seq(Paths)
  /\ prepared \in Seq(Paths) /\ attempted \in Seq(Paths) /\ applied \in Seq(Paths)
  /\ recoveryAttempted \in Seq(Paths)
  /\ restored \subseteq Paths /\ unrecovered \subseteq Paths
  /\ invalidated \subseteq {Marker} /\ invalidationFailed \subseteq {Marker}
  /\ stageResidue \subseteq Paths /\ dirResidue \subseteq Directories
  /\ mismatched \in BOOLEAN /\ committed \in BOOLEAN /\ interrupted \in BOOLEAN
  /\ failure \in Failures
  /\ outcome \in Outcomes \cup {"none"}
  /\ faults \in Nat /\ edits \in Nat
  /\ theirs \in [Paths -> FileKinds]
  /\ touched \in [Paths -> {"never", "early", "late"}]

Undisturbed == \A p \in Planned : touched[p] = "never"

(* The new adoption marker vouches for a complete snapshot at every moment, *)
(* a crash included: it is on disk only while every other effect is in      *)
(* place, unless the execution reports that it could not remove it.          *)
MarkerVouches ==
  (/\ Undisturbed
   /\ effects # <<>>
   /\ pre.files[Marker] # NewContent
   /\ disk[Marker] = NewContent) =>
    \/ \A p \in Planned : disk[p] = Target(p)
    \/ Marker \in invalidationFailed

(* No managed file is ever lost: until the execution has committed, the     *)
(* original of every effect is at its destination or in its backup, whatever *)
(* fails and wherever the process dies.                                     *)
NoOriginalLost ==
  \A p \in Planned :
    (touched[p] = "never" /\ pre.files[p] # "missing" /\ ~committed) =>
      disk[p] = pre.files[p] \/ stage[p].original = pre.files[p]

(* A result that claims the prior state was restored, or that refused, is    *)
(* right about every file nobody else touched.                              *)
RestoredMeansRestored ==
  outcome \in {"INIT_OPERATION_REFUSED", "INIT_APPLY_FAILED_RECOVERED"} =>
    \A p \in Paths : touched[p] = "never" => disk[p] = theirs[p]

(* A change somebody else made before the recapture is never overwritten by  *)
(* a replacement: an execution goes on to apply only over the contents it    *)
(* planned for.                                                             *)
EarlyEditsSurvive ==
  \A p \in Planned :
    touched[p] # "late" /\ attempted # <<>> => theirs[p] = pre.files[p]

(* When the execution did not get to replace a file, the target is exactly   *)
(* what everybody else made of it.                                          *)
UnappliedIsUnchanged ==
  attempted = <<>> => disk = theirs

(* The observation the executor returns is always one the evaluator accepts: *)
(* no combination of faults, edits and signals ends in an internal ERROR.    *)
ObservationAccepted == outcome # "ERROR"

(* After an incomplete recovery everything a manual restoration needs is      *)
(* there: a destination that is not as it was is named as unrecovered, or as  *)
(* an invalidated marker, and the backup of its original is retained.         *)
UnrestoredIsNamed ==
  outcome = "INIT_RECOVERY_INCOMPLETE" =>
    \A p \in Planned :
      (touched[p] = "never" /\ disk[p] # pre.files[p]) =>
        /\ p \in unrecovered \cup invalidated \cup invalidationFailed
        /\ pre.files[p] # "missing" => stage[p].original = pre.files[p]

\* What this execution made and has no record of: the call that made it failed.
UnrecordedStages      == {p \in Paths : stage[p].owner = "run"} \ Range(staged)
UnrecordedDirectories == {d \in Directories : dirs[d] = "ours"} \ Range(created)

\* What cleanup can find of a stage: ours, or what was put in its place before it began.
LeftStage(p) ==
  stage[p].owner = "run" \/ (stage[p].owner = "foreign" /\ touched[p] = "early")

(* The result accounts for what the execution made.  A recorded stage that   *)
(* is left, or was replaced before the recapture, is named as residue or as  *)
(* retained, a committed result included.  A recorded directory that is left *)
(* is named too, with two exceptions: a committed execution keeps its         *)
(* directories as part of the installation, and an incomplete recovery        *)
(* removes nothing and names the stages only.  What was made without being    *)
(* recorded is named by nobody: it is one stage or directory at most, of a    *)
(* preparation that failed before anything was replaced.                     *)
LeftoversAreNamed ==
  outcome # "none" =>
    /\ \A p \in Range(staged) :
         LeftStage(p) => p \in stageResidue \cup Range(Observation.retained)
    /\ ~committed /\ unrecovered = {} =>
         \A d \in Range(created) : dirs[d] = "ours" => d \in dirResidue
    /\ unrecovered # {} /\ edits = 0 =>
         /\ \A p \in Range(staged) : stage[p].owner = "run"
         /\ \A d \in Range(created) : dirs[d] = "ours"
    /\ \A p, q \in UnrecordedStages : p = q
    /\ \A d, e \in UnrecordedDirectories : d = e
    /\ UnrecordedStages = {} \/ UnrecordedDirectories = {}
    /\ UnrecordedStages \cup UnrecordedDirectories # {} =>
         attempted = <<>> /\ failure.stage = "prepare"

-----------------------------------------------------------------------------
(* The installation as its readers see it: InitMutation implements the        *)
(* protocol of AdoptionMarker.                                               *)

MarkerIsNew == effects # <<>> /\ disk[Marker] = NewContent /\ pre.files[Marker] # NewContent

Promise == INSTANCE AdoptionMarker WITH
  Managed    <- Paths,
  altered    <- {p \in Paths : disk[p] # pre.files[p]},
  pending    <- {p \in Planned \ {Marker} : disk[p] # Target(p)},
  vouched    <- MarkerIsNew,
  distrusted <- invalidationFailed # {},
  verdict    <- CASE outcome = "none" -> "none"
                  [] outcome \in {"INIT_APPLIED", "INIT_CLEANUP_INCOMPLETE"} -> "installed"
                  [] outcome = "INIT_RECOVERY_INCOMPLETE" -> "incomplete"
                  [] OTHER -> "unchanged"

\* The execution implements the promise, as long as nobody else edits.
KeepsPromise == Promise!Spec
=============================================================================
