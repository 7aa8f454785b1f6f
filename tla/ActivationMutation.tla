--------------------------- MODULE ActivationMutation ---------------------------
(***************************************************************************)
(* `praxisbound codex activate --apply`: runActivation (packages/cli/src/     *)
(* activation.ts) and executeActivationMutation (activation-mutation.ts), one *)
(* action per operating system operation they await, in a world with faults,  *)
(* signals and somebody else editing the same target.  As in InitMutation a   *)
(* fault "before" makes an operation fail without an effect, a fault "after"  *)
(* makes it report a failure although its effect took place, and operators    *)
(* marked "mistaken" are used by no specification.  Every state is also one    *)
(* the process may be killed in.                                             *)
(***************************************************************************)
EXTENDS ActivationPlan

CONSTANTS
  FaultKinds,  \* the faults an operation may have: a subset of {"before", "after"}
  MaxFaults,   \* bound: faults in one execution
  MaxEdits     \* bound: edits by somebody else in one execution

ASSUME ActivationBounds ==
  /\ FaultKinds \subseteq {"before", "after"}
  /\ MaxFaults \in Nat
  /\ MaxEdits \in Nat

VARIABLES
  disk,        \* managed path |-> what is there
  dirs,        \* managed directory |-> what is there, and whose it is
  strangers,   \* the activation directories that hold a file of somebody else
  stage,       \* destination |-> its private staging directory
  scratch,     \* the directory outside the target that shows the payloads
  apply,       \* --apply was given
  pre,         \* the preconditions of the plan: what was observed
  effects,     \* the effects of the plan, in order
  pc,          \* what the execution does next
  cursor,      \* the index of the loop that is running
  created,     \* createdDirectories, in creation order
  staged,      \* createdStages, in creation order, named by their destination
  prepared, attempted, applied, recoveryAttempted,
  restored, unrecovered, invalidated, invalidationFailed,
  stageResidue, dirResidue,
  mismatched,  \* preconditionMismatches is not empty
  committed, failure,
  interrupted, \* a caught signal has set the flag shouldAbort reads
  outcome,     \* the outcome of the result so far, "none" before there is one
  faults, edits,
  theirs,      \* history: the files as they would be without this execution
  touched      \* history: when somebody else last changed a path or its stage

target   == <<disk, dirs, strangers, stage>>
plan     == <<apply, pre, effects>>
owned    == <<created, staged>>
progress == <<prepared, attempted, applied>>
recovery == <<recoveryAttempted, restored, unrecovered, invalidated, invalidationFailed>>
residue  == <<stageResidue, dirResidue>>
verdict  == <<mismatched, committed, failure, outcome>>
history  == <<edits, theirs, touched>>
vars == <<target, scratch, plan, pc, cursor, owned, progress, recovery, residue,
          verdict, interrupted, faults, history>>

NoStage  == [owner |-> "none", original |-> "missing", new |-> FALSE]
NewStage == [owner |-> "run", original |-> "missing", new |-> FALSE]

Observing == {"directories", "make stage", "copy original", "write new", "recapture"}
Mutating  == {"poll", "apply", "remove legacy", "recreate legacy", "recover",
              "invalidate", "clean stages", "clean directories", "finish"}

Exists(d) ==
  d \in {"root"} \cup {e \in Range(Directories) : dirs[e] \in {"theirs", "ours"}}

Members(d) ==
  {p \in Paths : Parent[p] = d /\ disk[p] # "missing"}
    \cup {p \in Paths : StageParent(p) = d /\ stage[p].owner # "none"}
    \cup {e \in Range(Directories) : Parent[e] = d /\ dirs[e] # "missing"}
IsEmpty(d) == Members(d) = {} /\ d \notin strangers

\* The activation directories with entries planActivation does not know.
Crowded ==
  strangers \cup {d \in {SkillDirectory, LegacyDirectory} :
                    \E p \in Paths : StageParent(p) = d /\ stage[p].owner # "none"}

\* What planning the same activation again would answer now.
Replanned == PlanOutcome(disk, dirs, Crowded)

Observation ==
  [committed |-> committed, prepared |-> prepared, attempted |-> attempted,
   applied |-> applied, recoveryAttempted |-> recoveryAttempted,
   restored |-> restored, unrecovered |-> unrecovered,
   invalidated |-> invalidated, invalidationFailed |-> invalidationFailed,
   retained |-> IF unrecovered = {} THEN <<>> ELSE staged,
   stageResidue |-> stageResidue, dirResidue |-> dirResidue,
   mismatched |-> mismatched, failure |-> failure]

Operation(f) ==
  /\ f \in FaultKinds \cup {"none"}
  /\ f # "none" => faults < MaxFaults
  /\ faults' = IF f = "none" THEN faults ELSE faults + 1

HasEffect(f) == f # "before"

-----------------------------------------------------------------------------
(* The targets an execution may find: an adopted repository with no          *)
(* activation, the packaged one, an earlier one or that of ForgeFlow, in      *)
(* which one file or directory may be anything else.                         *)

BaseFiles(tuple) == [p \in Paths |->
  CASE p = Adoption -> "valid"
    [] p = "AGENTS.md" -> tuple
    [] p \in Range(Legacy) -> IF tuple = "v090" THEN "v090" ELSE "missing"
    [] p = "snapshot" -> IF tuple \in {"new", "old"} THEN tuple ELSE "missing"
    [] OTHER -> CASE tuple = "new" -> "new" [] tuple = "old" -> OldAsset(p) [] OTHER -> "missing"]
BaseDirectories(tuple) == [d \in Range(Directories) |->
  CASE d = SkillDirectory -> IF tuple \in {"new", "old"} THEN "theirs" ELSE "missing"
    [] d = LegacyDirectory -> IF tuple = "v090" THEN "theirs" ELSE "missing"
    [] OTHER -> "theirs"]

Init ==
  /\ \E tuple \in {"plain", "new", "old", "v090"} :
       /\ \E p \in Paths : \E kind \in Kinds(p) :
            disk = [BaseFiles(tuple) EXCEPT ![p] = kind]
       /\ \E d \in Range(Directories), kind \in {"missing", "odd", "theirs"} :
            dirs = [BaseDirectories(tuple) EXCEPT ![d] = kind]
  /\ strangers \in SUBSET {SkillDirectory, LegacyDirectory}
  /\ \A p \in Paths : disk[p] # "missing" => Exists(Parent[p])
  /\ \A d \in Range(Directories) : dirs[d] # "missing" => Exists(Parent[d])
  /\ \A d \in strangers : Exists(d)
  /\ stage = [p \in Paths |-> NoStage]
  /\ scratch = "none"
  /\ apply \in BOOLEAN
  /\ pre = [files |-> disk, dirs |-> dirs]
  /\ effects = <<>>
  /\ pc = "plan" /\ cursor = 0
  /\ created = <<>> /\ staged = <<>>
  /\ prepared = <<>> /\ attempted = <<>> /\ applied = <<>>
  /\ recoveryAttempted = <<>> /\ restored = {} /\ unrecovered = {}
  /\ invalidated = {} /\ invalidationFailed = {}
  /\ stageResidue = {} /\ dirResidue = {}
  /\ mismatched = FALSE /\ committed = FALSE
  /\ failure = NoFailure /\ outcome = "none"
  /\ interrupted = FALSE
  /\ faults = 0 /\ edits = 0
  /\ theirs = disk
  /\ touched = [p \in Paths |-> "never"]

(* inspect and planActivation: a target or packaged source that cannot be     *)
(* read refuses the operation; what cannot be planned ends it.               *)
Plan ==
  /\ pc = "plan"
  /\ pre' = [files |-> disk, dirs |-> dirs]
  /\ \E acquired \in BOOLEAN :
       LET result == IF acquired THEN Replanned ELSE "ACTIVATION_OPERATION_REFUSED" IN
       /\ outcome' = result
       /\ IF result \in {"ACTIVATION_PREVIEW", "ACTIVATION_UNCHANGED"}
          THEN /\ effects' = IF result = "ACTIVATION_PREVIEW" THEN PlanEffects(dirs) ELSE <<>>
               /\ pc' = "make scratch"
          ELSE /\ pc' = "done"
               /\ UNCHANGED effects
  /\ UNCHANGED <<target, scratch, apply, cursor, owned, progress, recovery, residue,
                 mismatched, committed, failure, interrupted, faults, history>>

(* The payloads are first written to a private directory outside the target. *)
(* When that fails, nothing is applied, and it may even be left behind.       *)
MakeScratch ==
  /\ pc = "make scratch"
  /\ \E made \in {"prepared", "none", "left"} :
       /\ scratch' = made
       /\ IF made = "prepared"
          THEN /\ pc' = IF apply /\ outcome = "ACTIVATION_PREVIEW" THEN "validate"
                        ELSE "clean scratch"
               /\ UNCHANGED outcome
          ELSE /\ outcome' = EvaluateScratchCleanup(outcome, FALSE, made = "none")
               /\ pc' = "done"
  /\ UNCHANGED <<target, plan, cursor, owned, progress, recovery, residue,
                 mismatched, committed, failure, interrupted, faults, history>>

-----------------------------------------------------------------------------
(* Preparation.                                                            *)

StalePaths == {p \in Paths : disk[p] # pre.files[p]}

\* A directory this execution made counts as the missing one it replaced; the
\* activation directories count with their members, of which stages are ignored.
StaleDirectories ==
  {d \in Range(Directories) :
     /\ dirs[d] # pre.dirs[d]
     /\ ~(pre.dirs[d] = "missing" /\ dirs[d] = "ours" /\ d \in Range(created))}
    \cup strangers

(* The root identity, the payloads and every precondition are checked before *)
(* the first mutation; the first two may refuse.                             *)
Validate ==
  /\ pc = "validate"
  /\ \E refusal \in {"none", "ACTIVATION_STALE_PLAN", "ACTIVATION_PAYLOAD_INVALID"} : LET
         collision == \E p \in Range(effects) : stage[p].owner # "none"
         stale == StalePaths \cup StaleDirectories # {}
       IN
       IF refusal = "none" /\ ~stale /\ ~collision
       THEN /\ pc' = "directories"
            /\ cursor' = 3
            /\ UNCHANGED <<mismatched, failure>>
       ELSE /\ failure' = Failure("precondition",
                 IF refusal # "none" THEN refusal
                 ELSE IF stale THEN "ACTIVATION_STALE_PLAN" ELSE "ACTIVATION_STAGE_COLLISION")
            /\ mismatched' = (refusal = "none")
            /\ pc' = "finish"
            /\ UNCHANGED cursor
  /\ UNCHANGED <<target, scratch, plan, owned, progress, recovery, residue,
                 committed, outcome, interrupted, faults, history>>

\* A failed preparation removes what it made, latest first.
Abandon(stageName, code) ==
  /\ failure' = Failure(stageName, code)
  /\ pc' = "clean stages"
  /\ cursor' = Len(staged)

\* One iteration over the directories below specs; the legacy one is only input.
MakeDirectory ==
  /\ pc = "directories"
  /\ cursor <= Len(Directories)
  /\ LET d == Directories[cursor] IN
       IF pre.dirs[d] # "missing" \/ d = LegacyDirectory
       THEN /\ cursor' = cursor + 1
            /\ UNCHANGED <<dirs, pc, created, failure, faults>>
       ELSE \E f \in FaultKinds \cup {"none"} :
         LET possible == dirs[d] = "missing" /\ Exists(Parent[d]) IN
         /\ Operation(f)
         /\ dirs' = IF possible /\ HasEffect(f) THEN [dirs EXCEPT ![d] = "ours"] ELSE dirs
         /\ IF possible /\ f = "none"
            THEN /\ created' = Append(created, d)
                 /\ cursor' = cursor + 1
                 /\ UNCHANGED <<pc, failure>>
            ELSE /\ Abandon("prepare", "ACTIVATION_PREPARATION_FAILED")
                 /\ UNCHANGED created
  /\ UNCHANGED <<disk, strangers, stage, scratch, plan, staged, progress, recovery,
                 residue, mismatched, committed, outcome, interrupted, history>>

DirectoriesMade ==
  /\ pc = "directories"
  /\ cursor > Len(Directories)
  /\ pc' = "make stage"
  /\ UNCHANGED <<target, scratch, plan, cursor, owned, progress, recovery, residue,
                 verdict, interrupted, faults, history>>

\* The destination whose effect is being prepared.
Current == effects[Len(prepared) + 1]

MakeStage ==
  /\ pc = "make stage"
  /\ Len(prepared) < Len(effects)
  /\ \E f \in FaultKinds \cup {"none"} : LET
         p == Current
         possible == stage[p].owner = "none" /\ Exists(StageParent(p))
       IN
       /\ Operation(f)
       /\ stage' = IF possible /\ HasEffect(f) THEN [stage EXCEPT ![p] = NewStage] ELSE stage
       /\ IF possible /\ f = "none"
          THEN /\ staged' = Append(staged, p)
               /\ pc' = "copy original"
               /\ UNCHANGED <<cursor, failure>>
          ELSE /\ Abandon("prepare", "ACTIVATION_PREPARATION_FAILED")
               /\ UNCHANGED staged
  /\ UNCHANGED <<disk, dirs, strangers, scratch, plan, created, progress, recovery,
                 residue, mismatched, committed, outcome, interrupted, history>>

(* The original is read, compared with the plan, and only then copied.       *)
CopyOriginal ==
  /\ pc = "copy original"
  /\ LET p == Current
         stale == disk[p] # pre.files[p]
     IN
     IF pre.files[p] = "missing"
     THEN /\ pc' = "write new"
          /\ UNCHANGED <<stage, cursor, mismatched, failure, faults>>
     ELSE \E f \in FaultKinds \cup {"none"} :
       LET readable == Sound(disk[p]) \/ disk[p] = "empty"
           possible == readable /\ stage[p].owner = "run"
       IN
       /\ Operation(f)
       /\ stage' = IF possible /\ ~stale /\ HasEffect(f)
                   THEN [stage EXCEPT ![p].original = pre.files[p]] ELSE stage
       /\ IF readable /\ stale /\ f = "none"
          THEN /\ mismatched' = TRUE
               /\ Abandon("precondition", "ACTIVATION_STALE_PLAN")
          ELSE IF possible /\ f = "none"
          THEN /\ pc' = "write new"
               /\ UNCHANGED <<cursor, mismatched, failure>>
          ELSE /\ Abandon("prepare", "ACTIVATION_PREPARATION_FAILED")
               /\ UNCHANGED mismatched
  /\ UNCHANGED <<disk, dirs, strangers, scratch, plan, owned, progress, recovery,
                 residue, committed, outcome, interrupted, history>>

WriteNew ==
  /\ pc = "write new"
  /\ \E f \in FaultKinds \cup {"none"} : LET
         p == Current
         removal == p \in Range(Legacy)
         possible == removal \/ stage[p].owner = "run"
       IN
       /\ removal => f = "none"
       /\ Operation(f)
       /\ stage' = IF ~removal /\ possible /\ HasEffect(f)
                   THEN [stage EXCEPT ![p].new = TRUE] ELSE stage
       /\ IF possible /\ f = "none"
          THEN /\ prepared' = Append(prepared, p)
               /\ pc' = "make stage"
               /\ UNCHANGED <<cursor, failure>>
          ELSE /\ Abandon("prepare", "ACTIVATION_PREPARATION_FAILED")
               /\ UNCHANGED prepared
  /\ UNCHANGED <<disk, dirs, strangers, scratch, plan, owned, attempted, applied,
                 recovery, residue, mismatched, committed, outcome, interrupted, history>>

AllPrepared ==
  /\ pc = "make stage"
  /\ Len(prepared) = Len(effects)
  /\ pc' = "recapture"
  /\ UNCHANGED <<target, scratch, plan, cursor, owned, progress, recovery, residue,
                 verdict, interrupted, faults, history>>

\* Everything is observed once more before the first destination is replaced.
OwnedChanged ==
  \/ \E d \in Range(created) : dirs[d] # "ours"
  \/ \E p \in Range(staged) : stage[p].owner # "run"
StaleBeforeApply == StaleDirectories # {} \/ OwnedChanged \* mistaken
Stale == StalePaths \cup StaleDirectories # {} \/ OwnedChanged

Recapture ==
  /\ pc = "recapture"
  /\ IF Stale
     THEN /\ mismatched' = TRUE
          /\ Abandon("precondition", "ACTIVATION_STALE_PLAN")
     ELSE /\ pc' = "poll"
          /\ UNCHANGED <<mismatched, failure, cursor>>
  /\ UNCHANGED <<target, scratch, plan, owned, progress, recovery, residue,
                 committed, outcome, interrupted, faults, history>>

PollBeforeApply ==
  /\ pc = "poll"
  /\ IF interrupted
     THEN Abandon("prepare", "ACTIVATION_INTERRUPTED")
     ELSE /\ pc' = "apply"
          /\ UNCHANGED <<failure, cursor>>
  /\ UNCHANGED <<target, scratch, plan, owned, progress, recovery, residue,
                 mismatched, committed, outcome, interrupted, faults, history>>

-----------------------------------------------------------------------------
(* Application: the legacy files are removed first, the snapshot comes last, *)
(* and a migration ends with the removal of the legacy directory.            *)

Fail(code) ==
  /\ failure' = Failure("apply", code)
  /\ pc' = "recover"

ApplyEffect ==
  /\ pc = "apply"
  /\ Len(attempted) < Len(effects)
  /\ \E f \in FaultKinds \cup {"none"} : LET
         p == effects[Len(attempted) + 1]
         possible == p \in Range(Legacy) \/ (stage[p].new /\ Exists(Parent[p]))
       IN
       /\ Operation(f)
       /\ attempted' = Append(attempted, p)
       /\ IF possible /\ HasEffect(f)
          THEN /\ disk' = [disk EXCEPT ![p] = Target(p)]
               /\ stage' = [stage EXCEPT ![p].new = FALSE]
          ELSE UNCHANGED <<disk, stage>>
       /\ IF possible /\ f = "none"
          THEN /\ applied' = Append(applied, p)
               /\ IF interrupted THEN Fail("ACTIVATION_INTERRUPTED")
                                 ELSE UNCHANGED <<failure, pc>>
          ELSE /\ Fail("ACTIVATION_REPLACEMENT_FAILED")
               /\ UNCHANGED applied
  /\ UNCHANGED <<dirs, strangers, scratch, plan, cursor, owned, prepared, recovery,
                 residue, mismatched, committed, outcome, interrupted, history>>

NothingToMigrate == LegacyDirectory \notin {Parent[p] : p \in Range(effects)}

AllApplied ==
  /\ pc = "apply"
  /\ Len(attempted) = Len(effects)
  /\ IF NothingToMigrate
     THEN /\ committed' = TRUE
          /\ pc' = "clean stages"
          /\ cursor' = Len(staged)
     ELSE /\ pc' = "remove legacy"
          /\ UNCHANGED <<committed, cursor>>
  /\ UNCHANGED <<target, scratch, plan, owned, progress, recovery, residue,
                 mismatched, failure, outcome, interrupted, faults, history>>

(* lstat and rmdir, which removes nothing but an empty directory.            *)
RemovableWithContents == dirs[LegacyDirectory] = "theirs" \* mistaken
Removable == dirs[LegacyDirectory] = "theirs" /\ IsEmpty(LegacyDirectory)

RemoveLegacy ==
  /\ pc = "remove legacy"
  /\ \E f \in FaultKinds \cup {"none"} :
       /\ Operation(f)
       /\ IF Removable /\ HasEffect(f)
          THEN dirs' = [dirs EXCEPT ![LegacyDirectory] = "missing"]
          ELSE UNCHANGED dirs
       /\ IF Removable /\ f = "none"
          THEN /\ committed' = TRUE
               /\ pc' = "clean stages"
               /\ cursor' = Len(staged)
          ELSE /\ pc' = "recreate legacy"
               /\ UNCHANGED <<committed, cursor>>
  /\ UNCHANGED <<disk, strangers, stage, scratch, plan, owned, progress, recovery,
                 residue, mismatched, failure, outcome, interrupted, history>>

\* If the directory is gone although its removal failed, it is made again, so
\* that its files can be restored; when that fails, they cannot.
RecreateLegacy ==
  /\ pc = "recreate legacy"
  /\ \E f \in FaultKinds \cup {"none"} : LET
         gone == dirs[LegacyDirectory] = "missing"
         possible == gone /\ Exists(Parent[LegacyDirectory])
       IN
       /\ gone \/ f = "none"
       /\ Operation(f)
       /\ dirs' = IF possible /\ HasEffect(f) THEN [dirs EXCEPT ![LegacyDirectory] = "ours"]
                  ELSE dirs
  /\ Fail("ACTIVATION_REPLACEMENT_FAILED")
  /\ UNCHANGED <<disk, strangers, stage, scratch, plan, cursor, owned, progress,
                 recovery, residue, mismatched, committed, outcome, interrupted, history>>

-----------------------------------------------------------------------------
(* Recovery visits every attempted effect, latest first.  A copy is restored *)
(* only if it is still the file the plan was made for.                       *)

Recovered == Len(recoveryAttempted) = Len(attempted)

Absence(p) == "missing" \* mistaken
Restoration(p) == pre.files[p]

RecoverEffect ==
  /\ pc = "recover"
  /\ ~Recovered
  /\ \E f \in FaultKinds \cup {"none"} : LET
         p == attempted[Len(attempted) - Len(recoveryAttempted)]
         possible == \/ pre.files[p] = "missing"
                     \/ stage[p].original = pre.files[p] /\ Exists(Parent[p])
       IN
       /\ Operation(f)
       /\ recoveryAttempted' = Append(recoveryAttempted, p)
       /\ disk' = IF possible /\ HasEffect(f) THEN [disk EXCEPT ![p] = Restoration(p)] ELSE disk
       /\ IF possible /\ f = "none"
          THEN /\ restored' = restored \cup {p}
               /\ UNCHANGED unrecovered
          ELSE /\ unrecovered' = unrecovered \cup {p}
               /\ UNCHANGED restored
  /\ UNCHANGED <<dirs, strangers, stage, scratch, plan, pc, cursor, owned, progress,
                 invalidated, invalidationFailed, residue, verdict, interrupted, history>>

RecoveryEnds ==
  /\ pc = "recover"
  /\ Recovered
  /\ IF unrecovered = {}
     THEN /\ pc' = "clean stages"
          /\ cursor' = Len(staged)
     ELSE /\ pc' = "invalidate"
          /\ UNCHANGED cursor
  /\ UNCHANGED <<target, scratch, plan, owned, progress, recovery, residue,
                 verdict, interrupted, faults, history>>

\* A snapshot that can vouch for nothing any more is removed; the copies are kept.
Invalidate ==
  /\ pc = "invalidate"
  /\ \E f \in FaultKinds \cup {"none"} :
       /\ Operation(f)
       /\ disk' = IF HasEffect(f) THEN [disk EXCEPT ![CommitMarker] = "missing"] ELSE disk
       /\ IF f = "none"
          THEN invalidated' = {CommitMarker} /\ UNCHANGED invalidationFailed
          ELSE invalidationFailed' = {CommitMarker} /\ UNCHANGED invalidated
  /\ failure' = Failure("recovery", "ACTIVATION_RESTORE_FAILED")
  /\ pc' = "finish"
  /\ UNCHANGED <<dirs, strangers, stage, scratch, plan, cursor, owned, progress,
                 recoveryAttempted, restored, unrecovered, residue, mismatched,
                 committed, outcome, interrupted, history>>

-----------------------------------------------------------------------------
(* Cleanup.                                                                *)

\* What may be left of a stage when its cleanup fails: files go one by one.
PartlyCleaned(s) == {s, [s EXCEPT !.new = FALSE], [s EXCEPT !.new = FALSE, !.original = "missing"]}

CleanStage ==
  /\ pc = "clean stages"
  /\ cursor > 0
  /\ cursor' = cursor - 1
  /\ LET p == staged[cursor] IN
       IF stage[p].owner = "run"
       THEN \E f \in FaultKinds \cup {"none"} :
              /\ Operation(f)
              /\ IF HasEffect(f)
                 THEN /\ stage' = [stage EXCEPT ![p] = NoStage]
                      /\ UNCHANGED stageResidue
                 ELSE /\ \E left \in PartlyCleaned(stage[p]) : stage' = [stage EXCEPT ![p] = left]
                      /\ stageResidue' = stageResidue \cup {p}
       ELSE /\ stageResidue' = IF stage[p].owner = "none" THEN stageResidue
                               ELSE stageResidue \cup {p}
            /\ UNCHANGED <<stage, faults>>
  /\ UNCHANGED <<disk, dirs, strangers, scratch, plan, pc, owned, progress, recovery,
                 dirResidue, verdict, interrupted, history>>

\* A committed execution keeps the directories it made.
StagesCleaned ==
  /\ pc = "clean stages"
  /\ cursor = 0
  /\ IF committed THEN pc' = "finish" /\ UNCHANGED cursor
                  ELSE pc' = "clean directories" /\ cursor' = Len(created)
  /\ UNCHANGED <<target, scratch, plan, owned, progress, recovery, residue, verdict,
                 interrupted, faults, history>>

CleanDirectory ==
  /\ pc = "clean directories"
  /\ cursor > 0
  /\ cursor' = cursor - 1
  /\ LET d == created[cursor] IN
       IF dirs[d] = "ours" /\ IsEmpty(d)
       THEN \E f \in FaultKinds \cup {"none"} :
              /\ Operation(f)
              /\ IF HasEffect(f)
                 THEN dirs' = [dirs EXCEPT ![d] = "missing"] /\ UNCHANGED dirResidue
                 ELSE dirResidue' = dirResidue \cup {d} /\ UNCHANGED dirs
       ELSE /\ dirResidue' = IF dirs[d] = "missing" THEN dirResidue ELSE dirResidue \cup {d}
            /\ UNCHANGED <<dirs, faults>>
  /\ UNCHANGED <<disk, strangers, stage, scratch, plan, pc, owned, progress, recovery,
                 stageResidue, verdict, interrupted, history>>

DirectoriesCleaned ==
  /\ pc = "clean directories"
  /\ cursor = 0
  /\ pc' = "finish"
  /\ UNCHANGED <<target, scratch, plan, cursor, owned, progress, recovery, residue,
                 verdict, interrupted, faults, history>>

\* Residue turns a failure, or none, into a cleanup failure.
ReportedFailure ==
  IF stageResidue \cup dirResidue = {} THEN failure
  ELSE IF committed THEN Failure("cleanup", "ACTIVATION_CLEANUP_FAILED")
  ELSE IF failure.stage = "prepare" THEN Failure("prepare", "ACTIVATION_CLEANUP_FAILED")
  ELSE failure

\* The observation is returned and Core evaluates it.
Finish ==
  /\ pc = "finish"
  /\ failure' = ReportedFailure
  /\ outcome' = EvaluateActivationMutation(effects, [Observation EXCEPT !.failure = ReportedFailure])
  /\ pc' = "clean scratch"
  /\ UNCHANGED <<target, scratch, plan, cursor, owned, progress, recovery, residue,
                 mismatched, committed, interrupted, faults, history>>

CleanScratch ==
  /\ pc = "clean scratch"
  /\ \E left \in {"none", "left"} :
       /\ scratch' = left
       /\ outcome' = EvaluateScratchCleanup(outcome, TRUE, left = "none")
  /\ pc' = "done"
  /\ UNCHANGED <<target, plan, cursor, owned, progress, recovery, residue,
                 mismatched, committed, failure, interrupted, faults, history>>

-----------------------------------------------------------------------------
(* The environment.                                                        *)

\* SIGHUP, SIGINT and SIGTERM set a flag while the mutation runs.
Signal ==
  /\ pc \in {"validate"} \cup Observing \cup Mutating
  /\ ~interrupted
  /\ interrupted' = TRUE
  /\ UNCHANGED <<target, scratch, plan, pc, cursor, owned, progress, recovery,
                 residue, verdict, faults, history>>

(* Somebody else changes the target once it has been planned for.  Up to the *)
(* recapture such a change is early, after it late.                          *)
Edit ==
  /\ pc \in {"validate"} \cup Observing \cup Mutating
  /\ edits < MaxEdits
  /\ edits' = edits + 1
  /\ UNCHANGED <<scratch, plan, pc, cursor, owned, progress, recovery, residue,
                 verdict, interrupted, faults>>

Touch(p) ==
  touched' = [touched EXCEPT ![p] = IF pc \in {"validate"} \cup Observing THEN "early" ELSE "late"]

EditFile(p, kind) ==
  /\ Edit
  /\ disk[p] # kind
  /\ Exists(Parent[p])
  /\ disk' = [disk EXCEPT ![p] = kind]
  /\ theirs' = [theirs EXCEPT ![p] = kind]
  /\ Touch(p)
  /\ UNCHANGED <<dirs, strangers, stage>>

EditStage(p, owner) ==
  /\ Edit
  /\ stage[p].owner # owner
  /\ Exists(StageParent(p))
  /\ stage' = [stage EXCEPT ![p] = [NoStage EXCEPT !.owner = owner]]
  /\ Touch(p)
  /\ UNCHANGED <<disk, dirs, strangers, theirs>>

\* A file that is none of the managed ones appears in an activation directory.
AddStranger(d) ==
  /\ Edit
  /\ d \notin strangers /\ Exists(d)
  /\ strangers' = strangers \cup {d}
  /\ UNCHANGED <<disk, dirs, stage, theirs, touched>>

Next ==
  \/ Plan \/ MakeScratch \/ Validate \/ MakeDirectory \/ DirectoriesMade
  \/ MakeStage \/ CopyOriginal \/ WriteNew \/ AllPrepared \/ Recapture
  \/ PollBeforeApply \/ ApplyEffect \/ AllApplied \/ RemoveLegacy \/ RecreateLegacy
  \/ RecoverEffect \/ RecoveryEnds \/ Invalidate
  \/ CleanStage \/ StagesCleaned \/ CleanDirectory \/ DirectoriesCleaned
  \/ Finish \/ CleanScratch
  \/ Signal
  \/ \E p \in Paths : \/ \E kind \in Kinds(p) \cap {"missing", "odd", "edited"} : EditFile(p, kind)
                      \/ \E owner \in {"none", "foreign"} : EditStage(p, owner)
  \/ \E d \in {SkillDirectory, LegacyDirectory} : AddStranger(d)

Spec == Init /\ [][Next]_vars

-----------------------------------------------------------------------------
(* Properties.                                                             *)

Planned == Range(effects)

\* A directory was made, for itself or as a stage, by a call that then failed.
Torn ==
  \/ \E d \in Range(Directories) \ Range(created) : pre.dirs[d] = "missing" /\ dirs[d] = "ours"
  \/ \E p \in Paths \ Range(staged) : stage[p].owner = "run"

(* A result is as good as its word when the same activation is planned again *)
(* (activation.ts:1400-1430): after ACTIVATION_APPLIED there is nothing to do,*)
(* and after a failure that was recovered from, or a refusal, there is to do  *)
(* exactly what there was before.                                            *)
ResultHoldsOnReplan ==
  (pc = "done" /\ edits = 0) =>
    /\ outcome = "ACTIVATION_APPLIED" => Replanned = "ACTIVATION_UNCHANGED"
    /\ (outcome = "ACTIVATION_APPLY_FAILED_RECOVERED" /\ ~Torn) =>
         /\ Replanned = "ACTIVATION_PREVIEW"
         /\ PlanEffects(dirs) = effects
         /\ disk = pre.files
    /\ outcome \in {"ACTIVATION_OPERATION_REFUSED", "ACTIVATION_CONFLICT"} =>
         disk = pre.files /\ dirs = pre.dirs

(* Wherever the process dies, the next run does not take a half-made          *)
(* activation for anything else: it plans again only over exactly what was    *)
(* there, finds nothing to do only when everything is, and otherwise reports   *)
(* a conflict.                                                              *)
PartialIsRefused ==
  edits = 0 =>
    /\ Replanned = "ACTIVATION_PREVIEW" => disk = pre.files
    /\ Replanned = "ACTIVATION_UNCHANGED" =>
         disk = pre.files \/ \A p \in Planned : disk[p] = Target(p)

(* A migration from ForgeFlow is all or nothing: it commits only with the      *)
(* legacy directory gone, which never takes a file of somebody else with it,   *)
(* and when it ends otherwise every legacy file is back, or named.            *)
MigrationIsWhole ==
  Range(Legacy) \subseteq Planned =>
    /\ committed => dirs[LegacyDirectory] = "missing"
    /\ LegacyDirectory \in strangers => dirs[LegacyDirectory] # "missing"
    /\ (pc = "done" /\ ~committed) =>
         \A p \in Range(Legacy) :
           touched[p] = "never" => disk[p] = pre.files[p] \/ p \in unrecovered

(* A change somebody else made before the recapture is never overwritten.     *)
EarlyEditsSurvive ==
  \A p \in Planned :
    touched[p] # "late" /\ attempted # <<>> => theirs[p] = pre.files[p]

=============================================================================
