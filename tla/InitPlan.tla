------------------------------- MODULE InitPlan -------------------------------
(***************************************************************************)
(* The pure half of `praxisbound init` (packages/core/src/init.ts): which   *)
(* effects a plan has for what was observed on disk (planMutation), and     *)
(* which outcome an executed plan is given (evaluateInitMutation).          *)
(*                                                                         *)
(* A destination is observed as "missing", as a regular file with some      *)
(* content, or as "odd": a link, a directory, a special file or something   *)
(* that cannot be read.  A content stands for the bytes and the inode of a  *)
(* file; NewContent is the packaged payload of whichever path holds it.     *)
(*                                                                         *)
(* An operator marked "mistaken" is what a plausible slip would make of the  *)
(* operator after it.  No specification uses it.                            *)
(***************************************************************************)
EXTENDS Naturals, Sequences, FiniteSets, SequencesExt

CONSTANTS
  FreshDirectories,    \* managed directories of safe and force, parents first
  UpgradeDirectories,  \* managed directories of upgrade, parents first
  Stories,             \* specs/stories, which an upgrade must find
  FreshPayloads,       \* payload destinations of safe and force, in order
  UpgradePayloads,     \* payload destinations of upgrade, in order
  Marker,              \* specs/.praxisbound-adoption
  LegacyMarker,        \* specs/.forgeflow-adoption
  Contents,            \* contents a regular file can have
  NewContent,          \* the packaged payload, or the new marker text
  LegacyContents       \* contents that are a valid 0.9.0 adoption marker

Directories == Range(FreshDirectories) \cup Range(UpgradeDirectories)
Payloads    == Range(FreshPayloads) \cup Range(UpgradePayloads)
Paths       == Payloads \cup {Marker, LegacyMarker}

ASSUME PayloadOrder ==
  /\ FreshPayloads \in Seq(Range(FreshPayloads))
  /\ UpgradePayloads \in Seq(Range(UpgradePayloads))
  /\ \A s \in {FreshPayloads, UpgradePayloads} :
       \A i, j \in 1..Len(s) : s[i] = s[j] => i = j
ASSUME DirectoryOrder ==
  /\ FreshDirectories \in Seq(Range(FreshDirectories))
  /\ UpgradeDirectories \in Seq(Range(UpgradeDirectories))
ASSUME MarkersAreNoPayload ==
  /\ Marker \notin Payloads
  /\ LegacyMarker \notin Payloads
  /\ Marker # LegacyMarker
ASSUME ContentAssumption ==
  /\ NewContent \in Contents
  /\ LegacyContents \subseteq Contents
  /\ "missing" \notin Contents
  /\ "odd" \notin Contents

Modes     == {"safe", "force", "upgrade"}
FileKinds == Contents \cup {"missing", "odd"}
DirKinds  == {"missing", "odd", "theirs", "ours", "foreign"}

-----------------------------------------------------------------------------
(* The plan.                                                               *)

ActiveDirectories(mode) ==
  IF mode = "upgrade" THEN UpgradeDirectories ELSE FreshDirectories

ActivePayloads(mode) ==
  IF mode = "upgrade" THEN UpgradePayloads ELSE FreshPayloads

Destinations(mode) ==
  Range(ActivePayloads(mode)) \cup {Marker}
    \cup (IF mode = "upgrade" THEN {LegacyMarker} ELSE {})

\* What an effect leaves at its destination: the legacy marker is removed.
Target(p) == IF p = LegacyMarker THEN "missing" ELSE NewContent

\* Something in the observation scope cannot be safely inspected.
Unsafe(mode, files, dirs) ==
  \/ \E d \in Range(ActiveDirectories(mode)) : dirs[d] = "odd"
  \/ \E p \in Destinations(mode) : files[p] = "odd"

UpgradeConflict(files, dirs) ==
  \/ dirs[Stories] = "missing"
  \/ files[Marker] # "missing" /\ files[LegacyMarker] # "missing"

PlanOutcome(mode, files, dirs) ==
  CASE Unsafe(mode, files, dirs) -> "INIT_OPERATION_REFUSED"
    [] /\ ~Unsafe(mode, files, dirs)
       /\ mode = "upgrade" -> IF UpgradeConflict(files, dirs)
                              THEN "INIT_CONFLICT"
                              ELSE IF files[LegacyMarker] \in {"missing"} \cup LegacyContents
                                   THEN "INIT_PREVIEW"
                                   ELSE "INIT_OPERATION_REFUSED"
    [] /\ ~Unsafe(mode, files, dirs)
       /\ mode = "safe" -> IF \E p \in Destinations(mode) : files[p] \in Contents
                           THEN "INIT_CONFLICT"
                           ELSE "INIT_PREVIEW"
    [] OTHER -> "INIT_PREVIEW"

MarkerFirst(mode, files) == <<Marker>> \o ActivePayloads(mode) \* mistaken

\* The effects in the order they are applied; the commit marker is the last.
PlanEffects(mode, files) ==
  ActivePayloads(mode)
    \o (IF mode = "upgrade" /\ files[LegacyMarker] \in Contents
        THEN <<LegacyMarker, Marker>> ELSE <<Marker>>)

-----------------------------------------------------------------------------
(* The evaluation of an execution observation.                             *)

NoFailure == [stage |-> "none", code |-> "none"]
Failure(s, c) == [stage |-> s, code |-> c]
Failures ==
  [stage : {"none", "precondition", "prepare", "apply", "recovery", "cleanup"},
   code : {"none", "INIT_STALE_PLAN", "INIT_STAGE_COLLISION", "INIT_PAYLOAD_INVALID",
           "INIT_PREPARATION_FAILED", "INIT_INTERRUPTED", "INIT_REPLACEMENT_FAILED",
           "INIT_RESTORE_FAILED", "INIT_RECOVERY_CLEANUP_FAILED",
           "INIT_CLEANUP_FAILED"}]

Nothing(obs) ==
  /\ obs.recoveryAttempted = <<>>
  /\ obs.restored \cup obs.unrecovered = {}
  /\ obs.invalidated \cup obs.invalidationFailed = {}
  /\ obs.retained = <<>>

ValidExecutionObservation(effects, obs) ==
  /\ IsPrefix(obs.prepared, effects)
  /\ IsPrefix(obs.attempted, effects)
  /\ IsPrefix(obs.applied, obs.attempted)
  /\ Range(obs.recoveryAttempted) \cup obs.restored \cup obs.unrecovered
       \cup Range(obs.retained) \cup obs.stageResidue \subseteq Range(effects)
  /\ obs.invalidated \cup obs.invalidationFailed \subseteq {Marker}
  /\ obs.invalidated \cap obs.invalidationFailed = {}
  /\ obs.committed =>
       /\ effects = obs.prepared /\ effects = obs.attempted /\ effects = obs.applied
       /\ Nothing(obs)
       /\ ~obs.mismatched
       /\ obs.failure.stage \in {"none", "cleanup"}
       /\ obs.dirResidue = {}
  /\ (obs.mismatched \/ obs.failure.stage \in {"precondition", "prepare"}) =>
       obs.attempted = <<>> /\ obs.applied = <<>> /\ Nothing(obs)
  /\ obs.failure.stage = "cleanup" => obs.committed
  /\ (~obs.committed /\ obs.failure.stage \in {"apply", "recovery"}) =>
       /\ obs.prepared = effects
       /\ obs.recoveryAttempted = Reverse(obs.attempted)
       /\ obs.restored \cap obs.unrecovered = {}
       /\ obs.restored \cup obs.unrecovered = Range(obs.attempted)
  /\ obs.failure.stage = "apply" => obs.attempted # <<>>
  /\ obs.unrecovered \cup obs.invalidationFailed # {} => obs.retained = effects
  /\ obs.unrecovered # {} => Marker \in obs.invalidated \cup obs.invalidationFailed
  /\ obs.unrecovered = {} =>
       obs.invalidated \cup obs.invalidationFailed = {} /\ obs.retained = <<>>

EvaluateInitMutation(effects, obs) ==
  LET residue == obs.stageResidue # {} \/ obs.dirResidue # {} IN
  CASE ~ValidExecutionObservation(effects, obs) -> "ERROR"
    [] OTHER ->
         IF (obs.mismatched \/ obs.failure.stage = "precondition") /\ ~residue
         THEN "INIT_OPERATION_REFUSED"
         ELSE IF \/ obs.unrecovered \cup obs.invalidationFailed # {}
                 \/ obs.failure.stage = "recovery"
                 \/ ~obs.committed /\ residue
         THEN "INIT_RECOVERY_INCOMPLETE"
         ELSE IF ~obs.committed /\ obs.failure # NoFailure
         THEN "INIT_APPLY_FAILED_RECOVERED"
         ELSE IF residue \/ obs.failure.stage = "cleanup"
         THEN "INIT_CLEANUP_INCOMPLETE"
         ELSE IF obs.committed THEN "INIT_APPLIED" ELSE "ERROR"

Outcomes == {"INIT_CONFLICT", "INIT_OPERATION_REFUSED", "INIT_APPLIED",
             "INIT_APPLY_FAILED_RECOVERED", "INIT_RECOVERY_INCOMPLETE",
             "INIT_CLEANUP_INCOMPLETE", "ERROR"}
=============================================================================
