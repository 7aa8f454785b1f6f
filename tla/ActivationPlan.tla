----------------------------- MODULE ActivationPlan -----------------------------
(***************************************************************************)
(* The pure half of `praxisbound codex activate` (packages/core/src/         *)
(* activation.ts): what planActivation makes of an observed target, and      *)
(* which outcome an executed plan is given.                                  *)
(*                                                                         *)
(* A file is "missing", "odd" (a link, a directory, unreadable), "empty", or *)
(* has contents: "new" is the packaged payload, "old" that of an earlier     *)
(* activation, "v090" that of ForgeFlow 0.9.0, and "edited" anything else.   *)
(* AGENTS.md is told apart by the section it holds: "plain" has none, "both" *)
(* has two, "torn" a malformed one.  What surrounds the section is kept.      *)
(***************************************************************************)
EXTENDS Naturals, Sequences, FiniteSets, SequencesExt

CONSTANT
  SameAssets \* the assets an earlier activation shares with the packaged one

ASSUME AssetAssumption == SameAssets \subseteq {"skill", "workflow"}

Activated == <<"AGENTS.md", "skill", "workflow", "snapshot">>
Legacy    == <<"legacy skill", "legacy workflow", "legacy snapshot">>
CommitMarker == "snapshot"
Adoption  == "adoption"
Paths     == Range(Activated) \cup Range(Legacy) \cup {Adoption}

SkillDirectory  == "skills/praxisbound"
LegacyDirectory == "skills/forgeflow"
Directories == <<"specs", "specs/stories", ".agents", ".agents/skills",
                 SkillDirectory, LegacyDirectory>>

Parent == [x \in Paths \cup Range(Directories) |->
  CASE x \in {"skill", "workflow", "snapshot"} -> SkillDirectory
    [] x \in Range(Legacy) -> LegacyDirectory
    [] x \in {SkillDirectory, LegacyDirectory} -> ".agents/skills"
    [] x = ".agents/skills" -> ".agents"
    [] x \in {Adoption, "specs/stories"} -> "specs"
    [] OTHER -> "root"]

\* Staging directories are siblings of what they replace, except that those of
\* the legacy files must outlive the legacy directory.
StageParent(p) == IF p \in Range(Legacy) THEN Parent[LegacyDirectory] ELSE Parent[p]

Contents(p) ==
  CASE p = "AGENTS.md" -> {"plain", "new", "old", "v090", "both", "torn", "edited"}
    [] p \in Range(Legacy) -> {"v090", "edited"}
    [] p = Adoption -> {"valid", "edited"}
    [] OTHER -> {"new", "old", "edited"}
Kinds(p) == Contents(p) \cup {"missing", "odd", "empty"}
AllKinds == UNION {Kinds(p) : p \in Paths}

-----------------------------------------------------------------------------
(* The plan.  `crowded` are the directories with entries that are none of    *)
(* the managed paths.                                                       *)

\* How many section markers findMarkerSpan finds, -1 when they are malformed.
Span(agents) ==
  CASE agents \in {"new", "old", "edited", "both"} -> 2
    [] agents = "torn" -> -1
    [] OTHER -> 0
LegacySpan(agents) ==
  CASE agents \in {"v090", "both"} -> 2
    [] agents = "torn" -> -1
    [] OTHER -> 0

Sound(kind) == kind \notin {"missing", "odd", "empty"}

OldAsset(p) == IF p \in SameAssets THEN "new" ELSE "old"

\* The snapshot carries its version and the checksums of the skill, the workflow
\* and the section: it is valid only over exactly those.
ValidInstalledSnapshot(files) ==
  \/ \A p \in Range(Activated) : files[p] = "new"
  \/ /\ files["snapshot"] = "old"
     /\ files["AGENTS.md"] = "old"
     /\ \A p \in {"skill", "workflow"} : files[p] = OldAsset(p)

ValidLegacySnapshot(files) ==
  /\ \A p \in Range(Legacy) : files[p] = "v090"
  /\ files["AGENTS.md"] = "v090"

\* The directory holds the three managed files and nothing else.
ExactMembers(d, files, crowded) ==
  /\ d \notin crowded
  /\ \A p \in Paths : Parent[p] = d => files[p] # "missing"

\* What is installed in a directory, its AGENTS section and its snapshot disagree.
OwnershipConflict(files, dirs) ==
  LET installed == dirs[SkillDirectory] # "missing"
      legacy    == dirs[LegacyDirectory] # "missing"
  IN
  \/ installed /\ \E p \in {"skill", "workflow", "snapshot"} : ~Sound(files[p])
  \/ legacy /\ \E p \in Range(Legacy) : ~Sound(files[p])
  \/ Span(files["AGENTS.md"]) # (IF installed THEN 2 ELSE 0)
  \/ LegacySpan(files["AGENTS.md"]) # (IF legacy THEN 2 ELSE 0)
  \/ installed /\ ~ValidInstalledSnapshot(files)
  \/ legacy /\ ~ValidLegacySnapshot(files)

\* The conditions in the order planActivation returns at the first that holds.
Obstacles(files, dirs, crowded) ==
  LET installed == dirs[SkillDirectory] # "missing"
      legacy    == dirs[LegacyDirectory] # "missing"
      obstacle(condition, outcome) == IF condition THEN <<outcome>> ELSE <<>>
      refused(condition)  == obstacle(condition, "ACTIVATION_OPERATION_REFUSED")
      conflict(condition) == obstacle(condition, "ACTIVATION_CONFLICT")
  IN refused(\E d \in Range(Directories) : dirs[d] = "odd")
     \o conflict("missing" \in {dirs["specs"], dirs["specs/stories"]})
     \o conflict(files["AGENTS.md"] = "missing")
     \o refused(files["AGENTS.md"] \in {"odd", "empty"})
     \o refused(files[Adoption] = "odd")
     \o conflict(files[Adoption] \in {"empty", "edited"})
     \o conflict(installed /\ legacy)
     \o conflict(installed /\ ~ExactMembers(SkillDirectory, files, crowded))
     \o conflict(legacy /\ ~ExactMembers(LegacyDirectory, files, crowded))
     \o refused(\E p \in {"skill", "workflow", "snapshot"} : files[p] = "odd")
     \o conflict(OwnershipConflict(files, dirs))

\* mistaken: where there is a snapshot, it is believed
PlanOutcomeBySnapshot(files, dirs, crowded) ==
  LET obstacles == Obstacles(files, dirs, crowded) IN
  CASE files["snapshot"] = "new" -> "ACTIVATION_UNCHANGED"
    [] files["snapshot"] = "old" -> "ACTIVATION_PREVIEW"
    [] OTHER -> IF obstacles # <<>> THEN Head(obstacles) ELSE "ACTIVATION_PREVIEW"

PlanOutcome(files, dirs, crowded) ==
  LET obstacles == Obstacles(files, dirs, crowded) IN
  IF obstacles # <<>> THEN Head(obstacles)
  ELSE IF /\ dirs[LegacyDirectory] = "missing"
          /\ \A p \in Range(Activated) : files[p] = "new"
  THEN "ACTIVATION_UNCHANGED"
  ELSE "ACTIVATION_PREVIEW"

\* The effects in the order they are applied; the snapshot is the last.
PlanEffects(dirs) ==
  (IF dirs[LegacyDirectory] = "missing" THEN <<>> ELSE Legacy) \o Activated

Target(p) == IF p \in Range(Legacy) THEN "missing" ELSE "new"

-----------------------------------------------------------------------------
(* The evaluation of an execution observation.                             *)

NoFailure == [stage |-> "none", code |-> "none"]
Failure(s, c) == [stage |-> s, code |-> c]

NoRecovery(obs) ==
  /\ obs.recoveryAttempted = <<>>
  /\ obs.restored \cup obs.unrecovered = {}
  /\ obs.invalidated \cup obs.invalidationFailed = {}
  /\ obs.retained = <<>>

ValidExecutionObservation(effects, obs) ==
  /\ Range(obs.recoveryAttempted) \cup obs.restored \cup obs.unrecovered
       \cup Range(obs.retained) \cup obs.stageResidue \subseteq Range(effects)
  /\ obs.dirResidue \subseteq Range(Directories)
  /\ obs.invalidated \cup obs.invalidationFailed \subseteq {CommitMarker}
  /\ obs.invalidated \cap obs.invalidationFailed = {}
  /\ IsPrefix(obs.prepared, effects)
  /\ IsPrefix(obs.attempted, effects)
  /\ IsPrefix(obs.applied, obs.attempted)
  /\ obs.committed =>
       /\ obs.prepared = effects /\ obs.attempted = effects /\ obs.applied = effects
       /\ NoRecovery(obs)
       /\ ~obs.mismatched
       /\ obs.failure.stage \in {"none", "cleanup"}
       /\ obs.dirResidue = {}
  /\ (obs.mismatched \/ obs.failure.stage \in {"precondition", "prepare"}) =>
       obs.attempted = <<>> /\ obs.applied = <<>> /\ NoRecovery(obs)
  /\ obs.failure.stage = "cleanup" => obs.committed
  /\ (~obs.committed /\ obs.failure.stage \in {"apply", "recovery"}) =>
       /\ obs.prepared = effects
       /\ obs.recoveryAttempted = Reverse(obs.attempted)
       /\ obs.restored \cap obs.unrecovered = {}
       /\ obs.restored \cup obs.unrecovered = Range(obs.attempted)
  /\ obs.failure.stage = "apply" => obs.attempted # <<>>
  /\ obs.unrecovered \cup obs.invalidationFailed # {} => obs.retained = effects
  /\ obs.unrecovered # {} => CommitMarker \in obs.invalidated \cup obs.invalidationFailed
  /\ obs.unrecovered = {} =>
       obs.invalidated \cup obs.invalidationFailed = {} /\ obs.retained = <<>>

EvaluateActivationMutation(effects, obs) ==
  LET residue == obs.stageResidue \cup obs.dirResidue # {} IN
  IF ~ValidExecutionObservation(effects, obs) THEN "ERROR"
  ELSE IF (obs.mismatched \/ obs.failure.stage = "precondition") /\ ~residue
  THEN "ACTIVATION_OPERATION_REFUSED"
  ELSE IF \/ obs.unrecovered \cup obs.invalidationFailed # {}
          \/ obs.failure.stage = "recovery"
  THEN "ACTIVATION_RECOVERY_INCOMPLETE"
  ELSE IF residue THEN "ACTIVATION_CLEANUP_INCOMPLETE"
  ELSE IF ~obs.committed /\ obs.failure # NoFailure
  THEN "ACTIVATION_APPLY_FAILED_RECOVERED"
  ELSE IF obs.committed THEN "ACTIVATION_APPLIED" ELSE "ERROR"

\* The private scratch directory that shows the payloads outside the target was
\* made or not, and is gone again or not.
EvaluateScratchCleanup(outcome, prepared, cleaned) ==
  IF cleaned
  THEN IF prepared THEN outcome ELSE "ACTIVATION_OPERATION_REFUSED"
  ELSE IF outcome = "ACTIVATION_RECOVERY_INCOMPLETE" THEN outcome
  ELSE "ACTIVATION_CLEANUP_INCOMPLETE"

Outcomes == {"ACTIVATION_CONFLICT", "ACTIVATION_OPERATION_REFUSED",
             "ACTIVATION_UNCHANGED", "ACTIVATION_PREVIEW", "ACTIVATION_APPLIED",
             "ACTIVATION_APPLY_FAILED_RECOVERED", "ACTIVATION_CLEANUP_INCOMPLETE",
             "ACTIVATION_RECOVERY_INCOMPLETE", "ERROR"}
=============================================================================
