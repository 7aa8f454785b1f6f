-------------------------- MODULE ActivationInvariant --------------------------
(***************************************************************************)
(* The inductive invariant of ActivationMutation: how far each list has come, *)
(* what is on disk below and above that point, which directories and stages    *)
(* this execution made, and what of it the failure, the residue and the        *)
(* outcome say.  Parts that begin with Alone hold only while nobody else has    *)
(* edited the target.                                                        *)
(***************************************************************************)
EXTENDS ActivationMutation

Ready    == {"plan", "make scratch", "validate"}
Applying == {"poll", "apply", "remove legacy", "recreate legacy", "recover", "invalidate"}
Cleaning == {"clean stages", "clean directories", "finish"}
Ended    == {"clean scratch", "done"}

Names     == Range(Directories)
FileMaps  == [Paths -> AllKinds]
Stages    == [owner : {"none", "run", "foreign"}, original : AllKinds, new : BOOLEAN]

FileTypes ==
  /\ disk \in FileMaps /\ theirs \in FileMaps
  /\ dirs \in [Names -> {"missing", "odd", "theirs", "ours"}]
  /\ pre \in [files : FileMaps, dirs : [Names -> {"missing", "odd", "theirs"}]]
  /\ stage \in [Paths -> Stages]
  /\ touched \in [Paths -> {"never", "early", "late"}]
ListTypes ==
  /\ effects \in Seq(Paths) /\ prepared \in Seq(Paths) /\ attempted \in Seq(Paths)
  /\ recoveryAttempted \in Seq(Paths) /\ staged \in Seq(Paths) /\ created \in Seq(Names)
  /\ cursor \in Nat /\ edits \in Nat
  /\ unrecovered \subseteq Paths
PlaceTypes ==
  /\ pc \in Ready \cup Observing \cup Applying \cup Cleaning \cup Ended
  /\ \/ failure = NoFailure
     \/ failure.stage \in {"precondition", "prepare", "apply", "recovery", "cleanup"}

\* There are effects only of a plan nothing stood in the way of.
PlanInv ==
  /\ pc = "plan" => effects = <<>>
  /\ (pc = "make scratch" /\ outcome = "ACTIVATION_PREVIEW") => effects # <<>>
  /\ pc \notin {"plan", "make scratch"} \cup Ended => effects # <<>>
  /\ effects # <<>> =>
       /\ effects = PlanEffects(pre.dirs)
       /\ PlanOutcome(pre.files, pre.dirs, {}) = "ACTIVATION_PREVIEW"

\* The lists follow the plan.
ListContents ==
  /\ \A i \in 1..Len(prepared) : prepared[i] = effects[i]
  /\ \A i \in 1..Len(staged) : staged[i] = effects[i]
  /\ \A i \in 1..Len(attempted) : attempted[i] = effects[i]
  /\ \A i \in 1..Len(recoveryAttempted) :
       recoveryAttempted[i] = attempted[Len(attempted) + 1 - i]
ListLengths ==
  /\ Len(prepared) <= Len(effects) /\ Len(staged) <= Len(effects)
  /\ Len(attempted) <= Len(effects) /\ Len(recoveryAttempted) <= Len(attempted)
  /\ pc \in {"copy original", "write new"} => Len(prepared) < Len(effects)
  /\ pc \in {"copy original", "write new"} => Len(staged) = Len(prepared) + 1
  /\ pc \in Ready \cup {"directories"} => Len(prepared) = 0 /\ Len(staged) = 0
  /\ pc \in {"make stage", "recapture"} \cup Applying => Len(staged) = Len(prepared)
  /\ pc \in {"recapture"} \cup Applying => Len(prepared) = Len(effects)
  /\ pc = "directories" => cursor > 0
  /\ pc = "clean stages" => cursor <= Len(staged)
  /\ pc = "clean directories" => cursor <= Len(created)

\* What has been tried where.
PhaseInv ==
  /\ pc \in Ready \cup Observing \cup {"poll"} => attempted = <<>>
  /\ pc \notin {"recover", "invalidate"} \cup Cleaning \cup Ended =>
       recoveryAttempted = <<>> /\ unrecovered = {}
  /\ pc \in {"remove legacy", "recreate legacy"} => Len(attempted) = Len(effects)
  /\ pc = "invalidate" => Recovered /\ unrecovered # {}
  /\ pc \in Cleaning \cup Ended =>
       committed \/ Recovered
  /\ committed =>
       /\ pc \in Cleaning \cup Ended
       /\ effects # <<>> /\ Len(attempted) = Len(effects) /\ recoveryAttempted = <<>>
       /\ Len(staged) = Len(effects) /\ unrecovered = {}
  /\ unrecovered # {} => recoveryAttempted # <<>>
  /\ pc \in {"clean stages", "clean directories"} => unrecovered = {}

\* What is not in a directory is nowhere.
ShelterInv ==
  /\ \A p \in Paths : disk[p] # "missing" => Exists(Parent[p])
  /\ \A p \in Paths : (pre.files[p] # "missing" /\ Parent[p] \in Names) =>
                        pre.dirs[Parent[p]] # "missing"
  /\ \A d \in strangers : dirs[d] # "missing"

\* A directory is as it was, or this execution made it, or it is the legacy one.
DirectoryInv ==
  /\ \A d \in Names : d # LegacyDirectory =>
       dirs[d] = pre.dirs[d] \/ (pre.dirs[d] = "missing" /\ dirs[d] = "ours")
  /\ Range(Legacy) \cap Planned = {} => dirs[LegacyDirectory] = pre.dirs[LegacyDirectory]
  /\ Range(Legacy) \subseteq Planned /\ committed => dirs[LegacyDirectory] = "missing"
  /\ dirs[LegacyDirectory] = "odd" => pre.dirs[LegacyDirectory] = "odd"
  /\ LegacyDirectory \notin Range(created)
  /\ pc \in {"remove legacy", "recreate legacy"} => Range(Legacy) \subseteq Planned
  /\ pc \in Ready \cup Observing \cup {"poll", "apply"} =>
       dirs[LegacyDirectory] = pre.dirs[LegacyDirectory]

\* Until cleanup the execution knows every directory and stage it made.
OwnedInv ==
  /\ pc \in Ready => created = <<>>
  /\ pc \in Ready \cup Observing \cup Applying =>
       \A d \in Names \ {LegacyDirectory} :
         d \in Range(created) <=> dirs[d] # pre.dirs[d]
  /\ (pc \in Ready \cup Observing \cup Applying \/ committed) =>
       \A p \in Paths : stage[p].owner = "run" => p \in Range(staged)

\* What nobody else touched is as it was, or is still to be recovered, or is named.
NamedInv ==
  \A p \in Paths : touched[p] = "never" =>
    \/ disk[p] = pre.files[p]
    \/ p \in unrecovered
    \/ p = CommitMarker /\ unrecovered # {}
    \/ p \in Range(attempted) \ Range(recoveryAttempted)

\* The stages and directories the cleanup has passed are gone, or residue.
StagesLeftInv ==
  /\ pc = "clean stages" =>
       \A i \in 1..Len(staged) :
         (i > cursor /\ stage[staged[i]].owner = "run") => staged[i] \in stageResidue
  /\ (pc \in {"clean directories", "finish"} /\ unrecovered = {}) =>
       \A p \in Range(staged) : stage[p].owner = "run" => p \in stageResidue
DirectoriesLeftInv ==
  /\ pc = "clean directories" =>
       \A i \in 1..Len(created) :
         (i > cursor /\ dirs[created[i]] = "ours") => created[i] \in dirResidue
  /\ (pc = "finish" /\ unrecovered = {} /\ ~committed) =>
       \A d \in Range(created) : dirs[d] = "ours" => d \in dirResidue

SafetyInv ==
  /\ FileTypes /\ ListTypes /\ PlaceTypes /\ PlanInv /\ ListContents /\ ListLengths
  /\ PhaseInv /\ ShelterInv /\ DirectoryInv /\ OwnedInv /\ NamedInv
  /\ StagesLeftInv /\ DirectoriesLeftInv

-----------------------------------------------------------------------------
(* Where nobody else edits.                                                *)

\* The execution has begun to prepare.
Begun ==
  \/ pc \in Observing \cup Applying \cup {"clean stages", "clean directories"}
  \/ committed
  \/ failure.stage \in {"prepare", "apply", "recovery", "cleanup"}

AloneInv ==
  /\ \A p \in Paths : touched[p] = "never"
  /\ Begun => strangers = {}
  /\ \A p \in Paths : stage[p].owner # "foreign"
  /\ pc \in Observing \cup Applying => \A p \in Range(staged) : stage[p].owner = "run"
  /\ pc \in Ready => \A p \in Paths : stage[p].owner = "none"

\* A path outside the plan is as it was; one in it is so, or in place, or the
\* snapshot that was removed.
AlonePlaces ==
  /\ \A p \in Paths \ Planned : disk[p] = pre.files[p]
  /\ \A p \in Planned : \/ disk[p] = pre.files[p]
                        \/ disk[p] = Target(p)
                        \/ p = CommitMarker /\ disk[p] = "missing"
  /\ (pc \in {"apply", "remove legacy"} \/ committed) =>
       \A i \in 1..Len(attempted) : disk[effects[i]] = Target(effects[i])

\* A refusal changed nothing.
AloneRefusal ==
  /\ pc \notin {"finish"} \cup Ended => ~mismatched /\ failure.stage # "precondition"
  /\ (mismatched \/ failure.stage = "precondition") => disk = pre.files /\ dirs = pre.dirs

\* There is a verdict only at the end.
OutcomeInv ==
  /\ pc = "make scratch" => outcome \in {"ACTIVATION_PREVIEW", "ACTIVATION_UNCHANGED"}
  /\ pc \notin {"plan", "make scratch"} \cup Ended => outcome = "ACTIVATION_PREVIEW"

\* The result, also while the scratch directory is still to be removed.
AloneResult ==
  pc \in Ended =>
    /\ outcome = "ACTIVATION_APPLIED" => Replanned = "ACTIVATION_UNCHANGED"
    /\ (outcome = "ACTIVATION_APPLY_FAILED_RECOVERED" /\ ~Torn) =>
         /\ Replanned = "ACTIVATION_PREVIEW"
         /\ PlanEffects(dirs) = effects
         /\ disk = pre.files
    /\ outcome \in {"ACTIVATION_OPERATION_REFUSED", "ACTIVATION_CONFLICT"} =>
         disk = pre.files /\ dirs = pre.dirs

IInv ==
  /\ SafetyInv /\ OutcomeInv
  /\ edits = 0 => AloneInv /\ AlonePlaces /\ AloneRefusal /\ AloneResult
=============================================================================
