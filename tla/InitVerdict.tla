------------------------------ MODULE InitVerdict ------------------------------
(***************************************************************************)
(* What the verdict of InitMutation rests on, as an inductive invariant on    *)
(* top of the one in InitInvariant: how the executor's lists follow the plan,  *)
(* what each failure stage says of them, what recovery has recorded of every   *)
(* destination, and which directories are still to be cleaned up.              *)
(***************************************************************************)
EXTENDS InitInvariant

Handled  == invalidated \cup invalidationFailed
Cleaning == {"clean stages", "clean directories", "finish"}
Starting == {"plan", "validate", "directories"}
Forward  == Planning \cup Preparing \cup {"apply"}

\* Every list is a part of the plan, or of the list it is taken from.
ListContents ==
  /\ \A i \in 1..Len(prepared) : prepared[i] = effects[i]
  /\ \A i \in 1..Len(staged) : staged[i] = effects[i]
  /\ \A i \in 1..Len(applied) : applied[i] = attempted[i]
  /\ \A i \in 1..Len(recoveryAttempted) :
       recoveryAttempted[i] = attempted[Len(attempted) + 1 - i]

\* How long the lists are where the execution has come to.
ListLengths ==
  /\ Len(staged) <= Len(effects)
  /\ Len(applied) <= Len(attempted)
  /\ pc \in Starting => Len(prepared) = 0 /\ Len(staged) = 0
  /\ pc \in {"make stage", "recapture", "poll"} \cup Replacing =>
       Len(staged) = Len(prepared)
  /\ pc \in {"copy original", "write new"} => Len(staged) = Len(prepared) + 1
  /\ pc \in Forward => Len(applied) = Len(attempted)
  /\ Len(attempted) # 0 => Len(prepared) = Len(effects) /\ Len(staged) = Len(effects)

ListInv == ListContents /\ ListLengths

\* Every destination recovery has come to is restored or not, and the marker is
\* dealt with once, when something could not be restored.
RecoveryInv ==
  /\ restored \cup unrecovered = Range(recoveryAttempted)
  /\ restored \cap unrecovered = {}
  /\ invalidated \cap invalidationFailed = {}
  /\ unrecovered = {} => Handled = {}
  /\ pc = "invalidate" => Handled = {}
  /\ (pc = "invalidate" \/ (pc = "recover" /\ Handled # {})) =>
       Marker \in Range(recoveryAttempted) \/ Recovered

\* What the stage of the failure says of everything else.
FailureInv ==
  /\ pc \in Forward => failure = NoFailure /\ ~mismatched
  /\ pc \in {"recover", "invalidate"} => failure.stage = "apply" /\ ~mismatched
  /\ (pc \in Cleaning /\ committed) =>
       /\ failure = NoFailure /\ ~mismatched
       /\ recoveryAttempted = <<>>
       /\ Len(attempted) = Len(effects) /\ Len(applied) = Len(effects)
       /\ effects # <<>>
  /\ (pc \in Cleaning /\ ~committed) =>
       \/ failure.stage \in {"precondition", "prepare"} /\ attempted = <<>>
       \/ /\ failure.stage = "apply" /\ ~mismatched
          /\ attempted # <<>> /\ Recovered /\ unrecovered = {}
       \/ /\ failure.stage = "recovery" /\ ~mismatched
          /\ attempted # <<>> /\ Recovered /\ unrecovered # {} /\ Handled # {}
          /\ pc = "finish"

\* Residue comes from what this execution made; a committed one keeps directories.
ResidueInv ==
  /\ stageResidue \subseteq Range(staged)
  /\ pc \in Forward \cup {"recover", "invalidate", "clean stages"} => dirResidue = {}
  /\ pc = "clean directories" => ~committed
  /\ committed => dirResidue = {}

\* The effects are destinations the observation scope covers.
ScopeInv ==
  /\ Planned \subseteq Destinations(mode)
  /\ \A p \in Paths \ Planned : disk[p] = theirs[p]

\* What changed before the recapture was found out by it.
EarlyInv ==
  (pc \in {"poll", "apply"} \/ attempted # <<>>) =>
    \A p \in Planned : touched[p] # "late" => theirs[p] = pre.files[p]

\* An execution that neither committed nor left anything unrecovered has every
\* original in place.
RestoredInv ==
  (pc \in Cleaning /\ ~committed /\ unrecovered = {}) =>
    \A p \in Planned : Untouched(p) => Original(p)

\* What recovery has passed is as it was, or is named.
NamedInv ==
  (pc \in {"recover", "invalidate"} \/ (pc = "finish" /\ unrecovered # {})) =>
    \A i \in 1..Len(effects) :
      (i > Len(attempted) - Len(recoveryAttempted) /\ Untouched(effects[i])) =>
        Original(effects[i]) \/ effects[i] \in unrecovered \cup Handled

\* There is an outcome only at the end, and it is right.
OutcomeInv ==
  /\ outcome # "none" => pc = "done"
  /\ ObservationAccepted /\ RestoredMeansRestored /\ UnrestoredIsNamed

VerdictInv ==
  /\ ListInv /\ RecoveryInv /\ FailureInv /\ ResidueInv /\ ScopeInv
  /\ EarlyInv /\ RestoredInv /\ NamedInv /\ OutcomeInv

\* No stage or directory has been removed or given up while the execution may still
\* need it.
Keeping == Forward \cup {"recover", "invalidate"}

\* What is made and not recorded ends the preparation, so it is one at most.
UnrecordedInv ==
  /\ pc \in Keeping => UnrecordedStages = {} /\ UnrecordedDirectories = {}
  /\ \A p, q \in UnrecordedStages : p = q
  /\ \A d, e \in UnrecordedDirectories : d = e
  /\ UnrecordedStages = {} \/ UnrecordedDirectories = {}
  /\ UnrecordedStages \cup UnrecordedDirectories # {} =>
       attempted = <<>> /\ failure.stage = "prepare"

\* What is recorded is there until cleanup comes to it; recovery that is incomplete
\* does not clean up.
KeptInv ==
  /\ pc \in {"plan", "validate"} => created = <<>>
  /\ (edits = 0 /\ (pc \in Keeping \/ (pc \in {"finish", "done"} /\ unrecovered # {}))) =>
       /\ \A p \in Range(staged) : stage[p].owner = "run"
       /\ \A d \in Range(created) : dirs[d] = "ours"

\* The stages the cleanup has passed are gone, or residue.
StagesLeftInv ==
  /\ pc = "clean stages" =>
       \A i \in 1..Len(staged) :
         (i > cursor /\ LeftStage(staged[i])) => staged[i] \in stageResidue
  /\ (pc \in {"clean directories", "finish"} /\ unrecovered = {}) =>
       \A p \in Range(staged) : LeftStage(p) => p \in stageResidue

\* So are the directories.
DirectoriesLeftInv ==
  /\ pc = "clean directories" =>
       \A i \in 1..Len(created) :
         (i > cursor /\ dirs[created[i]] = "ours") => created[i] \in dirResidue
  /\ (pc = "finish" /\ unrecovered = {} /\ ~committed) =>
       \A d \in Range(created) : dirs[d] = "ours" => d \in dirResidue

LeftInv ==
  UnrecordedInv /\ KeptInv /\ StagesLeftInv /\ DirectoriesLeftInv /\ LeftoversAreNamed

-----------------------------------------------------------------------------
(* The execution as AdoptionMarker sees it, where nobody else edits.        *)

Altered == {p \in Paths : disk[p] # pre.files[p]}
Pending == {p \in Planned \ {Marker} : disk[p] # Target(p)}
Reported == CASE outcome = "none" -> "none"
              [] outcome \in {"INIT_APPLIED", "INIT_CLEANUP_INCOMPLETE"} -> "installed"
              [] outcome = "INIT_RECOVERY_INCOMPLETE" -> "incomplete"
              [] OTHER -> "unchanged"
Distrusted == invalidationFailed # {}

Alone == edits = 0 /\ \A p \in Paths : Untouched(p)

\* A payload is in place or as it was, whatever has been tried; once the execution
\* has committed, everything is in place.
PlacesInv    == \A p \in Planned \ {Marker} : Original(p) \/ disk[p] = Target(p)
CommittedInv == committed => \A p \in Planned : disk[p] = Target(p)

PromiseInv == Alone /\ PlacesInv /\ CommittedInv
=============================================================================
