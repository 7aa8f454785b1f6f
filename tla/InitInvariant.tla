----------------------------- MODULE InitInvariant -----------------------------
(***************************************************************************)
(* The inductive invariant of InitMutation.  NoOriginalLost and             *)
(* MarkerVouches are not inductive: they need to know how far each loop has  *)
(* come, which backups exist at that point, and what is on disk below and    *)
(* above the loop's index.                                                  *)
(***************************************************************************)
EXTENDS InitMutation

Untouched(p) == touched[p] = "never"
Backed(p)    == pre.files[p] # "missing" => stage[p].original = pre.files[p]
Original(p)  == disk[p] = pre.files[p]

Replacing  == {"apply", "recover", "invalidate"}
Committing == Planning \cup Preparing \cup Replacing

\* The loops stay within the lists they walk.
IndexInv ==
  /\ pc \in Planning => effects = <<>>
  /\ pc = "directories" => cursor >= 1
  /\ pc \in {"copy original", "write new"} => Len(prepared) < Len(effects)
  /\ Len(prepared) <= Len(effects)
  /\ Len(attempted) <= Len(effects)
  /\ \A i \in 1..Len(attempted) : attempted[i] = effects[i]
  /\ Len(recoveryAttempted) <= Len(attempted)
  /\ pc = "clean stages" => cursor <= Len(staged)
  /\ pc = "clean directories" => cursor <= Len(created)

\* No destination is planned twice and the commit marker is the last effect.
EffectsInv ==
  /\ \A i, j \in 1..Len(effects) : effects[i] = effects[j] => i = j
  /\ effects # <<>> => effects[Len(effects)] = Marker

PhaseInv ==
  /\ pc \in Planning \cup Preparing => attempted = <<>>
  /\ pc \in Planning \cup Preparing \cup {"apply"} =>
       recoveryAttempted = <<>> /\ unrecovered = {}
  /\ pc \in Committing => ~committed
  /\ pc \in {"recapture", "poll"} \cup Replacing => Len(prepared) = Len(effects)
  /\ pc = "invalidate" => unrecovered # {}
  /\ pc \in {"recover", "invalidate"} => attempted # <<>>

\* What nobody else touched is, in their view, as it was planned for.
TheirsInv == \A p \in Paths : Untouched(p) => theirs[p] = pre.files[p]

\* Every effect that is prepared has a faithful backup.
BackupInv ==
  pc \in Preparing \cup Replacing =>
    \A i \in 1..Len(effects) :
      (/\ i <= Len(prepared) \/ (pc = "write new" /\ i = Len(prepared) + 1)
       /\ Untouched(effects[i])) => Backed(effects[i])

\* While applying, the effects up to the index are in place, the others not.
ApplyInv ==
  pc = "apply" =>
    \A i \in 1..Len(effects) : Untouched(effects[i]) =>
      disk[effects[i]] = IF i <= Len(attempted) THEN Target(effects[i])
                                                ELSE pre.files[effects[i]]

\* While everything could be restored, all above the index is as it was.
RestoreInv ==
  (pc = "recover" /\ unrecovered = {}) =>
    \A i \in 1..Len(effects) :
      (i > Len(attempted) - Len(recoveryAttempted) /\ Untouched(effects[i])) =>
        Original(effects[i])

\* The marker is dealt with before any payload is taken back.
RetractInv ==
  (/\ pc = "recover"
   /\ Untouched(Marker)
   /\ pre.files[Marker] # NewContent
   /\ recoveryAttempted # <<>> \/ Len(attempted) < Len(effects)) =>
     disk[Marker] # NewContent \/ Marker \in invalidationFailed

\* Backups are only removed once the originals are in place.
CleanInv ==
  (pc = "clean stages" /\ ~committed) =>
    \A p \in Planned : Untouched(p) => Original(p)

IInv ==
  /\ TypeOK /\ IndexInv /\ EffectsInv /\ PhaseInv
  /\ TheirsInv /\ UnappliedIsUnchanged
  /\ BackupInv /\ ApplyInv /\ RestoreInv /\ RetractInv /\ CleanInv
  /\ NoOriginalLost /\ MarkerVouches
=============================================================================
