--------------------------- MODULE ReadinessInvariant ---------------------------
(***************************************************************************)
(* The inductive invariant of ReadinessDigests.  EditsSurvive is not         *)
(* inductive: that a rename loses nothing depends on what the run saw when   *)
(* it looked at the sidecar for the last time, several steps before.         *)
(***************************************************************************)
EXTENDS ReadinessDigests

Reading   == {"start", "read definitions", "read sidecars", "validate"}
OverBatch == {"start", "read definitions", "read sidecars", "validate", "plan"}
OverPlan  == {"check paths", "stage", "recheck", "rename"}

\* The loops stay within the lists they walk.
CursorAt(r) ==
  /\ pc[r] \in OverBatch => cursor[r] \in 1..Len(StoryOrder)
  /\ pc[r] \in OverPlan => cursor[r] \in 1..Len(planned[r])
CursorInv == \A r \in Runs : CursorAt(r)

\* Only sidecars that could be parsed are planned, and none before the plan.
PlannedAt(r) ==
  /\ pc[r] \in Reading => planned[r] = <<>>
  /\ \A i \in 1..Len(planned[r]) :
       observed[r].sidecar[planned[r][i]].kind = "valid"
PlannedInv == \A r \in Runs : PlannedAt(r)

\* A run that may still replace a sidecar without another look has read what
\* somebody else wrote there last, unless that came after the look.
SightAt(r) ==
  \A s \in Vulnerable(r) \ exposed : SameContent(observed[r].sidecar[s], theirs[s])
SightInv == \A r \in Runs : SightAt(r)

IInv == TypeOK /\ CursorInv /\ PlannedInv /\ EditsSurvive /\ SightInv

-----------------------------------------------------------------------------
(* What the verdict of a run rests on.                                      *)

Running == Points \ (Terminal \cup {"clean"})
Judged(r) == verdict[r] \in {"success", "rename failed"}

\* There is a verdict only at the end, a loop that has not begun begins with the
\* first Story.
VerdictAt(r) ==
  /\ pc[r] \in Running => verdict[r] = "none"
  /\ pc[r] \in {"start", "validate"} => cursor[r] = 1

\* What a run has read so far.
ReadBefore(r) == {StoryOrder[i] : i \in 1..(cursor[r] - 1)}
DefinitionsRead(r) == IF pc[r] = "read definitions" THEN ReadBefore(r) ELSE Stories
SidecarsRead(r) ==
  CASE pc[r] = "read definitions" -> {}
    [] pc[r] = "read sidecars" -> ReadBefore(r)
    [] OTHER -> Stories

\* What nobody else changed is as the run read it, or as the run wrote it.
FreshAt(r) ==
  pc[r] # "crashed" \/ Judged(r) =>
    \A s \in Stories \ disturbed[r] :
      /\ s \in DefinitionsRead(r) => observed[r].definition[s] = definition[s]
      /\ s \in SidecarsRead(r) =>
           sidecar[s] = IF s \in Range(updated[r]) THEN Rewritten(r, s)
                                                   ELSE observed[r].sidecar[s]

\* The plan has what was stale when it was read, and nothing else.
StaleAt(r) ==
  /\ pc[r] = "plan" =>
       \A s \in ReadBefore(r) : Stale(r, s) => s \in Range(planned[r])
  /\ pc[r] \in OverPlan \cup {"reindex"} \/ Judged(r) =>
       \A s \in Stories : Stale(r, s) => s \in Range(planned[r])
  /\ \A s \in Range(planned[r]) : Stale(r, s)

\* The sidecars are replaced in the order of the plan.
OrderAt(r) ==
  /\ pc[r] \in Running \ {"rename", "reindex"} => updated[r] = <<>>
  /\ Len(updated[r]) <= Len(planned[r])
  /\ \A i \in 1..Len(updated[r]) : updated[r][i] = planned[r][i]
  /\ pc[r] = "rename" => Len(updated[r]) = cursor[r] - 1
  /\ pc[r] = "reindex" \/ verdict[r] = "success" => Len(updated[r]) = Len(planned[r])
  /\ verdict[r] = "rename failed" => Len(updated[r]) < Len(planned[r])

ResultAt(r) == VerdictAt(r) /\ FreshAt(r) /\ StaleAt(r) /\ OrderAt(r)
ResultInv == \A r \in Runs : ResultAt(r)
=============================================================================
