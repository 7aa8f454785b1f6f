--------------------------- MODULE ActivationProofs ---------------------------
(***************************************************************************)
(* What an activation promises, however many faults, signals and edits there  *)
(* are.                                                                      *)
(*                                                                         *)
(* Early edits: until the recapture the target is exactly what others made of *)
(* it and nothing was attempted.  The recapture goes on to "poll" only if     *)
(* every managed path is as planned for.  From then on a path that differs   *)
(* from the plan without this execution has been touched late.              *)
(*                                                                         *)
(* Everything else follows from IInv of ActivationInvariant, one lemma per    *)
(* part: the lists follow the plan, what is on disk follows the lists, and    *)
(* the cleanup accounts for what this execution made.  Its Alone parts say    *)
(* where every file is while nobody else edits; planning again is then a      *)
(* matter of the plan's own conditions (OutcomeMeaning, PartialMeaning).      *)
(***************************************************************************)
EXTENDS ActivationInvariant, TLAPS

-----------------------------------------------------------------------------
(* Early edits.                                                            *)

Untouched == {"plan", "make scratch", "validate"} \cup Observing

HistoryOK ==
  /\ DOMAIN theirs = Paths
  /\ touched \in [Paths -> {"never", "early", "late"}]

BeforeApply == pc \in Untouched => disk = theirs /\ attempted = <<>>

FromPollOn ==
  (pc \in {"poll", "apply"} \/ attempted # <<>>) =>
    \A p \in Paths : touched[p] # "late" => theirs[p] = pre.files[p]

PlannedOK == Planned \subseteq Paths

RecaptureInv == HistoryOK /\ BeforeApply /\ FromPollOn /\ PlannedOK

-----------------------------------------------------------------------------
\* What is planned is among the managed paths (activation.ts:1013).
LEMMA EffectsArePaths ==
  \A d : Range(PlanEffects(d)) \subseteq Paths
<1> SUFFICES ASSUME NEW d, NEW i \in DOMAIN PlanEffects(d)
             PROVE  PlanEffects(d)[i] \in Paths
  BY DEF Range
<1> DEFINE Managed == {"AGENTS.md", "skill", "workflow", "snapshot",
                     "legacy skill", "legacy workflow", "legacy snapshot"}
<1>1. Activated \in Seq(Managed)
  BY DEF Activated
<1>2. Legacy \in Seq(Managed)
  BY DEF Legacy
<1>3. Managed \subseteq Paths
  <2>1. {Activated[1], Activated[2], Activated[3], Activated[4]} \subseteq Range(Activated)
    BY DEF Activated, Range
  <2>2. {Legacy[1], Legacy[2], Legacy[3]} \subseteq Range(Legacy)
    <3>1. DOMAIN Legacy = 1..3
      BY DEF Legacy
    <3> QED BY <3>1 DEF Range
  <2> QED BY <2>1, <2>2 DEF Activated, Legacy, Paths
<1> HIDE DEF Managed
<1>4. PlanEffects(d) \in Seq(Managed)
  <2>1. << >> \o Activated \in Seq(Managed) /\ Legacy \o Activated \in Seq(Managed)
    BY <1>1, <1>2
  <2> QED BY <2>1 DEF PlanEffects
<1> QED BY <1>3, <1>4

\* Nobody has changed anything yet.
LEMMA InitRecaptureInv == Init => RecaptureInv
<1> SUFFICES ASSUME Init PROVE RecaptureInv
  OBVIOUS
<1>1. disk = theirs /\ DOMAIN disk = Paths
  <2>1. PICK tuple \in {"plain", "new", "old", "v090"}, q \in Paths :
          \E kind \in Kinds(q) : disk = [BaseFiles(tuple) EXCEPT ![q] = kind]
    BY DEF Init
  <2>2. DOMAIN BaseFiles(tuple) = Paths
    BY DEF BaseFiles
  <2>3. DOMAIN disk = Paths
    BY <2>1, <2>2
  <2>4. disk = theirs
    BY DEF Init
  <2> QED BY <2>3, <2>4
<1>2. Planned = {}
  BY DEF Init, Planned, Range
<1> QED
  BY <1>1, <1>2 DEF Init, RecaptureInv, HistoryOK, BeforeApply, FromPollOn, PlannedOK

\* The steps of the environment that change a path.
LEMMA EditFileRecaptureInv ==
  ASSUME RecaptureInv, NEW p \in Paths, NEW kind, EditFile(p, kind)
  PROVE  RecaptureInv'
<1> USE DEF RecaptureInv, EditFile, Edit, Touch, Observing, Untouched
<1>1. HistoryOK'
  BY DEF HistoryOK
<1>2. BeforeApply'
  BY DEF BeforeApply, progress
<1>3. FromPollOn'
  <2>1. pc' = pc /\ attempted' = attempted /\ pre' = pre
    BY DEF progress, plan
  <2>2. CASE pc \in Untouched
    BY <2>1, <2>2 DEF FromPollOn, BeforeApply
  <2>3. CASE pc \notin Untouched
    <3> SUFFICES ASSUME pc \in {"poll", "apply"} \/ attempted # <<>>,
                        NEW q \in Paths, touched'[q] # "late"
                 PROVE  theirs'[q] = pre.files[q]
      BY <2>1 DEF FromPollOn
    <3>1. q # p
      BY <2>3 DEF HistoryOK
    <3>2. touched[q] # "late" /\ theirs'[q] = theirs[q]
      BY <3>1 DEF HistoryOK
    <3> QED BY <3>2 DEF FromPollOn
  <2> QED BY <2>2, <2>3
<1>4. PlannedOK'
  BY DEF PlannedOK, Planned, plan
<1> QED BY <1>1, <1>2, <1>3, <1>4

\* An edit of a stage is an edit of the path it stands for.
LEMMA EditStageRecaptureInv ==
  ASSUME RecaptureInv, NEW p \in Paths, NEW owner, EditStage(p, owner)
  PROVE  RecaptureInv'
<1> USE DEF RecaptureInv, EditStage, Edit, Touch
<1>1. HistoryOK'
  BY DEF HistoryOK
<1>2. BeforeApply'
  BY DEF BeforeApply, progress
<1>3. FromPollOn'
  <2>1. UNCHANGED <<pc, attempted, pre, theirs>>
    BY DEF progress, plan
  <2>2. \A q \in Paths : touched[q] = "late" => touched'[q] = "late"
        \/ (q = p /\ pc \in {"validate"} \cup Observing)
    BY DEF HistoryOK
  <2>3. pc \in {"validate"} \cup Observing => ~(pc \in {"poll", "apply"} \/ attempted # <<>>)
    BY DEF BeforeApply, Untouched, Observing
  <2> QED BY <2>1, <2>2, <2>3 DEF FromPollOn
<1>4. PlannedOK'
  BY DEF PlannedOK, Planned, plan
<1> QED BY <1>1, <1>2, <1>3, <1>4

\* The steps of the execution: one case for each group that disturbs the same
\* parts of the invariant.
LEMMA NextRecaptureInv == RecaptureInv /\ [Next]_vars => RecaptureInv'
<1> SUFFICES ASSUME RecaptureInv, [Next]_vars PROVE RecaptureInv'
  OBVIOUS
<1> USE DEF RecaptureInv
<1>1. CASE Plan
  <2>1. HistoryOK' /\ BeforeApply' /\ FromPollOn'
    BY <1>1 DEF Plan, HistoryOK, BeforeApply, FromPollOn, history, target, progress,
                Untouched, Observing
  <2>2. effects' \in {PlanEffects(dirs), << >>, effects}
    BY <1>1 DEF Plan
  <2>3. Range(<< >>) = {}
    BY DEF Range
  <2>4. PlannedOK'
    BY <2>2, <2>3, EffectsArePaths DEF PlannedOK, Planned
  <2> QED BY <2>1, <2>4
<1>2. CASE MakeScratch \/ Validate \/ DirectoriesMade \/ AllPrepared \/ PollBeforeApply
  BY <1>2 DEF MakeScratch, Validate, DirectoriesMade, AllPrepared, PollBeforeApply,
     HistoryOK, BeforeApply, FromPollOn, PlannedOK, Planned, history, target, progress,
     plan, Untouched, Observing, Abandon
<1>3. CASE MakeDirectory
  BY <1>3 DEF MakeDirectory, HistoryOK, BeforeApply, FromPollOn, PlannedOK, Planned,
     history, progress, plan, Untouched, Observing, Abandon
<1>4. CASE MakeStage
  BY <1>4 DEF MakeStage, HistoryOK, BeforeApply, FromPollOn, PlannedOK, Planned,
     history, progress, plan, Untouched, Observing, Abandon
<1>5. CASE CopyOriginal
  BY <1>5 DEF CopyOriginal, HistoryOK, BeforeApply, FromPollOn, PlannedOK, Planned,
     history, progress, plan, Untouched, Observing, Abandon
<1>6. CASE WriteNew
  BY <1>6 DEF WriteNew, HistoryOK, BeforeApply, FromPollOn, PlannedOK, Planned,
     history, plan, Untouched, Observing, Abandon
<1>7. CASE Recapture
  <2>1. HistoryOK' /\ BeforeApply' /\ PlannedOK'
    BY <1>7 DEF Recapture, HistoryOK, BeforeApply, PlannedOK, Planned, history, target,
       plan, Untouched, Observing, Abandon
  <2>2. disk = theirs /\ attempted = <<>> /\ UNCHANGED <<theirs, touched, pre, attempted>>
    BY <1>7 DEF Recapture, BeforeApply, Untouched, Observing, history, plan, progress
  <2>3. CASE Stale
    <3>1. pc' = "clean stages"
      BY <1>7, <2>3 DEF Recapture, Abandon
    <3> QED BY <2>1, <2>2, <3>1 DEF FromPollOn
  <2>4. CASE ~Stale
    <3>1. \A p \in Paths : theirs[p] = pre.files[p]
      BY <2>2, <2>4 DEF Stale, StalePaths
    <3> QED BY <2>1, <2>2, <3>1 DEF FromPollOn
  <2> QED BY <2>3, <2>4
<1>8. CASE ApplyEffect
  BY <1>8 DEF ApplyEffect, HistoryOK, BeforeApply, FromPollOn, PlannedOK, Planned,
     history, plan, Untouched, Observing, Fail
<1>9. CASE AllApplied \/ RemoveLegacy \/ RecreateLegacy
  BY <1>9 DEF AllApplied, RemoveLegacy, RecreateLegacy, HistoryOK, BeforeApply, FromPollOn,
     PlannedOK, Planned, history, progress, plan, Untouched, Observing, Fail
<1>10. CASE RecoverEffect
  BY <1>10 DEF RecoverEffect, HistoryOK, BeforeApply, FromPollOn, PlannedOK, Planned,
     history, progress, plan, Untouched, Observing
<1>11. CASE RecoveryEnds \/ Invalidate
  BY <1>11 DEF RecoveryEnds, Invalidate, HistoryOK, BeforeApply, FromPollOn, PlannedOK,
     Planned, history, progress, plan, Untouched, Observing
<1>12. CASE CleanStage \/ StagesCleaned \/ CleanDirectory \/ DirectoriesCleaned
  BY <1>12 DEF CleanStage, StagesCleaned, CleanDirectory, DirectoriesCleaned, HistoryOK,
     BeforeApply, FromPollOn, PlannedOK, Planned, history, progress, plan, target,
     Untouched, Observing
<1>13. CASE Finish \/ CleanScratch
  BY <1>13 DEF Finish, CleanScratch, HistoryOK, BeforeApply, FromPollOn, PlannedOK,
     Planned, history, progress, plan, target, Untouched, Observing
<1>14. CASE Signal
  BY <1>14 DEF Signal, HistoryOK, BeforeApply, FromPollOn, PlannedOK, Planned, history,
     progress, plan, target
<1>15. CASE \E p \in Paths : \E kind \in Kinds(p) \cap {"missing", "odd", "edited"} :
              EditFile(p, kind)
  BY <1>15, EditFileRecaptureInv
<1>16. CASE \E p \in Paths : \E owner \in {"none", "foreign"} : EditStage(p, owner)
  BY <1>16, EditStageRecaptureInv
<1>17. CASE \E d \in {SkillDirectory, LegacyDirectory} : AddStranger(d)
  BY <1>17 DEF AddStranger, Edit, HistoryOK, BeforeApply, FromPollOn, PlannedOK, Planned,
     progress, plan
<1>18. CASE UNCHANGED vars
  BY <1>18 DEF vars, HistoryOK, BeforeApply, FromPollOn, PlannedOK, Planned, history,
     progress, plan, target
<1> QED
  BY <1>1, <1>2, <1>3, <1>4, <1>5, <1>6, <1>7, <1>8, <1>9, <1>10, <1>11, <1>12, <1>13,
     <1>14, <1>15, <1>16, <1>17, <1>18 DEF Next

\* A change somebody else made before the recapture is never overwritten
\* (activation-mutation.ts:381-421).
THEOREM EarlyEditsSurviveAlways == Spec => []EarlyEditsSurvive
<1>1. RecaptureInv => EarlyEditsSurvive
  BY DEF RecaptureInv, FromPollOn, PlannedOK, EarlyEditsSurvive
<1> QED BY <1>1, InitRecaptureInv, NextRecaptureInv, PTL DEF Spec

-----------------------------------------------------------------------------
\* From here on the tuples of variables and the groups of places are read as what
\* they stand for.
USE DEF target, plan, owned, progress, recovery, residue, verdict, history,
        Ready, Observing, Applying, Cleaning, Ended

-----------------------------------------------------------------------------
(* What the tables of the plan say, and the types of the files.            *)

\* The managed paths and directories.

\* The managed paths, as literals.
LEMMA PathSet ==
  /\ Range(Activated) = {"AGENTS.md", "skill", "workflow", "snapshot"}
  /\ Range(Legacy) = {"legacy skill", "legacy workflow", "legacy snapshot"}
  /\ Paths = {"AGENTS.md", "skill", "workflow", "snapshot",
              "legacy skill", "legacy workflow", "legacy snapshot", "adoption"}
<1>1. Range(Activated) = {"AGENTS.md", "skill", "workflow", "snapshot"}
  <2>1. DOMAIN Activated = 1..4 /\ Activated[1] = "AGENTS.md" /\ Activated[2] = "skill"
        /\ Activated[3] = "workflow" /\ Activated[4] = "snapshot"
    BY DEF Activated
  <2>2. \A i \in 1..4 : i = 1 \/ i = 2 \/ i = 3 \/ i = 4
    OBVIOUS
  <2>3. 1 \in 1..4 /\ 2 \in 1..4 /\ 3 \in 1..4 /\ 4 \in 1..4
    OBVIOUS
  <2> QED  BY <2>1, <2>2, <2>3 DEF Range
<1>2. Range(Legacy) = {"legacy skill", "legacy workflow", "legacy snapshot"}
  <2>1. DOMAIN Legacy = 1..3 /\ Legacy[1] = "legacy skill" /\ Legacy[2] = "legacy workflow"
        /\ Legacy[3] = "legacy snapshot"
    BY DEF Legacy
  <2>2. \A i \in 1..3 : i = 1 \/ i = 2 \/ i = 3
    OBVIOUS
  <2>3. 1 \in 1..3 /\ 2 \in 1..3 /\ 3 \in 1..3
    OBVIOUS
  <2> QED  BY <2>1, <2>2, <2>3 DEF Range
<1> QED  BY <1>1, <1>2 DEF Paths, Adoption

\* The managed directories, as literals.
LEMMA NameSet ==
  /\ Names = {"specs", "specs/stories", ".agents", ".agents/skills",
              "skills/praxisbound", "skills/forgeflow"}
  /\ \A i \in 1..Len(Directories) : Directories[i] \in Names
  /\ Directories \in Seq(Names) /\ Len(Directories) = 6
<1>1. /\ DOMAIN Directories = 1..6 /\ Directories[1] = "specs"
      /\ Directories[2] = "specs/stories" /\ Directories[3] = ".agents"
      /\ Directories[4] = ".agents/skills" /\ Directories[5] = "skills/praxisbound"
      /\ Directories[6] = "skills/forgeflow" /\ Len(Directories) = 6
  BY DEF Directories, SkillDirectory, LegacyDirectory
<1>2. \A i \in 1..6 : i = 1 \/ i = 2 \/ i = 3 \/ i = 4 \/ i = 5 \/ i = 6
  OBVIOUS
<1>3. 1 \in 1..6 /\ 2 \in 1..6 /\ 3 \in 1..6 /\ 4 \in 1..6 /\ 5 \in 1..6 /\ 6 \in 1..6
  OBVIOUS
<1>4. Names = {"specs", "specs/stories", ".agents", ".agents/skills",
              "skills/praxisbound", "skills/forgeflow"}
  BY <1>1, <1>2, <1>3 DEF Range, Names
<1>5. Directories \in Seq(Names)
  <2>1. Directories \in Seq({"specs", "specs/stories", ".agents", ".agents/skills",
                             "skills/praxisbound", "skills/forgeflow"})
    BY DEF Directories, SkillDirectory, LegacyDirectory
  <2>2. Seq(Names) = Seq({"specs", "specs/stories", ".agents", ".agents/skills",
                          "skills/praxisbound", "skills/forgeflow"})
    BY <1>4
  <2> HIDE DEF Directories
  <2> QED  BY <2>1, <2>2
<1>6. \A i \in 1..Len(Directories) : Directories[i] \in Names
  BY <1>5
<1>7. Len(Directories) = 6
  BY <1>1
<1> QED  BY <1>4, <1>5, <1>6, <1>7

\* Where each of them is.
LEMMA ParentTable ==
  /\ Parent["AGENTS.md"] = "root" /\ Parent["adoption"] = "specs"
  /\ \A p \in {"skill", "workflow", "snapshot"} : Parent[p] = SkillDirectory
  /\ \A p \in Range(Legacy) : Parent[p] = LegacyDirectory
  /\ \A p \in Paths : Parent[p] \in Names \cup {"root"}
  /\ Parent[SkillDirectory] = ".agents/skills" /\ Parent[LegacyDirectory] = ".agents/skills"
<1>1. \A x \in Paths \cup Names :
        Parent[x] = CASE x \in {"skill", "workflow", "snapshot"} -> SkillDirectory
                      [] x \in Range(Legacy) -> LegacyDirectory
                      [] x \in {SkillDirectory, LegacyDirectory} -> ".agents/skills"
                      [] x = ".agents/skills" -> ".agents"
                      [] x \in {Adoption, "specs/stories"} -> "specs"
                      [] OTHER -> "root"
  BY DEF Parent, Names
<1> USE DEF SkillDirectory, LegacyDirectory, Adoption
<1>2. Parent["AGENTS.md"] = "root" /\ Parent["adoption"] = "specs"
  BY <1>1, PathSet
<1>3. \A p \in {"skill", "workflow", "snapshot"} : Parent[p] = SkillDirectory
  BY <1>1, PathSet
<1>4. \A p \in Range(Legacy) : Parent[p] = LegacyDirectory
  BY <1>1, PathSet
<1>5. Parent[SkillDirectory] = ".agents/skills" /\ Parent[LegacyDirectory] = ".agents/skills"
  BY <1>1, NameSet, PathSet
<1>6. \A p \in Paths : Parent[p] \in Names \cup {"root"}
  BY <1>2, <1>3, <1>4, PathSet, NameSet
<1> QED  BY <1>2, <1>3, <1>4, <1>5, <1>6

\* Some of the kinds a file may be of.
LEMMA KindTable ==
  /\ \A p \in Paths : Kinds(p) \subseteq AllKinds
  /\ {"missing", "odd", "empty", "new", "old", "v090", "edited", "plain", "valid"} \subseteq AllKinds
<1>1. \A p \in Paths : Kinds(p) \subseteq AllKinds
  BY DEF AllKinds
<1>2. "skill" \in Paths /\ "AGENTS.md" \in Paths /\ Adoption \in Paths
  BY PathSet DEF Adoption
<1>3. {"missing", "odd", "empty", "new", "old", "v090", "edited", "plain"} \subseteq Kinds("AGENTS.md")
  BY PathSet DEF Kinds, Contents, Adoption
<1>4. "valid" \in Kinds(Adoption)
  BY PathSet DEF Kinds, Contents, Adoption
<1> QED  BY <1>1, <1>2, <1>3, <1>4

\* What an activation makes of a path.
LEMMA TargetType ==
  \A p \in Paths : Target(p) \in AllKinds /\ Target(p) \in {"missing", "new"}
BY KindTable DEF Target

-----------------------------------------------------------------------------
\* The plan.

\* What planActivation finds when nothing stands in its way.
Unobstructed(f, d, c) ==
  /\ \A x \in Names : d[x] # "odd"
  /\ "missing" \notin {d["specs"], d["specs/stories"]}
  /\ f["AGENTS.md"] # "missing"
  /\ f["AGENTS.md"] \notin {"odd", "empty"}
  /\ f[Adoption] # "odd"
  /\ f[Adoption] \notin {"empty", "edited"}
  /\ ~(d[SkillDirectory] # "missing" /\ d[LegacyDirectory] # "missing")
  /\ ~(d[SkillDirectory] # "missing" /\ ~ExactMembers(SkillDirectory, f, c))
  /\ ~(d[LegacyDirectory] # "missing" /\ ~ExactMembers(LegacyDirectory, f, c))
  /\ \A p \in {"skill", "workflow", "snapshot"} : f[p] # "odd"
  /\ ~OwnershipConflict(f, d)

\* A concatenation is empty when both parts are.
LEMMA ConcatEmpty ==
  ASSUME NEW S, NEW s \in Seq(S), NEW t \in Seq(S)
  PROVE  s \o t \in Seq(S) /\ (s \o t = <<>> <=> s = <<>> /\ t = <<>>)
<1>1. s \o t \in Seq(S) /\ Len(s \o t) = Len(s) + Len(t)
  OBVIOUS
<1>2. s = <<>> <=> Len(s) = 0
  OBVIOUS
<1>3. t = <<>> <=> Len(t) = 0
  OBVIOUS
<1>4. s \o t = <<>> <=> Len(s \o t) = 0
  BY <1>1
<1>5. Len(s) \in Nat /\ Len(t) \in Nat
  OBVIOUS
<1> QED  BY <1>1, <1>2, <1>3, <1>4, <1>5

\* The conditions planActivation returns at are the ones that stand in its way.
LEMMA ObstaclesMeaning ==
  ASSUME NEW f, NEW d, NEW c
  PROVE  /\ Obstacles(f, d, c) \in Seq({"ACTIVATION_OPERATION_REFUSED", "ACTIVATION_CONFLICT"})
         /\ Obstacles(f, d, c) = <<>> <=> Unobstructed(f, d, c)
<1> DEFINE R == "ACTIVATION_OPERATION_REFUSED"
           C == "ACTIVATION_CONFLICT"
           T == {R, C}
           installed == d[SkillDirectory] # "missing"
           legacy == d[LegacyDirectory] # "missing"
           s1 == IF \E x \in Range(Directories) : d[x] = "odd" THEN <<R>> ELSE <<>>
           s2 == IF "missing" \in {d["specs"], d["specs/stories"]} THEN <<C>> ELSE <<>>
           s3 == IF f["AGENTS.md"] = "missing" THEN <<C>> ELSE <<>>
           s4 == IF f["AGENTS.md"] \in {"odd", "empty"} THEN <<R>> ELSE <<>>
           s5 == IF f[Adoption] = "odd" THEN <<R>> ELSE <<>>
           s6 == IF f[Adoption] \in {"empty", "edited"} THEN <<C>> ELSE <<>>
           s7 == IF installed /\ legacy THEN <<C>> ELSE <<>>
           s8 == IF installed /\ ~ExactMembers(SkillDirectory, f, c) THEN <<C>> ELSE <<>>
           s9 == IF legacy /\ ~ExactMembers(LegacyDirectory, f, c) THEN <<C>> ELSE <<>>
           s10 == IF \E p \in {"skill", "workflow", "snapshot"} : f[p] = "odd" THEN <<R>> ELSE <<>>
           s11 == IF OwnershipConflict(f, d) THEN <<C>> ELSE <<>>
<1>1. Obstacles(f, d, c) =
        s1 \o s2 \o s3 \o s4 \o s5 \o s6 \o s7 \o s8 \o s9 \o s10 \o s11
  BY DEF Obstacles
<1>2. /\ s1 \in Seq(T) /\ s2 \in Seq(T) /\ s3 \in Seq(T) /\ s4 \in Seq(T) /\ s5 \in Seq(T)
      /\ s6 \in Seq(T) /\ s7 \in Seq(T) /\ s8 \in Seq(T) /\ s9 \in Seq(T) /\ s10 \in Seq(T)
      /\ s11 \in Seq(T)
  <2>1. <<R>> \in Seq(T) /\ <<C>> \in Seq(T) /\ <<>> \in Seq(T)
    OBVIOUS
  <2> HIDE DEF R, C, T
  <2> QED  BY <2>1
<1>3. Unobstructed(f, d, c) <=>
        /\ s1 = <<>> /\ s2 = <<>> /\ s3 = <<>> /\ s4 = <<>> /\ s5 = <<>> /\ s6 = <<>>
        /\ s7 = <<>> /\ s8 = <<>> /\ s9 = <<>> /\ s10 = <<>> /\ s11 = <<>>
  <2>1. <<R>> # <<>> /\ <<C>> # <<>>
    OBVIOUS
  <2> HIDE DEF R, C
  <2> QED  BY <2>1 DEF Unobstructed, Names
<1> HIDE DEF s1, s2, s3, s4, s5, s6, s7, s8, s9, s10, s11, T
<1> DEFINE a2 == s1 \o s2
           a3 == a2 \o s3
           a4 == a3 \o s4
           a5 == a4 \o s5
           a6 == a5 \o s6
           a7 == a6 \o s7
           a8 == a7 \o s8
           a9 == a8 \o s9
           a10 == a9 \o s10
           a11 == a10 \o s11
<1>4. Obstacles(f, d, c) = a11
  BY <1>1
<1> HIDE DEF a2, a3, a4, a5, a6, a7, a8, a9, a10, a11
<1>5. a2 \in Seq(T) /\ (a2 = <<>> <=> s1 = <<>> /\ s2 = <<>>)
  BY <1>2, ConcatEmpty DEF a2
<1>6. a3 \in Seq(T) /\ (a3 = <<>> <=> a2 = <<>> /\ s3 = <<>>)
  BY <1>2, <1>5, ConcatEmpty DEF a3
<1>7. a4 \in Seq(T) /\ (a4 = <<>> <=> a3 = <<>> /\ s4 = <<>>)
  BY <1>2, <1>6, ConcatEmpty DEF a4
<1>8. a5 \in Seq(T) /\ (a5 = <<>> <=> a4 = <<>> /\ s5 = <<>>)
  BY <1>2, <1>7, ConcatEmpty DEF a5
<1>9. a6 \in Seq(T) /\ (a6 = <<>> <=> a5 = <<>> /\ s6 = <<>>)
  BY <1>2, <1>8, ConcatEmpty DEF a6
<1>10. a7 \in Seq(T) /\ (a7 = <<>> <=> a6 = <<>> /\ s7 = <<>>)
  BY <1>2, <1>9, ConcatEmpty DEF a7
<1>11. a8 \in Seq(T) /\ (a8 = <<>> <=> a7 = <<>> /\ s8 = <<>>)
  BY <1>2, <1>10, ConcatEmpty DEF a8
<1>12. a9 \in Seq(T) /\ (a9 = <<>> <=> a8 = <<>> /\ s9 = <<>>)
  BY <1>2, <1>11, ConcatEmpty DEF a9
<1>13. a10 \in Seq(T) /\ (a10 = <<>> <=> a9 = <<>> /\ s10 = <<>>)
  BY <1>2, <1>12, ConcatEmpty DEF a10
<1>14. a11 \in Seq(T) /\ (a11 = <<>> <=> a10 = <<>> /\ s11 = <<>>)
  BY <1>2, <1>13, ConcatEmpty DEF a11
<1>15. Obstacles(f, d, c) \in Seq(T)
  BY <1>4, <1>14
<1> QED
  BY <1>3, <1>4, <1>5, <1>6, <1>7, <1>8, <1>9, <1>10, <1>11, <1>12, <1>13, <1>14, <1>15
     DEF T

\* So there is a plan exactly when nothing does.
LEMMA OutcomeMeaning ==
  ASSUME NEW f, NEW d, NEW c
  PROVE  /\ PlanOutcome(f, d, c) \in {"ACTIVATION_PREVIEW", "ACTIVATION_UNCHANGED",
                                      "ACTIVATION_OPERATION_REFUSED", "ACTIVATION_CONFLICT"}
         /\ PlanOutcome(f, d, c) = "ACTIVATION_UNCHANGED" <=>
              /\ Unobstructed(f, d, c) /\ d[LegacyDirectory] = "missing"
              /\ \A p \in Range(Activated) : f[p] = "new"
         /\ PlanOutcome(f, d, c) = "ACTIVATION_PREVIEW" <=>
              /\ Unobstructed(f, d, c)
              /\ ~(/\ d[LegacyDirectory] = "missing"
                   /\ \A p \in Range(Activated) : f[p] = "new")
<1> DEFINE T == {"ACTIVATION_OPERATION_REFUSED", "ACTIVATION_CONFLICT"}
           o == Obstacles(f, d, c)
<1>1. o \in Seq(T) /\ (o = <<>> <=> Unobstructed(f, d, c))
  BY ObstaclesMeaning
<1>2. PlanOutcome(f, d, c) =
        IF o # <<>> THEN Head(o)
        ELSE IF /\ d[LegacyDirectory] = "missing"
                /\ \A p \in Range(Activated) : f[p] = "new"
             THEN "ACTIVATION_UNCHANGED" ELSE "ACTIVATION_PREVIEW"
  BY DEF PlanOutcome
<1>3. o # <<>> => Head(o) \in T
  <2> HIDE DEF o, T
  <2> QED  BY <1>1
<1> HIDE DEF o
<1> QED  BY <1>1, <1>2, <1>3

\* The elements of two sequences in a row.
LEMMA ConcatElements ==
  ASSUME NEW S, NEW s \in Seq(S), NEW t \in Seq(S)
  PROVE  /\ s \o t \in Seq(S) /\ Len(s \o t) = Len(s) + Len(t)
         /\ \A i \in 1..Len(s) : (s \o t)[i] = s[i]
         /\ \A i \in 1..Len(t) : (s \o t)[Len(s) + i] = t[i]
         /\ <<>> \o s = s
OBVIOUS

\* What is planned, and that there is always something.
LEMMA EffectsMeaning ==
  ASSUME NEW d
  PROVE  /\ PlanEffects(d) \in Seq(Paths) /\ PlanEffects(d) # <<>>
         /\ Range(PlanEffects(d)) =
              Range(Activated) \cup (IF d[LegacyDirectory] = "missing" THEN {} ELSE Range(Legacy))
<1> DEFINE S == {"AGENTS.md", "skill", "workflow", "snapshot",
                 "legacy skill", "legacy workflow", "legacy snapshot"}
<1>1. Activated \in Seq(S) /\ Legacy \in Seq(S) /\ Len(Activated) = 4 /\ Len(Legacy) = 3
  BY DEF Activated, Legacy
<1>2. S \subseteq Paths
  BY PathSet
<1>3. PlanEffects(d) = IF d[LegacyDirectory] = "missing" THEN Activated ELSE Legacy \o Activated
  <2>1. <<>> \o Activated = Activated
    BY <1>1, ConcatElements
  <2> QED  BY <2>1 DEF PlanEffects
<1> HIDE DEF S
<1>4. /\ Activated \in Seq(Paths) /\ Legacy \in Seq(Paths)
  BY <1>1, <1>2
<1>5. CASE d[LegacyDirectory] = "missing"
  <2>1. Activated # <<>>
    BY <1>1
  <2> QED  BY <1>3, <1>4, <1>5, <2>1
<1>6. CASE d[LegacyDirectory] # "missing"
  <2> DEFINE s == Legacy \o Activated
  <2>1. /\ s \in Seq(Paths) /\ Len(s) = 7
        /\ \A i \in 1..3 : s[i] = Legacy[i]
        /\ \A i \in 1..4 : s[3 + i] = Activated[i]
    <3>1. Len(Legacy) = 3 /\ Len(Activated) = 4
      BY <1>1
    <3> HIDE DEF s
    <3>2. /\ s \in Seq(Paths) /\ Len(s) = Len(Legacy) + Len(Activated)
          /\ \A i \in 1..Len(Legacy) : s[i] = Legacy[i]
          /\ \A i \in 1..Len(Activated) : s[Len(Legacy) + i] = Activated[i]
      BY <1>4, ConcatElements DEF s
    <3> QED  BY <3>1, <3>2
  <2>2. DOMAIN s = 1..7 /\ DOMAIN Legacy = 1..3 /\ DOMAIN Activated = 1..4
    BY <1>1, <1>4, <2>1
  <2>3. /\ 1..3 \subseteq 1..7 /\ \A i \in 1..4 : 3 + i \in 1..7
        /\ \A i \in 1..7 : i \in 1..3 \/ (i - 3 \in 1..4 /\ 3 + (i - 3) = i)
    OBVIOUS
  <2> HIDE DEF s
  <2>4. Range(s) = Range(Legacy) \cup Range(Activated)
    <3>1. \A i \in 1..7 : s[i] \in Range(Legacy) \cup Range(Activated)
      <4> TAKE i \in 1..7
      <4>1. CASE i \in 1..3
        BY <2>1, <2>2, <4>1 DEF Range
      <4>2. CASE i - 3 \in 1..4 /\ 3 + (i - 3) = i
        <5>1. s[i] = Activated[i - 3]
          BY <2>1, <4>2
        <5> QED  BY <2>2, <4>2, <5>1 DEF Range
      <4> QED  BY <2>3, <4>1, <4>2
    <3>2. \A i \in 1..3 : Legacy[i] \in Range(s)
      BY <2>1, <2>2, <2>3 DEF Range
    <3>3. \A i \in 1..4 : Activated[i] \in Range(s)
      <4> TAKE i \in 1..4
      <4>1. 3 + i \in DOMAIN s /\ s[3 + i] = Activated[i]
        BY <2>1, <2>2, <2>3
      <4> QED  BY <4>1 DEF Range
    <3> QED  BY <2>2, <3>1, <3>2, <3>3 DEF Range
  <2>5. s # <<>>
    BY <2>1
  <2> QED  BY <1>3, <1>6, <2>1, <2>4, <2>5 DEF s
<1> QED  BY <1>5, <1>6

\* What is none of the managed files can only stand in the way.
LEMMA FewerCrowded ==
  ASSUME NEW f, NEW d, NEW c, Unobstructed(f, d, c)
  PROVE  Unobstructed(f, d, {})
BY DEF Unobstructed, ExactMembers

\* Of a directory only its absence counts, and that it is something else.
LEMMA SameObstacles ==
  ASSUME NEW f, NEW d, NEW e, NEW c,
         \A x \in Names : /\ d[x] = "missing" <=> e[x] = "missing"
                          /\ d[x] = "odd" <=> e[x] = "odd",
         Unobstructed(f, e, c)
  PROVE  Unobstructed(f, d, c)
<1>1. {"specs", "specs/stories", SkillDirectory, LegacyDirectory} \subseteq Names
  BY NameSet DEF SkillDirectory, LegacyDirectory
<1>2. OwnershipConflict(f, d) <=> OwnershipConflict(f, e)
  BY <1>1 DEF OwnershipConflict
<1>3. \A x \in Names : e[x] # "odd"
  BY DEF Unobstructed
<1>4. \A x \in Names : d[x] # "odd"
  BY <1>3
<1>5. "missing" \notin {d["specs"], d["specs/stories"]}
  BY <1>1 DEF Unobstructed
<1>6. /\ d[SkillDirectory] = "missing" <=> e[SkillDirectory] = "missing"
      /\ d[LegacyDirectory] = "missing" <=> e[LegacyDirectory] = "missing"
  BY <1>1
<1> QED  BY <1>2, <1>4, <1>5, <1>6 DEF Unobstructed

\* What the section in AGENTS.md says is installed.
LEMMA OwnershipMeaning ==
  ASSUME NEW f, NEW d, ~OwnershipConflict(f, d)
  PROVE  /\ Span(f["AGENTS.md"]) = IF d[SkillDirectory] # "missing" THEN 2 ELSE 0
         /\ LegacySpan(f["AGENTS.md"]) = IF d[LegacyDirectory] # "missing" THEN 2 ELSE 0
         /\ d[SkillDirectory] # "missing" => ValidInstalledSnapshot(f)
         /\ d[LegacyDirectory] # "missing" => ValidLegacySnapshot(f)
BY DEF OwnershipConflict

\* A target that is partly as it was and partly as planned has a plan only where it
\* is as it was.
LEMMA PartialMeaning ==
  ASSUME NEW f \in FileMaps, NEW g \in FileMaps, NEW d, NEW e, NEW c,
         Unobstructed(g, e, {}), Unobstructed(f, d, c),
         \A p \in Paths : (f[p] # "missing" /\ Parent[p] \in Names) => d[Parent[p]] # "missing",
         \A p \in Paths : (g[p] # "missing" /\ Parent[p] \in Names) => e[Parent[p]] # "missing",
         \A p \in Paths \ Range(PlanEffects(e)) : f[p] = g[p],
         \A p \in Range(PlanEffects(e)) : \/ f[p] = g[p] \/ f[p] = Target(p)
                                          \/ p = CommitMarker /\ f[p] = "missing",
         ~(d[LegacyDirectory] = "missing" /\ \A p \in Range(Activated) : f[p] = "new")
  PROVE  f = g
<1> DEFINE AG == "AGENTS.md"
<1>1. /\ ~(d[SkillDirectory] # "missing" /\ d[LegacyDirectory] # "missing")
      /\ ~(e[SkillDirectory] # "missing" /\ e[LegacyDirectory] # "missing")
      /\ ~OwnershipConflict(f, d) /\ ~OwnershipConflict(g, e)
  BY DEF Unobstructed
<1>2. /\ Span(f[AG]) = IF d[SkillDirectory] # "missing" THEN 2 ELSE 0
      /\ LegacySpan(f[AG]) = IF d[LegacyDirectory] # "missing" THEN 2 ELSE 0
      /\ d[SkillDirectory] # "missing" => ValidInstalledSnapshot(f)
      /\ d[LegacyDirectory] # "missing" => ValidLegacySnapshot(f)
  BY <1>1, OwnershipMeaning
<1>3. /\ Span(g[AG]) = IF e[SkillDirectory] # "missing" THEN 2 ELSE 0
      /\ LegacySpan(g[AG]) = IF e[LegacyDirectory] # "missing" THEN 2 ELSE 0
      /\ e[SkillDirectory] # "missing" => ValidInstalledSnapshot(g)
      /\ e[LegacyDirectory] # "missing" => ValidLegacySnapshot(g)
  BY <1>1, OwnershipMeaning
<1>4. /\ Span("new") = 2 /\ Span("old") = 2 /\ Span("v090") = 0
      /\ LegacySpan("new") = 0 /\ LegacySpan("old") = 0 /\ LegacySpan("v090") = 2
  BY DEF Span, LegacySpan
<1>5. /\ AG \in Range(Activated) /\ AG \in Paths /\ Target(AG) = "new" /\ AG # CommitMarker
      /\ \A p \in Range(Activated) : p \notin Range(Legacy)
  BY PathSet DEF Target, CommitMarker
<1>6. Range(PlanEffects(e)) =
        Range(Activated) \cup (IF e[LegacyDirectory] = "missing" THEN {} ELSE Range(Legacy))
  BY EffectsMeaning
<1>7. f[AG] = g[AG] \/ f[AG] = "new"
  BY <1>5, <1>6
<1>8. ASSUME e[LegacyDirectory] = "missing", NEW p \in Paths \ Range(Activated)
      PROVE  f[p] = g[p]
  BY <1>6, <1>8
<1>9. /\ \A p \in {"skill", "workflow", "snapshot"} : p \in Paths /\ Parent[p] = SkillDirectory
      /\ SkillDirectory \in Names /\ LegacyDirectory \in Names
  BY PathSet, ParentTable, NameSet DEF SkillDirectory, LegacyDirectory
<1>10. ASSUME d[SkillDirectory] = "missing", e[SkillDirectory] = "missing",
              NEW p \in {"skill", "workflow", "snapshot"}
       PROVE  f[p] = g[p]
  <2>1. f[p] = "missing" /\ g[p] = "missing"
    BY <1>9, <1>10
  <2> QED  BY <2>1
<1>11. CASE d[SkillDirectory] # "missing"
  <2>1. d[LegacyDirectory] = "missing"
    BY <1>1, <1>11
  <2>2. /\ f["snapshot"] = "old" /\ f[AG] = "old"
        /\ \A p \in {"skill", "workflow"} : f[p] = OldAsset(p)
    BY <1>2, <1>11, <2>1 DEF ValidInstalledSnapshot
  <2>3. g[AG] = "old"
    BY <1>7, <2>2
  <2>4. e[SkillDirectory] # "missing"
    BY <1>3, <1>4, <2>3
  <2>5. e[LegacyDirectory] = "missing"
    BY <1>1, <2>4
  <2>6. /\ g["snapshot"] = "old"
        /\ \A p \in {"skill", "workflow"} : g[p] = OldAsset(p)
    BY <1>3, <1>5, <2>3, <2>4 DEF ValidInstalledSnapshot
  <2>7. \A p \in Range(Activated) : f[p] = g[p]
    BY <2>2, <2>3, <2>6, PathSet
  <2>8. \A p \in Paths : f[p] = g[p]
    BY <1>8, <2>5, <2>7
  <2> QED  BY <2>8 DEF FileMaps
<1>12. CASE d[LegacyDirectory] # "missing"
  <2>1. d[SkillDirectory] = "missing"
    BY <1>1, <1>12
  <2>2. f[AG] = "v090" /\ \A p \in Range(Legacy) : f[p] = "v090"
    BY <1>2, <1>12 DEF ValidLegacySnapshot
  <2>3. g[AG] = "v090"
    BY <1>7, <2>2
  <2>4. e[LegacyDirectory] # "missing"
    BY <1>3, <1>4, <2>3
  <2>5. e[SkillDirectory] = "missing"
    BY <1>1, <2>4
  <2>6. \A p \in Range(Legacy) : g[p] = "v090"
    BY <1>3, <2>4 DEF ValidLegacySnapshot
  <2>7. \A p \in {"skill", "workflow", "snapshot"} : f[p] = g[p]
    BY <1>10, <2>1, <2>5
  <2>8. f["adoption"] = g["adoption"]
    BY <1>6, PathSet
  <2>9. \A p \in Paths : f[p] = g[p]
    BY <2>2, <2>3, <2>6, <2>7, <2>8, PathSet
  <2> QED  BY <2>9 DEF FileMaps
<1>13. CASE d[SkillDirectory] = "missing" /\ d[LegacyDirectory] = "missing"
  <2>1. Span(f[AG]) = 0 /\ LegacySpan(f[AG]) = 0
    BY <1>2, <1>13
  <2>2. f[AG] = g[AG]
    BY <1>4, <1>7, <2>1
  <2>3. e[SkillDirectory] = "missing" /\ e[LegacyDirectory] = "missing"
    BY <1>3, <2>1, <2>2
  <2>4. \A p \in {"skill", "workflow", "snapshot"} : f[p] = g[p]
    BY <1>10, <1>13, <2>3
  <2>5. \A p \in Paths : f[p] = g[p]
    BY <1>8, <2>2, <2>3, <2>4, PathSet
  <2> QED  BY <2>5 DEF FileMaps
<1> QED  BY <1>11, <1>12, <1>13

-----------------------------------------------------------------------------
\* Types.


\* The lengths of the lists are numbers, and their elements are paths.
LEMMA LengthTypes ==
  ASSUME ListTypes
  PROVE  /\ Len(effects) \in Nat /\ Len(prepared) \in Nat /\ Len(staged) \in Nat
         /\ Len(attempted) \in Nat /\ Len(recoveryAttempted) \in Nat /\ Len(created) \in Nat
BY DEF ListTypes

\* The members of the lists.
LEMMA ElementTypes ==
  ASSUME ListTypes
  PROVE  /\ \A i \in 1..Len(effects) : effects[i] \in Planned
         /\ \A i \in 1..Len(staged) : staged[i] \in Range(staged)
         /\ \A i \in 1..Len(created) : created[i] \in Range(created)
         /\ Planned \subseteq Paths /\ Range(staged) \subseteq Paths
         /\ Range(created) \subseteq Names
         /\ Range(attempted) \subseteq Paths /\ Range(recoveryAttempted) \subseteq Paths
<1>1. /\ DOMAIN effects = 1..Len(effects) /\ DOMAIN staged = 1..Len(staged)
      /\ DOMAIN created = 1..Len(created) /\ DOMAIN attempted = 1..Len(attempted)
      /\ DOMAIN recoveryAttempted = 1..Len(recoveryAttempted)
  BY DEF ListTypes
<1>2. /\ \A i \in 1..Len(effects) : effects[i] \in Paths
      /\ \A i \in 1..Len(staged) : staged[i] \in Paths
      /\ \A i \in 1..Len(attempted) : attempted[i] \in Paths
      /\ \A i \in 1..Len(recoveryAttempted) : recoveryAttempted[i] \in Paths
      /\ \A i \in 1..Len(created) : created[i] \in Names
  BY DEF ListTypes
<1>3. /\ \A i \in 1..Len(effects) : effects[i] \in Planned
      /\ \A i \in 1..Len(staged) : staged[i] \in Range(staged)
      /\ \A i \in 1..Len(created) : created[i] \in Range(created)
  BY <1>1 DEF Range, Planned
<1> QED  BY <1>1, <1>2, <1>3 DEF Range, Planned

\* The destination that is prepared, applied or recovered next.
LEMMA CurrentType ==
  ASSUME ListTypes, Len(prepared) < Len(effects)
  PROVE  Len(prepared) + 1 \in 1..Len(effects) /\ Current \in Planned /\ Current \in Paths
<1>1. Len(prepared) + 1 \in 1..Len(effects)
  BY LengthTypes
<1> QED  BY <1>1, ElementTypes DEF Current

\* The destination that is replaced next.
LEMMA NextToApply ==
  ASSUME ListTypes, Len(attempted) < Len(effects)
  PROVE  /\ Len(attempted) + 1 \in 1..Len(effects)
         /\ effects[Len(attempted) + 1] \in Planned /\ effects[Len(attempted) + 1] \in Paths
<1>1. Len(attempted) + 1 \in 1..Len(effects)
  BY LengthTypes
<1> QED  BY <1>1, ElementTypes

\* The destination that is recovered next: the latest one not yet visited.
LEMMA NextToRecover ==
  ASSUME ListTypes, ListContents, ListLengths, ~Recovered
  PROVE  LET n == Len(attempted) - Len(recoveryAttempted) IN
         /\ n \in 1..Len(attempted) /\ n \in 1..Len(effects)
         /\ attempted[n] = effects[n] /\ attempted[n] \in Planned /\ attempted[n] \in Paths
<1> DEFINE n == Len(attempted) - Len(recoveryAttempted)
<1>1. /\ Len(recoveryAttempted) <= Len(attempted) /\ Len(attempted) <= Len(effects)
      /\ Len(recoveryAttempted) # Len(attempted)
  BY DEF ListLengths, Recovered
<1>2. n \in 1..Len(attempted) /\ n \in 1..Len(effects)
  BY <1>1, LengthTypes
<1>3. attempted[n] = effects[n]
  BY <1>2 DEF ListContents
<1> QED  BY <1>2, <1>3, ElementTypes

\* The stage that is cleaned next, and the directory.
LEMMA NextToClean ==
  ASSUME ListTypes, cursor > 0
  PROVE  /\ cursor <= Len(staged) => cursor \in 1..Len(staged) /\ staged[cursor] \in Paths
         /\ cursor <= Len(created) => cursor \in 1..Len(created) /\ created[cursor] \in Names
<1>1. cursor \in Nat
  BY DEF ListTypes
<1>2. cursor <= Len(staged) => cursor \in 1..Len(staged)
  BY <1>1, LengthTypes
<1>3. cursor <= Len(created) => cursor \in 1..Len(created)
  BY <1>1, LengthTypes
<1> QED  BY <1>2, <1>3, ElementTypes

\* The files, the directories and the stages stay what they can be.
LEMMA FileTypesStep ==
  ASSUME FileTypes, ListTypes, ListContents, ListLengths, PhaseInv, DirectoryInv, OwnedInv,
         [Next]_vars
  PROVE  FileTypes'
<1>1. CASE UNCHANGED <<disk, theirs, dirs, pre, stage, touched>>
  BY <1>1 DEF FileTypes
<1>2. ASSUME NEW p \in Paths, NEW v \in AllKinds, disk' = [disk EXCEPT ![p] = v]
      PROVE  disk' \in FileMaps
  BY <1>2 DEF FileTypes, FileMaps
<1>3. ASSUME NEW p \in Paths, NEW v \in Stages, stage' = [stage EXCEPT ![p] = v]
      PROVE  stage' \in [Paths -> Stages]
  BY <1>3 DEF FileTypes
<1>4. /\ NoStage \in Stages /\ NewStage \in Stages
      /\ \A o \in {"none", "foreign"} : [NoStage EXCEPT !.owner = o] \in Stages
  BY KindTable DEF NoStage, NewStage, Stages
<1>5. /\ disk \in FileMaps /\ stage \in [Paths -> Stages] /\ pre.files \in FileMaps
      /\ dirs \in [Names -> {"missing", "odd", "theirs", "ours"}]
  BY DEF FileTypes
<1>6. ASSUME NEW d \in Names, NEW v \in {"missing", "ours"}, dirs' = [dirs EXCEPT ![d] = v]
      PROVE  dirs' \in [Names -> {"missing", "odd", "theirs", "ours"}]
  BY <1>5, <1>6
<1>7. CASE Plan
  <2>1. pre' = [files |-> disk, dirs |-> dirs] /\ UNCHANGED <<disk, theirs, dirs, stage, touched>>
        /\ pc = "plan"
    BY <1>7 DEF Plan
  <2>2. \A d \in Names : dirs[d] = pre.dirs[d]
    <3>1. Range(created) = {}
      BY <2>1 DEF OwnedInv, Range
    <3> QED  BY <2>1, <3>1 DEF OwnedInv, DirectoryInv
  <2>3. dirs \in [Names -> {"missing", "odd", "theirs"}]
    BY <1>5, <2>2 DEF FileTypes
  <2> QED  BY <2>1, <2>3 DEF FileTypes
<1>8. CASE MakeDirectory
  <2> DEFINE d == Directories[cursor]
  <2>1. /\ UNCHANGED <<disk, theirs, pre, stage, touched>>
        /\ dirs' = dirs \/ dirs' = [dirs EXCEPT ![d] = "ours"]
        /\ cursor <= Len(Directories) /\ pc = "directories"
    BY <1>8 DEF MakeDirectory
  <2>2. DOMAIN dirs = Names
    BY <1>5
  <2>3. CASE dirs' = [dirs EXCEPT ![d] = "ours"]
    <3>1. dirs' \in [Names -> {"missing", "odd", "theirs", "ours"}]
      BY <1>5, <2>3
    <3> QED  BY <2>1, <3>1 DEF FileTypes
  <2> QED  BY <1>1, <2>1, <2>3
<1>9. CASE MakeStage
  <2>1. /\ UNCHANGED <<disk, theirs, dirs, pre, touched>> /\ Len(prepared) < Len(effects)
        /\ stage' = stage \/ stage' = [stage EXCEPT ![Current] = NewStage]
    BY <1>9 DEF MakeStage
  <2>2. stage' \in [Paths -> Stages]
    BY <1>3, <1>4, <1>5, <2>1, CurrentType
  <2> QED  BY <2>1, <2>2 DEF FileTypes
<1>10. CASE CopyOriginal
  <2>1. /\ UNCHANGED <<disk, theirs, dirs, pre, touched>> /\ pc = "copy original"
        /\ stage' = stage \/ stage' = [stage EXCEPT ![Current].original = pre.files[Current]]
    BY <1>10 DEF CopyOriginal
  <2>2. Current \in Paths
    BY <2>1, CurrentType DEF ListLengths
  <2>3. [stage[Current] EXCEPT !.original = pre.files[Current]] \in Stages
    BY <1>5, <2>2 DEF Stages, FileMaps
  <2>4. stage' = [stage EXCEPT ![Current].original = pre.files[Current]] =>
          stage' \in [Paths -> Stages]
    BY <1>3, <2>2, <2>3
  <2> QED  BY <1>5, <2>1, <2>4 DEF FileTypes
<1>11. CASE WriteNew
  <2>1. /\ UNCHANGED <<disk, theirs, dirs, pre, touched>> /\ pc = "write new"
        /\ stage' = stage \/ stage' = [stage EXCEPT ![Current].new = TRUE]
    BY <1>11 DEF WriteNew
  <2>2. Current \in Paths
    BY <2>1, CurrentType DEF ListLengths
  <2>3. [stage[Current] EXCEPT !.new = TRUE] \in Stages
    BY <1>5, <2>2 DEF Stages
  <2>4. stage' = [stage EXCEPT ![Current].new = TRUE] => stage' \in [Paths -> Stages]
    BY <1>3, <2>2, <2>3
  <2> QED  BY <1>5, <2>1, <2>4 DEF FileTypes
<1>12. CASE ApplyEffect
  <2> DEFINE p == effects[Len(attempted) + 1]
  <2>1. /\ UNCHANGED <<theirs, dirs, pre, touched>> /\ Len(attempted) < Len(effects)
        /\ \/ UNCHANGED <<disk, stage>>
           \/ /\ disk' = [disk EXCEPT ![p] = Target(p)]
              /\ stage' = [stage EXCEPT ![p].new = FALSE]
    BY <1>12 DEF ApplyEffect
  <2>2. p \in Paths
    BY <2>1, NextToApply
  <2> HIDE DEF p
  <2>3. [stage[p] EXCEPT !.new = FALSE] \in Stages
    BY <1>5, <2>2 DEF Stages
  <2>4. stage' = [stage EXCEPT ![p].new = FALSE] => stage' \in [Paths -> Stages]
    BY <1>3, <2>2, <2>3
  <2>5. disk' = [disk EXCEPT ![p] = Target(p)] => disk' \in FileMaps
    BY <1>2, <2>2, TargetType
  <2> QED  BY <1>1, <2>1, <2>4, <2>5 DEF FileTypes
<1>13. CASE RemoveLegacy \/ RecreateLegacy
  <2>1. /\ UNCHANGED <<disk, theirs, pre, stage, touched>>
        /\ \/ dirs' = dirs \/ dirs' = [dirs EXCEPT ![LegacyDirectory] = "missing"]
           \/ dirs' = [dirs EXCEPT ![LegacyDirectory] = "ours"]
    BY <1>13 DEF RemoveLegacy, RecreateLegacy
  <2>2. dirs' \in [Names -> {"missing", "odd", "theirs", "ours"}]
    BY <1>5, <2>1
  <2> QED  BY <2>1, <2>2 DEF FileTypes
<1>14. CASE RecoverEffect
  <2> DEFINE p == attempted[Len(attempted) - Len(recoveryAttempted)]
  <2>1. /\ UNCHANGED <<theirs, dirs, pre, stage, touched>> /\ ~Recovered
        /\ disk' = disk \/ disk' = [disk EXCEPT ![p] = pre.files[p]]
    BY <1>14 DEF RecoverEffect, Restoration
  <2>2. p \in Paths
    BY <2>1, NextToRecover
  <2> HIDE DEF p
  <2>3. pre.files[p] \in AllKinds
    BY <1>5, <2>2 DEF FileMaps
  <2>4. disk' \in FileMaps
    BY <1>2, <1>5, <2>1, <2>2, <2>3
  <2> QED  BY <2>1, <2>4 DEF FileTypes
<1>15. CASE Invalidate
  <2>1. /\ UNCHANGED <<theirs, dirs, pre, stage, touched>>
        /\ disk' = disk \/ disk' = [disk EXCEPT ![CommitMarker] = "missing"]
    BY <1>15 DEF Invalidate
  <2>2. CommitMarker \in Paths
    BY PathSet DEF CommitMarker
  <2>3. disk' \in FileMaps
    BY <1>2, <1>5, <2>1, <2>2, KindTable
  <2> QED  BY <2>1, <2>3 DEF FileTypes
<1>16. CASE CleanStage
  <2> DEFINE p == staged[cursor]
  <2>1. /\ UNCHANGED <<disk, theirs, dirs, pre, touched>> /\ cursor > 0 /\ pc = "clean stages"
        /\ \/ stage' = stage \/ stage' = [stage EXCEPT ![p] = NoStage]
           \/ \E left \in PartlyCleaned(stage[p]) : stage' = [stage EXCEPT ![p] = left]
    BY <1>16 DEF CleanStage
  <2>2. p \in Paths
    BY <2>1, NextToClean DEF ListLengths
  <2> HIDE DEF p
  <2>3. \A left \in PartlyCleaned(stage[p]) : left \in Stages
    BY <1>5, <2>2, KindTable DEF PartlyCleaned, Stages
  <2>4. stage' \in [Paths -> Stages]
    BY <1>3, <1>4, <1>5, <2>1, <2>2, <2>3
  <2> QED  BY <2>1, <2>4 DEF FileTypes
<1>17. CASE CleanDirectory
  <2> DEFINE d == created[cursor]
  <2>1. /\ UNCHANGED <<disk, theirs, pre, stage, touched>> /\ cursor > 0
        /\ dirs' = dirs \/ dirs' = [dirs EXCEPT ![d] = "missing"]
    BY <1>17 DEF CleanDirectory
  <2>2. dirs' \in [Names -> {"missing", "odd", "theirs", "ours"}]
    <3> HIDE DEF d
    <3> QED  BY <1>5, <2>1
  <2> QED  BY <2>1, <2>2 DEF FileTypes
<1>18. ASSUME NEW p \in Paths, NEW k \in Kinds(p), EditFile(p, k) PROVE FileTypes'
  <2>1. /\ UNCHANGED <<dirs, pre, stage>>
        /\ disk' = [disk EXCEPT ![p] = k] /\ theirs' = [theirs EXCEPT ![p] = k]
        /\ \E when \in {"early", "late"} : touched' = [touched EXCEPT ![p] = when]
    BY <1>18 DEF EditFile, Edit, Touch
  <2>2. k \in AllKinds
    BY KindTable
  <2>3. theirs' \in FileMaps
    BY <2>1, <2>2 DEF FileTypes, FileMaps
  <2>4. touched' \in [Paths -> {"never", "early", "late"}]
    BY <2>1 DEF FileTypes
  <2> QED  BY <1>2, <2>1, <2>2, <2>3, <2>4 DEF FileTypes
<1>19. ASSUME NEW p \in Paths, NEW o \in {"none", "foreign"}, EditStage(p, o) PROVE FileTypes'
  <2>1. /\ UNCHANGED <<disk, theirs, dirs, pre>>
        /\ stage' = [stage EXCEPT ![p] = [NoStage EXCEPT !.owner = o]]
        /\ \E when \in {"early", "late"} : touched' = [touched EXCEPT ![p] = when]
    BY <1>19 DEF EditStage, Edit, Touch
  <2>2. touched' \in [Paths -> {"never", "early", "late"}]
    BY <2>1 DEF FileTypes
  <2> QED  BY <1>3, <1>4, <2>1, <2>2 DEF FileTypes
<1>20. CASE \/ MakeScratch \/ Validate \/ DirectoriesMade \/ AllPrepared \/ Recapture
            \/ PollBeforeApply \/ AllApplied \/ RecoveryEnds \/ StagesCleaned
            \/ DirectoriesCleaned \/ Finish \/ CleanScratch \/ Signal \/ UNCHANGED vars
            \/ \E d \in {SkillDirectory, LegacyDirectory} : AddStranger(d)
  <2>1. UNCHANGED <<disk, theirs, dirs, pre, stage, touched>>
    BY <1>20 DEF MakeScratch, Validate, DirectoriesMade, AllPrepared, Recapture,
                 PollBeforeApply, AllApplied, RecoveryEnds, StagesCleaned, DirectoriesCleaned,
                 Finish, CleanScratch, Signal, vars, AddStranger, Edit
  <2> QED  BY <1>1, <2>1
<1> QED
  BY <1>7, <1>8, <1>9, <1>10, <1>11, <1>12, <1>13, <1>14, <1>15, <1>16, <1>17, <1>18, <1>19,
     <1>20 DEF Next

-----------------------------------------------------------------------------
(* The types of the lists.                                                 *)

\* Appending to a sequence.
LEMMA AppendType ==
  ASSUME NEW S, NEW s \in Seq(S), NEW x \in S
  PROVE  /\ Append(s, x) \in Seq(S) /\ Len(Append(s, x)) = Len(s) + 1
         /\ \A i \in 1..Len(s) : Append(s, x)[i] = s[i]
         /\ Append(s, x)[Len(s) + 1] = x
OBVIOUS

\* Actions that change none of the lists.
LEMMA ListTypesStep ==
  ASSUME FileTypes, ListTypes, ListContents, ListLengths, [Next]_vars
  PROVE  ListTypes'
<1> DEFINE Same == UNCHANGED <<effects, prepared, attempted, recoveryAttempted, staged, created,
                               cursor, edits, unrecovered>>
<1>1. CASE Same
  BY <1>1 DEF ListTypes
<1>2. /\ effects \in Seq(Paths) /\ prepared \in Seq(Paths) /\ attempted \in Seq(Paths)
      /\ recoveryAttempted \in Seq(Paths) /\ staged \in Seq(Paths) /\ created \in Seq(Names)
      /\ cursor \in Nat /\ edits \in Nat /\ unrecovered \subseteq Paths
      /\ Len(staged) \in Nat /\ Len(created) \in Nat
  BY LengthTypes DEF ListTypes
<1>3. CASE Plan
  <2>1. /\ UNCHANGED <<prepared, attempted, recoveryAttempted, staged, created, cursor, edits,
                       unrecovered>>
        /\ effects' \in {effects, <<>>, PlanEffects(dirs)}
    BY <1>3 DEF Plan
  <2>2. effects' \in Seq(Paths)
    <3>1. PlanEffects(dirs) \in Seq(Paths)
      BY EffectsMeaning
    <3>2. <<>> \in Seq(Paths)
      OBVIOUS
    <3> QED  BY <1>2, <2>1, <3>1, <3>2
  <2> QED  BY <1>2, <2>1, <2>2 DEF ListTypes
<1>4. CASE MakeDirectory
  <2>1. /\ UNCHANGED <<effects, prepared, attempted, recoveryAttempted, staged, edits, unrecovered>>
        /\ cursor <= Len(Directories)
        /\ cursor' \in {cursor + 1, Len(staged)}
        /\ created' = created \/ created' = Append(created, Directories[cursor])
        /\ pc = "directories"
    BY <1>4 DEF MakeDirectory, Abandon
  <2>2. Directories[cursor] \in Names
    <3>1. cursor \in 1..Len(Directories)
      BY <1>2, <2>1, NameSet DEF ListLengths
    <3> QED  BY <3>1, NameSet
  <2>3. created' \in Seq(Names)
    <3>1. Append(created, Directories[cursor]) \in Seq(Names)
      BY <1>2, <2>2, AppendType
    <3> QED  BY <1>2, <2>1, <3>1
  <2>4. cursor' \in Nat
    BY <1>2, <2>1
  <2> QED  BY <1>2, <2>1, <2>3, <2>4 DEF ListTypes
<1>5. CASE MakeStage
  <2>1. /\ UNCHANGED <<effects, prepared, attempted, recoveryAttempted, created, edits, unrecovered>>
        /\ Len(prepared) < Len(effects)
        /\ cursor' \in {cursor, Len(staged)}
        /\ staged' = staged \/ staged' = Append(staged, Current)
    BY <1>5 DEF MakeStage, Abandon
  <2>2. staged' \in Seq(Paths)
    <3>1. Append(staged, Current) \in Seq(Paths)
      BY <1>2, <2>1, CurrentType, AppendType
    <3> QED  BY <1>2, <2>1, <3>1
  <2>3. cursor' \in Nat
    BY <1>2, <2>1
  <2> QED  BY <1>2, <2>1, <2>2, <2>3 DEF ListTypes
<1>6. CASE WriteNew
  <2>1. /\ UNCHANGED <<effects, staged, attempted, recoveryAttempted, created, edits, unrecovered>>
        /\ pc = "write new"
        /\ cursor' \in {cursor, Len(staged)}
        /\ prepared' = prepared \/ prepared' = Append(prepared, Current)
    BY <1>6 DEF WriteNew, Abandon
  <2>2. prepared' \in Seq(Paths)
    <3>1. Current \in Paths
      BY <2>1, CurrentType DEF ListLengths
    <3>2. Append(prepared, Current) \in Seq(Paths)
      BY <1>2, <3>1, AppendType
    <3> QED  BY <1>2, <2>1, <3>2
  <2>3. cursor' \in Nat
    BY <1>2, <2>1
  <2> QED  BY <1>2, <2>1, <2>2, <2>3 DEF ListTypes
<1>7. CASE ApplyEffect
  <2>1. /\ UNCHANGED <<effects, prepared, staged, recoveryAttempted, created, cursor, edits,
                       unrecovered>>
        /\ Len(attempted) < Len(effects)
        /\ attempted' = Append(attempted, effects[Len(attempted) + 1])
    BY <1>7 DEF ApplyEffect
  <2>2. attempted' \in Seq(Paths)
    BY <1>2, <2>1, NextToApply
  <2> QED  BY <1>2, <2>1, <2>2 DEF ListTypes
<1>8. CASE RecoverEffect
  <2> DEFINE p == attempted[Len(attempted) - Len(recoveryAttempted)]
  <2>1. /\ UNCHANGED <<effects, prepared, staged, attempted, created, cursor, edits>>
        /\ ~Recovered
        /\ recoveryAttempted' = Append(recoveryAttempted, p)
        /\ unrecovered' \in {unrecovered, unrecovered \cup {p}}
    BY <1>8 DEF RecoverEffect
  <2>2. p \in Paths
    BY <2>1, NextToRecover
  <2>3. recoveryAttempted' \in Seq(Paths) /\ unrecovered' \subseteq Paths
    <3> HIDE DEF p
    <3> QED  BY <1>2, <2>1, <2>2
  <2> QED  BY <1>2, <2>1, <2>3 DEF ListTypes
<1>9. CASE \/ Validate \/ CopyOriginal \/ Recapture \/ PollBeforeApply \/ AllApplied
           \/ RemoveLegacy \/ RecoveryEnds \/ CleanStage \/ StagesCleaned \/ CleanDirectory
  <2>1. /\ UNCHANGED <<effects, prepared, staged, attempted, recoveryAttempted, created, edits,
                       unrecovered>>
    BY <1>9 DEF Validate, CopyOriginal, Recapture, PollBeforeApply, AllApplied,
         RemoveLegacy, RecoveryEnds, CleanStage, StagesCleaned, CleanDirectory
  <2>2. cursor' \in {cursor, 3, Len(staged), Len(created)} \/ (cursor > 0 /\ cursor' = cursor - 1)
    BY <1>9 DEF Validate, CopyOriginal, Recapture, PollBeforeApply, AllApplied, Abandon,
         RemoveLegacy, RecoveryEnds, CleanStage, StagesCleaned, CleanDirectory
  <2>3. cursor' \in Nat
    BY <1>2, <2>2
  <2> QED  BY <1>2, <2>1, <2>3 DEF ListTypes
<1>10. CASE \/ \E p \in Paths : \/ \E k \in Kinds(p) : EditFile(p, k)
                                \/ \E o \in {"none", "foreign"} : EditStage(p, o)
            \/ \E d \in {SkillDirectory, LegacyDirectory} : AddStranger(d)
  <2>1. Edit
    BY <1>10 DEF EditFile, EditStage, AddStranger
  <2>2. /\ UNCHANGED <<effects, prepared, staged, attempted, recoveryAttempted, created, cursor,
                       unrecovered>>
        /\ edits' = edits + 1
    BY <2>1 DEF Edit
  <2> QED  BY <1>2, <2>2 DEF ListTypes
<1>11. CASE \/ MakeScratch \/ DirectoriesMade \/ AllPrepared \/ RecreateLegacy \/ Invalidate
            \/ DirectoriesCleaned \/ Finish \/ CleanScratch \/ Signal \/ UNCHANGED vars
  <2>1. Same
    BY <1>11 DEF MakeScratch, DirectoriesMade, AllPrepared, RecreateLegacy, Invalidate,
                 DirectoriesCleaned, Finish, CleanScratch, Signal, vars
  <2> QED  BY <1>1, <2>1
<1> QED
  BY <1>3, <1>4, <1>5, <1>6, <1>7, <1>8, <1>9, <1>10, <1>11 DEF Next

\* Where the execution is, and at what stage it has failed, if it has.
LEMMA PlaceTypesStep ==
  ASSUME PlaceTypes, [Next]_vars
  PROVE  PlaceTypes'
<1> DEFINE FailureStages == {"precondition", "prepare", "apply", "recovery", "cleanup"}
<1>1. CASE UNCHANGED <<pc, failure>>
  BY <1>1 DEF PlaceTypes
<1>2. ASSUME NEW s \in FailureStages, NEW c, failure' = Failure(s, c)
      PROVE  failure'.stage \in FailureStages
  BY <1>2 DEF Failure
<1>3. ASSUME NEW s \in FailureStages, NEW c, Abandon(s, c)
      PROVE  PlaceTypes'
  BY <1>2, <1>3 DEF Abandon, PlaceTypes
<1>4. CASE /\ UNCHANGED failure
           /\ pc' \in Ready \cup Observing \cup Applying \cup Cleaning \cup Ended
  BY <1>4 DEF PlaceTypes
<1>5. CASE \/ Plan \/ MakeScratch \/ DirectoriesMade \/ AllPrepared
  BY <1>4, <1>5 DEF Plan, MakeScratch, DirectoriesMade, AllPrepared
<1>6. CASE Validate
  <2>1. \/ pc' = "directories" /\ UNCHANGED failure
        \/ pc' = "finish" /\ \E c : failure' = Failure("precondition", c)
    BY <1>6 DEF Validate
  <2> QED  BY <1>2, <1>4, <2>1 DEF PlaceTypes
<1>7. CASE MakeDirectory \/ MakeStage \/ CopyOriginal \/ WriteNew \/ Recapture \/ PollBeforeApply
  <2>1. \/ /\ UNCHANGED failure
           /\ pc' \in Ready \cup Observing \cup Applying \cup Cleaning \cup Ended
        \/ Abandon("prepare", "ACTIVATION_PREPARATION_FAILED")
        \/ Abandon("precondition", "ACTIVATION_STALE_PLAN")
        \/ Abandon("prepare", "ACTIVATION_INTERRUPTED")
    BY <1>7 DEF MakeDirectory, MakeStage, CopyOriginal, WriteNew, Recapture, PollBeforeApply
  <2> QED  BY <1>3, <1>4, <2>1
<1>8. CASE ApplyEffect \/ RecreateLegacy
  <2>1. \/ UNCHANGED <<pc, failure>>
        \/ pc' = "recover" /\ \E c : failure' = Failure("apply", c)
    BY <1>8 DEF ApplyEffect, RecreateLegacy, Fail
  <2> QED  BY <1>1, <1>2, <2>1 DEF PlaceTypes
<1>9. CASE AllApplied \/ RemoveLegacy \/ RecoverEffect \/ RecoveryEnds
  BY <1>1, <1>4, <1>9 DEF AllApplied, RemoveLegacy, RecoverEffect, RecoveryEnds
<1>10. CASE Invalidate
  <2>1. pc' = "finish" /\ failure' = Failure("recovery", "ACTIVATION_RESTORE_FAILED")
    BY <1>10 DEF Invalidate
  <2> QED  BY <1>2, <2>1 DEF PlaceTypes
<1>11. CASE CleanStage \/ StagesCleaned \/ CleanDirectory \/ DirectoriesCleaned \/ CleanScratch
  BY <1>1, <1>4, <1>11 DEF CleanStage, StagesCleaned, CleanDirectory, DirectoriesCleaned,
    CleanScratch
<1>12. CASE Finish
  <2>1. /\ pc' = "clean scratch"
        /\ \/ UNCHANGED failure
           \/ \E s \in {"cleanup", "prepare"} : failure' = Failure(s, "ACTIVATION_CLEANUP_FAILED")
    BY <1>12 DEF Finish, ReportedFailure
  <2> QED  BY <1>2, <2>1 DEF PlaceTypes
<1>13. CASE \/ Signal \/ UNCHANGED vars
            \/ \E p \in Paths : \/ \E k \in Kinds(p) : EditFile(p, k)
                                \/ \E o \in {"none", "foreign"} : EditStage(p, o)
            \/ \E d \in {SkillDirectory, LegacyDirectory} : AddStranger(d)
  BY <1>1, <1>13 DEF EditFile, EditStage, AddStranger, Edit, Signal, vars
<1> QED
  BY <1>5, <1>6, <1>7, <1>8, <1>9, <1>10, <1>11, <1>12, <1>13 DEF Next

-----------------------------------------------------------------------------
(* The plan, and the lists that follow it.                                 *)

\* What happens besides the execution changes none of its variables.
LEMMA ElsewhereFrame ==
  ASSUME \/ Signal \/ UNCHANGED vars
         \/ \E p \in Paths : \/ \E k \in Kinds(p) : EditFile(p, k)
                             \/ \E o \in {"none", "foreign"} : EditStage(p, o)
         \/ \E d \in {SkillDirectory, LegacyDirectory} : AddStranger(d)
  PROVE  UNCHANGED <<scratch, plan, pc, cursor, owned, progress, recovery, residue, verdict, faults,
                     dirs>>
<1>1. CASE Signal \/ UNCHANGED vars
  BY <1>1 DEF Signal, vars
<1>2. CASE \/ \E p \in Paths : \/ \E k \in Kinds(p) : EditFile(p, k)
                               \/ \E o \in {"none", "foreign"} : EditStage(p, o)
           \/ \E d \in {SkillDirectory, LegacyDirectory} : AddStranger(d)
  BY <1>2 DEF EditFile, EditStage, AddStranger, Edit
<1> QED  BY <1>1, <1>2

\* The steps of the execution after planning keep the plan and what was observed.
LEMMA PlanFrame ==
  ASSUME [Next]_vars
  PROVE  /\ Plan \/ UNCHANGED plan
         /\ Plan \/ MakeScratch \/ Finish \/ CleanScratch \/ UNCHANGED outcome
         /\ Plan \/ MakeScratch \/ (pc' \in {"plan", "make scratch", "validate"} => UNCHANGED pc)
         /\ Plan \/ MakeScratch \/ (pc \in Ended => pc' \in Ended)
<1>1. CASE \/ Plan \/ MakeScratch \/ Validate \/ MakeDirectory \/ DirectoriesMade
           \/ MakeStage \/ CopyOriginal \/ WriteNew \/ AllPrepared \/ Recapture
  BY <1>1 DEF MakeScratch, Validate, MakeDirectory, DirectoriesMade, MakeStage,
    CopyOriginal, WriteNew, AllPrepared, Recapture, Abandon
<1>2. CASE \/ PollBeforeApply \/ ApplyEffect \/ AllApplied \/ RemoveLegacy \/ RecreateLegacy
           \/ RecoverEffect \/ RecoveryEnds \/ Invalidate
  BY <1>2 DEF PollBeforeApply, ApplyEffect, AllApplied, RemoveLegacy, RecreateLegacy,
    RecoverEffect, RecoveryEnds, Invalidate, Abandon, Fail
<1>3. CASE CleanStage \/ StagesCleaned \/ CleanDirectory \/ DirectoriesCleaned \/ Finish
           \/ CleanScratch
  BY <1>3 DEF CleanStage, StagesCleaned, CleanDirectory, DirectoriesCleaned, Finish,
    CleanScratch
<1>4. CASE \/ Signal \/ UNCHANGED vars
           \/ \E p \in Paths : \/ \E k \in Kinds(p) : EditFile(p, k)
                               \/ \E o \in {"none", "foreign"} : EditStage(p, o)
           \/ \E d \in {SkillDirectory, LegacyDirectory} : AddStranger(d)
  <2>1. UNCHANGED <<plan, pc, verdict>>
    BY <1>4, ElsewhereFrame
  <2> QED  BY <2>1
<1> QED
  BY <1>1, <1>2, <1>3, <1>4 DEF Next

\* Only planning makes effects.
LEMMA PlanInvStep ==
  ASSUME PlanInv, [Next]_vars
  PROVE  PlanInv'
<1>1. CASE Plan
  <2>1. /\ pre' = [files |-> disk, dirs |-> dirs] /\ pc = "plan"
        /\ pc' \in {"make scratch", "done"}
        /\ \/ Replanned = "ACTIVATION_PREVIEW" /\ effects' = PlanEffects(dirs)
           \/ effects' \in {effects, <<>>} /\ outcome' # "ACTIVATION_PREVIEW"
    BY <1>1 DEF Plan
  <2>2. effects = <<>>
    BY <2>1 DEF PlanInv
  <2>3. CASE Replanned = "ACTIVATION_PREVIEW" /\ effects' = PlanEffects(dirs)
    <3>1. PlanOutcome(disk, dirs, Crowded) = "ACTIVATION_PREVIEW"
      BY <2>3 DEF Replanned
    <3>2. Unobstructed(disk, dirs, {})
      BY <3>1, OutcomeMeaning, FewerCrowded
    <3>3. PlanOutcome(disk, dirs, {}) = "ACTIVATION_PREVIEW"
      BY <3>1, <3>2, OutcomeMeaning
    <3>4. pre'.files = disk /\ pre'.dirs = dirs
      BY <2>1
    <3>5. effects' # <<>>
      BY <2>3, EffectsMeaning
    <3> QED  BY <2>1, <2>3, <3>3, <3>4, <3>5 DEF PlanInv
  <2>4. CASE effects' \in {effects, <<>>} /\ outcome' # "ACTIVATION_PREVIEW"
    BY <2>1, <2>2, <2>4 DEF PlanInv
  <2> QED  BY <2>1, <2>3, <2>4
<1>2. CASE MakeScratch
  <2>1. /\ UNCHANGED plan /\ pc = "make scratch"
        /\ \/ pc' = "validate" /\ outcome = "ACTIVATION_PREVIEW"
           \/ pc' \in Ended
    BY <1>2 DEF MakeScratch
  <2> QED  BY <2>1 DEF PlanInv
<1>3. CASE ~Plan /\ ~MakeScratch
  <2>1. UNCHANGED plan
    BY <1>3, PlanFrame
  <2>2. /\ pc' \in {"plan", "make scratch", "validate"} => UNCHANGED pc
        /\ pc \in Ended => pc' \in Ended
    BY <1>3, PlanFrame
  <2>3. pc' = "make scratch" => UNCHANGED outcome
    <3>1. Finish \/ CleanScratch => pc' # "make scratch"
      BY DEF Finish, CleanScratch
    <3> QED  BY <1>3, <3>1, PlanFrame
  <2>4. CASE pc \in {"plan", "make scratch"}
    <3>1. UNCHANGED pc
      BY <1>3, <2>4 DEF Next, vars, Validate, MakeDirectory, DirectoriesMade, MakeStage,
    CopyOriginal, WriteNew, AllPrepared, Recapture, PollBeforeApply, ApplyEffect, AllApplied, RemoveLegacy, RecreateLegacy,
    RecoverEffect, RecoveryEnds, Invalidate, CleanStage, StagesCleaned, CleanDirectory, DirectoriesCleaned, Finish,
    CleanScratch, Signal, EditFile, EditStage, AddStranger, Edit
    <3> QED  BY <2>1, <2>3, <2>4, <3>1 DEF PlanInv
  <2>5. CASE pc \notin {"plan", "make scratch"}
    <3>1. pc' \notin {"plan", "make scratch"}
      BY <2>2, <2>5
    <3> QED  BY <2>1, <2>2, <2>5, <3>1 DEF PlanInv
  <2> QED  BY <2>4, <2>5
<1> QED  BY <1>1, <1>2, <1>3

\* Every list is extended by the next effect.
LEMMA ListContentsStep ==
  ASSUME ListTypes, ListContents, ListLengths, PhaseInv, PlanInv, [Next]_vars
  PROVE  ListContents'
<1>1. CASE UNCHANGED <<effects, prepared, staged, attempted, recoveryAttempted>>
  BY <1>1 DEF ListContents
<1>2. /\ effects \in Seq(Paths) /\ prepared \in Seq(Paths) /\ attempted \in Seq(Paths)
      /\ recoveryAttempted \in Seq(Paths) /\ staged \in Seq(Paths)
      /\ Len(effects) \in Nat /\ Len(prepared) \in Nat /\ Len(staged) \in Nat
      /\ Len(attempted) \in Nat /\ Len(recoveryAttempted) \in Nat
  BY LengthTypes DEF ListTypes
<1>3. CASE Plan
  <2>1. /\ UNCHANGED <<prepared, staged, attempted, recoveryAttempted>> /\ pc = "plan"
    BY <1>3 DEF Plan
  <2>2. /\ Len(prepared) = 0 /\ Len(staged) = 0 /\ attempted = <<>> /\ recoveryAttempted = <<>>
    BY <2>1 DEF ListLengths, PhaseInv
  <2>3. Len(attempted) = 0 /\ Len(recoveryAttempted) = 0
    BY <2>2
  <2> QED  BY <2>1, <2>2, <2>3 DEF ListContents
<1>4. CASE MakeStage
  <2>1. /\ UNCHANGED <<effects, prepared, attempted, recoveryAttempted>>
        /\ Len(prepared) < Len(effects) /\ pc = "make stage"
        /\ staged' = staged \/ staged' = Append(staged, effects[Len(prepared) + 1])
    BY <1>4 DEF MakeStage, Current
  <2>2. Len(staged) = Len(prepared)
    BY <2>1 DEF ListLengths
  <2>3. effects[Len(prepared) + 1] \in Paths
    BY <2>1, CurrentType DEF Current
  <2>4. ASSUME staged' = Append(staged, effects[Len(prepared) + 1]), NEW i \in 1..Len(staged')
        PROVE  staged'[i] = effects[i]
    <3>1. /\ Len(staged') = Len(staged) + 1
          /\ \A j \in 1..Len(staged) : staged'[j] = staged[j]
          /\ staged'[Len(staged) + 1] = effects[Len(prepared) + 1]
      BY <1>2, <2>3, <2>4, AppendType
    <3>2. i \in 1..Len(staged) \/ i = Len(staged) + 1
      BY <1>2, <2>4, <3>1
    <3> QED  BY <2>2, <3>1, <3>2 DEF ListContents
  <2> QED  BY <1>1, <2>1, <2>4 DEF ListContents
<1>5. CASE WriteNew
  <2>1. /\ UNCHANGED <<effects, staged, attempted, recoveryAttempted>> /\ pc = "write new"
        /\ prepared' = prepared \/ prepared' = Append(prepared, effects[Len(prepared) + 1])
    BY <1>5 DEF WriteNew, Current
  <2>2. effects[Len(prepared) + 1] \in Paths
    BY <2>1, CurrentType DEF Current, ListLengths
  <2>3. ASSUME prepared' = Append(prepared, effects[Len(prepared) + 1]), NEW i \in 1..Len(prepared')
        PROVE  prepared'[i] = effects[i]
    <3>1. /\ Len(prepared') = Len(prepared) + 1
          /\ \A j \in 1..Len(prepared) : prepared'[j] = prepared[j]
          /\ prepared'[Len(prepared) + 1] = effects[Len(prepared) + 1]
      BY <1>2, <2>2, <2>3, AppendType
    <3>2. i \in 1..Len(prepared) \/ i = Len(prepared) + 1
      BY <1>2, <2>3, <3>1
    <3> QED  BY <3>1, <3>2 DEF ListContents
  <2> QED  BY <1>1, <2>1, <2>3 DEF ListContents
<1>6. CASE ApplyEffect
  <2>1. /\ UNCHANGED <<effects, prepared, staged, recoveryAttempted>> /\ pc = "apply"
        /\ attempted' = Append(attempted, effects[Len(attempted) + 1])
        /\ Len(attempted) < Len(effects)
    BY <1>6 DEF ApplyEffect
  <2>2. effects[Len(attempted) + 1] \in Paths
    BY <2>1, NextToApply
  <2>3. ASSUME NEW i \in 1..Len(attempted')
        PROVE  attempted'[i] = effects[i]
    <3>1. /\ Len(attempted') = Len(attempted) + 1
          /\ \A j \in 1..Len(attempted) : attempted'[j] = attempted[j]
          /\ attempted'[Len(attempted) + 1] = effects[Len(attempted) + 1]
      BY <1>2, <2>1, <2>2, AppendType
    <3>2. i \in 1..Len(attempted) \/ i = Len(attempted) + 1
      BY <1>2, <2>3, <3>1
    <3> QED  BY <3>1, <3>2 DEF ListContents
  <2>4. Len(recoveryAttempted) = 0
    <3>1. recoveryAttempted = <<>>
      BY <2>1 DEF PhaseInv
    <3> QED  BY <3>1
  <2> QED  BY <2>1, <2>3, <2>4 DEF ListContents
<1>7. CASE RecoverEffect
  <2> DEFINE n == Len(attempted) - Len(recoveryAttempted)
  <2>1. /\ UNCHANGED <<effects, prepared, staged, attempted>> /\ ~Recovered
        /\ recoveryAttempted' = Append(recoveryAttempted, attempted[n])
    BY <1>7 DEF RecoverEffect
  <2>2. n \in 1..Len(attempted) /\ attempted[n] \in Paths
    BY <2>1, NextToRecover
  <2>3. ASSUME NEW i \in 1..Len(recoveryAttempted')
        PROVE  recoveryAttempted'[i] = attempted[Len(attempted) + 1 - i]
    <3>1. /\ Len(recoveryAttempted') = Len(recoveryAttempted) + 1
          /\ \A j \in 1..Len(recoveryAttempted) : recoveryAttempted'[j] = recoveryAttempted[j]
          /\ recoveryAttempted'[Len(recoveryAttempted) + 1] = attempted[n]
      <4> HIDE DEF n
      <4> QED  BY <1>2, <2>1, <2>2, AppendType
    <3>2. i \in 1..Len(recoveryAttempted) \/ i = Len(recoveryAttempted) + 1
      BY <1>2, <2>3, <3>1
    <3>3. n = Len(attempted) + 1 - (Len(recoveryAttempted) + 1)
      BY <1>2
    <3> HIDE DEF n
    <3>4. CASE i = Len(recoveryAttempted) + 1
      <4>1. Len(attempted) + 1 - i = n
        BY <3>3, <3>4
      <4> QED  BY <3>1, <3>4, <4>1
    <3>5. CASE i \in 1..Len(recoveryAttempted)
      BY <3>1, <3>5 DEF ListContents
    <3> QED  BY <3>2, <3>4, <3>5
  <2> QED  BY <2>1, <2>3 DEF ListContents
<1>8. CASE \/ MakeScratch \/ Validate \/ MakeDirectory \/ DirectoriesMade \/ CopyOriginal
           \/ AllPrepared \/ Recapture \/ PollBeforeApply \/ AllApplied \/ RemoveLegacy
           \/ RecreateLegacy \/ RecoveryEnds \/ Invalidate \/ CleanStage \/ StagesCleaned
           \/ CleanDirectory \/ DirectoriesCleaned \/ Finish \/ CleanScratch
  <2>1. UNCHANGED <<effects, prepared, staged, attempted, recoveryAttempted>>
    BY <1>8 DEF MakeScratch, Validate, MakeDirectory, DirectoriesMade, CopyOriginal, AllPrepared,
         Recapture, PollBeforeApply, AllApplied, RemoveLegacy, RecreateLegacy, RecoveryEnds,
         Invalidate, CleanStage, StagesCleaned, CleanDirectory, DirectoriesCleaned, Finish,
         CleanScratch
  <2> QED  BY <1>1, <2>1
<1>9. CASE \/ Signal \/ UNCHANGED vars
           \/ \E p \in Paths : \/ \E k \in Kinds(p) : EditFile(p, k)
                               \/ \E o \in {"none", "foreign"} : EditStage(p, o)
           \/ \E d \in {SkillDirectory, LegacyDirectory} : AddStranger(d)
  <2>1. UNCHANGED <<effects, prepared, staged, attempted, recoveryAttempted>>
    BY <1>9, ElsewhereFrame
  <2> QED  BY <1>1, <2>1
<1> QED
  BY <1>3, <1>4, <1>5, <1>6, <1>7, <1>8, <1>9 DEF Next

-----------------------------------------------------------------------------
(* How far the lists have come.                                            *)

\* How long the lists are.
LEMMA ListLengthsStep ==
  ASSUME ListTypes, ListLengths, PhaseInv, PlanInv, [Next]_vars
  PROVE  ListLengths'
<1> DEFINE e == Len(effects)
           b == Len(prepared)
           s == Len(staged)
           a == Len(attempted)
           r == Len(recoveryAttempted)
           c == Len(created)
           Copies == pc \in {"copy original", "write new"}
           Starts == pc \in Ready \cup {"directories"}
           Level  == pc \in {"make stage", "recapture"} \cup Applying
           Full   == pc \in {"recapture"} \cup Applying
           Makes  == pc = "directories"
           Cleans == pc = "clean stages"
           Leaves == pc = "clean directories"
<1>1. /\ effects \in Seq(Paths) /\ prepared \in Seq(Paths) /\ attempted \in Seq(Paths)
      /\ recoveryAttempted \in Seq(Paths) /\ staged \in Seq(Paths) /\ created \in Seq(Names)
      /\ e \in Nat /\ b \in Nat /\ s \in Nat /\ a \in Nat /\ r \in Nat /\ c \in Nat
      /\ cursor \in Nat
  BY LengthTypes DEF ListTypes
<1>2. /\ b <= e /\ s <= e /\ a <= e /\ r <= a
      /\ Copies => b < e
      /\ Copies => s = b + 1
      /\ Starts => b = 0 /\ s = 0
      /\ Level => s = b
      /\ Full => b = e
      /\ Makes => cursor > 0
      /\ Cleans => cursor <= s
      /\ Leaves => cursor <= c
  BY DEF ListLengths
<1> DEFINE Goal ==
        /\ b' <= e' /\ s' <= e' /\ a' <= e' /\ r' <= a'
        /\ Copies' => b' < e'
        /\ Copies' => s' = b' + 1
        /\ Starts' => b' = 0 /\ s' = 0
        /\ Level' => s' = b'
        /\ Full' => b' = e'
        /\ Makes' => cursor' > 0
        /\ Cleans' => cursor' <= s'
        /\ Leaves' => cursor' <= c'
<1>3. Goal => ListLengths'
  BY DEF ListLengths
<1>4. CASE Plan
  <2>1. /\ UNCHANGED <<prepared, staged, attempted, recoveryAttempted>> /\ pc = "plan"
        /\ pc' \in {"make scratch", "done"}
        /\ effects' \in {effects, <<>>, PlanEffects(dirs)}
    BY <1>4 DEF Plan
  <2>2. Starts /\ ~Copies' /\ ~Level' /\ ~Full' /\ ~Makes' /\ ~Cleans' /\ ~Leaves'
    BY <2>1
  <2>3. a = 0 /\ r = 0
    BY <2>1 DEF PhaseInv
  <2>4. e' \in Nat
    <3>1. Len(PlanEffects(dirs)) \in Nat
      <4>1. PlanEffects(dirs) \in Seq(Paths)
        BY EffectsMeaning
      <4> QED  BY <4>1
    <3>2. Len(<<>>) \in Nat
      OBVIOUS
    <3> QED  BY <1>1, <2>1, <3>1, <3>2
  <2>5. b' = b /\ s' = s /\ a' = a /\ r' = r
    BY <2>1
  <2>6. Goal
    <3> HIDE DEF e, b, s, a, r, c, Copies, Starts, Level, Full, Makes, Cleans, Leaves
    <3>1. b' = 0 /\ s' = 0 /\ a' = 0 /\ r' = 0
      BY <1>2, <2>2, <2>3, <2>5
    <3>2. b' <= e' /\ s' <= e' /\ a' <= e' /\ r' <= a'
      BY <2>4, <3>1
    <3> QED  BY <2>2, <3>1, <3>2
  <2> QED  BY <1>3, <2>6
<1>5. CASE MakeScratch \/ Validate \/ MakeDirectory \/ DirectoriesMade \/ CopyOriginal
  <2>1. UNCHANGED <<effects, prepared, staged, attempted, recoveryAttempted>>
    BY <1>5 DEF MakeScratch, Validate, MakeDirectory, DirectoriesMade, CopyOriginal
  <2>2. e' = e /\ b' = b /\ s' = s /\ a' = a /\ r' = r
    BY <2>1
  <2>3. \/ pc = "make scratch" /\ pc' \in {"validate", "clean scratch", "done"}
        \/ pc = "validate" /\ pc' = "finish"
        \/ pc = "validate" /\ pc' = "directories" /\ cursor' = 3
        \/ pc = "directories" /\ pc' = "directories" /\ cursor' = cursor + 1
        \/ pc = "directories" /\ pc' = "clean stages" /\ cursor' = s
        \/ pc = "directories" /\ pc' = "make stage"
        \/ pc = "copy original" /\ pc' = "write new"
        \/ pc = "copy original" /\ pc' = "clean stages" /\ cursor' = s
    BY <1>5 DEF MakeScratch, Validate, MakeDirectory, DirectoriesMade, CopyOriginal, Abandon
  <2>4. /\ ~Full' /\ ~Leaves' /\ (Copies' => Copies) /\ (Starts' => Starts)
        /\ (Level' => Starts) /\ (Makes' => cursor' = 3 \/ (Makes /\ cursor' = cursor + 1))
        /\ (Cleans' => cursor' = s)
    <3> HIDE DEF s
    <3> QED  BY <2>3
  <2>5. Goal
    <3> HIDE DEF e, b, s, a, r, c, Copies, Starts, Level, Full, Makes, Cleans, Leaves
    <3> QED  BY <1>1, <1>2, <2>2, <2>4
  <2> QED  BY <1>3, <2>5
<1>6. CASE MakeStage
  <2>1. /\ UNCHANGED <<effects, prepared, attempted, recoveryAttempted>> /\ pc = "make stage"
        /\ b < e
        /\ \/ staged' = Append(staged, Current) /\ pc' = "copy original"
           \/ staged' = staged /\ pc' = "clean stages" /\ cursor' = s
    BY <1>6 DEF MakeStage, Abandon
  <2>2. staged' = Append(staged, Current) => s' = s + 1
    <3>1. Current \in Paths
      BY <2>1, CurrentType
    <3> QED  BY <1>1, <3>1, AppendType
  <2>3. e' = e /\ b' = b /\ a' = a /\ r' = r /\ (staged' = staged => s' = s)
    BY <2>1
  <2>4. /\ Level /\ ~Starts' /\ ~Level' /\ ~Full' /\ ~Makes' /\ ~Leaves'
        /\ (Copies' => staged' = Append(staged, Current))
        /\ (Cleans' => cursor' = s /\ staged' = staged)
        /\ Copies' \/ Cleans'
    <3> HIDE DEF s
    <3> QED  BY <2>1
  <2>5. Goal
    <3>1. b < e
      BY <2>1
    <3> HIDE DEF e, b, s, a, r, c, Copies, Starts, Level, Full, Makes, Cleans, Leaves
    <3>2. (Copies' => s' = s + 1) /\ (Cleans' => cursor' = s /\ s' = s) /\ (Copies' \/ Cleans')
      BY <2>2, <2>3, <2>4
    <3> QED  BY <1>1, <1>2, <2>3, <2>4, <3>1, <3>2
  <2> QED  BY <1>3, <2>5
<1>7. CASE WriteNew
  <2>1. /\ UNCHANGED <<effects, staged, attempted, recoveryAttempted>> /\ pc = "write new"
        /\ \/ prepared' = Append(prepared, Current) /\ pc' = "make stage"
           \/ prepared' = prepared /\ pc' = "clean stages" /\ cursor' = s
    BY <1>7 DEF WriteNew, Abandon
  <2>2. prepared' = Append(prepared, Current) => b' = b + 1
    <3>1. Copies
      BY <2>1
    <3>2. Current \in Paths
      BY <1>2, <3>1, CurrentType
    <3> QED  BY <1>1, <3>2, AppendType
  <2>3. e' = e /\ s' = s /\ a' = a /\ r' = r /\ (prepared' = prepared => b' = b)
    BY <2>1
  <2>4. /\ Copies /\ ~Starts' /\ ~Copies' /\ ~Full' /\ ~Makes' /\ ~Leaves'
        /\ (Level' => prepared' = Append(prepared, Current))
        /\ (Cleans' => cursor' = s /\ prepared' = prepared)
        /\ Level' \/ Cleans'
    <3> HIDE DEF s
    <3> QED  BY <2>1
  <2>5. Goal
    <3> HIDE DEF e, b, s, a, r, c, Copies, Starts, Level, Full, Makes, Cleans, Leaves
    <3>2. (Level' => b' = b + 1) /\ (Cleans' => cursor' = s /\ b' = b) /\ (Level' \/ Cleans')
      BY <2>2, <2>3, <2>4
    <3> QED  BY <1>1, <1>2, <2>3, <2>4, <3>2
  <2> QED  BY <1>3, <2>5
<1>8. CASE ApplyEffect
  <2>1. /\ UNCHANGED <<effects, prepared, staged, recoveryAttempted>> /\ pc = "apply"
        /\ a < e /\ attempted' = Append(attempted, effects[a + 1])
        /\ pc' \in {"apply", "recover"}
    BY <1>8 DEF ApplyEffect, Fail
  <2>2. a' = a + 1
    <3>1. effects[a + 1] \in Paths
      BY <2>1, NextToApply
    <3> QED  BY <1>1, <2>1, <3>1, AppendType
  <2>3. e' = e /\ b' = b /\ s' = s /\ r' = r
    BY <2>1
  <2>4. /\ Level /\ Full /\ ~Starts' /\ ~Copies' /\ ~Makes' /\ ~Leaves' /\ ~Cleans'
    BY <2>1
  <2>5. Goal
    <3>1. a < e
      BY <2>1
    <3> HIDE DEF e, b, s, a, r, c, Copies, Starts, Level, Full, Makes, Cleans, Leaves
    <3> QED  BY <1>1, <1>2, <2>2, <2>3, <2>4, <3>1
  <2> QED  BY <1>3, <2>5
<1>9. CASE RecoverEffect
  <2>1. /\ UNCHANGED <<effects, prepared, staged, attempted>> /\ pc = "recover" /\ r # a
        /\ recoveryAttempted' = Append(recoveryAttempted, attempted[a - r]) /\ pc' = pc
    BY <1>9 DEF RecoverEffect, Recovered
  <2>2. r' = r + 1
    <3>1. a - r \in 1..a
      <4>1. r # a
        BY <2>1
      <4> HIDE DEF e, b, s, a, r, c, Copies, Starts, Level, Full, Makes, Cleans, Leaves
      <4> QED  BY <1>1, <1>2, <4>1
    <3>2. attempted[a - r] \in Paths
      BY <1>1, <3>1
    <3> QED  BY <1>1, <2>1, <3>2, AppendType
  <2>3. e' = e /\ b' = b /\ s' = s /\ a' = a
    BY <2>1
  <2>4. /\ Level /\ Full /\ ~Starts' /\ ~Copies' /\ ~Makes' /\ ~Leaves' /\ ~Cleans'
    BY <2>1
  <2>5. Goal
    <3>1. r # a
      BY <2>1
    <3> HIDE DEF e, b, s, a, r, c, Copies, Starts, Level, Full, Makes, Cleans, Leaves
    <3> QED  BY <1>1, <1>2, <2>2, <2>3, <2>4, <3>1
  <2> QED  BY <1>3, <2>5
<1>10. CASE \/ AllPrepared \/ Recapture \/ PollBeforeApply \/ AllApplied \/ RemoveLegacy
            \/ RecreateLegacy \/ RecoveryEnds \/ Invalidate
  <2>1. UNCHANGED <<effects, prepared, staged, attempted, recoveryAttempted, created>>
    BY <1>10 DEF AllPrepared, Recapture, PollBeforeApply, AllApplied, RemoveLegacy,
                 RecreateLegacy, RecoveryEnds, Invalidate
  <2>2. \/ pc = "make stage" /\ b = e /\ pc' = "recapture"
        \/ pc \in {"recapture", "poll", "apply", "remove legacy", "recover"}
             /\ pc' = "clean stages" /\ cursor' = s
        \/ pc \in {"recapture"} \cup Applying
             /\ pc' \in {"poll", "apply", "remove legacy", "recreate legacy", "recover",
                         "invalidate", "finish"}
    BY <1>10 DEF AllPrepared, Recapture, PollBeforeApply, AllApplied, RemoveLegacy,
                 RecreateLegacy, RecoveryEnds, Invalidate, Abandon, Fail
  <2>3. e' = e /\ b' = b /\ s' = s /\ a' = a /\ r' = r
    BY <2>1
  <2>4. /\ Level /\ (Full' => Full \/ b = e) /\ ~Copies' /\ ~Starts' /\ ~Makes' /\ ~Leaves'
        /\ (Cleans' => cursor' = s)
    <3> HIDE DEF b, e, s
    <3> QED  BY <2>2
  <2>5. Goal
    <3> HIDE DEF e, b, s, a, r, c, Copies, Starts, Level, Full, Makes, Cleans, Leaves
    <3> QED  BY <1>1, <1>2, <2>3, <2>4
  <2> QED  BY <1>3, <2>5
<1>11. CASE CleanStage \/ StagesCleaned \/ CleanDirectory \/ DirectoriesCleaned \/ Finish
            \/ CleanScratch
  <2>1. UNCHANGED <<effects, prepared, staged, attempted, recoveryAttempted, created>>
    BY <1>11 DEF CleanStage, StagesCleaned, CleanDirectory, DirectoriesCleaned, Finish,
                 CleanScratch
  <2>2. \/ pc = "clean stages" /\ pc' = pc /\ cursor > 0 /\ cursor' = cursor - 1
        \/ pc' = "finish"
        \/ pc' = "clean directories" /\ cursor' = c
        \/ pc = "clean directories" /\ pc' = pc /\ cursor > 0 /\ cursor' = cursor - 1
        \/ pc' \in {"clean scratch", "done"}
    BY <1>11 DEF CleanStage, StagesCleaned, CleanDirectory, DirectoriesCleaned, Finish,
                 CleanScratch
  <2>3. e' = e /\ b' = b /\ s' = s /\ a' = a /\ r' = r /\ c' = c
    BY <2>1
  <2>4. /\ ~Level' /\ ~Full' /\ ~Copies' /\ ~Starts' /\ ~Makes'
        /\ (Cleans' => Cleans /\ cursor > 0 /\ cursor' = cursor - 1)
        /\ (Leaves' => cursor' = c \/ (Leaves /\ cursor > 0 /\ cursor' = cursor - 1))
    <3> HIDE DEF c
    <3> QED  BY <2>2
  <2>5. Goal
    <3> HIDE DEF e, b, s, a, r, c, Copies, Starts, Level, Full, Makes, Cleans, Leaves
    <3> QED  BY <1>1, <1>2, <2>3, <2>4
  <2> QED  BY <1>3, <2>5
<1>12. CASE \/ Signal \/ UNCHANGED vars
            \/ \E p \in Paths : \/ \E k \in Kinds(p) : EditFile(p, k)
                                \/ \E o \in {"none", "foreign"} : EditStage(p, o)
            \/ \E d \in {SkillDirectory, LegacyDirectory} : AddStranger(d)
  <2>1. /\ UNCHANGED <<effects, prepared, staged, attempted, recoveryAttempted, created, pc, cursor>>
    BY <1>12, ElsewhereFrame
  <2> QED  BY <2>1 DEF ListLengths
<1> QED
  BY <1>4, <1>5, <1>6, <1>7, <1>8, <1>9, <1>10, <1>11, <1>12 DEF Next

\* What has been tried where.
LEMMA PhaseInvStep ==
  ASSUME ListTypes, ListLengths, PhaseInv, PlanInv, PlaceTypes, [Next]_vars
  PROVE  PhaseInv'
<1> DEFINE e == Len(effects)
           s == Len(staged)
           a == Len(attempted)
           r == Len(recoveryAttempted)
<1>1. /\ effects \in Seq(Paths) /\ attempted \in Seq(Paths)
      /\ recoveryAttempted \in Seq(Paths) /\ staged \in Seq(Paths)
      /\ e \in Nat /\ s \in Nat /\ a \in Nat /\ r \in Nat
  BY LengthTypes DEF ListTypes
<1>2. /\ pc \in Ready \cup Observing \cup {"poll"} => attempted = <<>>
      /\ pc \notin {"recover", "invalidate"} \cup Cleaning \cup Ended =>
           recoveryAttempted = <<>> /\ unrecovered = {}
      /\ pc \in {"remove legacy", "recreate legacy"} => a = e
      /\ pc = "invalidate" => r = a /\ unrecovered # {}
      /\ pc \in Cleaning \cup Ended => committed \/ r = a
      /\ committed =>
           /\ pc \in Cleaning \cup Ended
           /\ effects # <<>> /\ a = e /\ recoveryAttempted = <<>>
           /\ s = e /\ unrecovered = {}
      /\ unrecovered # {} => recoveryAttempted # <<>>
      /\ pc \in {"clean stages", "clean directories"} => unrecovered = {}
  BY DEF PhaseInv, Recovered
<1>3. PhaseInv' <=>
      /\ pc' \in Ready \cup Observing \cup {"poll"} => attempted' = <<>>
      /\ pc' \notin {"recover", "invalidate"} \cup Cleaning \cup Ended =>
           recoveryAttempted' = <<>> /\ unrecovered' = {}
      /\ pc' \in {"remove legacy", "recreate legacy"} => a' = e'
      /\ pc' = "invalidate" => r' = a' /\ unrecovered' # {}
      /\ pc' \in Cleaning \cup Ended => committed' \/ r' = a'
      /\ committed' =>
           /\ pc' \in Cleaning \cup Ended
           /\ effects' # <<>> /\ a' = e' /\ recoveryAttempted' = <<>>
           /\ s' = e' /\ unrecovered' = {}
      /\ unrecovered' # {} => recoveryAttempted' # <<>>
      /\ pc' \in {"clean stages", "clean directories"} => unrecovered' = {}
  BY DEF PhaseInv, Recovered
<1>4. attempted = <<>> /\ recoveryAttempted = <<>> => r = a
  OBVIOUS
<1>5. CASE Plan
  <2>1. /\ UNCHANGED <<staged, attempted, recoveryAttempted, unrecovered, committed>> /\ pc = "plan"
        /\ pc' \in {"make scratch", "done"}
    BY <1>5 DEF Plan
  <2>2. a' = a /\ r' = r
    BY <2>1
  <2> HIDE DEF e, s, a, r
  <2> QED  BY <1>2, <1>3, <1>4, <2>1, <2>2
<1>6. ASSUME UNCHANGED <<effects, staged, attempted, recoveryAttempted>>
      PROVE  e' = e /\ s' = s /\ a' = a /\ r' = r
  BY <1>6
<1>7. CASE MakeScratch \/ Validate \/ MakeDirectory \/ DirectoriesMade \/ CopyOriginal \/ WriteNew
           \/ AllPrepared \/ Recapture \/ PollBeforeApply
  <2>1. UNCHANGED <<effects, staged, attempted, recoveryAttempted, unrecovered, committed>>
    BY <1>7 DEF MakeScratch, Validate, MakeDirectory, DirectoriesMade, CopyOriginal, WriteNew,
                AllPrepared, Recapture, PollBeforeApply
  <2>2. /\ pc \in Ready \cup Observing \cup {"poll"}
        /\ pc' \in Ready \cup Observing \cup {"poll", "apply", "clean stages", "finish", "clean scratch", "done"}
    BY <1>7 DEF MakeScratch, Validate, MakeDirectory, DirectoriesMade, CopyOriginal, WriteNew,
                AllPrepared, Recapture, PollBeforeApply, Abandon
  <2> HIDE DEF e, s, a, r
  <2> QED  BY <1>2, <1>3, <1>4, <1>6, <2>1, <2>2
<1>8. CASE MakeStage
  <2>1. /\ UNCHANGED <<effects, attempted, recoveryAttempted, unrecovered, committed>>
        /\ pc = "make stage" /\ pc' \in {"copy original", "clean stages"}
    BY <1>8 DEF MakeStage, Abandon
  <2>2. a' = a /\ r' = r
    BY <2>1
  <2> HIDE DEF e, s, a, r
  <2> QED  BY <1>2, <1>3, <1>4, <2>1, <2>2
<1>9. CASE ApplyEffect
  <2>1. /\ UNCHANGED <<effects, staged, recoveryAttempted, unrecovered, committed>> /\ pc = "apply"
        /\ pc' \in {"apply", "recover"}
    BY <1>9 DEF ApplyEffect, Fail
  <2> HIDE DEF e, s, a, r
  <2> QED  BY <1>2, <1>3, <2>1
<1>10. CASE AllApplied \/ RemoveLegacy \/ RecreateLegacy
  <2>1. /\ UNCHANGED <<effects, staged, attempted, recoveryAttempted, unrecovered>>
        /\ \/ /\ pc = "apply" /\ a = e
              /\ pc' = "clean stages" /\ committed'
           \/ pc = "apply" /\ a = e /\ pc' = "remove legacy" /\ UNCHANGED committed
           \/ pc = "remove legacy" /\ pc' = "clean stages" /\ committed'
           \/ pc = "remove legacy" /\ pc' = "recreate legacy" /\ UNCHANGED committed
           \/ pc = "recreate legacy" /\ pc' = "recover" /\ UNCHANGED committed
    BY <1>10 DEF AllApplied, RemoveLegacy, RecreateLegacy, Fail
  <2>2. (pc \in {"apply", "remove legacy"}) => effects # <<>> /\ s = e
    <3>1. pc \in {"apply", "remove legacy"} => effects # <<>>
      BY DEF PlanInv
    <3>2. pc \in {"apply", "remove legacy"} => s = e
      BY DEF ListLengths
    <3> QED  BY <3>1, <3>2
  <2> HIDE DEF e, s, a, r
  <2> QED  BY <1>2, <1>3, <1>6, <2>1, <2>2
<1>11. CASE RecoverEffect
  <2>1. /\ UNCHANGED <<pc, committed>> /\ pc = "recover" /\ r # a
        /\ recoveryAttempted' = Append(recoveryAttempted, attempted[a - r])
    BY <1>11 DEF RecoverEffect, Recovered
  <2>2. recoveryAttempted' # <<>>
    <3>1. a - r \in 1..a
      <4>1. r <= a
        BY DEF ListLengths
      <4> QED  BY <1>1, <2>1, <4>1
    <3>2. attempted[a - r] \in Paths
      BY <1>1, <3>1
    <3>3. Len(recoveryAttempted') = r + 1
      BY <1>1, <2>1, <3>2, AppendType
    <3> QED  BY <1>1, <3>3
  <2> HIDE DEF e, s, a, r
  <2> QED  BY <1>2, <1>3, <2>1, <2>2
<1>12. CASE RecoveryEnds \/ Invalidate
  <2>1. /\ UNCHANGED <<effects, staged, attempted, recoveryAttempted, unrecovered, committed>>
        /\ \/ pc = "recover" /\ r = a /\ unrecovered = {} /\ pc' = "clean stages"
           \/ pc = "recover" /\ r = a /\ unrecovered # {} /\ pc' = "invalidate"
           \/ pc = "invalidate" /\ pc' = "finish"
    BY <1>12 DEF RecoveryEnds, Invalidate, Recovered
  <2> HIDE DEF e, s, a, r
  <2> QED  BY <1>2, <1>3, <1>6, <2>1
<1>13. CASE CleanStage \/ StagesCleaned \/ CleanDirectory \/ DirectoriesCleaned \/ Finish
            \/ CleanScratch
  <2>1. /\ UNCHANGED <<effects, staged, attempted, recoveryAttempted, unrecovered, committed>>
        /\ pc \in Cleaning \cup Ended
        /\ \/ UNCHANGED pc
           \/ pc = "clean stages" /\ pc' \in {"finish", "clean directories"}
           \/ pc' \in {"finish", "clean scratch", "done"}
    BY <1>13 DEF CleanStage, StagesCleaned, CleanDirectory, DirectoriesCleaned, Finish,
                 CleanScratch
  <2> HIDE DEF e, s, a, r
  <2> QED  BY <1>2, <1>3, <1>6, <2>1
<1>14. CASE \/ Signal \/ UNCHANGED vars
            \/ \E p \in Paths : \/ \E k \in Kinds(p) : EditFile(p, k)
                                \/ \E o \in {"none", "foreign"} : EditStage(p, o)
            \/ \E d \in {SkillDirectory, LegacyDirectory} : AddStranger(d)
  <2>1. UNCHANGED <<effects, staged, attempted, recoveryAttempted, unrecovered, committed, pc>>
    BY <1>14, ElsewhereFrame
  <2> HIDE DEF e, s, a, r
  <2> QED  BY <1>2, <1>3, <1>6, <2>1
<1> QED
  BY <1>5, <1>7, <1>8, <1>9, <1>10, <1>11, <1>12, <1>13, <1>14 DEF Next

-----------------------------------------------------------------------------
(* What changes what, and where a file can be.                             *)

\* Who changes what.
LEMMA ChangeFrame ==
  ASSUME [Next]_vars
  PROVE  /\ MakeDirectory \/ RemoveLegacy \/ RecreateLegacy \/ CleanDirectory \/ UNCHANGED dirs
         /\ \/ ApplyEffect \/ RecoverEffect \/ Invalidate
            \/ \E p \in Paths : \E k \in Kinds(p) : EditFile(p, k)
            \/ UNCHANGED disk
         /\ \/ MakeStage \/ CopyOriginal \/ WriteNew \/ ApplyEffect \/ CleanStage
            \/ \E p \in Paths : \E o \in {"none", "foreign"} : EditStage(p, o)
            \/ UNCHANGED stage
         /\ \/ \E d \in {SkillDirectory, LegacyDirectory} : AddStranger(d)
            \/ UNCHANGED strangers
         /\ MakeDirectory \/ UNCHANGED created
         /\ MakeStage \/ UNCHANGED staged
         /\ ApplyEffect \/ UNCHANGED attempted
         /\ RecoverEffect \/ UNCHANGED <<recoveryAttempted, unrecovered>>
         /\ AllApplied \/ RemoveLegacy \/ UNCHANGED committed
         /\ \/ \E p \in Paths : \/ \E k \in Kinds(p) : EditFile(p, k)
                                \/ \E o \in {"none", "foreign"} : EditStage(p, o)
            \/ UNCHANGED touched
         /\ \/ \E p \in Paths : \/ \E k \in Kinds(p) : EditFile(p, k)
                                \/ \E o \in {"none", "foreign"} : EditStage(p, o)
            \/ \E d \in {SkillDirectory, LegacyDirectory} : AddStranger(d)
            \/ UNCHANGED edits
<1>1. CASE \/ Plan \/ MakeScratch \/ Validate \/ DirectoriesMade \/ AllPrepared \/ Recapture
           \/ PollBeforeApply \/ AllApplied
  BY <1>1 DEF Plan, MakeScratch, Validate, DirectoriesMade, AllPrepared, Recapture,
              PollBeforeApply, AllApplied
<1>2. CASE MakeDirectory \/ MakeStage \/ CopyOriginal \/ WriteNew \/ ApplyEffect
  BY <1>2 DEF MakeDirectory, MakeStage, CopyOriginal, WriteNew, ApplyEffect
<1>3. CASE RemoveLegacy \/ RecreateLegacy \/ RecoverEffect \/ RecoveryEnds \/ Invalidate
  BY <1>3 DEF RemoveLegacy, RecreateLegacy, RecoverEffect, RecoveryEnds, Invalidate
<1>4. CASE CleanStage \/ StagesCleaned \/ CleanDirectory \/ DirectoriesCleaned \/ Finish
           \/ CleanScratch
  BY <1>4 DEF CleanStage, StagesCleaned, CleanDirectory, DirectoriesCleaned, Finish, CleanScratch
<1>5. CASE Signal \/ UNCHANGED vars
  BY <1>5 DEF Signal, vars
<1>6. CASE \/ \E p \in Paths : \/ \E k \in Kinds(p) : EditFile(p, k)
                               \/ \E o \in {"none", "foreign"} : EditStage(p, o)
           \/ \E d \in {SkillDirectory, LegacyDirectory} : AddStranger(d)
  BY <1>6 DEF EditFile, EditStage, AddStranger, Edit
<1> QED
  BY <1>1, <1>2, <1>3, <1>4, <1>5, <1>6 DEF Next

\* The members of a sequence after appending.
LEMMA RangeAppend ==
  ASSUME NEW S, NEW s \in Seq(S), NEW x \in S
  PROVE  Range(Append(s, x)) = Range(s) \cup {x}
<1>1. /\ DOMAIN s = 1..Len(s) /\ DOMAIN Append(s, x) = 1..(Len(s) + 1) /\ Len(s) \in Nat
      /\ \A i \in 1..Len(s) : Append(s, x)[i] = s[i]
      /\ Append(s, x)[Len(s) + 1] = x
  OBVIOUS
<1>2. 1..(Len(s) + 1) = 1..Len(s) \cup {Len(s) + 1}
  BY <1>1
<1> QED  BY <1>1, <1>2 DEF Range

\* The empty sequence has no members.
LEMMA RangeEmpty == Range(<<>>) = {}
BY DEF Range

\* What a directory is.
LEMMA ExistsMeaning ==
  /\ "root" \notin Names /\ Exists("root")
  /\ \A d \in Names : Exists(d) <=> dirs[d] \in {"theirs", "ours"}
BY NameSet DEF Exists, Names

\* A directory is removed only when nothing is in it.
LEMMA ShelterInvStep ==
  ASSUME FileTypes, ListTypes, ListLengths, ListContents, PlanInv, ShelterInv, [Next]_vars
  PROVE  ShelterInv'
<1>1. /\ \A p \in Paths : disk[p] # "missing" => Exists(Parent[p])
      /\ \A d \in strangers : dirs[d] # "missing"
      /\ \A p \in Paths : (pre.files[p] # "missing" /\ Parent[p] \in Names) =>
                            pre.dirs[Parent[p]] # "missing"
  BY DEF ShelterInv
<1>2. /\ disk \in FileMaps /\ pre.files \in FileMaps
      /\ dirs \in [Names -> {"missing", "odd", "theirs", "ours"}]
  BY DEF FileTypes
<1>3. \A p \in Paths : (pre'.files[p] # "missing" /\ Parent[p] \in Names) =>
                         pre'.dirs[Parent[p]] # "missing"
  <2>1. CASE Plan
    <3>1. pre'.files = disk /\ pre'.dirs = dirs
      BY <2>1 DEF Plan
    <3> QED  BY <1>1, <3>1, ExistsMeaning
  <2>2. CASE UNCHANGED pre
    BY <1>1, <2>2
  <2> QED  BY <2>1, <2>2, PlanFrame
<1>4. ASSUME UNCHANGED dirs, NEW d
      PROVE  Exists(d)' <=> Exists(d)
  BY <1>4 DEF Exists
<1>5. /\ \A p \in Paths : Parent[p] \in Names \cup {"root"}
      /\ SkillDirectory \in Names /\ LegacyDirectory \in Names
  BY ParentTable, NameSet DEF SkillDirectory, LegacyDirectory
<1>6. CASE UNCHANGED <<disk, dirs, strangers>>
  BY <1>1, <1>3, <1>4, <1>6 DEF ShelterInv
<1>7. CASE MakeDirectory \/ RecreateLegacy
  <2>1. /\ UNCHANGED <<disk, strangers>>
        /\ dirs' = dirs \/ \E d \in Names : dirs' = [dirs EXCEPT ![d] = "ours"]
    <3>1. CASE RecreateLegacy
      BY <1>5, <3>1 DEF RecreateLegacy
    <3>2. CASE MakeDirectory
      <4>1. /\ UNCHANGED <<disk, strangers>> /\ cursor <= Len(Directories) /\ pc = "directories"
            /\ dirs' = dirs \/ dirs' = [dirs EXCEPT ![Directories[cursor]] = "ours"]
        BY <3>2 DEF MakeDirectory
      <4>2. cursor \in 1..Len(Directories)
        <5>1. cursor > 0
          BY <4>1 DEF ListLengths
        <5>2. cursor <= Len(Directories)
          BY <4>1
        <5> QED  BY <5>1, <5>2, NameSet DEF ListTypes
      <4> QED  BY <4>1, <4>2, NameSet
    <3> QED  BY <1>7, <3>1, <3>2
  <2>2. CASE dirs' = dirs
    BY <1>6, <2>1, <2>2
  <2>3. ASSUME NEW d \in Names, dirs' = [dirs EXCEPT ![d] = "ours"]
        PROVE  ShelterInv'
    <3>1. \A x \in Names : dirs'[x] = dirs[x] \/ dirs'[x] = "ours"
      BY <1>2, <2>3
    <3>2. \A x \in Names \cup {"root"} : Exists(x) => Exists(x)'
      BY <3>1, NameSet DEF Exists, Names
    <3>3. \A x \in strangers' : dirs'[x] # "missing"
      <4> TAKE x \in strangers'
      <4>1. dirs[x] # "missing"
        BY <1>1, <2>1
      <4>2. dirs'[x] = dirs[x] \/ x = d
        BY <1>2, <2>3
      <4>3. dirs'[d] = "ours"
        BY <1>2, <2>3
      <4> QED  BY <4>1, <4>2, <4>3
    <3> QED  BY <1>1, <1>3, <1>5, <2>1, <3>2, <3>3 DEF ShelterInv
  <2> QED  BY <2>1, <2>2, <2>3
<1>8. ASSUME NEW d \in Names, IsEmpty(d), dirs' = [dirs EXCEPT ![d] = "missing"],
             UNCHANGED <<disk, strangers>>
      PROVE  ShelterInv'
  <2>1. /\ \A p \in Paths : Parent[p] = d => disk[p] = "missing"
        /\ d \notin strangers
    BY <1>8 DEF IsEmpty, Members
  <2>2. \A x \in (Names \cup {"root"}) \ {d} : Exists(x) => Exists(x)'
    <3>1. \A x \in Names \ {d} : dirs'[x] = dirs[x]
      BY <1>2, <1>8
    <3> QED  BY <3>1, NameSet DEF Exists, Names
  <2>3. \A p \in Paths : disk'[p] # "missing" => Exists(Parent[p])'
    BY <1>1, <1>5, <1>8, <2>1, <2>2
  <2>4. \A x \in strangers' : dirs'[x] # "missing"
    BY <1>1, <1>2, <1>8, <2>1
  <2> QED  BY <1>3, <2>3, <2>4 DEF ShelterInv
<1>9. CASE RemoveLegacy
  <2>1. /\ UNCHANGED <<disk, strangers>>
        /\ \/ dirs' = dirs
           \/ IsEmpty(LegacyDirectory) /\ dirs' = [dirs EXCEPT ![LegacyDirectory] = "missing"]
    BY <1>9 DEF RemoveLegacy, Removable
  <2> QED  BY <1>5, <1>6, <1>8, <2>1
<1>10. CASE CleanDirectory
  <2>1. /\ UNCHANGED <<disk, strangers>> /\ cursor > 0 /\ pc = "clean directories"
        /\ \/ dirs' = dirs
           \/ IsEmpty(created[cursor]) /\ dirs' = [dirs EXCEPT ![created[cursor]] = "missing"]
    BY <1>10 DEF CleanDirectory
  <2>2. created[cursor] \in Names
    BY <2>1, NextToClean DEF ListLengths
  <2> QED  BY <1>6, <1>8, <2>1, <2>2
<1>11. ASSUME NEW p \in Paths, NEW v, disk' = [disk EXCEPT ![p] = v], UNCHANGED <<dirs, strangers>>,
              v # "missing" => Exists(Parent[p])
       PROVE  ShelterInv'
  <2>1. \A x \in Paths : disk'[x] = IF x = p THEN v ELSE disk[x]
    BY <1>2, <1>11 DEF FileMaps
  <2>2. \A x \in Paths : disk'[x] # "missing" => Exists(Parent[x])'
    BY <1>1, <1>4, <1>11, <2>1
  <2> QED  BY <1>1, <1>3, <1>11, <2>2 DEF ShelterInv
<1>12. CASE ApplyEffect
  <2> DEFINE p == effects[Len(attempted) + 1]
  <2>1. /\ UNCHANGED <<dirs, strangers>> /\ Len(attempted) < Len(effects)
        /\ \/ disk' = disk
           \/ /\ disk' = [disk EXCEPT ![p] = Target(p)]
              /\ p \in Range(Legacy) \/ Exists(Parent[p])
    BY <1>12 DEF ApplyEffect
  <2>2. p \in Paths
    BY <2>1, NextToApply
  <2> HIDE DEF p
  <2>3. p \in Range(Legacy) => Target(p) = "missing"
    BY DEF Target
  <2> QED  BY <1>6, <1>11, <2>1, <2>2, <2>3
<1>13. CASE RecoverEffect
  <2> DEFINE p == attempted[Len(attempted) - Len(recoveryAttempted)]
  <2>1. /\ UNCHANGED <<dirs, strangers>> /\ ~Recovered
        /\ \/ disk' = disk
           \/ /\ disk' = [disk EXCEPT ![p] = pre.files[p]]
              /\ pre.files[p] = "missing" \/ Exists(Parent[p])
    BY <1>13 DEF RecoverEffect, Restoration
  <2>2. p \in Paths
    BY <2>1, NextToRecover
  <2> HIDE DEF p
  <2> QED  BY <1>6, <1>11, <2>1, <2>2
<1>14. CASE Invalidate
  <2>1. /\ UNCHANGED <<dirs, strangers>>
        /\ disk' = disk \/ disk' = [disk EXCEPT ![CommitMarker] = "missing"]
    BY <1>14 DEF Invalidate
  <2>2. CommitMarker \in Paths
    BY PathSet DEF CommitMarker
  <2> QED  BY <1>6, <1>11, <2>1, <2>2
<1>15. ASSUME NEW p \in Paths, NEW k \in Kinds(p), EditFile(p, k)
       PROVE  ShelterInv'
  BY <1>11, <1>15 DEF EditFile
<1>16. ASSUME NEW d \in {SkillDirectory, LegacyDirectory}, AddStranger(d)
       PROVE  ShelterInv'
  <2>1. /\ UNCHANGED <<disk, dirs>> /\ strangers' = strangers \cup {d} /\ Exists(d)
    BY <1>16 DEF AddStranger
  <2>2. dirs[d] # "missing"
    BY <1>5, <2>1, ExistsMeaning
  <2>3. \A x \in strangers' : dirs'[x] # "missing"
    BY <1>1, <2>1, <2>2
  <2> QED  BY <1>1, <1>3, <1>4, <2>1, <2>3 DEF ShelterInv
<1> QED
  BY <1>6, <1>7, <1>9, <1>10, <1>12, <1>13, <1>14, <1>15, <1>16, ChangeFrame

-----------------------------------------------------------------------------
(* Directories.                                                            *)

\* The directory that is made, if it is.
LEMMA MakeDirectoryMoves ==
  ASSUME FileTypes, ListTypes, ListLengths, MakeDirectory
  PROVE  /\ UNCHANGED <<pre, effects, committed>> /\ pc = "directories"
         /\ Directories[cursor] \in Names
         /\ \/ UNCHANGED <<dirs, created>>
            \/ /\ Directories[cursor] # LegacyDirectory
               /\ pre.dirs[Directories[cursor]] = "missing"
               /\ dirs[Directories[cursor]] = "missing"
               /\ dirs' = [dirs EXCEPT ![Directories[cursor]] = "ours"]
               /\ \/ created' = Append(created, Directories[cursor])
                  \/ UNCHANGED created /\ pc' = "clean stages"
         /\ pc' \in {"directories", "clean stages"}
<1>1. /\ UNCHANGED <<pre, effects, committed>> /\ pc = "directories" /\ cursor <= Len(Directories)
      /\ pc' \in {"directories", "clean stages"}
  BY DEF MakeDirectory, Abandon
<1>2. cursor > 0
  BY <1>1 DEF ListLengths
<1>3. Directories[cursor] \in Names
  <2>1. cursor \in Nat /\ cursor <= Len(Directories)
    BY <1>1 DEF ListTypes
  <2>2. Len(Directories) \in Nat
    BY NameSet
  <2>3. cursor \in 1..Len(Directories)
    BY <1>2, <2>1, <2>2
  <2> QED  BY <2>3, NameSet
<1>4. \/ UNCHANGED <<dirs, created>>
      \/ /\ Directories[cursor] # LegacyDirectory
         /\ pre.dirs[Directories[cursor]] = "missing"
         /\ dirs[Directories[cursor]] = "missing"
         /\ dirs' = [dirs EXCEPT ![Directories[cursor]] = "ours"]
         /\ \/ created' = Append(created, Directories[cursor])
            \/ UNCHANGED created /\ pc' = "clean stages"
  BY DEF MakeDirectory, Abandon, HasEffect
<1> QED  BY <1>1, <1>3, <1>4

\* The directory that is removed again, if it is.
LEMMA CleanDirectoryMoves ==
  ASSUME FileTypes, ListTypes, ListLengths, CleanDirectory
  PROVE  /\ UNCHANGED <<pre, effects, committed, created, pc>> /\ pc = "clean directories"
         /\ cursor > 0 /\ cursor' = cursor - 1 /\ cursor \in 1..Len(created)
         /\ created[cursor] \in Names /\ created[cursor] \in Range(created)
         /\ \/ UNCHANGED dirs
            \/ /\ dirs[created[cursor]] = "ours"
               /\ dirs' = [dirs EXCEPT ![created[cursor]] = "missing"]
<1>1. /\ UNCHANGED <<pre, effects, committed, created, pc>> /\ pc = "clean directories"
      /\ cursor > 0 /\ cursor' = cursor - 1
      /\ \/ UNCHANGED dirs
         \/ /\ dirs[created[cursor]] = "ours"
            /\ dirs' = [dirs EXCEPT ![created[cursor]] = "missing"]
  BY DEF CleanDirectory
<1>2. cursor \in 1..Len(created) /\ created[cursor] \in Names
  BY <1>1, NextToClean DEF ListLengths
<1>3. created[cursor] \in Range(created)
  BY <1>2, ElementTypes
<1> QED  BY <1>1, <1>2, <1>3

\* A directory changes only where this execution makes it, cleans it or migrates.
LEMMA DirectoryInvStep ==
  ASSUME FileTypes, ListTypes, ListLengths, PhaseInv, PlanInv, DirectoryInv, OwnedInv, [Next]_vars
  PROVE  DirectoryInv'
<1>1. /\ \A d \in Names : d # LegacyDirectory =>
           dirs[d] = pre.dirs[d] \/ (pre.dirs[d] = "missing" /\ dirs[d] = "ours")
      /\ Range(Legacy) \cap Planned = {} => dirs[LegacyDirectory] = pre.dirs[LegacyDirectory]
      /\ Range(Legacy) \subseteq Planned /\ committed => dirs[LegacyDirectory] = "missing"
      /\ dirs[LegacyDirectory] = "odd" => pre.dirs[LegacyDirectory] = "odd"
      /\ LegacyDirectory \notin Range(created)
      /\ pc \in {"remove legacy", "recreate legacy"} => Range(Legacy) \subseteq Planned
      /\ pc \in Ready \cup Observing \cup {"poll", "apply"} =>
           dirs[LegacyDirectory] = pre.dirs[LegacyDirectory]
  BY DEF DirectoryInv
<1>2. /\ pre.dirs \in [Names -> {"missing", "odd", "theirs"}]
      /\ dirs \in [Names -> {"missing", "odd", "theirs", "ours"}]
      /\ LegacyDirectory \in Names
  BY NameSet DEF FileTypes, LegacyDirectory
<1>3. /\ created \in Seq(Names)
      /\ committed => pc \in Cleaning \cup Ended
  BY DEF ListTypes, PhaseInv
<1>4. UNCHANGED effects => Planned' = Planned
  BY DEF Planned
<1>5. CASE Plan
  <2>1. /\ pre'.dirs = dirs /\ UNCHANGED <<dirs, created, committed>> /\ pc = "plan"
        /\ pc' \in {"make scratch", "done"}
    BY <1>5 DEF Plan
  <2>2. ~committed
    BY <1>3, <2>1
  <2>3. dirs[LegacyDirectory] = pre.dirs[LegacyDirectory]
    BY <1>1, <2>1
  <2> QED  BY <1>1, <2>1, <2>2 DEF DirectoryInv
<1>6. CASE MakeDirectory
  <2>1. /\ UNCHANGED <<pre, effects, committed>> /\ pc = "directories"
        /\ pc' \in {"directories", "clean stages"}
    BY <1>6, MakeDirectoryMoves
  <2>2. CASE UNCHANGED <<dirs, created>>
    BY <1>1, <1>4, <2>1, <2>2 DEF DirectoryInv
  <2> DEFINE d == Directories[cursor]
  <2>3. CASE /\ d # LegacyDirectory /\ pre.dirs[d] = "missing" /\ d \in Names
             /\ dirs' = [dirs EXCEPT ![d] = "ours"]
             /\ created' = Append(created, d) \/ UNCHANGED created
    <3> HIDE DEF d
    <3>1. \A x \in Names : dirs'[x] = IF x = d THEN "ours" ELSE dirs[x]
      BY <1>2, <2>3
    <3>2. LegacyDirectory \notin Range(created')
      <4>1. created \in Seq(Names)
        BY <1>3
      <4>2. created' = Append(created, d) \/ UNCHANGED created
        BY <2>3
      <4>3. d \in Names /\ d # LegacyDirectory
        BY <2>3
      <4>4. LegacyDirectory \notin Range(created)
        BY <1>1
      <4>5. Range(Append(created, d)) = Range(created) \cup {d}
        BY <4>1, <4>3, RangeAppend
      <4> QED  BY <4>2, <4>3, <4>4, <4>5
    <3>3. dirs'[LegacyDirectory] = dirs[LegacyDirectory]
      BY <1>2, <2>3, <3>1
    <3>4. \A x \in Names : x # LegacyDirectory =>
            dirs'[x] = pre'.dirs[x] \/ (pre'.dirs[x] = "missing" /\ dirs'[x] = "ours")
      BY <1>1, <2>1, <2>3, <3>1
    <3> QED  BY <1>1, <1>4, <2>1, <3>2, <3>3, <3>4 DEF DirectoryInv
  <2> QED  BY <1>6, <2>2, <2>3, MakeDirectoryMoves
<1>7. CASE CleanDirectory
  <2> DEFINE d == created[cursor]
  <2>1. /\ UNCHANGED <<pre, effects, committed, created, pc>> /\ pc = "clean directories"
        /\ d \in Names /\ d \in Range(created)
        /\ UNCHANGED dirs \/ (dirs[d] = "ours" /\ dirs' = [dirs EXCEPT ![d] = "missing"])
    BY <1>7, CleanDirectoryMoves
  <2> HIDE DEF d
  <2>2. CASE UNCHANGED dirs
    BY <1>1, <1>4, <2>1, <2>2 DEF DirectoryInv
  <2>3. CASE dirs[d] = "ours" /\ dirs' = [dirs EXCEPT ![d] = "missing"]
    <3>1. \A x \in Names : dirs'[x] = IF x = d THEN "missing" ELSE dirs[x]
      BY <1>2, <2>3
    <3>2. d # LegacyDirectory
      BY <1>1, <2>1
    <3>3. pre.dirs[d] = "missing"
      BY <1>1, <1>2, <2>1, <2>3, <3>2
    <3>4. dirs'[LegacyDirectory] = dirs[LegacyDirectory]
      BY <1>2, <3>1, <3>2
    <3>5. \A x \in Names : x # LegacyDirectory =>
            dirs'[x] = pre'.dirs[x] \/ (pre'.dirs[x] = "missing" /\ dirs'[x] = "ours")
      BY <1>1, <2>1, <3>1, <3>3
    <3> QED  BY <1>1, <1>4, <2>1, <3>4, <3>5 DEF DirectoryInv
  <2> QED  BY <2>1, <2>2, <2>3
<1>8. ASSUME NEW v \in {"missing", "ours"}, dirs' = [dirs EXCEPT ![LegacyDirectory] = v],
             UNCHANGED <<pre, effects, created>>, Range(Legacy) \subseteq Planned,
             committed' => v = "missing",
             pc' \notin Ready \cup Observing \cup {"poll", "apply"}
      PROVE  DirectoryInv'
  <2>1. \A x \in Names : dirs'[x] = IF x = LegacyDirectory THEN v ELSE dirs[x]
    BY <1>2, <1>8
  <2>2. dirs'[LegacyDirectory] = v /\ v # "odd"
    BY <1>2, <1>8, <2>1
  <2>3. Range(Legacy) \cap Planned # {}
    BY <1>8, PathSet
  <2>4. \A x \in Names : x # LegacyDirectory =>
          dirs'[x] = pre'.dirs[x] \/ (pre'.dirs[x] = "missing" /\ dirs'[x] = "ours")
    BY <1>1, <1>8, <2>1
  <2> QED  BY <1>1, <1>4, <1>8, <2>2, <2>3, <2>4 DEF DirectoryInv
<1>9. CASE RemoveLegacy
  <2>1. /\ UNCHANGED <<pre, effects, created>> /\ pc = "remove legacy"
        /\ pc' \in {"clean stages", "recreate legacy"}
        /\ \/ dirs' = dirs /\ committed' = committed
           \/ dirs' = [dirs EXCEPT ![LegacyDirectory] = "missing"]
    BY <1>9 DEF RemoveLegacy, HasEffect
  <2>2. Range(Legacy) \subseteq Planned
    BY <1>1, <2>1
  <2>3. CASE dirs' = dirs /\ committed' = committed
    BY <1>1, <1>4, <2>1, <2>2, <2>3 DEF DirectoryInv
  <2> QED  BY <1>8, <2>1, <2>2, <2>3
<1>10. CASE RecreateLegacy
  <2>1. /\ UNCHANGED <<pre, effects, created, committed>> /\ pc = "recreate legacy"
        /\ pc' = "recover"
        /\ dirs' = dirs \/ dirs' = [dirs EXCEPT ![LegacyDirectory] = "ours"]
    BY <1>10 DEF RecreateLegacy, Fail
  <2>2. Range(Legacy) \subseteq Planned /\ ~committed
    BY <1>1, <1>3, <2>1
  <2>3. CASE dirs' = dirs
    BY <1>1, <1>4, <2>1, <2>2, <2>3 DEF DirectoryInv
  <2> QED  BY <1>8, <2>1, <2>2, <2>3
<1>11. CASE AllApplied
  <2>1. /\ UNCHANGED <<pre, effects, created, dirs>> /\ pc = "apply"
        /\ \/ NothingToMigrate /\ pc' = "clean stages"
           \/ ~NothingToMigrate /\ pc' = "remove legacy" /\ UNCHANGED committed
    BY <1>11 DEF AllApplied
  <2>2. /\ Planned = Range(Activated) \cup (IF pre.dirs[LegacyDirectory] = "missing" THEN {}
                                            ELSE Range(Legacy))
    <3>1. effects = PlanEffects(pre.dirs)
      BY <2>1 DEF PlanInv
    <3> QED  BY <3>1, EffectsMeaning DEF Planned
  <2>3. /\ \A p \in Range(Legacy) : Parent[p] = LegacyDirectory
        /\ \A p \in Range(Activated) : Parent[p] # LegacyDirectory
    BY PathSet, ParentTable, NameSet DEF SkillDirectory, LegacyDirectory
  <2>4. "legacy skill" \in Range(Legacy)
    BY PathSet
  <2>5. CASE NothingToMigrate /\ pc' = "clean stages"
    <3>1. "legacy skill" \notin Planned
      BY <2>3, <2>4, <2>5 DEF NothingToMigrate, Planned
    <3> QED  BY <1>1, <1>4, <2>1, <2>4, <2>5, <3>1 DEF DirectoryInv
  <2>6. CASE ~NothingToMigrate /\ pc' = "remove legacy" /\ UNCHANGED committed
    <3>1. \E p \in Planned : Parent[p] = LegacyDirectory
      BY <2>6 DEF NothingToMigrate, Planned
    <3>2. Range(Legacy) \subseteq Planned
      BY <2>2, <2>3, <3>1
    <3> QED  BY <1>1, <1>4, <2>1, <2>6, <3>2 DEF DirectoryInv
  <2> QED  BY <2>1, <2>5, <2>6
<1>12. CASE /\ UNCHANGED <<pre, effects, dirs, created, committed>>
            /\ pc' \in {"remove legacy", "recreate legacy"} => UNCHANGED pc
            /\ pc' \in Ready \cup Observing \cup {"poll", "apply"} =>
                 pc \in Ready \cup Observing \cup {"poll", "apply"}
  BY <1>1, <1>4, <1>12 DEF DirectoryInv
<1>13. CASE \/ MakeScratch \/ Validate \/ DirectoriesMade \/ MakeStage \/ CopyOriginal
            \/ WriteNew \/ AllPrepared \/ Recapture \/ PollBeforeApply \/ ApplyEffect
  BY <1>12, <1>13 DEF MakeScratch, Validate, DirectoriesMade, MakeStage, CopyOriginal, WriteNew,
                AllPrepared, Recapture, PollBeforeApply, ApplyEffect, Abandon, Fail
<1>14. CASE \/ RecoverEffect \/ RecoveryEnds \/ Invalidate \/ CleanStage \/ StagesCleaned
            \/ DirectoriesCleaned \/ Finish \/ CleanScratch
  BY <1>12, <1>14 DEF RecoverEffect, RecoveryEnds, Invalidate, CleanStage, StagesCleaned,
                DirectoriesCleaned, Finish, CleanScratch
<1>15. CASE \/ Signal \/ UNCHANGED vars
            \/ \E p \in Paths : \/ \E k \in Kinds(p) : EditFile(p, k)
                                \/ \E o \in {"none", "foreign"} : EditStage(p, o)
            \/ \E d \in {SkillDirectory, LegacyDirectory} : AddStranger(d)
  BY <1>12, <1>15, ElsewhereFrame
<1> QED
  BY <1>5, <1>6, <1>7, <1>9, <1>10, <1>11, <1>13, <1>14, <1>15 DEF Next

\* Every directory and stage this execution made is known to it.
LEMMA OwnedInvStep ==
  ASSUME FileTypes, ListTypes, ListLengths, PhaseInv, DirectoryInv, OwnedInv, [Next]_vars
  PROVE  OwnedInv'
<1> DEFINE Known == \A d \in Names \ {LegacyDirectory} :
                      d \in Range(created) <=> dirs[d] # pre.dirs[d]
           Kept  == \A p \in Paths : stage[p].owner = "run" => p \in Range(staged)
           Early == pc \in Ready \cup Observing \cup Applying
<1>1. /\ pc \in Ready => created = <<>>
      /\ Early => Known
      /\ Early \/ committed => Kept
  BY DEF OwnedInv
<1>2. /\ pc' \in Ready => created' = <<>>
      /\ Early' => Known'
      /\ Early' \/ committed' => Kept'
      => OwnedInv'
  BY DEF OwnedInv
<1>3. /\ created \in Seq(Names) /\ staged \in Seq(Paths) /\ stage \in [Paths -> Stages]
      /\ committed => pc \in Cleaning \cup Ended
  BY DEF ListTypes, PhaseInv, FileTypes
<1>4. CASE Plan
  <2>1. /\ pre'.dirs = dirs /\ UNCHANGED <<dirs, created, committed, stage, staged>> /\ pc = "plan"
    BY <1>4 DEF Plan
  <2>2. created = <<>> /\ Range(created) = {}
    BY <1>1, <2>1, RangeEmpty
  <2> QED  BY <1>1, <1>2, <2>1, <2>2
<1>5. CASE MakeDirectory
  <2> DEFINE d == Directories[cursor]
  <2>1. /\ UNCHANGED <<pre, committed>> /\ pc = "directories" /\ d \in Names
        /\ pc' \in {"directories", "clean stages"}
        /\ \/ UNCHANGED <<dirs, created>>
           \/ /\ d # LegacyDirectory /\ pre.dirs[d] = "missing"
              /\ dirs' = [dirs EXCEPT ![d] = "ours"]
              /\ \/ created' = Append(created, d)
                 \/ UNCHANGED created /\ pc' = "clean stages"
    BY <1>5, MakeDirectoryMoves
  <2>2. UNCHANGED <<stage, staged>>
    BY <1>5 DEF MakeDirectory
  <2>3. Kept' /\ ~committed'
    BY <1>1, <1>3, <2>1, <2>2
  <2> HIDE DEF d
  <2>4. pc' = "directories" => Known'
    <3>1. CASE UNCHANGED <<dirs, created>>
      BY <1>1, <2>1, <3>1
    <3>2. CASE /\ d # LegacyDirectory /\ pre.dirs[d] = "missing"
               /\ dirs' = [dirs EXCEPT ![d] = "ours"] /\ created' = Append(created, d)
      <4>1. Range(created') = Range(created) \cup {d}
        <5>1. created \in Seq(Names) /\ d \in Names
          BY <1>3, <2>1
        <5>2. Range(Append(created, d)) = Range(created) \cup {d}
          BY <5>1, RangeAppend
        <5> QED  BY <3>2, <5>2
      <4>2. \A x \in Names : dirs'[x] = IF x = d THEN "ours" ELSE dirs[x]
        BY <3>2 DEF FileTypes
      <4> QED  BY <1>1, <2>1, <3>2, <4>1, <4>2
    <3> QED  BY <2>1, <3>1, <3>2
  <2> QED  BY <1>2, <2>1, <2>3, <2>4
<1>6. CASE RemoveLegacy \/ RecreateLegacy
  <2>1. /\ UNCHANGED <<pre, created, stage, staged>> /\ pc \in Applying
        /\ pc' \in {"clean stages", "recreate legacy", "recover"}
        /\ dirs' = dirs \/ \E v \in {"missing", "ours"} : dirs' = [dirs EXCEPT ![LegacyDirectory] = v]
    BY <1>6 DEF RemoveLegacy, RecreateLegacy, Fail
  <2>2. \A x \in Names \ {LegacyDirectory} : dirs'[x] = dirs[x]
    BY <2>1 DEF FileTypes
  <2>3. Known' /\ Kept'
    BY <1>1, <2>1, <2>2
  <2> QED  BY <1>2, <2>1, <2>3
<1>7. CASE MakeStage
  <2>1. /\ UNCHANGED <<pre, created, dirs, committed>> /\ pc = "make stage"
        /\ Len(prepared) < Len(effects)
        /\ \/ /\ stage' = [stage EXCEPT ![Current] = NewStage]
              /\ staged' = Append(staged, Current) /\ pc' = "copy original"
           \/ pc' = "clean stages"
    BY <1>7 DEF MakeStage, Abandon, HasEffect
  <2>2. Known' /\ ~committed'
    BY <1>1, <1>3, <2>1
  <2>3. pc' # "clean stages" => Kept'
    <3>1. ASSUME stage' = [stage EXCEPT ![Current] = NewStage], staged' = Append(staged, Current)
          PROVE  Kept'
      <4>1. Current \in Paths
        BY <2>1, CurrentType
      <4>2. Range(staged') = Range(staged) \cup {Current}
        <5>1. staged \in Seq(Paths)
          BY <1>3
        <5>2. Range(Append(staged, Current)) = Range(staged) \cup {Current}
          BY <4>1, <5>1, RangeAppend
        <5> QED  BY <3>1, <5>2
      <4>3. \A p \in Paths \ {Current} : stage'[p] = stage[p]
        BY <1>3, <3>1
      <4> QED  BY <1>1, <2>1, <4>2, <4>3
    <3> QED  BY <2>1, <3>1
  <2> QED  BY <1>2, <2>1, <2>2, <2>3
<1>8. CASE /\ UNCHANGED <<created, dirs, pre, staged>>
           /\ pc' \in Ready => pc \in Ready
           /\ Early' => Early
           /\ committed' => committed \/ Early
           /\ \A p \in Paths : stage'[p].owner = "run" => stage[p].owner = "run"
  BY <1>1, <1>2, <1>8
<1>9. CASE \/ MakeScratch \/ Validate \/ DirectoriesMade \/ AllPrepared \/ Recapture
           \/ PollBeforeApply
  BY <1>8, <1>9 DEF MakeScratch, Validate, DirectoriesMade, AllPrepared, Recapture,
                    PollBeforeApply, Abandon
<1>10. CASE \/ AllApplied \/ RecoverEffect \/ RecoveryEnds \/ Invalidate
  BY <1>8, <1>10 DEF AllApplied, RecoverEffect, RecoveryEnds, Invalidate
<1>11. CASE StagesCleaned \/ DirectoriesCleaned \/ Finish \/ CleanScratch
  BY <1>8, <1>11 DEF StagesCleaned, DirectoriesCleaned, Finish, CleanScratch
<1>12. CASE CleanDirectory
  <2>1. /\ UNCHANGED <<committed, stage, staged>> /\ pc' = "clean directories"
    BY <1>12 DEF CleanDirectory
  <2> QED  BY <1>1, <1>2, <2>1
<1>13. ASSUME NEW p \in Paths, NEW v, stage' = [stage EXCEPT ![p] = v],
              v.owner = "run" => stage[p].owner = "run"
       PROVE  \A x \in Paths : stage'[x].owner = "run" => stage[x].owner = "run"
  BY <1>3, <1>13
<1>14. CASE CopyOriginal
  <2>1. /\ UNCHANGED <<pre, created, dirs, committed, staged>> /\ pc = "copy original"
        /\ pc' \in {"write new", "clean stages"}
        /\ stage' = stage \/ stage' = [stage EXCEPT ![Current].original = pre.files[Current]]
    BY <1>14 DEF CopyOriginal, Abandon
  <2>2. Current \in Paths
    BY <2>1, CurrentType DEF ListLengths
  <2>3. [stage[Current] EXCEPT !.original = pre.files[Current]].owner = stage[Current].owner
    BY <1>3, <2>2 DEF Stages
  <2>4. \A x \in Paths : stage'[x].owner = "run" => stage[x].owner = "run"
    BY <1>13, <2>1, <2>2, <2>3
  <2> QED  BY <1>8, <2>1, <2>4
<1>15. CASE WriteNew
  <2>1. /\ UNCHANGED <<pre, created, dirs, committed, staged>> /\ pc = "write new"
        /\ pc' \in {"make stage", "clean stages"}
        /\ stage' = stage \/ stage' = [stage EXCEPT ![Current].new = TRUE]
    BY <1>15 DEF WriteNew, Abandon
  <2>2. Current \in Paths
    BY <2>1, CurrentType DEF ListLengths
  <2>3. [stage[Current] EXCEPT !.new = TRUE].owner = stage[Current].owner
    BY <1>3, <2>2 DEF Stages
  <2>4. \A x \in Paths : stage'[x].owner = "run" => stage[x].owner = "run"
    BY <1>13, <2>1, <2>2, <2>3
  <2> QED  BY <1>8, <2>1, <2>4
<1>16. CASE ApplyEffect
  <2> DEFINE p == effects[Len(attempted) + 1]
  <2>1. /\ UNCHANGED <<pre, created, dirs, committed, staged>> /\ pc = "apply"
        /\ Len(attempted) < Len(effects)
        /\ pc' \in {"apply", "recover"}
        /\ stage' = stage \/ stage' = [stage EXCEPT ![p].new = FALSE]
    BY <1>16 DEF ApplyEffect, Fail
  <2>2. p \in Paths
    BY <2>1, NextToApply
  <2> HIDE DEF p
  <2>3. [stage[p] EXCEPT !.new = FALSE].owner = stage[p].owner
    BY <1>3, <2>2 DEF Stages
  <2>4. \A x \in Paths : stage'[x].owner = "run" => stage[x].owner = "run"
    BY <1>13, <2>1, <2>2, <2>3
  <2> QED  BY <1>8, <2>1, <2>4
<1>17. CASE CleanStage
  <2> DEFINE p == staged[cursor]
  <2>1. /\ UNCHANGED <<pre, created, dirs, committed, staged, pc>> /\ pc = "clean stages"
        /\ cursor > 0
        /\ \/ stage' = stage \/ stage' = [stage EXCEPT ![p] = NoStage]
           \/ /\ stage[p].owner = "run"
              /\ \E left \in PartlyCleaned(stage[p]) : stage' = [stage EXCEPT ![p] = left]
    BY <1>17 DEF CleanStage
  <2>2. p \in Paths
    BY <2>1, NextToClean DEF ListLengths
  <2> HIDE DEF p
  <2>3. NoStage.owner # "run"
    BY DEF NoStage
  <2>4. \A x \in Paths : stage'[x].owner = "run" => stage[x].owner = "run"
    BY <1>13, <2>1, <2>2, <2>3
  <2> QED  BY <1>8, <2>1, <2>4
<1>18. CASE \/ Signal \/ UNCHANGED vars
            \/ \E p \in Paths : \/ \E k \in Kinds(p) : EditFile(p, k)
                                \/ \E o \in {"none", "foreign"} : EditStage(p, o)
            \/ \E d \in {SkillDirectory, LegacyDirectory} : AddStranger(d)
  <2>1. /\ UNCHANGED <<created, dirs, staged, pc, pre, committed>>
    BY <1>18, ElsewhereFrame
  <2>2. \A x \in Paths : stage'[x].owner = "run" => stage[x].owner = "run"
    <3>1. CASE UNCHANGED stage
      BY <3>1
    <3>2. ASSUME NEW p \in Paths, NEW o \in {"none", "foreign"}, EditStage(p, o)
          PROVE  \A x \in Paths : stage'[x].owner = "run" => stage[x].owner = "run"
      <4>1. stage' = [stage EXCEPT ![p] = [NoStage EXCEPT !.owner = o]]
        BY <3>2 DEF EditStage
      <4>2. [NoStage EXCEPT !.owner = o].owner # "run"
        BY DEF NoStage
      <4> QED  BY <1>13, <4>1, <4>2
    <3> QED  BY <1>18, <3>1, <3>2 DEF Signal, vars, EditFile, AddStranger
  <2> QED  BY <1>8, <2>1, <2>2
<1> QED
  BY <1>4, <1>5, <1>6, <1>7, <1>9, <1>10, <1>11, <1>12, <1>14, <1>15, <1>16, <1>17, <1>18 DEF Next

-----------------------------------------------------------------------------
(* What is named.                                                          *)

\* What nobody else touched is as it was, to be recovered, or named.
LEMMA NamedInvStep ==
  ASSUME FileTypes, ListTypes, ListLengths, ListContents, PhaseInv, NamedInv, [Next]_vars
  PROVE  NamedInv'
<1> DEFINE Left == Range(attempted) \ Range(recoveryAttempted)
<1>1. \A p \in Paths : touched[p] = "never" =>
        \/ disk[p] = pre.files[p] \/ p \in unrecovered
        \/ (p = CommitMarker /\ unrecovered # {}) \/ p \in Left
  BY DEF NamedInv
<1>2. /\ disk \in FileMaps /\ touched \in [Paths -> {"never", "early", "late"}]
  BY DEF FileTypes
<1>3. attempted \in Seq(Paths) /\ recoveryAttempted \in Seq(Paths)
  BY DEF ListTypes
<1>4. CASE UNCHANGED <<disk, pre, touched, attempted, recoveryAttempted, unrecovered>>
  BY <1>1, <1>4 DEF NamedInv
<1>5. CASE Plan
  <2>1. pre'.files = disk /\ UNCHANGED disk
    BY <1>5 DEF Plan
  <2> QED  BY <2>1 DEF NamedInv
<1>6. CASE ApplyEffect
  <2> DEFINE p == effects[Len(attempted) + 1]
  <2>1. /\ UNCHANGED <<pre, touched, recoveryAttempted, unrecovered>> /\ pc = "apply"
        /\ Len(attempted) < Len(effects) /\ attempted' = Append(attempted, p)
        /\ disk' = disk \/ disk' = [disk EXCEPT ![p] = Target(p)]
    BY <1>6 DEF ApplyEffect
  <2>2. p \in Paths
    BY <2>1, NextToApply
  <2>3. Range(recoveryAttempted) = {}
    BY <2>1, RangeEmpty DEF PhaseInv
  <2> HIDE DEF p
  <2>4. Range(attempted') = Range(attempted) \cup {p}
    <3>1. Range(Append(attempted, p)) = Range(attempted) \cup {p}
      BY <1>3, <2>2, RangeAppend
    <3> QED  BY <2>1, <3>1
  <2>5. \A x \in Paths \ {p} : disk'[x] = disk[x]
    BY <1>2, <2>1 DEF FileMaps
  <2>6. Left' = Left \cup {p}
    BY <2>1, <2>3, <2>4
  <2> HIDE DEF Left
  <2>7. \A x \in Paths : touched'[x] = "never" =>
          \/ disk'[x] = pre'.files[x] \/ x \in unrecovered'
          \/ (x = CommitMarker /\ unrecovered' # {}) \/ x \in Left'
    BY <1>1, <2>1, <2>5, <2>6
  <2> QED  BY <2>7 DEF NamedInv, Left
<1>7. CASE RecoverEffect
  <2> DEFINE p == attempted[Len(attempted) - Len(recoveryAttempted)]
  <2>1. /\ UNCHANGED <<pre, touched, attempted>> /\ ~Recovered
        /\ recoveryAttempted' = Append(recoveryAttempted, p)
        /\ \/ disk' = disk
           \/ disk' = [disk EXCEPT ![p] = pre.files[p]]
        /\ \/ unrecovered' = unrecovered /\ disk' = [disk EXCEPT ![p] = pre.files[p]]
           \/ unrecovered' = unrecovered \cup {p}
    BY <1>7 DEF RecoverEffect, Restoration, HasEffect
  <2>2. p \in Paths
    BY <2>1, NextToRecover
  <2> HIDE DEF p
  <2>3. Range(recoveryAttempted') = Range(recoveryAttempted) \cup {p}
    <3>1. Range(Append(recoveryAttempted, p)) = Range(recoveryAttempted) \cup {p}
      BY <1>3, <2>2, RangeAppend
    <3> QED  BY <2>1, <3>1
  <2>4. \A x \in Paths \ {p} : disk'[x] = disk[x]
    BY <1>2, <2>1 DEF FileMaps
  <2>5. disk'[p] = pre.files[p] \/ p \in unrecovered'
    BY <1>2, <2>1, <2>2 DEF FileMaps
  <2>6. unrecovered \subseteq unrecovered'
    BY <2>1
  <2>7. Left' = Left \ {p}
    BY <2>1, <2>3
  <2> HIDE DEF Left
  <2>8. ASSUME NEW x \in Paths, touched'[x] = "never"
        PROVE  \/ disk'[x] = pre'.files[x] \/ x \in unrecovered'
               \/ (x = CommitMarker /\ unrecovered' # {}) \/ x \in Left'
    <3>1. CASE x = p
      BY <2>1, <2>5, <3>1
    <3>2. CASE x # p
      <4>1. touched[x] = "never" /\ disk'[x] = disk[x] /\ pre' = pre
        BY <2>1, <2>4, <2>8, <3>2
      <4>2. x \in Left => x \in Left'
        BY <2>7, <3>2
      <4> QED  BY <1>1, <2>6, <4>1, <4>2
    <3> QED  BY <3>1, <3>2
  <2> QED  BY <2>8 DEF NamedInv, Left
<1>8. CASE Invalidate
  <2>1. /\ UNCHANGED <<pre, touched, attempted, recoveryAttempted, unrecovered>>
        /\ pc = "invalidate"
        /\ disk' = disk \/ disk' = [disk EXCEPT ![CommitMarker] = "missing"]
    BY <1>8 DEF Invalidate
  <2>2. unrecovered # {}
    BY <2>1 DEF PhaseInv
  <2>3. \A x \in Paths \ {CommitMarker} : disk'[x] = disk[x]
    BY <1>2, <2>1 DEF FileMaps
  <2> QED  BY <1>1, <2>1, <2>2, <2>3 DEF NamedInv
<1>9. ASSUME NEW p \in Paths, NEW k \in Kinds(p), EditFile(p, k)
      PROVE  NamedInv'
  <2>1. /\ UNCHANGED <<pre, attempted, recoveryAttempted, unrecovered>>
        /\ disk' = [disk EXCEPT ![p] = k]
        /\ \E when \in {"early", "late"} : touched' = [touched EXCEPT ![p] = when]
    BY <1>9 DEF EditFile, Edit, Touch
  <2>2. \A x \in Paths \ {p} : disk'[x] = disk[x] /\ touched'[x] = touched[x]
    BY <1>2, <2>1 DEF FileMaps
  <2>3. touched'[p] # "never"
    BY <1>2, <2>1
  <2> QED  BY <1>1, <2>1, <2>2, <2>3 DEF NamedInv
<1>10. ASSUME NEW p \in Paths, NEW o \in {"none", "foreign"}, EditStage(p, o)
       PROVE  NamedInv'
  <2>1. /\ UNCHANGED <<pre, attempted, recoveryAttempted, unrecovered, disk>>
        /\ \E when \in {"early", "late"} : touched' = [touched EXCEPT ![p] = when]
    BY <1>10 DEF EditStage, Edit, Touch
  <2>2. \A x \in Paths : touched'[x] = "never" => touched[x] = "never"
    BY <1>2, <2>1
  <2> QED  BY <1>1, <2>1, <2>2 DEF NamedInv
<1>11. CASE UNCHANGED disk /\ UNCHANGED touched /\ UNCHANGED attempted
            /\ UNCHANGED <<recoveryAttempted, unrecovered>> /\ UNCHANGED pre
  BY <1>4, <1>11
<1> QED
  BY <1>5, <1>6, <1>7, <1>8, <1>9, <1>10, <1>11, ChangeFrame, PlanFrame

\* What the cleanup has passed is gone, or residue.
LEMMA StagesLeftInvStep ==
  ASSUME FileTypes, ListTypes, ListLengths, PhaseInv, StagesLeftInv, [Next]_vars
  PROVE  StagesLeftInv'
<1> DEFINE Run(p) == stage[p].owner = "run"
           Passed == \A i \in 1..Len(staged) :
                       (i > cursor /\ stage[staged[i]].owner = "run") => staged[i] \in stageResidue
           Gone   == \A p \in Range(staged) : stage[p].owner = "run" => p \in stageResidue
<1>1. /\ pc = "clean stages" => Passed
      /\ (pc \in {"clean directories", "finish"} /\ unrecovered = {}) => Gone
  BY DEF StagesLeftInv
<1>2. /\ pc' = "clean stages" => Passed'
      /\ (pc' \in {"clean directories", "finish"} /\ unrecovered' = {}) => Gone'
      => StagesLeftInv'
  BY DEF StagesLeftInv
<1>3. /\ staged \in Seq(Paths) /\ Len(staged) \in Nat /\ stage \in [Paths -> Stages]
  BY LengthTypes DEF ListTypes, FileTypes
<1>4. cursor \in Nat
  BY DEF ListTypes
<1>5. ASSUME UNCHANGED staged, cursor' = Len(staged)
      PROVE  Passed'
  <2>1. \A i \in 1..Len(staged') : ~(i > cursor')
    BY <1>3, <1>5
  <2> QED  BY <2>1
<1>6. CASE pc' \notin {"clean stages", "clean directories", "finish"}
  BY <1>2, <1>6
<1>7. CASE pc' = "clean stages" /\ UNCHANGED staged /\ cursor' = Len(staged)
  BY <1>2, <1>5, <1>7
<1>8. CASE Plan \/ MakeScratch \/ DirectoriesMade \/ AllPrepared \/ ApplyEffect \/ RecreateLegacy
           \/ Finish \/ CleanScratch
  BY <1>6, <1>8 DEF Plan, MakeScratch, DirectoriesMade, AllPrepared, ApplyEffect, RecreateLegacy,
       Finish, CleanScratch, Fail
<1>9. CASE \/ MakeDirectory \/ MakeStage \/ CopyOriginal \/ WriteNew \/ Recapture \/ PollBeforeApply
           \/ AllApplied \/ RemoveLegacy \/ RecoveryEnds
  BY <1>6, <1>7, <1>9 DEF MakeDirectory, MakeStage, CopyOriginal, WriteNew, Recapture,
       PollBeforeApply, AllApplied, RemoveLegacy, RecoveryEnds, Abandon
<1>10. CASE RecoverEffect
  <2>1. pc' = "recover"
    BY <1>10 DEF RecoverEffect
  <2> QED  BY <1>6, <2>1
<1>11. CASE Validate
  <2>1. UNCHANGED <<staged>> /\ pc = "validate" /\ pc' \in {"directories", "finish"}
    BY <1>11 DEF Validate
  <2>2. Range(staged) = {}
    <3>1. Len(staged) = 0
      BY <2>1 DEF ListLengths
    <3>2. staged = <<>>
      BY <1>3, <3>1
    <3> QED  BY <3>2, RangeEmpty
  <2> QED  BY <1>2, <2>1, <2>2
<1>12. CASE Invalidate
  <2>1. pc = "invalidate" /\ pc' = "finish" /\ UNCHANGED unrecovered
    BY <1>12 DEF Invalidate
  <2>2. unrecovered # {}
    BY <2>1 DEF PhaseInv
  <2> QED  BY <1>2, <2>1, <2>2
<1>13. CASE CleanStage
  <2> DEFINE p == staged[cursor]
  <2>1. /\ UNCHANGED <<staged, pc>> /\ pc = "clean stages"
        /\ cursor > 0 /\ cursor' = cursor - 1
        /\ stageResidue \subseteq stageResidue'
        /\ \/ stage' = stage /\ (stage[p].owner = "run" => p \in stageResidue')
           \/ stage' = [stage EXCEPT ![p] = NoStage]
           \/ /\ p \in stageResidue' /\ stage[p].owner = "run"
              /\ \E left \in PartlyCleaned(stage[p]) : stage' = [stage EXCEPT ![p] = left]
    BY <1>13 DEF CleanStage
  <2>2. p \in Paths
    BY <2>1, NextToClean DEF ListLengths
  <2>3. cursor' = cursor - 1 /\ cursor > 0
    BY <2>1
  <2>4. \A i \in 1..Len(staged) : i > cursor' => i = cursor \/ i > cursor
    BY <1>3, <1>4, <2>3
  <2> HIDE DEF p
  <2>5. (stage'[p].owner = "run" => p \in stageResidue') /\ \A x \in Paths \ {p} : stage'[x] = stage[x]
    <3>1. NoStage.owner # "run"
      BY DEF NoStage
    <3>2. CASE stage' = stage /\ (stage[p].owner = "run" => p \in stageResidue')
      BY <3>2
    <3>3. CASE stage' = [stage EXCEPT ![p] = NoStage]
      BY <1>3, <2>2, <3>1, <3>3
    <3>4. CASE /\ p \in stageResidue'
               /\ \E left \in PartlyCleaned(stage[p]) : stage' = [stage EXCEPT ![p] = left]
      BY <1>3, <2>2, <3>4
    <3> QED  BY <2>1, <3>2, <3>3, <3>4
  <2>6. ASSUME NEW i \in 1..Len(staged'), i > cursor', stage'[staged'[i]].owner = "run"
        PROVE  staged'[i] \in stageResidue'
    <3>1. staged' = staged /\ staged[i] \in Paths
      <4>1. staged' = staged
        BY <2>1
      <4>2. i \in 1..Len(staged)
        BY <4>1
      <4>3. staged \in Seq(Paths)
        BY <1>3
      <4>4. staged[i] \in Paths
        BY <4>2, <4>3
      <4> QED  BY <4>1, <4>4
    <3>2. CASE staged[i] = p
      BY <2>5, <2>6, <3>1, <3>2
    <3>3. CASE staged[i] # p
      <4>1. i # cursor
        BY <3>3 DEF p
      <4>2. i > cursor
        BY <2>4, <2>6, <3>1, <4>1
      <4>3. stage[staged[i]].owner = "run"
        BY <2>5, <2>6, <3>1, <3>3
      <4>4. staged[i] \in stageResidue
        BY <1>1, <2>1, <2>6, <3>1, <4>2, <4>3
      <4> QED  BY <2>1, <3>1, <4>4
    <3> QED  BY <3>2, <3>3
  <2>7. Passed'
    BY <2>6
  <2>8. pc' = "clean stages"
    BY <2>1
  <2> QED  BY <1>2, <2>7, <2>8
<1>14. CASE StagesCleaned
  <2>1. /\ UNCHANGED <<staged, stage, stageResidue>> /\ pc = "clean stages" /\ cursor = 0
        /\ pc' \in {"clean directories", "finish"}
    BY <1>14 DEF StagesCleaned
  <2>2. \A i \in 1..Len(staged) : i > cursor
    <3>1. cursor = 0
      BY <2>1
    <3> QED  BY <1>3, <3>1
  <2>3. \A i \in 1..Len(staged) : stage[staged[i]].owner = "run" => staged[i] \in stageResidue
    BY <1>1, <2>1, <2>2
  <2>4. DOMAIN staged = 1..Len(staged)
    BY <1>3
  <2>5. Gone
    BY <2>3, <2>4 DEF Range
  <2> QED  BY <1>2, <2>1, <2>5
<1>15. CASE CleanDirectory \/ DirectoriesCleaned
  <2>1. /\ UNCHANGED <<staged, stage, stageResidue, unrecovered>> /\ pc = "clean directories"
        /\ pc' \in {"clean directories", "finish"}
    BY <1>15 DEF CleanDirectory, DirectoriesCleaned
  <2> QED  BY <1>1, <1>2, <2>1
<1>16. CASE \/ Signal \/ UNCHANGED vars
            \/ \E p \in Paths : \/ \E k \in Kinds(p) : EditFile(p, k)
                                \/ \E o \in {"none", "foreign"} : EditStage(p, o)
            \/ \E d \in {SkillDirectory, LegacyDirectory} : AddStranger(d)
  <2>1. UNCHANGED <<pc, cursor, staged, stageResidue, unrecovered>>
    BY <1>16, ElsewhereFrame
  <2>2. \A x \in Paths : stage'[x].owner = "run" => stage[x].owner = "run"
    <3>1. ASSUME NEW p \in Paths, NEW o \in {"none", "foreign"}, EditStage(p, o)
          PROVE  \A x \in Paths : stage'[x].owner = "run" => stage[x].owner = "run"
      <4>1. stage' = [stage EXCEPT ![p] = [NoStage EXCEPT !.owner = o]]
        BY <3>1 DEF EditStage
      <4>2. [NoStage EXCEPT !.owner = o].owner # "run"
        BY DEF NoStage
      <4> QED  BY <1>3, <4>1, <4>2
    <3> QED  BY <1>16, <3>1 DEF Signal, vars, EditFile, AddStranger
  <2>3. /\ \A i \in 1..Len(staged) : staged[i] \in Paths
        /\ \A p \in Range(staged) : p \in Paths
    BY <1>3, ElementTypes
  <2>4. (Passed => Passed') /\ (Gone => Gone')
    BY <2>1, <2>2, <2>3
  <2> QED  BY <1>1, <1>2, <2>1, <2>4
<1> QED
  BY <1>8, <1>9, <1>10, <1>11, <1>12, <1>13, <1>14, <1>15, <1>16 DEF Next

\* The cleanup removes a directory or names it.
LEMMA DirectoriesLeftInvStep ==
  ASSUME FileTypes, ListTypes, ListLengths, PhaseInv, OwnedInv, DirectoriesLeftInv, [Next]_vars
  PROVE  DirectoriesLeftInv'
<1> DEFINE Passed == \A i \in 1..Len(created) :
                       (i > cursor /\ dirs[created[i]] = "ours") => created[i] \in dirResidue
           Gone   == \A d \in Range(created) : dirs[d] = "ours" => d \in dirResidue
<1>1. /\ pc = "clean directories" => Passed
      /\ (pc = "finish" /\ unrecovered = {} /\ ~committed) => Gone
  BY DEF DirectoriesLeftInv
<1>2. /\ pc' = "clean directories" => Passed'
      /\ (pc' = "finish" /\ unrecovered' = {} /\ ~committed') => Gone'
      => DirectoriesLeftInv'
  BY DEF DirectoriesLeftInv
<1>3. /\ created \in Seq(Names) /\ Len(created) \in Nat
      /\ dirs \in [Names -> {"missing", "odd", "theirs", "ours"}]
  BY LengthTypes DEF ListTypes, FileTypes
<1>4. cursor \in Nat
  BY DEF ListTypes
<1>5. CASE pc' \notin {"clean directories", "finish"}
  BY <1>2, <1>5
<1>6. CASE \/ Plan \/ MakeScratch \/ MakeDirectory \/ DirectoriesMade \/ MakeStage \/ CopyOriginal
           \/ WriteNew \/ AllPrepared \/ Recapture \/ PollBeforeApply
  BY <1>5, <1>6 DEF Plan, MakeScratch, MakeDirectory, DirectoriesMade, MakeStage, CopyOriginal,
       WriteNew, AllPrepared, Recapture, PollBeforeApply, Abandon
<1>7. CASE \/ ApplyEffect \/ AllApplied \/ RemoveLegacy \/ RecreateLegacy
           \/ RecoverEffect \/ RecoveryEnds \/ Finish \/ CleanScratch \/ CleanStage
  BY <1>5, <1>7 DEF ApplyEffect, AllApplied, RemoveLegacy, RecreateLegacy, RecoverEffect,
       RecoveryEnds, Finish, CleanScratch, CleanStage, Fail
<1>8. CASE Validate
  <2>1. UNCHANGED <<created>> /\ pc = "validate" /\ pc' \in {"directories", "finish"}
    BY <1>8 DEF Validate
  <2>2. Range(created) = {}
    BY <2>1, RangeEmpty DEF OwnedInv
  <2> QED  BY <1>2, <2>1, <2>2
<1>9. CASE Invalidate
  <2>1. pc = "invalidate" /\ pc' = "finish" /\ UNCHANGED unrecovered
    BY <1>9 DEF Invalidate
  <2>2. unrecovered # {}
    BY <2>1 DEF PhaseInv
  <2> QED  BY <1>2, <2>1, <2>2
<1>10. CASE StagesCleaned
  <2>1. /\ UNCHANGED <<created, committed>>
        /\ \/ pc' = "finish" /\ committed
           \/ pc' = "clean directories" /\ cursor' = Len(created)
    BY <1>10 DEF StagesCleaned
  <2>2. cursor' = Len(created) => \A i \in 1..Len(created') : ~(i > cursor')
    <3>1. created' = created
      BY <2>1
    <3> QED  BY <1>3, <3>1
  <2> QED  BY <1>2, <2>1, <2>2
<1>11. CASE CleanDirectory
  <2> DEFINE d == created[cursor]
  <2>1. /\ UNCHANGED <<created, pc>> /\ pc = "clean directories"
        /\ cursor > 0 /\ cursor' = cursor - 1
        /\ d \in Names
    BY <1>11, CleanDirectoryMoves
  <2>2. /\ dirResidue \subseteq dirResidue'
        /\ \/ dirs' = dirs /\ (dirs[d] = "ours" => d \in dirResidue')
           \/ dirs' = [dirs EXCEPT ![d] = "missing"]
    BY <1>11 DEF CleanDirectory
  <2>3. cursor' = cursor - 1 /\ cursor > 0
    BY <2>1
  <2>4. \A i \in 1..Len(created) : i > cursor' => i = cursor \/ i > cursor
    BY <1>3, <1>4, <2>3
  <2> HIDE DEF d
  <2>5. (dirs'[d] = "ours" => d \in dirResidue') /\ \A x \in Names \ {d} : dirs'[x] = dirs[x]
    <3>1. CASE dirs' = dirs /\ (dirs[d] = "ours" => d \in dirResidue')
      BY <3>1
    <3>2. CASE dirs' = [dirs EXCEPT ![d] = "missing"]
      BY <1>3, <2>1, <3>2
    <3> QED  BY <2>2, <3>1, <3>2
  <2>6. ASSUME NEW i \in 1..Len(created'), i > cursor', dirs'[created'[i]] = "ours"
        PROVE  created'[i] \in dirResidue'
    <3>1. created' = created /\ created[i] \in Names
      <4>1. created' = created
        BY <2>1
      <4>2. i \in 1..Len(created)
        BY <4>1
      <4>3. created \in Seq(Names)
        BY <1>3
      <4>4. created[i] \in Names
        BY <4>2, <4>3
      <4> QED  BY <4>1, <4>4
    <3>2. CASE created[i] = d
      BY <2>5, <2>6, <3>1, <3>2
    <3>3. CASE created[i] # d
      <4>1. i # cursor
        BY <3>3 DEF d
      <4>2. i > cursor
        BY <2>4, <2>6, <3>1, <4>1
      <4>3. dirs[created[i]] = "ours"
        BY <2>5, <2>6, <3>1, <3>3
      <4>4. created[i] \in dirResidue
        BY <1>1, <2>1, <2>6, <3>1, <4>2, <4>3
      <4> QED  BY <2>2, <3>1, <4>4
    <3> QED  BY <3>2, <3>3
  <2>7. Passed'
    BY <2>6
  <2>8. pc' = "clean directories"
    BY <2>1
  <2> QED  BY <1>2, <2>7, <2>8
<1>12. CASE DirectoriesCleaned
  <2>1. /\ UNCHANGED <<created, dirs, dirResidue>> /\ pc = "clean directories" /\ cursor = 0
        /\ pc' = "finish"
    BY <1>12 DEF DirectoriesCleaned
  <2>2. \A i \in 1..Len(created) : i > cursor
    <3>1. cursor = 0
      BY <2>1
    <3> QED  BY <1>3, <3>1
  <2>3. \A i \in 1..Len(created) : dirs[created[i]] = "ours" => created[i] \in dirResidue
    BY <1>1, <2>1, <2>2
  <2>4. DOMAIN created = 1..Len(created)
    BY <1>3
  <2>5. Gone
    BY <2>3, <2>4 DEF Range
  <2> QED  BY <1>2, <2>1, <2>5
<1>13. CASE \/ Signal \/ UNCHANGED vars
            \/ \E p \in Paths : \/ \E k \in Kinds(p) : EditFile(p, k)
                                \/ \E o \in {"none", "foreign"} : EditStage(p, o)
            \/ \E d \in {SkillDirectory, LegacyDirectory} : AddStranger(d)
  <2>1. UNCHANGED <<pc, cursor, created, dirs, dirResidue, unrecovered, committed>>
    BY <1>13, ElsewhereFrame
  <2> QED  BY <1>1, <1>2, <2>1
<1> QED
  BY <1>6, <1>7, <1>8, <1>9, <1>10, <1>11, <1>12, <1>13 DEF Next

\* The outcome is decided at the ends only.
LEMMA OutcomeInvStep ==
  ASSUME OutcomeInv, PlaceTypes, [Next]_vars
  PROVE  OutcomeInv'
<1>1. CASE Plan \/ MakeScratch \/ Finish \/ CleanScratch
  BY <1>1 DEF Plan, MakeScratch, Finish, CleanScratch, OutcomeInv
<1>2. CASE ~(Plan \/ MakeScratch \/ Finish \/ CleanScratch)
  <2>1. UNCHANGED outcome
    BY <1>2, PlanFrame
  <2>2. /\ pc' \in {"plan", "make scratch", "validate"} => UNCHANGED pc
        /\ pc \in Ended => pc' \in Ended
    BY <1>2, PlanFrame
  <2>3. pc \in {"plan", "make scratch"} => UNCHANGED pc
    BY <1>2 DEF Next, vars, Validate, MakeDirectory, DirectoriesMade, MakeStage,
    CopyOriginal, WriteNew, AllPrepared, Recapture, PollBeforeApply, ApplyEffect, AllApplied, RemoveLegacy, RecreateLegacy,
    RecoverEffect, RecoveryEnds, Invalidate, CleanStage, StagesCleaned, CleanDirectory, DirectoriesCleaned, Finish,
    CleanScratch, Signal, EditFile, EditStage, AddStranger, Edit
  <2> QED  BY <2>1, <2>2, <2>3 DEF OutcomeInv
<1> QED  BY <1>1, <1>2

-----------------------------------------------------------------------------
(* The initial states, and the step of what holds whoever edits.           *)

\* What an execution may find.
LEMMA InitTargets ==
  ASSUME Init
  PROVE  /\ disk \in FileMaps
         /\ dirs \in [Names -> {"missing", "odd", "theirs"}]
         /\ pre = [files |-> disk, dirs |-> dirs] /\ theirs = disk
<1>1. PICK tuple \in {"plain", "new", "old", "v090"} :
        /\ \E p \in Paths : \E kind \in Kinds(p) :
             disk = [BaseFiles(tuple) EXCEPT ![p] = kind]
        /\ \E d \in Range(Directories), kind \in {"missing", "odd", "theirs"} :
             dirs = [BaseDirectories(tuple) EXCEPT ![d] = kind]
  BY DEF Init
<1>2. BaseFiles(tuple) \in FileMaps
  <2>1. tuple \in AllKinds /\ \A p \in Paths : OldAsset(p) \in AllKinds
    BY KindTable DEF OldAsset
  <2>2. ASSUME NEW p \in Paths PROVE BaseFiles(tuple)[p] \in AllKinds
    <3>1. BaseFiles(tuple)[p] =
            CASE p = Adoption -> "valid"
              [] p = "AGENTS.md" -> tuple
              [] p \in Range(Legacy) -> IF tuple = "v090" THEN "v090" ELSE "missing"
              [] p = "snapshot" -> IF tuple \in {"new", "old"} THEN tuple ELSE "missing"
              [] OTHER -> CASE tuple = "new" -> "new" [] tuple = "old" -> OldAsset(p)
                            [] OTHER -> "missing"
      BY DEF BaseFiles
    <3>2. /\ ~(p = Adoption /\ p = "AGENTS.md") /\ ~(p = Adoption /\ p \in Range(Legacy))
          /\ ~(p = Adoption /\ p = "snapshot") /\ ~(p = "AGENTS.md" /\ p \in Range(Legacy))
          /\ ~(p = "AGENTS.md" /\ p = "snapshot") /\ ~(p \in Range(Legacy) /\ p = "snapshot")
      BY PathSet DEF Adoption
    <3>3. "valid" \in AllKinds /\ "v090" \in AllKinds /\ "missing" \in AllKinds /\ "new" \in AllKinds
      BY KindTable
    <3>4. CASE p = Adoption
      BY <3>1, <3>2, <3>3, <3>4
    <3>5. CASE p = "AGENTS.md"
      BY <2>1, <3>1, <3>2, <3>5
    <3>6. CASE p \in Range(Legacy)
      BY <3>1, <3>2, <3>3, <3>6
    <3>7. CASE p = "snapshot"
      BY <2>1, <3>1, <3>2, <3>3, <3>7
    <3>8. CASE p \notin {Adoption, "AGENTS.md", "snapshot"} /\ p \notin Range(Legacy)
      BY <2>1, <3>1, <3>3, <3>8
    <3> QED  BY <3>4, <3>5, <3>6, <3>7, <3>8
  <2>3. BaseFiles(tuple) = [p \in Paths |-> BaseFiles(tuple)[p]]
    BY DEF BaseFiles
  <2> QED  BY <2>2, <2>3 DEF FileMaps
<1>3. BaseDirectories(tuple) \in [Names -> {"missing", "odd", "theirs"}]
  <2>1. \A d \in Names : BaseDirectories(tuple)[d] \in {"missing", "theirs"}
    <3> TAKE d \in Names
    <3>1. BaseDirectories(tuple)[d] =
            CASE d = SkillDirectory -> IF tuple \in {"new", "old"} THEN "theirs" ELSE "missing"
              [] d = LegacyDirectory -> IF tuple = "v090" THEN "theirs" ELSE "missing"
              [] OTHER -> "theirs"
      BY DEF BaseDirectories, Names
    <3>2. SkillDirectory # LegacyDirectory
      BY DEF SkillDirectory, LegacyDirectory
    <3> QED  BY <3>1, <3>2
  <2>2. BaseDirectories(tuple) = [d \in Names |-> BaseDirectories(tuple)[d]]
    BY DEF BaseDirectories, Names
  <2> QED  BY <2>1, <2>2
<1>4. disk \in FileMaps
  <2>1. PICK p \in Paths : \E kind \in Kinds(p) : disk = [BaseFiles(tuple) EXCEPT ![p] = kind]
    BY <1>1
  <2>3. PICK kind \in Kinds(p) : disk = [BaseFiles(tuple) EXCEPT ![p] = kind]
    BY <2>1
  <2>2. kind \in AllKinds
    BY KindTable
  <2> QED  BY <1>2, <2>2, <2>3 DEF FileMaps
<1>5. dirs \in [Names -> {"missing", "odd", "theirs"}]
  <2>1. PICK d \in Names, kind \in {"missing", "odd", "theirs"} :
               dirs = [BaseDirectories(tuple) EXCEPT ![d] = kind]
    BY <1>1 DEF Names
  <2> QED  BY <1>3, <2>1
<1> QED  BY <1>4, <1>5 DEF Init

\* An execution starts in the invariant.
LEMMA InitInvariant ==
  ASSUME Init
  PROVE  IInv
<1>1. /\ disk \in FileMaps /\ dirs \in [Names -> {"missing", "odd", "theirs"}]
      /\ pre.files = disk /\ pre.dirs = dirs /\ theirs = disk
      /\ pre = [files |-> disk, dirs |-> dirs]
  BY InitTargets
<1>2. /\ stage = [p \in Paths |-> NoStage] /\ touched = [p \in Paths |-> "never"]
      /\ pc = "plan" /\ cursor = 0 /\ edits = 0 /\ unrecovered = {}
      /\ failure = NoFailure /\ outcome = "none" /\ mismatched = FALSE /\ committed = FALSE
      /\ \A d \in strangers : Exists(d)
      /\ strangers \in SUBSET {SkillDirectory, LegacyDirectory}
      /\ \A p \in Paths : disk[p] # "missing" => Exists(Parent[p])
  BY DEF Init
<1>3. /\ effects = <<>> /\ created = <<>> /\ staged = <<>> /\ prepared = <<>>
      /\ attempted = <<>> /\ recoveryAttempted = <<>>
  BY DEF Init
<1>4. FileTypes
  <2>1. NoStage \in Stages
    BY KindTable DEF NoStage, Stages
  <2>2. dirs \in [Names -> {"missing", "odd", "theirs", "ours"}]
    BY <1>1
  <2> QED  BY <1>1, <1>2, <2>1, <2>2 DEF FileTypes
<1>5. ListTypes
  <2>1. cursor \in Nat /\ edits \in Nat
    <3>1. cursor = 0 /\ edits = 0
      BY <1>2
    <3> QED  BY <3>1
  <2>2. \A S : <<>> \in Seq(S)
    OBVIOUS
  <2> QED  BY <1>2, <1>3, <2>1, <2>2 DEF ListTypes
<1>6. PlaceTypes
  BY <1>2 DEF PlaceTypes
<1>7. PlanInv /\ OutcomeInv
  BY <1>2, <1>3 DEF PlanInv, OutcomeInv
<1>8. /\ Len(effects) = 0 /\ Len(created) = 0 /\ Len(staged) = 0 /\ Len(prepared) = 0
      /\ Len(attempted) = 0 /\ Len(recoveryAttempted) = 0
  BY <1>3
<1>9. ListContents
  BY <1>8 DEF ListContents
<1>10. ListLengths
  <2>1. /\ pc \notin {"copy original", "write new", "directories", "clean stages",
                      "clean directories", "make stage", "recapture"} \cup Applying
    BY <1>2
  <2>2. /\ Len(prepared) <= Len(effects) /\ Len(staged) <= Len(effects)
        /\ Len(attempted) <= Len(effects) /\ Len(recoveryAttempted) <= Len(attempted)
    BY <1>8
  <2>3. Len(prepared) = 0 /\ Len(staged) = 0
    BY <1>8
  <2> QED  BY <2>1, <2>2, <2>3 DEF ListLengths
<1>11. PhaseInv
  BY <1>2, <1>3 DEF PhaseInv
<1>12. ShelterInv
  <2>1. \A p \in Paths : (pre.files[p] # "missing" /\ Parent[p] \in Names) =>
                           pre.dirs[Parent[p]] # "missing"
    BY <1>1, <1>2, ExistsMeaning
  <2>2. \A d \in strangers : dirs[d] # "missing"
    <3>1. \A d \in strangers : d \in Names
      BY <1>2, NameSet DEF SkillDirectory, LegacyDirectory
    <3> QED  BY <1>2, <3>1, ExistsMeaning
  <2> QED  BY <1>2, <2>1, <2>2 DEF ShelterInv
<1>13. DirectoryInv /\ OwnedInv
  <2>1. Range(created) = {}
    BY <1>3, RangeEmpty
  <2>2. \A p \in Paths : stage[p].owner # "run"
    BY <1>2 DEF NoStage
  <2>3. DirectoryInv
    BY <1>1, <1>2, <2>1 DEF DirectoryInv
  <2>4. OwnedInv
    BY <1>1, <1>2, <1>3, <2>1, <2>2 DEF OwnedInv
  <2> QED  BY <2>3, <2>4
<1>14. NamedInv
  BY <1>1 DEF NamedInv
<1>15. StagesLeftInv /\ DirectoriesLeftInv
  BY <1>2 DEF StagesLeftInv, DirectoriesLeftInv
<1>16. AloneInv
  <2>1. ~Begun
    BY <1>2 DEF Begun, NoFailure
  <2>2. \A p \in Paths : stage[p].owner = "none"
    BY <1>2 DEF NoStage
  <2> QED  BY <1>2, <2>1, <2>2 DEF AloneInv
<1>17. AlonePlaces
  BY <1>1, <1>2 DEF AlonePlaces
<1>18. AloneRefusal /\ AloneResult
  BY <1>2 DEF AloneRefusal, AloneResult, NoFailure
<1> QED
  BY <1>4, <1>5, <1>6, <1>7, <1>9, <1>10, <1>11, <1>12, <1>13, <1>14, <1>15, <1>16, <1>17, <1>18
     DEF IInv, SafetyInv

\* The part that holds whoever edits is inductive, with the outcome.
LEMMA SafetyInvStep ==
  ASSUME SafetyInv, OutcomeInv, [Next]_vars
  PROVE  SafetyInv' /\ OutcomeInv'
<1>1. /\ FileTypes /\ ListTypes /\ PlaceTypes /\ PlanInv /\ ListContents /\ ListLengths
      /\ PhaseInv /\ ShelterInv /\ DirectoryInv /\ OwnedInv /\ NamedInv
      /\ StagesLeftInv /\ DirectoriesLeftInv
  BY DEF SafetyInv
<1>2. FileTypes' /\ ListTypes' /\ PlaceTypes' /\ PlanInv' /\ ListContents' /\ ListLengths'
  BY <1>1, FileTypesStep, ListTypesStep, PlaceTypesStep, PlanInvStep, ListContentsStep,
     ListLengthsStep
<1>3. PhaseInv' /\ ShelterInv' /\ DirectoryInv' /\ OwnedInv'
  BY <1>1, PhaseInvStep, ShelterInvStep, DirectoryInvStep, OwnedInvStep
<1>4. NamedInv' /\ StagesLeftInv' /\ DirectoriesLeftInv' /\ OutcomeInv'
  BY <1>1, NamedInvStep, StagesLeftInvStep, DirectoriesLeftInvStep, OutcomeInvStep
<1> QED  BY <1>2, <1>3, <1>4 DEF SafetyInv

\* Whatever was attempted was visited by a recovery that is over.
LEMMA RecoveredMeaning ==
  ASSUME ListTypes, ListContents, Recovered
  PROVE  Range(attempted) \subseteq Range(recoveryAttempted)
<1>1. /\ DOMAIN attempted = 1..Len(attempted) /\ Len(attempted) \in Nat
      /\ DOMAIN recoveryAttempted = 1..Len(attempted)
  BY DEF ListTypes, Recovered
<1>2. ASSUME NEW i \in 1..Len(attempted)
      PROVE  attempted[i] \in Range(recoveryAttempted)
  <2> DEFINE j == Len(attempted) + 1 - i
  <2>1. j \in 1..Len(attempted) /\ Len(attempted) + 1 - j = i
    BY <1>1
  <2>2. recoveryAttempted[j] = attempted[Len(attempted) + 1 - j]
    BY <2>1 DEF ListContents, Recovered
  <2>3. recoveryAttempted[j] = attempted[i]
    BY <2>1, <2>2
  <2> HIDE DEF j
  <2> QED  BY <1>1, <2>1, <2>3 DEF Range
<1> QED  BY <1>1, <1>2 DEF Range

\* A migration is whole.
LEMMA MigrationFromInvariant ==
  ASSUME SafetyInv
  PROVE  MigrationIsWhole
<1>1. /\ ListTypes /\ ListContents /\ PhaseInv /\ ShelterInv /\ DirectoryInv /\ NamedInv
  BY DEF SafetyInv
<1>2. Range(Legacy) \subseteq Planned /\ committed => dirs[LegacyDirectory] = "missing"
  BY <1>1 DEF DirectoryInv
<1>3. LegacyDirectory \in strangers => dirs[LegacyDirectory] # "missing"
  BY <1>1 DEF ShelterInv
<1>4. ASSUME pc = "done", ~committed, NEW p \in Range(Legacy), touched[p] = "never"
      PROVE  disk[p] = pre.files[p] \/ p \in unrecovered
  <2>1. Recovered
    BY <1>1, <1>4 DEF PhaseInv
  <2>2. p \in Paths /\ p # CommitMarker
    BY PathSet DEF CommitMarker
  <2>3. p \notin Range(attempted) \ Range(recoveryAttempted)
    BY <1>1, <2>1, RecoveredMeaning
  <2> QED  BY <1>1, <1>4, <2>2, <2>3 DEF NamedInv
<1> QED  BY <1>2, <1>3, <1>4 DEF MigrationIsWhole

-----------------------------------------------------------------------------
(* Where nobody else edits.                                                *)

\* While the count of edits stays at zero nobody edits.
LEMMA NobodyElse ==
  ASSUME ListTypes, edits = 0, edits' = 0
  PROVE  /\ ~ \E p \in Paths : \/ \E k \in Kinds(p) : EditFile(p, k)
                               \/ \E o \in {"none", "foreign"} : EditStage(p, o)
         /\ ~ \E d \in {SkillDirectory, LegacyDirectory} : AddStranger(d)
<1>1. ~(edits' = edits + 1)
  OBVIOUS
<1>2. ~Edit
  BY <1>1 DEF Edit
<1> QED  BY <1>2 DEF EditFile, EditStage, AddStranger

\* Files that agree on every path agree.
LEMMA SameFiles ==
  ASSUME FileTypes, \A p \in Paths : disk[p] = pre.files[p]
  PROVE  disk = pre.files
<1>1. disk \in FileMaps /\ pre.files \in FileMaps
  BY DEF FileTypes
<1>2. disk = [p \in Paths |-> disk[p]] /\ pre.files = [p \in Paths |-> pre.files[p]]
  BY <1>1 DEF FileMaps
<1> QED  BY <1>2

\* Directories that agree on every name agree.
LEMMA SameDirectories ==
  ASSUME FileTypes, \A d \in Names : dirs[d] = pre.dirs[d]
  PROVE  dirs = pre.dirs
<1>1. /\ dirs \in [Names -> {"missing", "odd", "theirs", "ours"}]
      /\ pre.dirs \in [Names -> {"missing", "odd", "theirs"}]
  BY DEF FileTypes
<1>2. dirs = [d \in Names |-> dirs[d]] /\ pre.dirs = [d \in Names |-> pre.dirs[d]]
  BY <1>1
<1> QED  BY <1>2

\* Before the first replacement the files are as they were planned for.
LEMMA FilesAsPlanned ==
  ASSUME SafetyInv, AloneInv, pc \in Ready \cup Observing \cup {"poll"}
  PROVE  disk = pre.files
<1>1. FileTypes /\ PhaseInv /\ NamedInv
  BY DEF SafetyInv
<1>2. attempted = <<>> /\ unrecovered = {}
  BY <1>1 DEF PhaseInv
<1>3. Range(attempted) = {}
  BY <1>2, RangeEmpty
<1>4. \A p \in Paths : disk[p] = pre.files[p]
  BY <1>1, <1>2, <1>3 DEF NamedInv, AloneInv
<1> QED  BY <1>1, <1>4, SameFiles

\* And so are the directories, except for those this execution made.
LEMMA DirectoriesAsPlanned ==
  ASSUME SafetyInv, pc \in Ready \cup Observing \cup {"poll"}
  PROVE  /\ \A d \in Names : dirs[d] # pre.dirs[d] =>
              pre.dirs[d] = "missing" /\ dirs[d] = "ours" /\ d \in Range(created)
         /\ \A d \in Range(created) : dirs[d] = "ours"
         /\ pc \in Ready => dirs = pre.dirs
<1>1. FileTypes /\ ListTypes /\ DirectoryInv /\ OwnedInv
  BY DEF SafetyInv
<1>2. /\ dirs[LegacyDirectory] = pre.dirs[LegacyDirectory]
      /\ LegacyDirectory \notin Range(created)
      /\ \A d \in Names : d # LegacyDirectory =>
           dirs[d] = pre.dirs[d] \/ (pre.dirs[d] = "missing" /\ dirs[d] = "ours")
  BY <1>1 DEF DirectoryInv
<1>3. \A d \in Names \ {LegacyDirectory} : d \in Range(created) <=> dirs[d] # pre.dirs[d]
  BY <1>1 DEF OwnedInv
<1>4. Range(created) \subseteq Names
  BY <1>1, ElementTypes
<1>5. \A d \in Names : dirs[d] # pre.dirs[d] =>
        pre.dirs[d] = "missing" /\ dirs[d] = "ours" /\ d \in Range(created)
  BY <1>2, <1>3
<1>6. \A d \in Range(created) : dirs[d] = "ours"
  BY <1>2, <1>3, <1>4
<1>7. ASSUME pc \in Ready PROVE dirs = pre.dirs
  <2>1. created = <<>>
    BY <1>1, <1>7 DEF OwnedInv
  <2>2. Range(created) = {}
    BY <2>1, RangeEmpty
  <2>3. \A d \in Names : dirs[d] = pre.dirs[d]
    BY <1>5, <2>2
  <2> QED  BY <1>1, <2>3, SameDirectories
<1> QED  BY <1>5, <1>6, <1>7

\* So nothing is stale where nobody else edits.
LEMMA NothingStale ==
  ASSUME SafetyInv, AloneInv, pc = "recapture"
  PROVE  ~Stale
<1>1. StalePaths = {}
  BY FilesAsPlanned DEF StalePaths
<1>2. strangers = {}
  BY DEF AloneInv, Begun
<1>3. StaleDirectories = {}
  BY <1>2, DirectoriesAsPlanned DEF StaleDirectories, Names
<1>4. ~OwnedChanged
  <2>1. \A d \in Range(created) : dirs[d] = "ours"
    BY DirectoriesAsPlanned
  <2>2. \A p \in Range(staged) : stage[p].owner = "run"
    BY DEF AloneInv
  <2> QED  BY <2>1, <2>2 DEF OwnedChanged
<1> QED  BY <1>1, <1>3, <1>4 DEF Stale

\* A new owner of a stage.
LEMMA AloneInvStep ==
  ASSUME SafetyInv, AloneInv, [Next]_vars, edits = 0, edits' = 0
  PROVE  AloneInv'
<1>1. /\ FileTypes /\ ListTypes /\ ListLengths /\ ListContents /\ PhaseInv /\ OwnedInv
  BY DEF SafetyInv
<1>2. /\ ~ \E p \in Paths : \/ \E k \in Kinds(p) : EditFile(p, k)
                            \/ \E o \in {"none", "foreign"} : EditStage(p, o)
      /\ ~ \E d \in {SkillDirectory, LegacyDirectory} : AddStranger(d)
  BY <1>1, NobodyElse
<1>3. UNCHANGED <<touched, strangers>>
  BY <1>2, ChangeFrame
<1> DEFINE Ours   == \A p \in Range(staged) : stage[p].owner = "run"
           None   == \A p \in Paths : stage[p].owner = "none"
           Nobody == \A p \in Paths : stage[p].owner # "foreign"
           Here   == pc \in Observing \cup Applying
<1>4. /\ \A p \in Paths : touched[p] = "never"
      /\ Begun => strangers = {}
      /\ Nobody /\ (Here => Ours) /\ (pc \in Ready => None)
  BY DEF AloneInv
<1>5. /\ \A p \in Paths : touched'[p] = "never"
      /\ Begun' => strangers' = {}
      /\ Nobody' /\ (Here' => Ours') /\ (pc' \in Ready => None')
      => AloneInv'
  BY DEF AloneInv
<1>6. \A p \in Paths : touched'[p] = "never"
  BY <1>3, <1>4
<1>7. Begun' => Begun \/ strangers = {}
  <2>1. CASE Validate
    <3>1. \/ UNCHANGED committed /\ pc' = "finish" /\ failure'.stage = "precondition"
          \/ strangers = {}
      BY <2>1 DEF Validate, Failure, StaleDirectories
    <3> QED  BY <3>1 DEF Begun
  <2>2. CASE \/ Plan \/ MakeScratch
    <3>1. UNCHANGED <<committed, failure>> /\ pc' \in {"make scratch", "done", "validate", "clean scratch"}
      BY <2>2 DEF Plan, MakeScratch
    <3> QED  BY <3>1 DEF Begun
  <2>3. CASE \/ MakeDirectory \/ DirectoriesMade \/ MakeStage \/ CopyOriginal \/ WriteNew
             \/ AllPrepared \/ Recapture \/ PollBeforeApply \/ ApplyEffect \/ AllApplied
    <3>1. Begun
      BY <2>3 DEF MakeDirectory, DirectoriesMade, MakeStage, CopyOriginal, WriteNew, AllPrepared,
                  Recapture, PollBeforeApply, ApplyEffect, AllApplied, Begun
    <3> QED  BY <3>1
  <2>4. CASE \/ RemoveLegacy \/ RecreateLegacy \/ RecoverEffect \/ RecoveryEnds \/ Invalidate
             \/ CleanStage \/ StagesCleaned \/ CleanDirectory \/ DirectoriesCleaned
    <3>1. Begun
      BY <2>4 DEF RemoveLegacy, RecreateLegacy, RecoverEffect, RecoveryEnds, Invalidate,
                  CleanStage, StagesCleaned, CleanDirectory, DirectoriesCleaned, Begun
    <3> QED  BY <3>1
  <2>5. CASE Finish
    <3>1. /\ UNCHANGED committed /\ pc' = "clean scratch"
          /\ UNCHANGED failure \/ committed \/ failure.stage = "prepare"
      BY <2>5 DEF Finish, ReportedFailure
    <3> QED  BY <3>1 DEF Begun
  <2>6. CASE CleanScratch
    <3>1. UNCHANGED <<committed, failure>> /\ pc' = "done"
      BY <2>6 DEF CleanScratch
    <3> QED  BY <3>1 DEF Begun
  <2>7. CASE Signal \/ UNCHANGED vars
    <3>1. UNCHANGED <<committed, failure, pc>>
      BY <2>7 DEF Signal, vars
    <3> QED  BY <3>1 DEF Begun
  <2> QED  BY <1>2, <2>1, <2>2, <2>3, <2>4, <2>5, <2>6, <2>7 DEF Next
<1>8. Begun' => strangers' = {}
  BY <1>3, <1>4, <1>7
<1>9. ASSUME UNCHANGED <<stage, staged>>, Here' => Here, pc' \in Ready => pc \in Ready
      PROVE  AloneInv'
  BY <1>4, <1>5, <1>6, <1>8, <1>9
<1>10. ASSUME UNCHANGED staged, Here' => Here, pc' \notin Ready,
              NEW p \in Paths, NEW v, stage' = [stage EXCEPT ![p] = v],
              v.owner = stage[p].owner \/ (v.owner = "none" /\ ~Here')
       PROVE  AloneInv'
  <2>1. /\ \A x \in Paths \ {p} : stage'[x] = stage[x]
        /\ stage'[p] = v
    BY <1>1, <1>10 DEF FileTypes
  <2>2. Nobody'
    BY <1>4, <1>10, <2>1
  <2>3. Range(staged) \subseteq Paths
    BY <1>1, ElementTypes
  <2>4. Here' => Ours'
    BY <1>4, <1>10, <2>1, <2>3
  <2> QED  BY <1>5, <1>6, <1>8, <1>10, <2>2, <2>4
<1>11. CASE Validate
  <2>1. /\ UNCHANGED <<stage, staged>> /\ pc = "validate" /\ pc' \in {"directories", "finish"}
    BY <1>11 DEF Validate
  <2>2. Range(staged) = {}
    <3>1. Len(staged) = 0
      BY <1>1, <2>1 DEF ListLengths
    <3>2. staged \in Seq(Paths)
      BY <1>1 DEF ListTypes
    <3>3. staged = <<>>
      BY <3>1, <3>2
    <3> QED  BY <3>3, RangeEmpty
  <2> QED  BY <1>4, <1>5, <1>6, <1>8, <2>1, <2>2
<1>12. CASE \/ Plan \/ MakeScratch \/ MakeDirectory \/ DirectoriesMade \/ AllPrepared \/ Recapture
            \/ PollBeforeApply
  <2>1. UNCHANGED <<stage, staged>>
    BY <1>12, ChangeFrame DEF Plan, MakeScratch, MakeDirectory, DirectoriesMade, AllPrepared, Recapture,
             PollBeforeApply
  <2>2. (Here' => Here) /\ (pc' \in Ready => pc \in Ready)
    BY <1>12 DEF Plan, MakeScratch, MakeDirectory, DirectoriesMade, AllPrepared, Recapture,
             PollBeforeApply, Abandon
  <2> QED  BY <1>9, <2>1, <2>2
<1>13. CASE \/ AllApplied \/ RemoveLegacy \/ RecreateLegacy \/ RecoverEffect \/ RecoveryEnds
            \/ Invalidate \/ StagesCleaned \/ CleanDirectory \/ DirectoriesCleaned \/ Finish
            \/ CleanScratch \/ Signal \/ UNCHANGED vars
  <2>1. UNCHANGED <<stage, staged>>
    BY <1>13 DEF AllApplied, RemoveLegacy, RecreateLegacy, RecoverEffect, RecoveryEnds, Invalidate,
             StagesCleaned, CleanDirectory, DirectoriesCleaned, Finish, CleanScratch, Signal, vars
  <2>2. (Here' => Here) /\ (pc' \in Ready => pc \in Ready)
    BY <1>13 DEF AllApplied, RemoveLegacy, RecreateLegacy, RecoverEffect, RecoveryEnds, Invalidate,
             StagesCleaned, CleanDirectory, DirectoriesCleaned, Finish, CleanScratch, Signal, vars, Fail
  <2> QED  BY <1>9, <2>1, <2>2
<1>14. CASE MakeStage
  <2>1. /\ pc = "make stage" /\ Len(prepared) < Len(effects)
        /\ \/ /\ stage' = [stage EXCEPT ![Current] = NewStage]
              /\ staged' = Append(staged, Current)
              /\ pc' = "copy original"
           \/ /\ stage' = stage \/ stage' = [stage EXCEPT ![Current] = NewStage]
              /\ UNCHANGED staged /\ pc' = "clean stages"
    BY <1>14 DEF MakeStage, Abandon, HasEffect
  <2>2. Current \in Paths
    BY <1>1, <2>1, CurrentType
  <2>3. Range(staged) \subseteq Paths /\ staged \in Seq(Paths)
    BY <1>1, ElementTypes DEF ListTypes
  <2>4. NewStage.owner = "run"
    BY DEF NewStage
  <2>5. /\ \A x \in Paths \ {Current} : stage'[x] = stage[x]
        /\ stage' = stage \/ stage'[Current] = NewStage
    BY <1>1, <2>1, <2>2 DEF FileTypes
  <2>6. Nobody'
    BY <1>4, <2>2, <2>4, <2>5
  <2>7. CASE pc' = "copy original"
    <3>1. stage' = [stage EXCEPT ![Current] = NewStage] /\ staged' = Append(staged, Current)
      BY <2>1, <2>7
    <3>2. stage'[Current] = NewStage
      BY <1>1, <2>2, <3>1 DEF FileTypes
    <3>3. Range(staged') = Range(staged) \cup {Current}
      <4>1. Range(Append(staged, Current)) = Range(staged) \cup {Current}
        BY <2>2, <2>3, RangeAppend
      <4> QED  BY <3>1, <4>1
    <3>4. Ours
      BY <1>4, <2>1
    <3>5. Ours'
      BY <2>3, <2>4, <2>5, <3>2, <3>3, <3>4
    <3> QED  BY <1>5, <1>6, <1>8, <2>6, <2>7, <3>5
  <2>8. CASE pc' = "clean stages"
    BY <1>5, <1>6, <1>8, <2>6, <2>8
  <2> QED  BY <2>1, <2>7, <2>8
<1>15. CASE CopyOriginal
  <2>1. /\ UNCHANGED staged /\ pc = "copy original"
        /\ pc' \in {"write new", "clean stages"}
        /\ stage' = stage \/ stage' = [stage EXCEPT ![Current].original = pre.files[Current]]
    BY <1>15 DEF CopyOriginal, Abandon
  <2>2. Current \in Paths
    BY <1>1, <2>1, CurrentType DEF ListLengths
  <2>3. [stage[Current] EXCEPT !.original = pre.files[Current]].owner = stage[Current].owner
    BY <1>1, <2>2 DEF Stages, FileTypes
  <2>4. CASE stage' = stage
    BY <1>9, <2>1, <2>4
  <2>5. CASE stage' = [stage EXCEPT ![Current].original = pre.files[Current]]
    BY <1>10, <2>1, <2>2, <2>3, <2>5
  <2> QED  BY <2>1, <2>4, <2>5
<1>16. CASE WriteNew
  <2>1. /\ UNCHANGED staged /\ pc = "write new"
        /\ pc' \in {"make stage", "clean stages"}
        /\ stage' = stage \/ stage' = [stage EXCEPT ![Current].new = TRUE]
    BY <1>16 DEF WriteNew, Abandon
  <2>2. Current \in Paths
    BY <1>1, <2>1, CurrentType DEF ListLengths
  <2>3. [stage[Current] EXCEPT !.new = TRUE].owner = stage[Current].owner
    BY <1>1, <2>2 DEF Stages, FileTypes
  <2>4. CASE stage' = stage
    BY <1>9, <2>1, <2>4
  <2>5. CASE stage' = [stage EXCEPT ![Current].new = TRUE]
    BY <1>10, <2>1, <2>2, <2>3, <2>5
  <2> QED  BY <2>1, <2>4, <2>5
<1>17. CASE ApplyEffect
  <2> DEFINE p == effects[Len(attempted) + 1]
  <2>1. /\ UNCHANGED staged /\ pc = "apply"
        /\ Len(attempted) < Len(effects)
        /\ pc' \in {"apply", "recover"}
        /\ stage' = stage \/ stage' = [stage EXCEPT ![p].new = FALSE]
    BY <1>17 DEF ApplyEffect, Fail
  <2>2. p \in Paths
    BY <1>1, <2>1, NextToApply
  <2> HIDE DEF p
  <2>3. [stage[p] EXCEPT !.new = FALSE].owner = stage[p].owner
    BY <1>1, <2>2 DEF Stages, FileTypes
  <2>4. CASE stage' = stage
    BY <1>9, <2>1, <2>4
  <2>5. CASE stage' = [stage EXCEPT ![p].new = FALSE]
    BY <1>10, <2>1, <2>2, <2>3, <2>5
  <2> QED  BY <2>1, <2>4, <2>5
<1>18. CASE CleanStage
  <2> DEFINE p == staged[cursor]
  <2>1. /\ UNCHANGED <<staged, pc>> /\ pc = "clean stages"
        /\ cursor > 0
        /\ \/ stage' = stage \/ stage' = [stage EXCEPT ![p] = NoStage]
           \/ \E left \in PartlyCleaned(stage[p]) : stage' = [stage EXCEPT ![p] = left]
    BY <1>18 DEF CleanStage
  <2>2. p \in Paths
    BY <1>1, <2>1, NextToClean DEF ListLengths
  <2> HIDE DEF p
  <2>3. NoStage.owner = "none" /\ \A left \in PartlyCleaned(stage[p]) : left.owner = stage[p].owner
    BY <1>1, <2>2 DEF NoStage, PartlyCleaned, Stages, FileTypes
  <2>4. CASE stage' = stage
    BY <1>9, <2>1, <2>4
  <2>5. CASE stage' = [stage EXCEPT ![p] = NoStage]
    BY <1>10, <2>1, <2>2, <2>3, <2>5
  <2>6. CASE \E left \in PartlyCleaned(stage[p]) : stage' = [stage EXCEPT ![p] = left]
    BY <1>10, <2>1, <2>2, <2>3, <2>6
  <2> QED  BY <2>1, <2>4, <2>5, <2>6
<1> QED
  BY <1>2, <1>11, <1>12, <1>13, <1>14, <1>15, <1>16, <1>17, <1>18 DEF Next

-----------------------------------------------------------------------------
(* Places and refusals.                                                    *)

\* What is planned includes the activated files.
LEMMA PlannedFiles ==
  ASSUME PlanInv, effects # <<>>
  PROVE  /\ Planned = Range(Activated) \cup (IF pre.dirs[LegacyDirectory] = "missing" THEN {}
                                             ELSE Range(Legacy))
         /\ CommitMarker \in Planned
         /\ Unobstructed(pre.files, pre.dirs, {})
         /\ ~(/\ pre.dirs[LegacyDirectory] = "missing"
              /\ \A p \in Range(Activated) : pre.files[p] = "new")
<1>1. effects = PlanEffects(pre.dirs) /\ PlanOutcome(pre.files, pre.dirs, {}) = "ACTIVATION_PREVIEW"
  BY DEF PlanInv
<1>2. Planned = Range(Activated) \cup (IF pre.dirs[LegacyDirectory] = "missing" THEN {}
                                       ELSE Range(Legacy))
  BY <1>1, EffectsMeaning DEF Planned
<1>3. CommitMarker \in Planned
  BY <1>2, PathSet DEF CommitMarker
<1>4. /\ Unobstructed(pre.files, pre.dirs, {})
      /\ ~(/\ pre.dirs[LegacyDirectory] = "missing"
           /\ \A p \in Range(Activated) : pre.files[p] = "new")
  BY <1>1, OutcomeMeaning
<1> QED  BY <1>2, <1>3, <1>4

\* Where every file is: as it was, in place, or the snapshot that was removed.
LEMMA AlonePlacesStep ==
  ASSUME SafetyInv, AloneInv, AlonePlaces, [Next]_vars, edits = 0, edits' = 0
  PROVE  AlonePlaces'
<1>1. /\ FileTypes /\ ListTypes /\ ListLengths /\ ListContents /\ PhaseInv /\ OwnedInv /\ PlanInv
  BY DEF SafetyInv
<1>2. /\ ~ \E p \in Paths : \/ \E k \in Kinds(p) : EditFile(p, k)
                            \/ \E o \in {"none", "foreign"} : EditStage(p, o)
      /\ ~ \E d \in {SkillDirectory, LegacyDirectory} : AddStranger(d)
  BY <1>1, NobodyElse
<1> DEFINE Rest  == \A p \in Paths \ Planned : disk[p] = pre.files[p]
           Place(p) == \/ disk[p] = pre.files[p] \/ disk[p] = Target(p)
                       \/ p = CommitMarker /\ disk[p] = "missing"
           InPlace == \A i \in 1..Len(attempted) : disk[effects[i]] = Target(effects[i])
           Whole == pc \in {"apply", "remove legacy"} \/ committed
<1>3. Rest /\ (\A p \in Planned : Place(p)) /\ (Whole => InPlace)
  BY DEF AlonePlaces
<1>4. Rest' /\ (\A p \in Planned' : Place(p)') /\ (Whole' => InPlace') => AlonePlaces'
  BY DEF AlonePlaces
<1>5. /\ disk \in FileMaps /\ Planned \subseteq Paths
      /\ effects \in Seq(Paths) /\ attempted \in Seq(Paths)
      /\ Len(effects) \in Nat /\ Len(attempted) \in Nat /\ Len(attempted) <= Len(effects)
      /\ \A i \in 1..Len(effects) : effects[i] \in Planned
  <2>1. Len(attempted) <= Len(effects)
    BY <1>1 DEF ListLengths
  <2> QED  BY <1>1, <2>1, LengthTypes, ElementTypes DEF FileTypes, ListTypes
<1>6. CASE Plan
  <2>1. pre'.files = disk /\ UNCHANGED <<disk, committed, attempted>> /\ pc = "plan"
        /\ pc' \in {"make scratch", "done"}
    BY <1>6 DEF Plan
  <2>2. ~committed
    BY <1>1, <2>1 DEF PhaseInv
  <2> QED  BY <1>4, <2>1, <2>2
<1>7. CASE UNCHANGED <<disk, pre, effects, attempted>> /\ (Whole' => Whole)
  <2>1. Planned' = Planned
    BY <1>7 DEF Planned
  <2> QED  BY <1>3, <1>4, <1>7, <2>1
<1>8. ASSUME NEW p \in Planned, NEW v, disk' = [disk EXCEPT ![p] = v],
             UNCHANGED <<pre, effects>>,
             v = pre.files[p] \/ v = Target(p) \/ (p = CommitMarker /\ v = "missing"),
             Whole' => InPlace'
      PROVE  AlonePlaces'
  <2>1. \A x \in Paths : disk'[x] = IF x = p THEN v ELSE disk[x]
    BY <1>5, <1>8 DEF FileMaps
  <2>2. Planned' = Planned
    BY <1>8 DEF Planned
  <2>3. Rest'
    BY <1>3, <1>8, <2>1, <2>2
  <2>4. \A x \in Planned' : Place(x)'
    BY <1>3, <1>5, <1>8, <2>1, <2>2
  <2> QED  BY <1>4, <1>8, <2>3, <2>4
<1>9. CASE ApplyEffect
  <2> DEFINE n == Len(attempted) + 1
             p == effects[n]
  <2>1. /\ UNCHANGED <<pre, effects, committed>> /\ pc = "apply"
        /\ Len(attempted) < Len(effects)
        /\ attempted' = Append(attempted, p)
        /\ \/ disk' = [disk EXCEPT ![p] = Target(p)]
           \/ disk' = disk /\ pc' = "recover"
        /\ pc' \in {"apply", "recover"}
    BY <1>9 DEF ApplyEffect, Fail, HasEffect
  <2>2. p \in Planned /\ p \in Paths
    BY <1>1, <2>1, NextToApply
  <2>3. ~committed
    BY <1>1, <2>1 DEF PhaseInv
  <2>4. CASE disk' = disk /\ pc' = "recover"
    <3>1. Planned' = Planned
      BY <2>1 DEF Planned
    <3> QED  BY <1>3, <1>4, <2>1, <2>3, <2>4, <3>1
  <2>5. CASE disk' = [disk EXCEPT ![p] = Target(p)]
    <3>1. Len(attempted') = n
      <4>1. attempted' = Append(attempted, p)
        BY <2>1
      <4> HIDE DEF p
      <4> QED  BY <1>5, <2>2, <4>1, AppendType
    <3>2. \A i \in 1..n : i \in 1..Len(attempted) \/ i = n
      BY <1>5
    <3>3. \A i \in 1..Len(attempted) : effects[i] \in Paths
      BY <1>5
    <3>4. InPlace
      BY <1>3, <2>1
    <3> HIDE DEF p
    <3>5. \A x \in Paths : disk'[x] = IF x = p THEN Target(p) ELSE disk[x]
      BY <1>5, <2>5 DEF FileMaps
    <3>6. \A i \in 1..Len(attempted) : disk'[effects[i]] = Target(effects[i])
      BY <3>3, <3>4, <3>5
    <3>7. disk'[effects[n]] = Target(effects[n])
      BY <2>2, <3>5 DEF p
    <3> HIDE DEF n
    <3>8. \A i \in 1..Len(attempted') : disk'[effects[i]] = Target(effects[i])
      BY <3>1, <3>2, <3>6, <3>7
    <3>9. InPlace'
      BY <2>1, <3>8
    <3> QED  BY <1>8, <2>1, <2>2, <2>5, <3>9
  <2> QED  BY <2>1, <2>4, <2>5
<1>10. CASE RecoverEffect
  <2> DEFINE p == attempted[Len(attempted) - Len(recoveryAttempted)]
  <2>1. /\ UNCHANGED <<pre, effects, attempted, committed>> /\ ~Recovered
        /\ pc = "recover" /\ pc' = pc
        /\ \/ disk' = disk
           \/ disk' = [disk EXCEPT ![p] = pre.files[p]]
    BY <1>10 DEF RecoverEffect, Restoration
  <2>2. p \in Planned
    BY <1>1, <2>1, NextToRecover
  <2>3. ~committed
    BY <1>1, <2>1 DEF PhaseInv
  <2> HIDE DEF p
  <2>4. CASE disk' = disk
    BY <1>7, <2>1, <2>4
  <2>5. CASE disk' = [disk EXCEPT ![p] = pre.files[p]]
    BY <1>8, <2>1, <2>2, <2>3, <2>5
  <2> QED  BY <2>1, <2>4, <2>5
<1>11. CASE Invalidate
  <2>1. /\ UNCHANGED <<pre, effects, attempted, committed>> /\ pc = "invalidate" /\ pc' = "finish"
        /\ disk' = disk \/ disk' = [disk EXCEPT ![CommitMarker] = "missing"]
    BY <1>11 DEF Invalidate
  <2>2. effects # <<>> /\ ~committed
    BY <1>1, <2>1 DEF PhaseInv, PlanInv
  <2>3. CommitMarker \in Planned
    BY <1>1, <2>2, PlannedFiles
  <2>4. CASE disk' = disk
    BY <1>7, <2>1, <2>4
  <2>5. CASE disk' = [disk EXCEPT ![CommitMarker] = "missing"]
    BY <1>8, <2>1, <2>2, <2>3, <2>5
  <2> QED  BY <2>1, <2>4, <2>5
<1>12. CASE PollBeforeApply
  <2>1. UNCHANGED <<disk, pre, effects, attempted, committed>> /\ pc = "poll"
    BY <1>12 DEF PollBeforeApply
  <2>2. attempted = <<>> /\ ~committed
    BY <1>1, <2>1 DEF PhaseInv
  <2>3. InPlace'
    <3>1. Len(attempted') = 0
      <4>1. attempted' = <<>>
        BY <2>1, <2>2
      <4> QED  BY <4>1
    <3> QED  BY <3>1
  <2>4. Planned' = Planned
    BY <2>1 DEF Planned
  <2> QED  BY <1>3, <1>4, <2>1, <2>3, <2>4
<1>13. CASE AllApplied \/ RemoveLegacy
  <2>1. UNCHANGED <<disk, pre, effects, attempted>> /\ Whole
    BY <1>13 DEF AllApplied, RemoveLegacy
  <2> QED  BY <1>7, <2>1
<1>14. CASE \/ MakeScratch \/ Validate \/ MakeDirectory \/ DirectoriesMade \/ MakeStage
            \/ CopyOriginal \/ WriteNew \/ AllPrepared \/ Recapture
  <2>1. UNCHANGED <<disk, pre, effects, attempted, committed>>
    BY <1>14 DEF MakeScratch, Validate, MakeDirectory, DirectoriesMade, MakeStage, CopyOriginal,
         WriteNew, AllPrepared, Recapture
  <2>2. pc' \notin {"apply", "remove legacy"}
    BY <1>14 DEF MakeScratch, Validate, MakeDirectory, DirectoriesMade, MakeStage, CopyOriginal,
         WriteNew, AllPrepared, Recapture, Abandon
  <2> QED  BY <1>7, <2>1, <2>2
<1>15. CASE \/ RecreateLegacy \/ RecoveryEnds \/ CleanStage \/ StagesCleaned
            \/ CleanDirectory \/ DirectoriesCleaned \/ Finish \/ CleanScratch
  <2>1. UNCHANGED <<disk, pre, effects, attempted, committed>>
    BY <1>15 DEF RecreateLegacy, RecoveryEnds, CleanStage, StagesCleaned,
            CleanDirectory, DirectoriesCleaned, Finish, CleanScratch
  <2>2. pc' \notin {"apply", "remove legacy"}
    BY <1>15 DEF RecreateLegacy, RecoveryEnds, CleanStage, StagesCleaned,
            CleanDirectory, DirectoriesCleaned, Finish, CleanScratch, Fail
  <2> QED  BY <1>7, <2>1, <2>2
<1>16. CASE Signal \/ UNCHANGED vars
  <2>1. UNCHANGED <<disk, pre, effects, attempted, committed, pc>>
    BY <1>16 DEF Signal, vars
  <2> QED  BY <1>7, <2>1
<1> QED
  BY <1>2, <1>6, <1>9, <1>10, <1>11, <1>12, <1>13, <1>14, <1>15, <1>16 DEF Next

\* The stage of a failure.
LEMMA FailureStage == \A s, c : Failure(s, c).stage = s
  BY DEF Failure

\* A refusal changes nothing.
LEMMA AloneRefusalStep ==
  ASSUME SafetyInv, AloneInv, AloneRefusal, [Next]_vars, edits = 0, edits' = 0
  PROVE  AloneRefusal'
<1>1. FileTypes /\ ListTypes /\ PlaceTypes /\ ListLengths
  BY DEF SafetyInv
<1>2. /\ ~ \E p \in Paths : \/ \E k \in Kinds(p) : EditFile(p, k)
                            \/ \E o \in {"none", "foreign"} : EditStage(p, o)
      /\ ~ \E d \in {SkillDirectory, LegacyDirectory} : AddStranger(d)
  BY <1>1, NobodyElse
<1> DEFINE Refused == mismatched \/ failure.stage = "precondition"
           Same == disk = pre.files /\ dirs = pre.dirs
           Over == pc \in {"finish"} \cup Ended
<1>3. (~Over => ~Refused) /\ (Refused => Same)
  BY DEF AloneRefusal
<1>4. (~Over' => ~Refused') /\ (Refused' => Same') => AloneRefusal'
  BY DEF AloneRefusal
<1>5. CASE ~Refused'
  BY <1>4, <1>5
<1>6. CASE Over' /\ Same'
  BY <1>4, <1>6
<1>7. CASE Validate
  <2>1. UNCHANGED <<disk, dirs, pre>> /\ pc = "validate" /\ pc' \in {"directories", "finish"}
        /\ (pc' = "directories" => UNCHANGED <<mismatched, failure>>)
    BY <1>7 DEF Validate
  <2>2. Same
    BY <2>1, FilesAsPlanned, DirectoriesAsPlanned
  <2>3. ~Refused
    BY <1>3, <2>1
  <2>4. CASE pc' = "directories"
    BY <1>5, <2>1, <2>3, <2>4
  <2>5. CASE pc' = "finish"
    <3>1. Same' /\ Over'
      BY <2>1, <2>2, <2>5
    <3> QED  BY <1>6, <3>1
  <2> QED  BY <2>1, <2>4, <2>5
<1>8. CASE Plan \/ MakeScratch
  <2>1. UNCHANGED <<mismatched, failure>> /\ ~Over
    BY <1>8 DEF Plan, MakeScratch
  <2> QED  BY <1>3, <1>5, <2>1
<1>9. CASE CopyOriginal
  <2>1. pc = "copy original"
    BY <1>9 DEF CopyOriginal
  <2>2. disk = pre.files
    BY <2>1, FilesAsPlanned
  <2>3. /\ UNCHANGED mismatched
        /\ UNCHANGED failure \/ \E c : failure' = Failure("prepare", c)
    BY <1>9, <2>2 DEF CopyOriginal, Abandon
  <2>4. ~Refused
    BY <1>3, <2>1
  <2> QED  BY <1>5, <2>3, <2>4, FailureStage
<1>10. CASE Recapture
  <2>1. pc = "recapture" /\ (Stale \/ UNCHANGED <<mismatched, failure>>)
    BY <1>10 DEF Recapture
  <2>2. ~Refused
    BY <1>3, <2>1
  <2> QED  BY <1>5, <2>1, <2>2, NothingStale
<1>11. CASE /\ ~Over /\ UNCHANGED mismatched
            /\ UNCHANGED failure \/ failure'.stage \in {"prepare", "apply", "recovery"}
  BY <1>3, <1>5, <1>11
<1>12. CASE \/ MakeDirectory \/ DirectoriesMade \/ MakeStage \/ WriteNew \/ AllPrepared
            \/ PollBeforeApply \/ ApplyEffect \/ AllApplied \/ RemoveLegacy \/ RecreateLegacy
  <2>1. /\ ~Over /\ UNCHANGED mismatched
        /\ \/ UNCHANGED failure
           \/ \E c : \E s \in {"prepare", "apply", "recovery"} : failure' = Failure(s, c)
    BY <1>12 DEF MakeDirectory, DirectoriesMade, MakeStage, WriteNew, AllPrepared,
      PollBeforeApply, ApplyEffect, AllApplied, RemoveLegacy, RecreateLegacy, Abandon, Fail
  <2> QED  BY <1>11, <2>1, FailureStage
<1>13. CASE \/ RecoverEffect \/ RecoveryEnds \/ Invalidate \/ CleanStage \/ StagesCleaned
            \/ CleanDirectory \/ DirectoriesCleaned
  <2>1. /\ ~Over /\ UNCHANGED mismatched
        /\ \/ UNCHANGED failure
           \/ \E c : \E s \in {"prepare", "apply", "recovery"} : failure' = Failure(s, c)
    BY <1>13 DEF RecoverEffect, RecoveryEnds, Invalidate, CleanStage, StagesCleaned,
         CleanDirectory, DirectoriesCleaned
  <2> QED  BY <1>11, <2>1, FailureStage
<1>14. CASE Finish \/ CleanScratch
  <2>1. /\ UNCHANGED <<disk, dirs, pre, mismatched>> /\ Over /\ Over'
        /\ \/ UNCHANGED failure
           \/ \E c : \E s \in {"cleanup", "prepare"} : failure' = Failure(s, c)
    BY <1>14 DEF Finish, CleanScratch, ReportedFailure
  <2> QED  BY <1>3, <1>4, <2>1, FailureStage
<1>15. CASE Signal \/ UNCHANGED vars
  <2>1. UNCHANGED <<disk, dirs, pre, mismatched, failure, pc>>
    BY <1>15 DEF Signal, vars
  <2> QED  BY <1>3, <1>4, <2>1
<1> QED
  BY <1>2, <1>7, <1>8, <1>9, <1>10, <1>12, <1>13, <1>14, <1>15 DEF Next

-----------------------------------------------------------------------------
(* The result.                                                             *)

\* What the outcome of an execution says about its observation.
LEMMA EvaluationMeaning ==
  ASSUME NEW eff, NEW obs, NEW o, o = EvaluateActivationMutation(eff, obs)
  PROVE  /\ o = "ACTIVATION_APPLIED" =>
              obs.committed /\ obs.stageResidue \cup obs.dirResidue = {}
         /\ o = "ACTIVATION_APPLY_FAILED_RECOVERED" =>
              /\ ~obs.committed /\ obs.stageResidue \cup obs.dirResidue = {}
              /\ obs.failure # NoFailure /\ obs.failure.stage # "precondition"
              /\ obs.unrecovered = {}
         /\ o = "ACTIVATION_OPERATION_REFUSED" =>
              /\ obs.mismatched \/ obs.failure.stage = "precondition"
              /\ obs.stageResidue \cup obs.dirResidue = {}
         /\ o # "ACTIVATION_CONFLICT"
<1> DEFINE residual == obs.stageResidue \cup obs.dirResidue # {}
           refused == (obs.mismatched \/ obs.failure.stage = "precondition") /\ ~residual
           incomplete == \/ obs.unrecovered \cup obs.invalidationFailed # {}
                         \/ obs.failure.stage = "recovery"
           ended == ~obs.committed /\ obs.failure # NoFailure
           valid == ValidExecutionObservation(eff, obs)
<1>1. o = IF ~valid THEN "ERROR"
          ELSE IF refused THEN "ACTIVATION_OPERATION_REFUSED"
          ELSE IF incomplete THEN "ACTIVATION_RECOVERY_INCOMPLETE"
          ELSE IF residual THEN "ACTIVATION_CLEANUP_INCOMPLETE"
          ELSE IF ended THEN "ACTIVATION_APPLY_FAILED_RECOVERED"
          ELSE IF obs.committed THEN "ACTIVATION_APPLIED" ELSE "ERROR"
  BY DEF EvaluateActivationMutation
<1>2. obs.unrecovered \cup obs.invalidationFailed = {} => obs.unrecovered = {}
  OBVIOUS
<1>3. o = "ACTIVATION_APPLIED" => obs.committed /\ ~residual
  <2> HIDE DEF valid, refused, incomplete, residual, ended
  <2> QED  BY <1>1
<1>4. o = "ACTIVATION_APPLY_FAILED_RECOVERED" => ~refused /\ ~incomplete /\ ~residual /\ ended
  <2> HIDE DEF valid, refused, incomplete, residual, ended
  <2> QED  BY <1>1
<1>5. o = "ACTIVATION_OPERATION_REFUSED" => refused
  <2> HIDE DEF valid, refused, incomplete, residual, ended
  <2> QED  BY <1>1
<1>6. o # "ACTIVATION_CONFLICT"
  <2> HIDE DEF valid, refused, incomplete, residual, ended
  <2> QED  BY <1>1
<1> QED  BY <1>2, <1>3, <1>4, <1>5, <1>6

\* The observation that is evaluated reports the variables as they are.
LEMMA ObservationFields ==
  ASSUME NEW x, NEW obs, obs = [Observation EXCEPT !.failure = x]
  PROVE  /\ obs.committed = committed /\ obs.stageResidue = stageResidue
         /\ obs.dirResidue = dirResidue /\ obs.unrecovered = unrecovered
         /\ obs.mismatched = mismatched /\ obs.failure = x
BY DEF Observation

\* The outcome of an execution, where it ends.
LEMMA FinishMeaning ==
  ASSUME Finish
  PROVE  /\ outcome' = "ACTIVATION_APPLIED" =>
              committed /\ stageResidue = {} /\ dirResidue = {}
         /\ outcome' = "ACTIVATION_APPLY_FAILED_RECOVERED" =>
              /\ ~committed /\ stageResidue = {} /\ dirResidue = {} /\ unrecovered = {}
              /\ failure # NoFailure /\ failure.stage # "precondition"
         /\ outcome' = "ACTIVATION_OPERATION_REFUSED" =>
              mismatched \/ failure.stage = "precondition"
         /\ outcome' # "ACTIVATION_CONFLICT"
<1> DEFINE obs == [Observation EXCEPT !.failure = ReportedFailure]
<1>1. outcome' = EvaluateActivationMutation(effects, obs)
  BY DEF Finish
<1>2. /\ obs.committed = committed /\ obs.stageResidue = stageResidue
      /\ obs.dirResidue = dirResidue /\ obs.unrecovered = unrecovered
      /\ obs.mismatched = mismatched /\ obs.failure = ReportedFailure
  BY ObservationFields
<1>3. stageResidue \cup dirResidue = {} => ReportedFailure = failure
  BY DEF ReportedFailure
<1>4. stageResidue \cup dirResidue = {} => stageResidue = {} /\ dirResidue = {}
  OBVIOUS
<1> HIDE DEF obs
<1>5. /\ outcome' = "ACTIVATION_APPLIED" =>
              obs.committed /\ obs.stageResidue \cup obs.dirResidue = {}
      /\ outcome' = "ACTIVATION_APPLY_FAILED_RECOVERED" =>
              /\ ~obs.committed /\ obs.stageResidue \cup obs.dirResidue = {}
              /\ obs.failure # NoFailure /\ obs.failure.stage # "precondition"
              /\ obs.unrecovered = {}
      /\ outcome' = "ACTIVATION_OPERATION_REFUSED" =>
              /\ obs.mismatched \/ obs.failure.stage = "precondition"
              /\ obs.stageResidue \cup obs.dirResidue = {}
      /\ outcome' # "ACTIVATION_CONFLICT"
  BY <1>1, EvaluationMeaning
<1> QED  BY <1>2, <1>3, <1>4, <1>5

\* With every file as it was, no directory of this execution left, and the legacy
\* directory there for its files, there is to do what there was before.
LEMMA SamePlan ==
  ASSUME SafetyInv, effects # <<>>, disk = pre.files, Crowded = {},
         \A d \in Names : d # LegacyDirectory => dirs[d] = pre.dirs[d]
  PROVE  Replanned = "ACTIVATION_PREVIEW" /\ PlanEffects(dirs) = effects
<1>1. FileTypes /\ PlanInv /\ ShelterInv /\ DirectoryInv
  BY DEF SafetyInv
<1>2. /\ Unobstructed(pre.files, pre.dirs, {})
      /\ ~(/\ pre.dirs[LegacyDirectory] = "missing"
           /\ \A p \in Range(Activated) : pre.files[p] = "new")
      /\ Planned = Range(Activated) \cup (IF pre.dirs[LegacyDirectory] = "missing" THEN {}
                                          ELSE Range(Legacy))
  BY <1>1, PlannedFiles
<1>3. effects = PlanEffects(pre.dirs)
  BY <1>1 DEF PlanInv
<1>4. /\ dirs[LegacyDirectory] = "missing" <=> pre.dirs[LegacyDirectory] = "missing"
      /\ dirs[LegacyDirectory] # "odd" /\ pre.dirs[LegacyDirectory] # "odd"
  <2>1. LegacyDirectory \in Names /\ LegacyDirectory # "root"
    BY NameSet DEF LegacyDirectory
  <2>2. dirs[LegacyDirectory] # "odd" /\ pre.dirs[LegacyDirectory] # "odd"
    BY <1>1, <1>2, <2>1 DEF Unobstructed, DirectoryInv
  <2>3. CASE pre.dirs[LegacyDirectory] = "missing"
    <3>1. Planned = Range(Activated)
      BY <1>2, <2>3
    <3>2. Range(Legacy) \cap Planned = {}
      BY <3>1, PathSet
    <3> QED  BY <1>1, <2>2, <2>3, <3>2 DEF DirectoryInv
  <2>4. CASE pre.dirs[LegacyDirectory] # "missing"
    <3>1. ValidLegacySnapshot(pre.files)
      BY <1>2, <2>4, OwnershipMeaning DEF Unobstructed
    <3>2. "legacy skill" \in Range(Legacy) /\ "legacy skill" \in Paths
      BY PathSet
    <3>3. disk["legacy skill"] # "missing"
      BY <3>1, <3>2 DEF ValidLegacySnapshot
    <3>4. Exists(LegacyDirectory)
      BY <1>1, <3>2, <3>3, ParentTable DEF ShelterInv
    <3>5. dirs[LegacyDirectory] \in {"theirs", "ours"}
      BY <2>1, <3>4, ExistsMeaning
    <3> QED  BY <2>2, <2>4, <3>5
  <2> QED  BY <2>3, <2>4
<1>5. \A x \in Names : /\ dirs[x] = "missing" <=> pre.dirs[x] = "missing"
                       /\ dirs[x] = "odd" <=> pre.dirs[x] = "odd"
  BY <1>4
<1>6. Unobstructed(disk, dirs, {})
  BY <1>2, <1>5, SameObstacles
<1>7. ~(/\ dirs[LegacyDirectory] = "missing"
        /\ \A p \in Range(Activated) : disk[p] = "new")
  BY <1>2, <1>4
<1>8. Replanned = "ACTIVATION_PREVIEW"
  BY <1>6, <1>7, OutcomeMeaning DEF Replanned
<1>9. PlanEffects(dirs) = effects
  BY <1>3, <1>4 DEF PlanEffects
<1> QED  BY <1>8, <1>9

\* With every file in place and the legacy directory gone, there is nothing to do.
LEMMA NothingToPlan ==
  ASSUME SafetyInv, AlonePlaces, effects # <<>>, committed, Crowded = {},
         \A p \in Planned : disk[p] = Target(p)
  PROVE  Replanned = "ACTIVATION_UNCHANGED"
<1>1. FileTypes /\ PlanInv /\ ShelterInv /\ DirectoryInv
  BY DEF SafetyInv
<1>2. /\ Unobstructed(pre.files, pre.dirs, {})
      /\ Planned = Range(Activated) \cup (IF pre.dirs[LegacyDirectory] = "missing" THEN {}
                                          ELSE Range(Legacy))
  BY <1>1, PlannedFiles
<1>3. \A p \in Range(Activated) : p \in Planned /\ Target(p) = "new" /\ p \in Paths
  BY <1>2, PathSet DEF Target
<1>4. \A p \in Range(Activated) : disk[p] = "new"
  BY <1>3
<1>5. dirs[LegacyDirectory] = "missing"
  <2>1. CASE pre.dirs[LegacyDirectory] = "missing"
    <3>1. Planned = Range(Activated)
      BY <1>2, <2>1
    <3>2. Range(Legacy) \cap Planned = {}
      BY <3>1, PathSet
    <3> QED  BY <1>1, <2>1, <3>2 DEF DirectoryInv
  <2>2. CASE pre.dirs[LegacyDirectory] # "missing"
    <3>1. Range(Legacy) \subseteq Planned
      BY <1>2, <2>2
    <3> QED  BY <1>1, <3>1 DEF DirectoryInv
  <2> QED  BY <2>1, <2>2
<1>6. \A d \in Names : d # LegacyDirectory =>
        dirs[d] = pre.dirs[d] \/ (pre.dirs[d] = "missing" /\ dirs[d] = "ours")
  BY <1>1 DEF DirectoryInv
<1>7. \A d \in Names : dirs[d] # "odd"
  BY <1>2, <1>5, <1>6 DEF Unobstructed
<1>8. "missing" \notin {dirs["specs"], dirs["specs/stories"]}
  <2>1. {"specs", "specs/stories"} \subseteq Names \ {LegacyDirectory}
    BY NameSet DEF LegacyDirectory
  <2> QED  BY <1>2, <1>6, <2>1 DEF Unobstructed
<1>9. {"AGENTS.md", "skill", "workflow", "snapshot"} = Range(Activated)
  BY PathSet
<1>10. disk[Adoption] = pre.files[Adoption]
  <2>1. Adoption \in Paths \ Planned
    BY <1>2, PathSet DEF Adoption
  <2> QED  BY <2>1 DEF AlonePlaces
<1>11. disk[Adoption] # "odd" /\ disk[Adoption] \notin {"empty", "edited"}
  BY <1>2, <1>10 DEF Unobstructed
<1>12. dirs[SkillDirectory] # "missing"
  <2>1. "skill" \in Paths /\ disk["skill"] = "new" /\ Parent["skill"] = SkillDirectory
    BY <1>4, <1>9, PathSet, ParentTable
  <2>2. Exists(SkillDirectory)
    BY <1>1, <2>1 DEF ShelterInv
  <2>3. SkillDirectory \in Names
    BY NameSet DEF SkillDirectory
  <2> QED  BY <2>2, <2>3, ExistsMeaning
<1>13. ExactMembers(SkillDirectory, disk, Crowded)
  <2>1. \A p \in Paths : Parent[p] = SkillDirectory => p \in {"skill", "workflow", "snapshot"}
    <3>1. Parent["AGENTS.md"] # SkillDirectory /\ Parent["adoption"] # SkillDirectory
      BY ParentTable DEF SkillDirectory
    <3>2. \A p \in Range(Legacy) : Parent[p] # SkillDirectory
      BY ParentTable DEF SkillDirectory, LegacyDirectory
    <3> QED  BY <3>1, <3>2, PathSet
  <2> QED  BY <1>4, <1>9, <2>1 DEF ExactMembers
<1>14. ~OwnershipConflict(disk, dirs)
  <2>1. \A p \in {"skill", "workflow", "snapshot"} : Sound(disk[p])
    BY <1>4, <1>9 DEF Sound
  <2>2. Span(disk["AGENTS.md"]) = 2 /\ LegacySpan(disk["AGENTS.md"]) = 0
    <3>1. disk["AGENTS.md"] = "new"
      BY <1>4, <1>9
    <3>2. Span("new") = 2 /\ LegacySpan("new") = 0
      BY DEF Span, LegacySpan
    <3> QED  BY <3>1, <3>2
  <2>3. ValidInstalledSnapshot(disk)
    BY <1>4 DEF ValidInstalledSnapshot
  <2> QED  BY <1>5, <1>12, <2>1, <2>2, <2>3 DEF OwnershipConflict
<1>15. disk["AGENTS.md"] = "new" /\ \A p \in {"skill", "workflow", "snapshot"} : disk[p] = "new"
  BY <1>4, <1>9
<1>16. Unobstructed(disk, dirs, Crowded)
  BY <1>5, <1>7, <1>8, <1>11, <1>13, <1>14, <1>15 DEF Unobstructed
<1> QED  BY <1>4, <1>5, <1>16, OutcomeMeaning DEF Replanned

\* With no file of somebody else and no stage there is nothing unknown.
LEMMA NothingCrowded ==
  ASSUME strangers = {}, \A p \in Paths : stage[p].owner = "none"
  PROVE  Crowded = {}
BY DEF Crowded

\* Who a stage can belong to.
LEMMA OwnersTable ==
  ASSUME FileTypes, NEW p \in Paths
  PROVE  stage[p].owner \in {"none", "run", "foreign"}
<1>1. stage[p] \in Stages
  BY DEF FileTypes
<1> QED  BY <1>1 DEF Stages

\* The result stands up to planning again.
LEMMA AloneResultStep ==
  ASSUME SafetyInv, OutcomeInv, AloneInv, AlonePlaces, AloneRefusal, AloneResult,
         [Next]_vars, edits = 0, edits' = 0
  PROVE  AloneResult'
<1>1. /\ FileTypes /\ ListTypes /\ ListContents /\ ListLengths /\ PlaceTypes /\ PhaseInv
      /\ PlanInv /\ OwnedInv /\ DirectoryInv /\ NamedInv /\ StagesLeftInv /\ DirectoriesLeftInv
  BY DEF SafetyInv
<1>2. /\ ~ \E p \in Paths : \/ \E k \in Kinds(p) : EditFile(p, k)
                            \/ \E o \in {"none", "foreign"} : EditStage(p, o)
      /\ ~ \E d \in {SkillDirectory, LegacyDirectory} : AddStranger(d)
  BY <1>1, NobodyElse
<1>3. CASE pc' \notin Ended
  BY <1>3 DEF AloneResult
<1>4. ASSUME outcome' \notin {"ACTIVATION_APPLIED", "ACTIVATION_APPLY_FAILED_RECOVERED",
                              "ACTIVATION_OPERATION_REFUSED", "ACTIVATION_CONFLICT"}
      PROVE  AloneResult'
  BY <1>4 DEF AloneResult
<1>5. ASSUME outcome' \in {"ACTIVATION_OPERATION_REFUSED", "ACTIVATION_CONFLICT"},
             disk' = pre'.files, dirs' = pre'.dirs
      PROVE  AloneResult'
  BY <1>5 DEF AloneResult
<1>6. CASE Plan
  <2>1. pre' = [files |-> disk, dirs |-> dirs] /\ UNCHANGED <<disk, dirs>>
    BY <1>6 DEF Plan
  <2>2. disk' = pre'.files /\ dirs' = pre'.dirs
    BY <2>1
  <2>3. \/ pc' = "make scratch"
        \/ /\ outcome' \in {Replanned, "ACTIVATION_OPERATION_REFUSED"}
           /\ outcome' \notin {"ACTIVATION_PREVIEW", "ACTIVATION_UNCHANGED"}
    BY <1>6 DEF Plan
  <2>4. Replanned \in {"ACTIVATION_PREVIEW", "ACTIVATION_UNCHANGED",
                       "ACTIVATION_OPERATION_REFUSED", "ACTIVATION_CONFLICT"}
    BY OutcomeMeaning DEF Replanned
  <2> QED  BY <1>3, <1>5, <2>2, <2>3, <2>4
<1>7. CASE MakeScratch
  <2>1. pc = "make scratch" /\ UNCHANGED <<disk, dirs, pre>>
        /\ \/ UNCHANGED outcome
           \/ \E clean \in BOOLEAN : outcome' = EvaluateScratchCleanup(outcome, FALSE, clean)
    BY <1>7 DEF MakeScratch
  <2>2. outcome \in {"ACTIVATION_PREVIEW", "ACTIVATION_UNCHANGED"}
    BY <2>1 DEF OutcomeInv
  <2>3. disk = pre.files /\ dirs = pre.dirs
    BY <2>1, FilesAsPlanned, DirectoriesAsPlanned
  <2>4. \A clean \in BOOLEAN : EvaluateScratchCleanup(outcome, FALSE, clean) \in
          {"ACTIVATION_OPERATION_REFUSED", "ACTIVATION_CLEANUP_INCOMPLETE"}
    BY <2>2 DEF EvaluateScratchCleanup
  <2>5. CASE outcome' \in {"ACTIVATION_PREVIEW", "ACTIVATION_UNCHANGED",
                           "ACTIVATION_CLEANUP_INCOMPLETE"}
    BY <1>4, <2>5
  <2>6. CASE outcome' = "ACTIVATION_OPERATION_REFUSED"
    BY <1>5, <2>1, <2>3, <2>6
  <2> QED  BY <2>1, <2>2, <2>4, <2>5, <2>6
<1>8. CASE Finish
  <2>1. pc = "finish" /\ UNCHANGED <<target, plan, created, staged>>
    BY <1>8 DEF Finish
  <2>2. effects # <<>>
    BY <1>1, <2>1 DEF PlanInv
  <2>3. \A p \in Paths : stage[p].owner \in {"none", "run"}
    BY <1>1, OwnersTable DEF AloneInv
  <2>4. CASE outcome' = "ACTIVATION_APPLIED"
    <3>1. committed /\ stageResidue = {}
      BY <1>8, <2>4, FinishMeaning
    <3>2. unrecovered = {} /\ Len(attempted) = Len(effects)
      BY <1>1, <3>1 DEF PhaseInv
    <3>3. \A i \in 1..Len(effects) : disk[effects[i]] = Target(effects[i])
      BY <3>1, <3>2 DEF AlonePlaces
    <3>4. \A p \in Planned : disk[p] = Target(p)
      <4>1. DOMAIN effects = 1..Len(effects)
        BY <1>1 DEF ListTypes
      <4> QED  BY <3>3, <4>1 DEF Planned, Range
    <3>5. \A p \in Paths : stage[p].owner # "run"
      BY <1>1, <2>1, <3>1, <3>2 DEF OwnedInv, StagesLeftInv
    <3>6. strangers = {}
      BY <3>1 DEF AloneInv, Begun
    <3>7. Crowded = {}
      BY <2>3, <3>5, <3>6, NothingCrowded
    <3>8. Replanned = "ACTIVATION_UNCHANGED"
      BY <2>2, <3>1, <3>4, <3>7, NothingToPlan
    <3>9. Replanned' = Replanned
      BY <2>1 DEF Replanned, Crowded
    <3> QED  BY <2>4, <3>8, <3>9 DEF AloneResult
  <2>5. CASE outcome' = "ACTIVATION_APPLY_FAILED_RECOVERED"
    <3>1. /\ ~committed /\ stageResidue = {} /\ dirResidue = {} /\ unrecovered = {}
          /\ failure # NoFailure /\ failure.stage # "precondition"
      BY <1>8, <2>5, FinishMeaning
    <3>2. strangers = {}
      BY <1>1, <3>1 DEF PlaceTypes, AloneInv, Begun
    <3>3. Recovered
      BY <1>1, <2>1, <3>1 DEF PhaseInv
    <3>4. \A p \in Paths : disk[p] = pre.files[p]
      <4>1. Range(attempted) \subseteq Range(recoveryAttempted)
        BY <1>1, <3>3, RecoveredMeaning
      <4> QED  BY <1>1, <3>1, <4>1 DEF AloneInv, NamedInv
    <3>5. disk = pre.files
      BY <1>1, <3>4, SameFiles
    <3>6. SUFFICES ASSUME ~Torn
                   PROVE  Replanned = "ACTIVATION_PREVIEW" /\ PlanEffects(dirs) = effects
      <4>1. Replanned' = Replanned /\ Torn' = Torn
        BY <2>1 DEF Replanned, Crowded, Torn
      <4> QED  BY <2>1, <2>5, <3>5, <4>1 DEF AloneResult
    <3>7. \A p \in Paths : stage[p].owner # "run"
      BY <1>1, <2>1, <3>1, <3>6 DEF Torn, StagesLeftInv
    <3>8. Crowded = {}
      BY <2>3, <3>2, <3>7, NothingCrowded
    <3>9. \A d \in Names : d # LegacyDirectory => dirs[d] = pre.dirs[d]
      <4>1. \A d \in Range(created) : dirs[d] # "ours"
        BY <1>1, <2>1, <3>1 DEF DirectoriesLeftInv
      <4> QED  BY <1>1, <3>6, <4>1 DEF Torn, DirectoryInv, Names
    <3> QED  BY <2>2, <3>5, <3>8, <3>9, SamePlan
  <2>6. CASE outcome' = "ACTIVATION_OPERATION_REFUSED"
    <3>1. mismatched \/ failure.stage = "precondition"
      BY <1>8, <2>6, FinishMeaning
    <3>2. disk = pre.files /\ dirs = pre.dirs
      BY <3>1 DEF AloneRefusal
    <3> QED  BY <1>5, <2>1, <2>6, <3>2
  <2>7. outcome' # "ACTIVATION_CONFLICT"
    BY <1>8, FinishMeaning
  <2> QED  BY <1>4, <2>4, <2>5, <2>6, <2>7
<1>9. CASE CleanScratch
  <2>1. /\ pc = "clean scratch" /\ UNCHANGED <<target, plan, created, staged>>
        /\ \E clean \in BOOLEAN : outcome' = EvaluateScratchCleanup(outcome, TRUE, clean)
    BY <1>9 DEF CleanScratch
  <2>2. \/ outcome' = outcome
        \/ outcome' \in {"ACTIVATION_RECOVERY_INCOMPLETE", "ACTIVATION_CLEANUP_INCOMPLETE"}
    BY <2>1 DEF EvaluateScratchCleanup
  <2>3. CASE outcome' \in {"ACTIVATION_RECOVERY_INCOMPLETE", "ACTIVATION_CLEANUP_INCOMPLETE"}
    BY <1>4, <2>3
  <2>4. CASE outcome' = outcome
    <3>1. Replanned' = Replanned /\ Torn' = Torn
      BY <2>1 DEF Replanned, Crowded, Torn
    <3>2. UNCHANGED <<disk, dirs, pre, effects>>
      BY <2>1
    <3> QED  BY <2>1, <2>4, <3>1, <3>2 DEF AloneResult
  <2> QED  BY <2>2, <2>3, <2>4
<1>10. CASE \/ Validate \/ MakeDirectory \/ DirectoriesMade
            \/ MakeStage \/ CopyOriginal \/ WriteNew \/ AllPrepared \/ Recapture
            \/ PollBeforeApply \/ ApplyEffect \/ AllApplied \/ RemoveLegacy \/ RecreateLegacy
  <2>1. pc' \notin Ended
    BY <1>10 DEF Validate, MakeDirectory, DirectoriesMade, MakeStage, CopyOriginal, WriteNew,
      AllPrepared, Recapture, PollBeforeApply, ApplyEffect, AllApplied, RemoveLegacy,
      RecreateLegacy, Abandon, Fail
  <2> QED  BY <1>3, <2>1
<1>11. CASE \/ RecoverEffect \/ RecoveryEnds \/ Invalidate
            \/ CleanStage \/ StagesCleaned \/ CleanDirectory \/ DirectoriesCleaned \/ Signal
  <2>1. pc' \notin Ended
    BY <1>11 DEF RecoverEffect, RecoveryEnds, Invalidate, CleanStage, StagesCleaned,
         CleanDirectory, DirectoriesCleaned, Signal, Mutating
  <2> QED  BY <1>3, <2>1
<1>12. CASE UNCHANGED vars
  <2>1. UNCHANGED <<pc, outcome, disk, dirs, strangers, stage, pre, effects, created, staged>>
    BY <1>12 DEF vars
  <2>2. Replanned' = Replanned /\ Torn' = Torn
    BY <2>1 DEF Replanned, Crowded, Torn
  <2> QED  BY <2>1, <2>2 DEF AloneResult
<1> QED
  BY <1>2, <1>6, <1>7, <1>8, <1>9, <1>10, <1>11, <1>12 DEF Next

-----------------------------------------------------------------------------
(* The theorems.                                                           *)

\* Where every file is says what the next plan makes of them.
LEMMA PartialFromInvariant ==
  ASSUME SafetyInv, edits = 0 => AlonePlaces
  PROVE  PartialIsRefused
<1>1. FileTypes /\ ListTypes /\ PlanInv /\ ShelterInv
  BY DEF SafetyInv
<1> SUFFICES ASSUME AlonePlaces
             PROVE  /\ Replanned = "ACTIVATION_PREVIEW" => disk = pre.files
                    /\ Replanned = "ACTIVATION_UNCHANGED" =>
                         disk = pre.files \/ \A p \in Planned : disk[p] = Target(p)
  BY DEF PartialIsRefused
<1>2. CASE effects = <<>>
  <2>1. Planned = {}
    BY <1>2, RangeEmpty DEF Planned
  <2>2. \A p \in Paths : disk[p] = pre.files[p]
    BY <2>1 DEF AlonePlaces
  <2> QED  BY <1>1, <2>2, SameFiles
<1>3. CASE effects # <<>>
  <2>1. /\ Unobstructed(pre.files, pre.dirs, {})
        /\ Planned = Range(Activated) \cup (IF pre.dirs[LegacyDirectory] = "missing" THEN {}
                                            ELSE Range(Legacy))
    BY <1>1, <1>3, PlannedFiles
  <2>2. Planned = Range(PlanEffects(pre.dirs))
    BY <1>1, <1>3 DEF PlanInv, Planned
  <2>3. /\ disk \in FileMaps /\ pre.files \in FileMaps
    BY <1>1 DEF FileTypes
  <2>4. \A p \in Paths : (disk[p] # "missing" /\ Parent[p] \in Names) => dirs[Parent[p]] # "missing"
    BY <1>1, ExistsMeaning DEF ShelterInv
  <2>5. \A p \in Paths : (pre.files[p] # "missing" /\ Parent[p] \in Names) =>
                           pre.dirs[Parent[p]] # "missing"
    BY <1>1 DEF ShelterInv
  <2>6. ASSUME Replanned = "ACTIVATION_PREVIEW"
        PROVE  disk = pre.files
    <3>1. /\ Unobstructed(disk, dirs, Crowded)
          /\ ~(/\ dirs[LegacyDirectory] = "missing"
               /\ \A p \in Range(Activated) : disk[p] = "new")
      BY <2>6, OutcomeMeaning DEF Replanned
    <3>2. \A p \in Paths \ Range(PlanEffects(pre.dirs)) : disk[p] = pre.files[p]
      BY <2>2 DEF AlonePlaces
    <3>3. \A p \in Range(PlanEffects(pre.dirs)) :
            \/ disk[p] = pre.files[p] \/ disk[p] = Target(p)
            \/ p = CommitMarker /\ disk[p] = "missing"
      BY <2>2 DEF AlonePlaces
    <3> QED  BY <2>1, <2>3, <2>4, <2>5, <3>1, <3>2, <3>3, PartialMeaning
  <2>7. ASSUME Replanned = "ACTIVATION_UNCHANGED", NEW p \in Planned
        PROVE  disk[p] = Target(p)
    <3>1. dirs[LegacyDirectory] = "missing" /\ \A x \in Range(Activated) : disk[x] = "new"
      BY <2>7, OutcomeMeaning DEF Replanned
    <3>2. CASE p \in Range(Activated)
      BY <3>1, <3>2, PathSet DEF Target
    <3>3. CASE p \in Range(Legacy)
      <4>1. p \in Paths /\ Parent[p] = LegacyDirectory /\ LegacyDirectory \in Names
        BY <3>3, PathSet, ParentTable, NameSet DEF LegacyDirectory
      <4>2. disk[p] = "missing"
        BY <2>4, <3>1, <4>1
      <4> QED  BY <3>3, <4>2 DEF Target
    <3> QED  BY <2>1, <3>2, <3>3
  <2> QED  BY <2>6, <2>7
<1> QED  BY <1>2, <1>3

\* The edits of somebody else are counted up.
LEMMA EditsGrow ==
  ASSUME ListTypes, [Next]_vars, edits' = 0
  PROVE  edits = 0
<1>1. edits \in Nat
  BY DEF ListTypes
<1>2. ASSUME edits' = edits + 1
      PROVE  FALSE
  BY <1>1, <1>2
<1>3. CASE UNCHANGED edits
  BY <1>3
<1>4. \/ UNCHANGED edits
      \/ edits' = edits + 1
  <2>1. \/ \E p \in Paths : \/ \E k \in Kinds(p) : EditFile(p, k)
                            \/ \E o \in {"none", "foreign"} : EditStage(p, o)
        \/ \E d \in {SkillDirectory, LegacyDirectory} : AddStranger(d)
        \/ UNCHANGED edits
    BY ChangeFrame
  <2> QED  BY <2>1 DEF EditFile, EditStage, AddStranger, Edit
<1> QED  BY <1>2, <1>3, <1>4

\* Every step keeps the invariant.
LEMMA InvariantStep ==
  ASSUME IInv, [Next]_vars
  PROVE  IInv'
<1>1. SafetyInv /\ OutcomeInv
  BY DEF IInv
<1>2. SafetyInv' /\ OutcomeInv'
  BY <1>1, SafetyInvStep
<1>3. ASSUME edits' = 0
      PROVE  AloneInv' /\ AlonePlaces' /\ AloneRefusal' /\ AloneResult'
  <2>1. ListTypes
    BY <1>1 DEF SafetyInv
  <2>2. edits = 0
    BY <1>3, <2>1, EditsGrow
  <2>3. AloneInv /\ AlonePlaces /\ AloneRefusal /\ AloneResult
    BY <2>2 DEF IInv
  <2>4. AloneInv'
    BY <1>1, <1>3, <2>2, <2>3, AloneInvStep
  <2>5. AlonePlaces'
    BY <1>1, <1>3, <2>2, <2>3, AlonePlacesStep
  <2>6. AloneRefusal'
    BY <1>1, <1>3, <2>2, <2>3, AloneRefusalStep
  <2>7. AloneResult'
    BY <1>1, <1>3, <2>2, <2>3, AloneResultStep
  <2> QED  BY <2>4, <2>5, <2>6, <2>7
<1> QED  BY <1>2, <1>3 DEF IInv

\* The inductive invariant holds of every execution.
THEOREM ActivationInvariance == Spec => []IInv
<1>1. Init => IInv
  BY InitInvariant
<1>2. IInv /\ [Next]_vars => IInv'
  BY InvariantStep
<1> QED  BY <1>1, <1>2, PTL DEF Spec

\* A migration from ForgeFlow is all or nothing: it commits only with the legacy
\* directory gone, never over a file of somebody else, and otherwise every legacy
\* file is back or named.
THEOREM MigrationIsWholeAlways == Spec => []MigrationIsWhole
<1>1. IInv => MigrationIsWhole
  BY MigrationFromInvariant DEF IInv
<1> QED  BY <1>1, ActivationInvariance, PTL

\* Wherever the process dies, the next run does not take a half-made activation for
\* anything else.
THEOREM PartialIsRefusedAlways == Spec => []PartialIsRefused
<1>1. IInv => PartialIsRefused
  BY PartialFromInvariant DEF IInv
<1> QED  BY <1>1, ActivationInvariance, PTL

\* A result is as good as its word when the same activation is planned again.
THEOREM ResultHoldsOnReplanAlways == Spec => []ResultHoldsOnReplan
<1>1. IInv => ResultHoldsOnReplan
  BY DEF IInv, AloneResult, ResultHoldsOnReplan
<1> QED  BY <1>1, ActivationInvariance, PTL
=============================================================================
