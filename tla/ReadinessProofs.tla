---------------------------- MODULE ReadinessProofs ----------------------------
(***************************************************************************)
(* What somebody else writes into a sidecar survives every order of runs and *)
(* changes, for any number of runs, Stories, faults and changes.            *)
(***************************************************************************)
EXTENDS ReadinessInvariant, TLAPS, SequenceTheorems

\* Every element of a sequence of Stories is a Story.
LEMMA ElementIsStory ==
  ASSUME NEW s \in Seq(Stories), NEW i \in 1..Len(s)
  PROVE  s[i] \in Stories
OBVIOUS

\* A batch has Stories.
LEMMA BatchStory ==
  ASSUME NEW i \in 1..Len(StoryOrder)
  PROVE  /\ StoryOrder[i] \in Stories
         /\ Len(StoryOrder) \in Nat /\ 1 \in 1..Len(StoryOrder)
<1>1. StoryOrder \in Seq(Stories) /\ StoryOrder # <<>>
  BY StoryOrderAssumption DEF Stories
<1> QED  BY <1>1

\* A loop that has not come to the end of its list can go one further.
LEMMA NextIndex ==
  ASSUME NEW n \in Nat, NEW i \in 1..n
  PROVE  /\ i \in Nat /\ i + 1 \in Nat /\ 1 \in 1..n
         /\ i < n => i + 1 \in 1..n
         /\ \A k \in (i + 1)..n : k \in i..n
         /\ \A k \in 1..(i + 1 - 1) : k \in 1..(i - 1) \/ k = i
         /\ ~(i < n) => \A k \in 1..n : k \in 1..(i - 1) \/ k = i
         /\ 1..(i - 1) \subseteq 1..n /\ i..n \subseteq 1..n
OBVIOUS

\* What remains of a list to be deleted is a list of Stories.
LEMMA PartIsStories ==
  ASSUME NEW s \in Seq(Stories), NEW i \in 1..Len(s)
  PROVE  /\ SubSeq(s, 1, i - 1) \in Seq(Stories)
         /\ SubSeq(s, i + 1, Len(s)) \in Seq(Stories)
<1>1. /\ 1 \in Int /\ i - 1 \in Int /\ i + 1 \in Int /\ Len(s) \in Int
      /\ \A k \in 1..(i - 1) : s[k] \in Stories
      /\ \A k \in (i + 1)..Len(s) : s[k] \in Stories
  OBVIOUS
<1> QED  BY <1>1, SubSeqProperties

-----------------------------------------------------------------------------
(* Types.                                                                  *)

\* Runs start with well-typed variables, and with nothing planned or seen.
LEMMA InitSafety == Init => IInv
<1> SUFFICES ASSUME Init PROVE IInv
  OBVIOUS
<1>1. TypeOK
  BY DEF Init, TypeOK, Points, Verdicts
<1>2. CursorInv
  <2>1. 1 \in 1..Len(StoryOrder)
    BY StoryOrderAssumption
  <2>2. \A r \in Runs : pc[r] = "start" /\ cursor[r] = 1
    BY DEF Init
  <2> QED  BY <2>1, <2>2 DEF CursorInv, CursorAt, OverPlan
<1>5. PlannedInv
  BY DEF Init, PlannedInv, PlannedAt
<1>3. EditsSurvive
  BY DEF Init, EditsSurvive, SameContent
<1>4. SightInv
  BY DEF Init, SightInv, SightAt, Vulnerable
<1> QED  BY <1>1, <1>2, <1>3, <1>4, <1>5 DEF IInv

\* The sidecar a run writes is the one it has read, with other digests.
LEMMA RewrittenContent ==
  ASSUME TypeOK, PlannedInv, NEW r \in Runs, NEW i \in 1..Len(planned[r])
  PROVE  LET s == planned[r][i] IN
         /\ Rewritten(r, s) \in Sidecars
         /\ Rewritten(r, s).body = observed[r].sidecar[s].body
         /\ Rewritten(r, s).kind = observed[r].sidecar[s].kind
<1> DEFINE s == planned[r][i]
<1>1. s \in Stories
  BY ElementIsStory DEF TypeOK
<1>2. observed[r].sidecar[s] \in Sidecars /\ observed[r].definition[s] \in Definitions
  BY <1>1 DEF TypeOK
<1>3. observed[r].sidecar[s].kind = "valid"
  BY DEF PlannedInv, PlannedAt
<1>4. /\ observed[r].sidecar[s].kind \in {"valid"} /\ observed[r].sidecar[s].body \in Bodies
      /\ observed[r].sidecar[s] = [kind |-> observed[r].sidecar[s].kind,
                                   digest |-> observed[r].sidecar[s].digest,
                                   body |-> observed[r].sidecar[s].body]
  BY <1>2, <1>3 DEF Sidecars
<1>5. Rewritten(r, s) = [kind |-> observed[r].sidecar[s].kind,
                         digest |-> observed[r].definition[s],
                         body |-> observed[r].sidecar[s].body]
  BY <1>4 DEF Rewritten
<1> QED  BY <1>2, <1>4, <1>5 DEF Sidecars

\* A run in one of the loops over its plan is at one of its Stories.
LEMMA ItemIsStory ==
  ASSUME TypeOK, CursorInv, NEW r \in Runs, pc[r] \in OverPlan
  PROVE  /\ Item(r) \in Stories /\ cursor[r] \in 1..Len(planned[r])
         /\ planned[r] \in Seq(Stories) /\ Len(planned[r]) \in Nat
<1>1. planned[r] \in Seq(Stories) /\ cursor[r] \in 1..Len(planned[r])
  BY DEF TypeOK, CursorInv, CursorAt
<1>2. Item(r) \in Stories
  BY <1>1, ElementIsStory DEF Item
<1> QED  BY <1>1, <1>2

\* Faults are counted up, a cursor moves by one or back to the start.
LEMMA CountersType ==
  ASSUME TypeOK
  PROVE  /\ Fails \/ Works => faults' \in Nat
         /\ UNCHANGED cursor => cursor' \in [Runs -> Nat]
         /\ \A r \in Runs : Advance(r) \/ From(r, 1) => cursor' \in [Runs -> Nat]
<1>1. faults \in Nat /\ cursor \in [Runs -> Nat]
  BY DEF TypeOK
<1>2. Fails \/ Works => faults' \in Nat
  BY <1>1 DEF Fails, Works
<1>3. ASSUME NEW r \in Runs, Advance(r) \/ From(r, 1) PROVE cursor' \in [Runs -> Nat]
  <2>1. cursor[r] + 1 \in Nat
    BY <1>1
  <2>2. 1 \in Nat
    OBVIOUS
  <2> QED  BY <1>1, <1>3, <2>1, <2>2 DEF Advance, From
<1> QED  BY <1>1, <1>2, <1>3

\* A function that is changed at one argument.
LEMMA UpdateType ==
  ASSUME NEW D, NEW S, NEW f \in [D -> S], NEW x \in D, NEW v \in S
  PROVE  [f EXCEPT ![x] = v] \in [D -> S]
OBVIOUS

\* A step moves its run from one point of the command to another.
LEMMA ControlType ==
  ASSUME TypeOK, [Next]_vars
  PROVE  pc' \in [Runs -> Points] /\ verdict' \in [Runs -> Verdicts]
<1> DEFINE Typed == pc' \in [Runs -> Points] /\ verdict' \in [Runs -> Verdicts]
<1>0. /\ pc \in [Runs -> Points] /\ verdict \in [Runs -> Verdicts]
  BY DEF TypeOK
<1>1. ASSUME NEW r \in Runs,
             Start(r) \/ Validate(r) \/ ReadDefinition(r) \/ ReadSidecar(r) \/ PlanStory(r)
      PROVE  Typed
  <2>1. CASE Start(r) \/ Validate(r)
    BY <1>0, <2>1 DEF Start, Validate, Goto, Ends, Points, Terminal, Verdicts
  <2>2. CASE ReadDefinition(r) \/ ReadSidecar(r)
    <3>1. /\ UNCHANGED verdict
          /\ UNCHANGED pc \/ Goto(r, "read sidecars") \/ Goto(r, "validate")
      BY <2>2, Zenon DEF ReadDefinition, ReadSidecar
    <3> QED  BY <1>0, <3>1 DEF Goto, Ends, Points, Terminal, Verdicts
  <2>3. CASE PlanStory(r)
    <3>1. \/ UNCHANGED <<pc, verdict>>
          \/ Ends(r, "success")
          \/ Goto(r, "check paths") /\ UNCHANGED verdict
      BY <2>3, Zenon DEF PlanStory
    <3> QED  BY <1>0, <3>1 DEF Goto, Ends, Points, Terminal, Verdicts
  <2> QED  BY <1>1, <2>1, <2>2, <2>3
<1>2. ASSUME NEW r \in Runs, CheckPath(r) \/ Stage(r) \/ Recheck(r)
      PROVE  Typed
  BY <1>0, <1>2 DEF CheckPath, Stage, Recheck, Goto, Ends, EndsAfterCleaning, Points,
                   Terminal, Verdicts
<1>3. ASSUME NEW r \in Runs, Rename(r) \/ Clean(r) \/ Reindex(r) \/ Crash(r)
      PROVE  Typed
  BY <1>0, <1>3 DEF Rename, Clean, Reindex, Crash, Goto, Ends, EndsAfterCleaning, Points,
                   Terminal, Verdicts
<1>4. ASSUME \/ \E s \in Stories, v \in Definitions : EditDefinition(s, v)
             \/ \E s \in Stories, c \in Sidecars : EditSidecar(s, c)
             \/ UNCHANGED vars
      PROVE  UNCHANGED <<pc, verdict>>
  BY <1>4 DEF EditDefinition, EditSidecar, Edit, vars
<1> QED  BY <1>0, <1>1, <1>2, <1>3, <1>4 DEF Next, Step

\* Every step keeps the types; the cursor and the plan matter for that.
LEMMA TypeStep ==
  ASSUME TypeOK, CursorInv, PlannedInv, [Next]_vars
  PROVE  TypeOK'
<1> USE CountersType, ControlType DEF files, progress, bounds, history
<1>1. ASSUME NEW r \in Runs, Start(r) PROVE TypeOK'
  <2>1. /\ UNCHANGED <<files, temps, cursor, progress, cleaning, edits, theirs, exposed>>
        /\ Fails \/ Works
    BY <1>1 DEF Start
  <2>2. disturbed' \in [Runs -> SUBSET Stories]
    BY <1>1 DEF TypeOK, Start
  <2> QED  BY <2>1, <2>2 DEF TypeOK
<1>2. ASSUME NEW r \in Runs, ReadDefinition(r) PROVE TypeOK'
  <2>1. cursor[r] \in 1..Len(StoryOrder)
    BY <1>2 DEF ReadDefinition, CursorInv, CursorAt, OverBatch
  <2>2. StoryOrder[cursor[r]] \in Stories
    BY <2>1, BatchStory
  <2>3. /\ UNCHANGED <<files, temps, planned, updated, cleaning, bounds, history>>
        /\ Advance(r) \/ From(r, 1)
    BY <1>2 DEF ReadDefinition
  <2>4. observed' \in [Runs -> [definition : [Stories -> Definitions],
                                sidecar : [Stories -> Sidecars]]]
    BY <1>2, <2>2 DEF TypeOK, ReadDefinition
  <2> QED  BY <2>3, <2>4 DEF TypeOK
<1>3. ASSUME NEW r \in Runs, ReadSidecar(r) PROVE TypeOK'
  <2>1. cursor[r] \in 1..Len(StoryOrder)
    BY <1>3 DEF ReadSidecar, CursorInv, CursorAt, OverBatch
  <2>2. StoryOrder[cursor[r]] \in Stories
    BY <2>1, BatchStory
  <2>3. /\ UNCHANGED <<files, temps, planned, updated, cleaning, bounds, history>>
        /\ Advance(r) \/ From(r, 1)
    BY <1>3 DEF ReadSidecar
  <2>4. observed' \in [Runs -> [definition : [Stories -> Definitions],
                                sidecar : [Stories -> Sidecars]]]
    BY <1>3, <2>2 DEF TypeOK, ReadSidecar
  <2> QED  BY <2>3, <2>4 DEF TypeOK
<1>4. ASSUME NEW r \in Runs, Validate(r) PROVE TypeOK'
  BY <1>4 DEF TypeOK, Validate
<1>5. ASSUME NEW r \in Runs, PlanStory(r) PROVE TypeOK'
  <2>1. cursor[r] \in 1..Len(StoryOrder)
    BY <1>5 DEF PlanStory, CursorInv, CursorAt, OverBatch
  <2>2. StoryOrder[cursor[r]] \in Stories
    BY <2>1, BatchStory
  <2>3. /\ UNCHANGED <<files, temps, observed, updated, cleaning, bounds, history>>
        /\ Advance(r) \/ From(r, 1)
    BY <1>5 DEF PlanStory
  <2>4. planned' \in [Runs -> Seq(Stories)]
    <3>1. planned \in [Runs -> Seq(Stories)]
      BY DEF TypeOK
    <3>2. Append(planned[r], StoryOrder[cursor[r]]) \in Seq(Stories)
      BY <2>2, <3>1
    <3>3. planned' \in {planned, [planned EXCEPT ![r] = planned[r]],
                       [planned EXCEPT ![r] = Append(planned[r], StoryOrder[cursor[r]])]}
      BY <1>5 DEF PlanStory
    <3> QED  BY <3>1, <3>2, <3>3, UpdateType
  <2> QED  BY <2>3, <2>4 DEF TypeOK
<1>6. ASSUME NEW r \in Runs, CheckPath(r) PROVE TypeOK'
  <2>1. /\ UNCHANGED <<files, temps, progress, cleaning, bounds, history>>
        /\ Advance(r) \/ From(r, 1) \/ UNCHANGED cursor
    BY <1>6 DEF CheckPath
  <2> QED  BY <2>1 DEF TypeOK
<1>7. ASSUME NEW r \in Runs, Stage(r) PROVE TypeOK'
  <2>1. pc[r] \in OverPlan
    BY <1>7 DEF Stage, OverPlan
  <2>2. Item(r) \in Stories /\ StagedBefore(r) \in Seq(Stories)
    BY <2>1, ItemIsStory, PartIsStories DEF StagedBefore
  <2>3. /\ UNCHANGED <<files, progress, edits, history>>
        /\ Fails \/ Works
        /\ Advance(r) \/ From(r, 1) \/ UNCHANGED cursor
    BY <1>7 DEF Stage
  <2>4. temps' \in [Runs -> SUBSET Stories]
    <3>1. temps \in [Runs -> SUBSET Stories]
      BY DEF TypeOK
    <3>2. temps[r] \cup {Item(r)} \in SUBSET Stories
      BY <2>2, <3>1
    <3>3. temps' \in {temps, [temps EXCEPT ![r] = temps[r] \cup {Item(r)}]}
      BY <1>7 DEF Stage
    <3> QED  BY <3>1, <3>2, <3>3, UpdateType
  <2>5. cleaning' \in [Runs -> Seq(Stories)]
    BY <1>7, <2>2 DEF TypeOK, Stage, EndsAfterCleaning
  <2> QED  BY <2>3, <2>4, <2>5 DEF TypeOK
<1>8. ASSUME NEW r \in Runs, Recheck(r) PROVE TypeOK'
  <2>1. /\ UNCHANGED <<files, temps, progress, edits, history>>
        /\ Fails \/ Works
        /\ Advance(r) \/ From(r, 1) \/ UNCHANGED cursor
    BY <1>8 DEF Recheck
  <2>2. cleaning' \in [Runs -> Seq(Stories)]
    BY <1>8 DEF TypeOK, Recheck, EndsAfterCleaning
  <2> QED  BY <2>1, <2>2 DEF TypeOK
<1>9. ASSUME NEW r \in Runs, Rename(r) PROVE TypeOK'
  <2>1. pc[r] \in OverPlan
    BY <1>9 DEF Rename, OverPlan
  <2>2. Item(r) \in Stories /\ NotReached(r) \in Seq(Stories)
    BY <2>1, ItemIsStory, PartIsStories DEF NotReached
  <2>3. Rewritten(r, Item(r)) \in Sidecars
    BY <2>1, ItemIsStory, RewrittenContent DEF Item
  <2>4. /\ UNCHANGED <<definition, observed, planned, edits, theirs, exposed>>
        /\ Fails \/ Works
        /\ Advance(r) \/ From(r, 1) \/ UNCHANGED cursor
    BY <1>9 DEF Rename
  <2>5. sidecar' \in [Stories -> Sidecars]
    BY <1>9, <2>2, <2>3 DEF TypeOK, Rename
  <2>6. cleaning' \in [Runs -> Seq(Stories)]
    BY <1>9, <2>2 DEF TypeOK, Rename, EndsAfterCleaning
  <2>7. updated' \in [Runs -> Seq(Stories)]
    <3>1. updated \in [Runs -> Seq(Stories)]
      BY DEF TypeOK
    <3>2. Append(updated[r], Item(r)) \in Seq(Stories)
      BY <2>2, <3>1
    <3>3. updated' \in {updated, [updated EXCEPT ![r] = Append(updated[r], Item(r))]}
      BY <1>9 DEF Rename
    <3> QED  BY <3>1, <3>2, <3>3, UpdateType
  <2>8. temps' \in [Runs -> SUBSET Stories]
    <3>1. temps \in [Runs -> SUBSET Stories]
      BY DEF TypeOK
    <3>2. temps[r] \ {Item(r)} \in SUBSET Stories
      BY <3>1
    <3>3. temps' \in {temps, [temps EXCEPT ![r] = temps[r] \ {Item(r)}]}
      BY <1>9 DEF Rename
    <3> QED  BY <3>1, <3>2, <3>3, UpdateType
  <2>9. disturbed' \in [Runs -> SUBSET Stories]
    <3>1. disturbed \in [Runs -> SUBSET Stories]
      BY DEF TypeOK
    <3>2. disturbed' \in {disturbed, [q \in Runs |-> IF q = r THEN disturbed[q]
                                                    ELSE disturbed[q] \cup {Item(r)}]}
      BY <1>9 DEF Rename
    <3>3. \A q \in Runs : disturbed[q] \cup {Item(r)} \in SUBSET Stories
      BY <2>2, <3>1
    <3> QED  BY <3>1, <3>2, <3>3
  <2> QED  BY <2>4, <2>5, <2>6, <2>7, <2>8, <2>9 DEF TypeOK
<1>10. ASSUME NEW r \in Runs, Clean(r) PROVE TypeOK'
  <2>1. /\ UNCHANGED <<files, cursor, progress, edits, history>>
        /\ Fails \/ Works
    BY <1>10 DEF Clean, Works
  <2>2. cleaning[r] # <<>> => Tail(cleaning[r]) \in Seq(Stories)
    BY HeadTailProperties DEF TypeOK
  <2>3. cleaning' \in [Runs -> Seq(Stories)]
    BY <1>10, <2>2 DEF TypeOK, Clean
  <2>4. temps' \in [Runs -> SUBSET Stories]
    <3>1. temps \in [Runs -> SUBSET Stories]
      BY DEF TypeOK
    <3>2. temps[r] \ {Head(cleaning[r])} \in SUBSET Stories
      BY <3>1
    <3>3. temps' \in {temps, [temps EXCEPT ![r] = temps[r] \ {Head(cleaning[r])}]}
      BY <1>10 DEF Clean
    <3> QED  BY <3>1, <3>2, <3>3, UpdateType
  <2> QED  BY <2>1, <2>3, <2>4 DEF TypeOK
<1>11. ASSUME NEW r \in Runs, Reindex(r) PROVE TypeOK'
  <2>1. /\ UNCHANGED <<files, temps, cursor, progress, cleaning, edits, history>>
        /\ Fails \/ Works
    BY <1>11 DEF Reindex
  <2> QED  BY <2>1 DEF TypeOK
<1>12. ASSUME NEW r \in Runs, Crash(r) PROVE TypeOK'
  BY <1>12 DEF TypeOK, Crash
<1>13. ASSUME NEW s \in Stories, Edit(s)
       PROVE  /\ UNCHANGED <<temps, pc, cursor, progress, cleaning, verdict, faults>>
              /\ edits' \in Nat /\ disturbed' \in [Runs -> SUBSET Stories]
  BY <1>13 DEF TypeOK, Edit
<1>14. ASSUME NEW s \in Stories, NEW v \in Definitions, EditDefinition(s, v) PROVE TypeOK'
  BY <1>13, <1>14 DEF TypeOK, EditDefinition
<1>15. ASSUME NEW s \in Stories, NEW c \in Sidecars, EditSidecar(s, c) PROVE TypeOK'
  BY <1>13, <1>15 DEF TypeOK, EditSidecar
<1>16. CASE UNCHANGED vars
  BY <1>16 DEF TypeOK, vars
<1> QED  BY <1>1, <1>2, <1>3, <1>4, <1>5, <1>6, <1>7, <1>8, <1>9, <1>10, <1>11, <1>12,
            <1>14, <1>15, <1>16 DEF Next, Step

-----------------------------------------------------------------------------
(* The loops.                                                              *)

\* A step of one run leaves what the others do and know alone.
LEMMA OthersStay ==
  ASSUME TypeOK, NEW r \in Runs, Step(r) \/ Crash(r), NEW q \in Runs, q # r
  PROVE  /\ pc'[q] = pc[q] /\ cursor'[q] = cursor[q]
         /\ planned'[q] = planned[q] /\ observed'[q] = observed[q]
<1> DEFINE Stay == /\ pc'[q] = pc[q] /\ cursor'[q] = cursor[q]
                   /\ planned'[q] = planned[q] /\ observed'[q] = observed[q]
<1>0. /\ DOMAIN pc = Runs /\ DOMAIN cursor = Runs
      /\ DOMAIN planned = Runs /\ DOMAIN observed = Runs
  BY DEF TypeOK
<1> USE DEF Goto, From, Advance, Ends, EndsAfterCleaning, progress
<1>1. Start(r) \/ Validate(r) \/ Reindex(r) \/ Crash(r) \/ Clean(r) => Stay
  BY <1>0 DEF Start, Validate, Reindex, Crash, Clean
<1>2. ReadDefinition(r) \/ ReadSidecar(r) => Stay
  BY <1>0 DEF ReadDefinition, ReadSidecar
<1>3. PlanStory(r) \/ CheckPath(r) => Stay
  BY <1>0 DEF PlanStory, CheckPath
<1>4. Stage(r) \/ Recheck(r) \/ Rename(r) => Stay
  BY <1>0 DEF Stage, Recheck, Rename
<1> QED  BY <1>1, <1>2, <1>3, <1>4 DEF Step

\* Changes by somebody else leave all runs alone.
LEMMA EditsLeaveRuns ==
  ASSUME \/ \E s \in Stories, v \in Definitions : EditDefinition(s, v)
         \/ \E s \in Stories, c \in Sidecars : EditSidecar(s, c)
         \/ UNCHANGED vars
  PROVE  UNCHANGED <<pc, cursor, planned, observed>>
BY DEF EditDefinition, EditSidecar, Edit, vars, progress

\* Where a loop over the batch goes.
LEMMA BatchLoop ==
  ASSUME TypeOK, NEW r \in Runs, cursor[r] \in 1..Len(StoryOrder),
         \/ cursor[r] < Len(StoryOrder) /\ Advance(r)
         \/ From(r, 1)
         \/ UNCHANGED cursor
  PROVE  cursor'[r] \in 1..Len(StoryOrder)
<1>1. cursor \in [Runs -> Nat]
  BY DEF TypeOK
<1>2. cursor[r] < Len(StoryOrder) => cursor[r] + 1 \in 1..Len(StoryOrder)
  BY BatchStory, NextIndex
<1>3. 1 \in 1..Len(StoryOrder)
  BY BatchStory
<1> QED  BY <1>1, <1>2, <1>3 DEF Advance, From

\* Where a loop over the plan goes.
LEMMA PlanLoop ==
  ASSUME TypeOK, NEW r \in Runs, cursor[r] \in 1..Len(planned[r]),
         UNCHANGED planned,
         \/ cursor[r] < Len(planned[r]) /\ Advance(r)
         \/ From(r, 1)
         \/ UNCHANGED cursor
  PROVE  cursor'[r] \in 1..Len(planned'[r])
<1>1. cursor \in [Runs -> Nat] /\ planned[r] \in Seq(Stories)
  BY DEF TypeOK
<1>2. Len(planned[r]) \in Nat
  BY <1>1
<1>3. /\ cursor[r] < Len(planned[r]) => cursor[r] + 1 \in 1..Len(planned[r])
      /\ 1 \in 1..Len(planned[r])
  BY <1>2, NextIndex
<1> QED  BY <1>1, <1>3 DEF Advance, From

\* Every step keeps the loops within their lists.
LEMMA CursorStep ==
  ASSUME TypeOK, TypeOK', CursorInv, [Next]_vars
  PROVE  CursorInv'
<1>1. ASSUME NEW r \in Runs, Step(r) \/ Crash(r) PROVE CursorAt(r)'
  <2>0. pc \in [Runs -> Points]
    BY DEF TypeOK
  <2>1. CASE Start(r)
    <3>1. /\ pc[r] \in OverBatch /\ pc'[r] \notin OverPlan
          /\ UNCHANGED cursor
      BY <2>0, <2>1 DEF Start, Goto, Ends, OverBatch, OverPlan
    <3>2. cursor'[r] \in 1..Len(StoryOrder)
      BY <3>1 DEF CursorInv, CursorAt
    <3> QED  BY <3>1, <3>2, Zenon DEF CursorAt
  <2>2. CASE ReadDefinition(r) \/ ReadSidecar(r)
    <3>1. /\ pc[r] \in OverBatch
          /\ UNCHANGED pc \/ Goto(r, "read sidecars") \/ Goto(r, "validate")
          /\ (cursor[r] < Len(StoryOrder) /\ Advance(r)) \/ From(r, 1)
      BY <2>2, Zenon DEF ReadDefinition, ReadSidecar, OverBatch
    <3>2. cursor'[r] \in 1..Len(StoryOrder)
      BY <3>1, BatchLoop DEF CursorInv, CursorAt
    <3>3. pc'[r] \notin OverPlan
      BY <2>0, <3>1 DEF Goto, OverBatch, OverPlan
    <3> QED  BY <3>2, <3>3, Zenon DEF CursorAt
  <2>3. CASE Validate(r)
    <3>1. /\ pc[r] \in OverBatch /\ pc'[r] \notin OverPlan
          /\ UNCHANGED cursor
      BY <2>0, <2>3 DEF Validate, Goto, Ends, OverBatch, OverPlan
    <3>2. cursor'[r] \in 1..Len(StoryOrder)
      BY <3>1 DEF CursorInv, CursorAt
    <3> QED  BY <3>1, <3>2, Zenon DEF CursorAt
  <2>4. CASE PlanStory(r)
    <3>1. /\ pc[r] = "plan"
          /\ \/ UNCHANGED pc
             \/ Goto(r, "done")
             \/ Goto(r, "check paths") /\ From(r, 1) /\ planned'[r] # <<>>
          /\ (cursor[r] < Len(StoryOrder) /\ Advance(r)) \/ From(r, 1)
      <4>1. /\ pc[r] = "plan" /\ planned \in [Runs -> Seq(Stories)]
            /\ (cursor[r] < Len(StoryOrder) /\ Advance(r)) \/ From(r, 1)
        BY <2>4, Zenon DEF PlanStory, TypeOK
      <4> DEFINE s == StoryOrder[cursor[r]]
                 rewrites == IF Stale(r, s) THEN Append(planned[r], s) ELSE planned[r]
      <4>2. /\ planned' = [planned EXCEPT ![r] = rewrites]
            /\ \/ UNCHANGED pc
               \/ Goto(r, "done")
               \/ Goto(r, "check paths") /\ From(r, 1) /\ rewrites # <<>>
        BY <2>4 DEF PlanStory, Ends
      <4>3. planned'[r] = rewrites
        BY <4>1, <4>2
      <4> QED  BY <4>1, <4>2, <4>3
    <3>2. cursor'[r] \in 1..Len(StoryOrder)
      <4>1. cursor[r] \in 1..Len(StoryOrder)
        BY <3>1 DEF CursorInv, CursorAt, OverBatch
      <4> QED  BY <3>1, <4>1, BatchLoop
    <3>3. ASSUME pc'[r] \in OverPlan PROVE cursor'[r] \in 1..Len(planned'[r])
      <4>1. From(r, 1) /\ planned'[r] # <<>>
        BY <2>0, <3>1, <3>3 DEF Goto, OverPlan
      <4>2. cursor \in [Runs -> Nat] /\ planned' \in [Runs -> Seq(Stories)]
        BY DEF TypeOK
      <4> QED  BY <4>1, <4>2 DEF From
    <3> QED  BY <3>2, <3>3, Zenon DEF CursorAt
  <2>5. CASE CheckPath(r) \/ Stage(r) \/ Recheck(r)
    <3>1. /\ pc[r] \in OverPlan /\ UNCHANGED planned
          /\ \/ cursor[r] < Len(planned[r]) /\ Advance(r)
             \/ From(r, 1)
             \/ UNCHANGED cursor
      BY <2>5, Zenon DEF CheckPath, Stage, Recheck, OverPlan, progress
    <3>2. cursor'[r] \in 1..Len(planned'[r])
      <4>1. cursor[r] \in 1..Len(planned[r])
        BY <3>1 DEF CursorInv, CursorAt
      <4> QED  BY <3>1, <4>1, PlanLoop
    <3>3. \/ UNCHANGED pc
          \/ \E p \in {"stage", "recheck", "rename", "clean", "done"} : Goto(r, p)
      BY <2>5 DEF CheckPath, Stage, Recheck, Ends, EndsAfterCleaning
    <3>4. pc'[r] \notin OverBatch
      BY <2>0, <3>1, <3>3 DEF Goto, OverBatch, OverPlan
    <3> QED  BY <3>2, <3>4, Zenon DEF CursorAt
  <2>6. CASE Rename(r)
    <3>1. /\ pc[r] \in OverPlan /\ UNCHANGED planned
          /\ \/ cursor[r] < Len(planned[r]) /\ Advance(r)
             \/ UNCHANGED cursor
      BY <2>6, Zenon DEF Rename, OverPlan
    <3>2. cursor'[r] \in 1..Len(planned'[r])
      <4>1. cursor[r] \in 1..Len(planned[r])
        BY <3>1 DEF CursorInv, CursorAt
      <4> QED  BY <3>1, <4>1, PlanLoop
    <3>3. UNCHANGED pc \/ \E p \in {"reindex", "clean"} : Goto(r, p)
      BY <2>6 DEF Rename, EndsAfterCleaning
    <3>4. pc'[r] \notin OverBatch
      BY <2>0, <3>1, <3>3 DEF Goto, OverBatch, OverPlan
    <3> QED  BY <3>2, <3>4, Zenon DEF CursorAt
  <2>7. CASE Clean(r) \/ Reindex(r) \/ Crash(r)
    <3>1. pc'[r] \in {"clean", "done", "crashed"}
      BY <2>0, <2>7 DEF Clean, Reindex, Crash, Goto, Ends
    <3> QED  BY <3>1 DEF CursorAt, OverBatch, OverPlan
  <2> QED  BY <1>1, <2>1, <2>2, <2>3, <2>4, <2>5, <2>6, <2>7 DEF Step
<1>2. ASSUME NEW r \in Runs, Step(r) \/ Crash(r) PROVE CursorInv'
  <2>1. ASSUME NEW q \in Runs, q # r PROVE CursorAt(q)'
    <3>1. pc'[q] = pc[q] /\ cursor'[q] = cursor[q] /\ planned'[q] = planned[q]
      BY <1>2, <2>1, OthersStay
    <3> QED  BY <3>1, Zenon DEF CursorInv, CursorAt
  <2> QED  BY <1>1, <1>2, <2>1 DEF CursorInv
<1>3. ASSUME UNCHANGED <<pc, cursor, planned>> PROVE CursorInv'
  BY <1>3 DEF CursorInv, CursorAt
<1> QED  BY <1>2, <1>3, EditsLeaveRuns DEF Next

\* Every step keeps the plan to sidecars that could be parsed.
LEMMA PlannedStep ==
  ASSUME TypeOK, CursorInv, PlannedInv, [Next]_vars
  PROVE  PlannedInv'
<1>0. /\ pc \in [Runs -> Points] /\ planned \in [Runs -> Seq(Stories)]
      /\ DOMAIN observed = Runs
  BY DEF TypeOK
<1>1. ASSUME NEW r \in Runs, Step(r) \/ Crash(r) PROVE PlannedAt(r)'
  <2>1. CASE ReadDefinition(r) \/ ReadSidecar(r)
    <3>1. planned[r] = <<>> /\ UNCHANGED planned
      BY <2>1 DEF ReadDefinition, ReadSidecar, PlannedInv, PlannedAt, Reading
    <3> QED  BY <3>1 DEF PlannedAt
  <2>2. CASE PlanStory(r)
    <3> DEFINE s == StoryOrder[cursor[r]]
    <3>1. /\ planned' = [planned EXCEPT ![r] = IF Stale(r, s) THEN Append(planned[r], s)
                                                              ELSE planned[r]]
          /\ UNCHANGED observed
      BY <2>2 DEF PlanStory
    <3>2. planned'[r] = IF Stale(r, s) THEN Append(planned[r], s) ELSE planned[r]
      BY <1>0, <3>1
    <3>3. pc'[r] \notin Reading
      BY <1>0, <2>2 DEF PlanStory, Goto, Ends, Reading
    <3>4. \A i \in 1..Len(planned[r]) : observed[r].sidecar[planned[r][i]].kind = "valid"
      BY DEF PlannedInv, PlannedAt
    <3>5. CASE Stale(r, s)
      <4>1. observed[r].sidecar[s].kind = "valid"
        BY <3>5 DEF Stale
      <4>2. /\ Len(planned[r]) \in Nat
            /\ Len(Append(planned[r], s)) = Len(planned[r]) + 1
            /\ Append(planned[r], s)[Len(planned[r]) + 1] = s
            /\ \A i \in 1..Len(planned[r]) : Append(planned[r], s)[i] = planned[r][i]
        BY <1>0
      <4>3. \A i \in 1..Len(Append(planned[r], s)) :
               i \in 1..Len(planned[r]) \/ i = Len(planned[r]) + 1
        BY <4>2
      <4>4. \A i \in 1..Len(Append(planned[r], s)) :
               observed[r].sidecar[Append(planned[r], s)[i]].kind = "valid"
        BY <3>4, <4>1, <4>2, <4>3, Zenon
      <4> QED  BY <3>1, <3>2, <3>3, <3>5, <4>4, Zenon DEF PlannedAt
    <3>6. CASE ~Stale(r, s)
      BY <3>1, <3>2, <3>3, <3>4, <3>6, Zenon DEF PlannedAt
    <3> QED  BY <3>5, <3>6
  <2>3. CASE Start(r) \/ Validate(r)
    <3>1. planned[r] = <<>> /\ UNCHANGED planned
      BY <2>3 DEF Start, Validate, PlannedInv, PlannedAt, Reading, progress
    <3> QED  BY <3>1 DEF PlannedAt
  <2>4. CASE \/ CheckPath(r) \/ Stage(r) \/ Recheck(r) \/ Rename(r) \/ Clean(r)
             \/ Reindex(r) \/ Crash(r)
    <3>1. UNCHANGED <<planned, observed>>
      BY <2>4, Zenon DEF CheckPath, Stage, Recheck, Rename, Clean, Reindex, Crash, progress
    <3>2. pc'[r] \notin Reading
      <4>1. CASE CheckPath(r) \/ Stage(r) \/ Recheck(r)
        BY <1>0, <4>1 DEF CheckPath, Stage, Recheck, Goto, Ends, EndsAfterCleaning, Reading
      <4>2. CASE Rename(r) \/ Clean(r) \/ Reindex(r) \/ Crash(r)
        BY <1>0, <4>2 DEF Rename, Clean, Reindex, Crash, Goto, Ends, EndsAfterCleaning, Reading
      <4> QED  BY <2>4, <4>1, <4>2
    <3> QED  BY <3>1, <3>2, Zenon DEF PlannedInv, PlannedAt
  <2> QED  BY <1>1, <2>1, <2>2, <2>3, <2>4 DEF Step
<1>2. ASSUME NEW r \in Runs, Step(r) \/ Crash(r) PROVE PlannedInv'
  <2>1. ASSUME NEW q \in Runs, q # r PROVE PlannedAt(q)'
    <3>1. pc'[q] = pc[q] /\ planned'[q] = planned[q] /\ observed'[q] = observed[q]
      BY <1>2, <2>1, OthersStay
    <3> QED  BY <3>1, Zenon DEF PlannedInv, PlannedAt
  <2> QED  BY <1>1, <1>2, <2>1 DEF PlannedInv
<1>3. ASSUME UNCHANGED <<pc, planned, observed>> PROVE PlannedInv'
  BY <1>3 DEF PlannedInv, PlannedAt
<1> QED  BY <1>2, <1>3, EditsLeaveRuns DEF Next

-----------------------------------------------------------------------------
(* What the runs have seen.                                                *)

\* Before its last look and after its renames a run depends on no sidecar.
LEMMA NothingVulnerable ==
  ASSUME NEW r \in Runs, pc[r] \notin {"recheck", "rename"}
  PROVE  Vulnerable(r) = {}
BY DEF Vulnerable

\* Looking at one more sidecar makes the run depend on that one too.
LEMMA RecheckSees ==
  ASSUME TypeOK, TypeOK', CursorInv, NEW r \in Runs, Recheck(r)
  PROVE  /\ UNCHANGED <<sidecar, theirs, exposed, observed, planned>>
         /\ \A s \in Vulnerable(r)' :
              s \in Vulnerable(r) \/ (s = Item(r) /\ UnchangedBytes(r, s))
<1>0. /\ pc \in [Runs -> Points] /\ cursor \in [Runs -> Nat]
      /\ planned[r] \in Seq(Stories) /\ Len(planned[r]) \in Nat
  BY DEF TypeOK
<1>1. /\ pc[r] = "recheck"
      /\ UNCHANGED <<sidecar, theirs, exposed, observed, planned>>
  BY DEF Recheck, files, history, progress
<1>2. cursor[r] \in 1..Len(planned[r])
  BY <1>1 DEF CursorInv, CursorAt, OverPlan
<1> DEFINE n == Len(planned[r])
           i == cursor[r]
<1>3. /\ i \in Nat /\ i + 1 \in Nat
      /\ \A k \in 1..(i + 1 - 1) : k \in 1..(i - 1) \/ k = i
      /\ ~(i < n) => \A k \in 1..n : k \in 1..(i - 1) \/ k = i
  BY <1>0, <1>2, NextIndex
<1>4. Vulnerable(r) = {planned[r][k] : k \in 1..(i - 1)}
  BY <1>1 DEF Vulnerable
<1>5. CASE i < n /\ UnchangedBytes(r, Item(r)) /\ Advance(r) /\ UNCHANGED pc
  <2>1. pc'[r] = "recheck" /\ cursor'[r] = i + 1
    BY <1>0, <1>1, <1>5 DEF Advance, From
  <2>2. Vulnerable(r)' = {planned'[r][k] : k \in 1..(cursor'[r] - 1)}
    BY <2>1 DEF Vulnerable
  <2>3. \A k \in 1..(cursor'[r] - 1) : k \in 1..(i - 1) \/ k = i
    BY <1>3, <2>1
  <2>4. planned'[r] = planned[r]
    BY <1>1
  <2> HIDE DEF i
  <2> QED  BY <1>1, <1>4, <1>5, <2>2, <2>3, <2>4 DEF Item, i
<1>6. CASE ~(i < n) /\ UnchangedBytes(r, Item(r)) /\ Goto(r, "rename") /\ From(r, 1)
  <2>1. pc'[r] = "rename" /\ cursor'[r] = 1
    BY <1>0, <1>6 DEF Goto, From
  <2>2. Vulnerable(r)' = {planned[r][k] : k \in 1..n}
    BY <1>1, <2>1 DEF Vulnerable
  <2> QED  BY <1>1, <1>3, <1>4, <1>6, <2>2 DEF Item
<1>7. CASE Goto(r, "clean")
  <2>1. pc'[r] = "clean"
    BY <1>0, <1>7 DEF Goto
  <2>2. Vulnerable(r)' = {}
    BY <2>1 DEF Vulnerable
  <2> QED  BY <1>1, <2>2
<1> QED  BY <1>5, <1>6, <1>7 DEF Recheck, EndsAfterCleaning

\* A rename is of a sidecar the run depends on, and adds no other.
LEMMA RenameSpends ==
  ASSUME TypeOK, TypeOK', CursorInv, NEW r \in Runs, Rename(r)
  PROVE  /\ UNCHANGED <<theirs, exposed, observed, planned>>
         /\ Item(r) \in Stories /\ Item(r) \in Vulnerable(r)
         /\ Vulnerable(r)' \subseteq Vulnerable(r)
         /\ sidecar' \in {sidecar, [sidecar EXCEPT ![Item(r)] = Rewritten(r, Item(r))]}
<1>0. /\ pc \in [Runs -> Points] /\ cursor \in [Runs -> Nat]
      /\ planned[r] \in Seq(Stories) /\ Len(planned[r]) \in Nat
  BY DEF TypeOK
<1>1. /\ pc[r] = "rename"
      /\ UNCHANGED <<theirs, exposed, observed, planned>>
      /\ sidecar' \in {sidecar, [sidecar EXCEPT ![Item(r)] = Rewritten(r, Item(r))]}
  BY DEF Rename
<1>2. cursor[r] \in 1..Len(planned[r])
  BY <1>1 DEF CursorInv, CursorAt, OverPlan
<1>3. Item(r) \in Stories
  BY <1>1, ItemIsStory DEF OverPlan
<1> DEFINE n == Len(planned[r])
           i == cursor[r]
<1>4. i \in Nat /\ i \in i..n /\ i + 1 \in Nat /\ \A k \in (i + 1)..n : k \in i..n
  BY <1>0, <1>2, NextIndex
<1>5. Vulnerable(r) = {planned[r][k] : k \in i..n}
  BY <1>1 DEF Vulnerable
<1>6. Item(r) \in Vulnerable(r)
  BY <1>4, <1>5 DEF Item
<1>7. CASE Advance(r) /\ UNCHANGED pc
  <2>1. pc'[r] = "rename" /\ cursor'[r] = i + 1
    BY <1>0, <1>1, <1>7 DEF Advance, From
  <2>2. Vulnerable(r)' = {planned[r][k] : k \in (i + 1)..n}
    BY <1>1, <2>1 DEF Vulnerable
  <2> QED  BY <1>1, <1>3, <1>4, <1>5, <1>6, <2>2
<1>8. CASE Goto(r, "reindex") \/ Goto(r, "clean")
  <2>1. pc'[r] \in {"reindex", "clean"}
    BY <1>0, <1>8 DEF Goto
  <2>2. Vulnerable(r)' = {}
    BY <2>1 DEF Vulnerable
  <2> QED  BY <1>1, <1>3, <1>6, <2>2
<1> QED  BY <1>7, <1>8 DEF Rename, EndsAfterCleaning

\* Every other step of a run leaves the sidecars alone, and the run, when it
\* has taken the step, depends on no sidecar.
LEMMA OtherStepsDepend ==
  ASSUME TypeOK, NEW r \in Runs, Step(r) \/ Crash(r), ~Recheck(r), ~Rename(r)
  PROVE  UNCHANGED <<sidecar, theirs, exposed>> /\ Vulnerable(r)' = {}
<1> DEFINE Quiet == /\ UNCHANGED <<sidecar, theirs, exposed>>
                    /\ pc'[r] \notin {"recheck", "rename"}
<1>0. pc \in [Runs -> Points]
  BY DEF TypeOK
<1>1. CASE Start(r) \/ Validate(r)
  <2>1. Quiet
    BY <1>0, <1>1 DEF Start, Validate, Goto, Ends, files, history
  <2> QED  BY <2>1 DEF Vulnerable
<1>2. CASE ReadDefinition(r) \/ ReadSidecar(r)
  <2>1. Quiet
    BY <1>0, <1>2 DEF ReadDefinition, ReadSidecar, Goto, files, history
  <2> QED  BY <2>1 DEF Vulnerable
<1>3. CASE PlanStory(r) \/ CheckPath(r)
  <2>1. Quiet
    BY <1>0, <1>3 DEF PlanStory, CheckPath, Goto, Ends, files, history
  <2> QED  BY <2>1 DEF Vulnerable
<1>4. CASE Clean(r) \/ Reindex(r) \/ Crash(r)
  <2>1. Quiet
    BY <1>0, <1>4 DEF Clean, Reindex, Crash, Goto, Ends, files, history
  <2> QED  BY <2>1 DEF Vulnerable
<1>5. CASE Stage(r)
  <2>1. UNCHANGED <<sidecar, theirs, exposed>>
    BY <1>5 DEF Stage, files, history
  <2>2. CASE Goto(r, "recheck") /\ From(r, 1)
    <3>1. pc'[r] = "recheck" /\ cursor'[r] = 1
      BY <1>0, <2>2 DEF Goto, From, TypeOK
    <3>2. 1..(1 - 1) = {}
      OBVIOUS
    <3>3. Vulnerable(r)' = {planned'[r][i] : i \in 1..(1 - 1)}
      BY <3>1 DEF Vulnerable
    <3> QED  BY <2>1, <3>2, <3>3
  <2>3. CASE UNCHANGED pc \/ Goto(r, "clean")
    <3>1. pc'[r] \in {"stage", "clean"}
      BY <1>0, <1>5, <2>3 DEF Stage, Goto
    <3> QED  BY <2>1, <3>1 DEF Vulnerable
  <2> QED  BY <1>5, <2>2, <2>3 DEF Stage, EndsAfterCleaning
<1> QED  BY <1>1, <1>2, <1>3, <1>4, <1>5 DEF Step

\* A run depends on sidecars of the batch only, and of those on parsed ones.
LEMMA VulnerableStories ==
  ASSUME TypeOK, CursorInv, PlannedInv, NEW r \in Runs, NEW s \in Vulnerable(r)
  PROVE  s \in Stories /\ observed[r].sidecar[s].kind = "valid"
<1>1. planned[r] \in Seq(Stories) /\ Len(planned[r]) \in Nat
  BY DEF TypeOK
<1>2. pc[r] \in OverPlan
  BY DEF Vulnerable, OverPlan
<1>3. /\ 1..(cursor[r] - 1) \subseteq 1..Len(planned[r])
      /\ cursor[r]..Len(planned[r]) \subseteq 1..Len(planned[r])
  BY <1>1, <1>2, NextIndex DEF CursorInv, CursorAt
<1>4. PICK i \in 1..Len(planned[r]) : s = planned[r][i]
  BY <1>3 DEF Vulnerable
<1> QED  BY <1>1, <1>4, ElementIsStory DEF PlannedInv, PlannedAt

\* Every step of a run keeps what others wrote where they could be seen.
LEMMA RunKeepsChanges ==
  ASSUME TypeOK, TypeOK', CursorInv, PlannedInv, EditsSurvive, SightInv,
         NEW r \in Runs, Step(r) \/ Crash(r)
  PROVE  EditsSurvive' /\ SightInv'
<1>0. /\ sidecar \in [Stories -> Sidecars] /\ theirs \in [Stories -> Sidecars]
  BY DEF TypeOK
<1>1. ASSUME UNCHANGED <<theirs, exposed>>, SightAt(r)'
      PROVE  SightInv'
  <2>1. ASSUME NEW q \in Runs, q # r PROVE SightAt(q)'
    <3>1. /\ pc'[q] = pc[q] /\ cursor'[q] = cursor[q]
          /\ planned'[q] = planned[q] /\ observed'[q] = observed[q]
      BY <2>1, OthersStay
    <3>2. Vulnerable(q)' = Vulnerable(q)
      BY <3>1 DEF Vulnerable
    <3>3. SightAt(q)
      BY DEF SightInv
    <3> QED  BY <1>1, <3>1, <3>2, <3>3 DEF SightAt
  <2> QED  BY <1>1, <2>1 DEF SightInv
<1>2. CASE Recheck(r)
  <2>1. /\ UNCHANGED <<sidecar, theirs, exposed, observed, planned>>
        /\ \A s \in Vulnerable(r)' :
             s \in Vulnerable(r) \/ (s = Item(r) /\ UnchangedBytes(r, s))
    BY <1>2, RecheckSees
  <2>2. ASSUME NEW s \in Vulnerable(r)', s \notin exposed
        PROVE  SameContent(observed[r].sidecar[s], theirs[s])
    <3>1. CASE s \in Vulnerable(r)
      BY <2>2, <3>1 DEF SightInv, SightAt
    <3>2. CASE s = Item(r) /\ UnchangedBytes(r, s)
      <4>1. pc[r] \in OverPlan
        BY <1>2 DEF Recheck, OverPlan
      <4>2. cursor[r] \in 1..Len(planned[r]) /\ s \in Stories
        BY <3>2, <4>1, ItemIsStory
      <4>3. observed[r].sidecar[s].kind = "valid"
        BY <3>2, <4>2 DEF PlannedInv, PlannedAt, Item
      <4>4. SameContent(sidecar[s], theirs[s])
        BY <2>2, <4>2 DEF EditsSurvive
      <4> QED  BY <3>2, <4>3, <4>4 DEF UnchangedBytes, SameContent
    <3> QED  BY <2>1, <2>2, <3>1, <3>2
  <2>3. SightAt(r)'
    BY <2>1, <2>2 DEF SightAt
  <2> QED  BY <1>1, <2>1, <2>3 DEF EditsSurvive
<1>3. CASE Rename(r)
  <2>1. /\ UNCHANGED <<theirs, exposed, observed, planned>>
        /\ Item(r) \in Stories /\ Item(r) \in Vulnerable(r)
        /\ Vulnerable(r)' \subseteq Vulnerable(r)
        /\ sidecar' \in {sidecar, [sidecar EXCEPT ![Item(r)] = Rewritten(r, Item(r))]}
    BY <1>3, RenameSpends
  <2>2. SightAt(r)'
    BY <2>1 DEF SightInv, SightAt
  <2>3. ASSUME NEW s \in Stories, s \notin exposed
        PROVE  SameContent(sidecar'[s], theirs[s])
    <3>1. SameContent(sidecar[s], theirs[s])
      BY <2>3 DEF EditsSurvive
    <3>2. CASE s = Item(r) /\ sidecar' = [sidecar EXCEPT ![Item(r)] = Rewritten(r, Item(r))]
      <4>1. sidecar'[s] = Rewritten(r, s)
        BY <1>0, <2>1, <3>2
      <4>2. SameContent(observed[r].sidecar[s], theirs[s])
        BY <2>1, <2>3, <3>2 DEF SightInv, SightAt
      <4>3. pc[r] \in OverPlan
        BY <1>3 DEF Rename, OverPlan
      <4>4. /\ Rewritten(r, s).body = observed[r].sidecar[s].body
            /\ Rewritten(r, s).kind = observed[r].sidecar[s].kind
        BY <3>2, <4>3, ItemIsStory, RewrittenContent DEF Item
      <4> QED  BY <4>1, <4>2, <4>4 DEF SameContent
    <3>3. CASE sidecar'[s] = sidecar[s]
      BY <3>1, <3>3
    <3> QED  BY <1>0, <2>1, <3>2, <3>3
  <2>4. EditsSurvive'
    BY <2>1, <2>3 DEF EditsSurvive
  <2> QED  BY <1>1, <2>1, <2>2, <2>4
<1>4. CASE ~Recheck(r) /\ ~Rename(r)
  <2>1. UNCHANGED <<sidecar, theirs, exposed>> /\ Vulnerable(r)' = {}
    BY <1>4, OtherStepsDepend
  <2>2. SightAt(r)'
    BY <2>1 DEF SightAt
  <2> QED  BY <1>1, <2>1, <2>2 DEF EditsSurvive
<1> QED  BY <1>2, <1>3, <1>4

\* Somebody else's change is seen by nobody yet, or counts as exposed.
LEMMA ChangeIsTheirs ==
  ASSUME TypeOK, EditsSurvive, SightInv,
         NEW x \in Stories, NEW c \in Sidecars, EditSidecar(x, c)
  PROVE  EditsSurvive' /\ SightInv'
<1>0. sidecar \in [Stories -> Sidecars] /\ theirs \in [Stories -> Sidecars]
  BY DEF TypeOK
<1>1. /\ sidecar' = [sidecar EXCEPT ![x] = c] /\ theirs' = [theirs EXCEPT ![x] = c]
      /\ exposed' = IF \E r \in Runs : x \in Vulnerable(r)
                    THEN exposed \cup {x} ELSE exposed \ {x}
      /\ UNCHANGED <<pc, cursor, planned, observed>>
  BY DEF EditSidecar, Edit, progress
<1>2. ASSUME NEW r \in Runs PROVE Vulnerable(r)' = Vulnerable(r)
  BY <1>1 DEF Vulnerable
<1>3. EditsSurvive'
  BY <1>0, <1>1 DEF EditsSurvive, SameContent
<1>4. ASSUME NEW r \in Runs, NEW s \in Vulnerable(r), s \notin exposed'
      PROVE  SameContent(observed'[r].sidecar[s], theirs'[s])
  <2>1. s # x
    BY <1>1, <1>4
  <2>2. s \notin exposed /\ theirs'[s] = theirs[s]
    BY <1>0, <1>1, <1>4, <2>1
  <2> QED  BY <1>1, <1>4, <2>2 DEF SightInv, SightAt
<1> QED  BY <1>2, <1>3, <1>4 DEF SightInv, SightAt

\* Every step keeps the invariant.
LEMMA SafetyStep ==
  ASSUME IInv, [Next]_vars
  PROVE  IInv'
<1>1. TypeOK /\ CursorInv /\ PlannedInv /\ EditsSurvive /\ SightInv
  BY DEF IInv
<1>2. TypeOK'
  BY <1>1, TypeStep
<1>3. CursorInv' /\ PlannedInv'
  BY <1>1, <1>2, CursorStep, PlannedStep
<1>4. EditsSurvive' /\ SightInv'
  <2>1. CASE \E r \in Runs : Step(r) \/ Crash(r)
    BY <1>1, <1>2, <2>1, RunKeepsChanges
  <2>2. CASE \E s \in Stories, c \in Sidecars : EditSidecar(s, c)
    BY <1>1, <2>2, ChangeIsTheirs
  <2>3. CASE (\E s \in Stories, v \in Definitions : EditDefinition(s, v)) \/ UNCHANGED vars
    <3>1. UNCHANGED <<sidecar, theirs, exposed, pc, cursor, planned, observed>>
      BY <2>3 DEF EditDefinition, Edit, vars, files, progress, history
    <3> QED  BY <1>1, <3>1 DEF EditsSurvive, SightInv, SightAt, Vulnerable
  <2> QED  BY <2>1, <2>2, <2>3 DEF Next
<1> QED  BY <1>2, <1>3, <1>4 DEF IInv

-----------------------------------------------------------------------------
(* What the verdict of a run rests on.                                      *)

\* The start of a list.
LEMMA StartOfList ==
  ASSUME NEW s \in Seq(Stories), NEW m \in Nat, m <= Len(s)
  PROVE  /\ SubSeq(s, 1, m) \in Seq(Stories) /\ Len(SubSeq(s, 1, m)) = m
         /\ \A i \in 1..m : SubSeq(s, 1, m)[i] = s[i]
<1>1. /\ 1 \in Int /\ m \in Int
      /\ \A i \in 1..m : s[i] \in Stories
  OBVIOUS
<1>2. /\ SubSeq(s, 1, m) \in Seq(Stories)
      /\ Len(SubSeq(s, 1, m)) = (IF 1 <= m THEN m - 1 + 1 ELSE 0)
      /\ \A i \in 1..(m - 1 + 1) : SubSeq(s, 1, m)[i] = s[1 + i - 1]
  BY <1>1, SubSeqProperties
<1>3. m - 1 + 1 = m /\ (IF 1 <= m THEN m - 1 + 1 ELSE 0) = m
  OBVIOUS
<1>4. \A i \in 1..m : 1 + i - 1 = i
  OBVIOUS
<1> QED  BY <1>2, <1>3, <1>4

\* A shorter list with the same elements so far is a proper prefix.
LEMMA ProperPrefix ==
  ASSUME NEW s \in Seq(Stories), NEW t \in Seq(Stories), Len(s) < Len(t),
         \A i \in 1..Len(s) : s[i] = t[i]
  PROVE  s # t /\ IsPrefix(s, t)
<1>1. Len(s) \in Nat /\ Len(t) \in Nat /\ Len(s) <= Len(t) /\ Len(s) <= Len(s)
  OBVIOUS
<1>2. s # t
  <2>1. ~(Len(t) < Len(t))
    BY <1>1
  <2> QED  BY <2>1
<1> DEFINE a == SubSeq(s, 1, Len(s))
           b == SubSeq(t, 1, Len(s))
<1>3. a \in Seq(Stories) /\ Len(a) = Len(s) /\ \A i \in 1..Len(s) : a[i] = s[i]
  BY <1>1, StartOfList
<1>4. b \in Seq(Stories) /\ Len(b) = Len(s) /\ \A i \in 1..Len(s) : b[i] = t[i]
  BY <1>1, StartOfList
<1>5. a = b
  <2> HIDE DEF a, b
  <2>1. \A i \in 1..Len(a) : a[i] = b[i]
    BY <1>3, <1>4
  <2> QED  BY <1>3, <1>4, <2>1, SeqEqual
<1> QED  BY <1>1, <1>2, <1>5 DEF IsPrefix
\* The Stories before the next one are those before this one, and this one.
LEMMA ReadFurther ==
  ASSUME NEW i \in 1..Len(StoryOrder), NEW c
  PROVE  LET before == {StoryOrder[k] : k \in 1..(i - 1)} IN
         /\ c = i + 1 => {StoryOrder[k] : k \in 1..(c - 1)} \subseteq before \cup {StoryOrder[i]}
         /\ ~(i < Len(StoryOrder)) => Stories \subseteq before \cup {StoryOrder[i]}
         /\ c = 1 => {StoryOrder[k] : k \in 1..(c - 1)} = {}
<1>1. /\ c = i + 1 => \A k \in 1..(c - 1) : k \in 1..(i - 1) \/ k = i
      /\ ~(i < Len(StoryOrder)) => \A k \in 1..Len(StoryOrder) : k \in 1..(i - 1) \/ k = i
  BY BatchStory, NextIndex
<1>2. Stories = {StoryOrder[k] : k \in 1..Len(StoryOrder)}
  BY StoryOrderAssumption DEF Stories, Range
<1>3. c = 1 => 1..(c - 1) = {}
  OBVIOUS
<1> QED  BY <1>1, <1>2, <1>3

\* The elements of a list that grows at its end.
LEMMA RangeGrows ==
  ASSUME NEW s \in Seq(Stories), NEW x \in Stories
  PROVE  Range(Append(s, x)) = Range(s) \cup {x}
<1>1. /\ Len(s) \in Nat /\ DOMAIN s = 1..Len(s)
      /\ DOMAIN Append(s, x) = 1..(Len(s) + 1)
      /\ Append(s, x)[Len(s) + 1] = x
      /\ \A i \in 1..Len(s) : Append(s, x)[i] = s[i]
  OBVIOUS
<1>2. /\ \A i \in 1..(Len(s) + 1) : i \in 1..Len(s) \/ i = Len(s) + 1
      /\ \A i \in 1..Len(s) : i \in 1..(Len(s) + 1)
      /\ Len(s) + 1 \in 1..(Len(s) + 1)
  BY <1>1
<1>3. Range(s) = {s[i] : i \in 1..Len(s)}
  BY <1>1 DEF Range
<1>4. Range(Append(s, x)) = {Append(s, x)[i] : i \in 1..(Len(s) + 1)}
  BY <1>1 DEF Range
<1> QED  BY <1>1, <1>2, <1>3, <1>4, Zenon

\* The elements of a list of Stories are at its indices, and are Stories.
LEMMA RangeOfStories ==
  ASSUME NEW s \in Seq(Stories)
  PROVE  /\ Range(s) = {s[i] : i \in 1..Len(s)} /\ Range(s) \subseteq Stories
         /\ s = <<>> => Range(s) = {} /\ Len(s) = 0
         /\ Len(s) \in Nat /\ (Len(s) = 0 => s = <<>>)
<1>1. DOMAIN s = 1..Len(s)
  OBVIOUS
<1>2. Range(s) = {s[i] : i \in 1..Len(s)}
  BY <1>1 DEF Range
<1>3. s = <<>> => 1..Len(s) = {}
  OBVIOUS
<1> QED  BY <1>2, <1>3

\* An empty list has no elements.
LEMMA NoElements == Range(<<>>) = {} /\ Len(<<>>) = 0
<1>1. <<>> \in Seq(Stories)
  OBVIOUS
<1> QED  BY <1>1, RangeOfStories

\* Nothing that a run relies on changes but what counts as changed by others.
LEMMA ResultKept ==
  ASSUME NEW r \in Runs, ResultAt(r),
         pc'[r] = pc[r], cursor'[r] = cursor[r], planned'[r] = planned[r],
         observed'[r] = observed[r], updated'[r] = updated[r], verdict'[r] = verdict[r],
         \A s \in Stories \ disturbed'[r] :
           s \notin disturbed[r] /\ sidecar'[s] = sidecar[s] /\ definition'[s] = definition[s]
  PROVE  ResultAt(r)'
<1>1. VerdictAt(r)'
  BY DEF ResultAt, VerdictAt
<1>2. FreshAt(r)'
  <2>1. /\ DefinitionsRead(r)' = DefinitionsRead(r) /\ SidecarsRead(r)' = SidecarsRead(r)
        /\ \A s \in Stories : Rewritten(r, s)' = Rewritten(r, s)
        /\ Judged(r)' = Judged(r)
    BY DEF DefinitionsRead, SidecarsRead, ReadBefore, Rewritten, Judged
  <2> QED  BY <2>1 DEF ResultAt, FreshAt
<1>3. StaleAt(r)'
  <2>1. /\ ReadBefore(r)' = ReadBefore(r) /\ Judged(r)' = Judged(r)
    BY DEF ReadBefore, Judged
  <2> QED  BY <2>1 DEF ResultAt, StaleAt, Stale
<1>4. OrderAt(r)'
  BY DEF ResultAt, OrderAt
<1> QED  BY <1>1, <1>2, <1>3, <1>4 DEF ResultAt

\* What a step leaves alone that does not read, plan or write.
Idle(r) == /\ UNCHANGED <<definition, sidecar, observed, planned, updated>>
           /\ disturbed'[r] = disturbed[r]

\* A run that is between its readings and its renames goes on.
LEMMA GoesOn ==
  ASSUME NEW r \in Runs, ResultAt(r), Idle(r),
         pc[r] \in OverPlan \ {"rename"}, pc'[r] \in OverPlan,
         pc'[r] = "rename" => cursor'[r] = 1, verdict'[r] = verdict[r]
  PROVE  ResultAt(r)'
<1>0. updated[r] = <<>> /\ verdict[r] = "none" /\ verdict'[r] = "none"
  BY DEF ResultAt, OrderAt, VerdictAt, Running, OverPlan, Points, Terminal
<1>1. VerdictAt(r)'
  BY <1>0 DEF VerdictAt, OverPlan
<1>2. FreshAt(r)'
  <2>1. /\ DefinitionsRead(r)' = Stories /\ SidecarsRead(r)' = Stories
        /\ DefinitionsRead(r) = Stories /\ SidecarsRead(r) = Stories
        /\ \A s \in Stories : Rewritten(r, s)' = Rewritten(r, s)
        /\ pc[r] # "crashed"
    BY DEF DefinitionsRead, SidecarsRead, Rewritten, OverPlan, Idle
  <2> QED  BY <2>1 DEF ResultAt, FreshAt, Idle
<1>3. StaleAt(r)'
  BY DEF ResultAt, StaleAt, Stale, Idle, OverPlan
<1>4. OrderAt(r)'
  <2>1. /\ Len(updated[r]) = 0
        /\ Len(updated[r]) <= Len(planned[r])
        /\ \A i \in 1..Len(updated[r]) : updated[r][i] = planned[r][i]
    BY <1>0 DEF ResultAt, OrderAt
  <2>2. updated'[r] = updated[r] /\ planned'[r] = planned[r]
    BY DEF Idle
  <2>3. pc'[r] = "rename" => Len(updated[r]) = cursor'[r] - 1
    BY <2>1
  <2>4. pc'[r] # "reindex"
    BY DEF OverPlan
  <2> QED  BY <1>0, <2>1, <2>2, <2>3, <2>4, Zenon DEF OrderAt
<1> QED  BY <1>1, <1>2, <1>3, <1>4 DEF ResultAt

\* A run that ends without success and without a failed rename.
LEMMA GivesUp ==
  ASSUME NEW r \in Runs, ResultAt(r), Idle(r),
         pc[r] \in Running \ {"read definitions", "read sidecars"},
         pc'[r] \in {"done", "clean"}, verdict'[r] \notin {"success", "rename failed"}
  PROVE  ResultAt(r)'
<1>0. ~Judged(r)'
  BY DEF Judged
<1>1. VerdictAt(r)'
  BY DEF VerdictAt, Running, Terminal
<1>2. FreshAt(r)'
  <2>1. /\ DefinitionsRead(r)' = Stories /\ SidecarsRead(r)' = Stories
        /\ DefinitionsRead(r) = Stories /\ SidecarsRead(r) = Stories
        /\ \A s \in Stories : Rewritten(r, s)' = Rewritten(r, s)
        /\ pc[r] # "crashed"
    BY DEF DefinitionsRead, SidecarsRead, Rewritten, Running, Terminal, Idle
  <2> QED  BY <2>1 DEF ResultAt, FreshAt, Idle
<1>3. StaleAt(r)'
  BY <1>0 DEF ResultAt, StaleAt, Stale, Idle, OverPlan
<1>4. OrderAt(r)'
  BY DEF ResultAt, OrderAt, Idle, Running, Terminal
<1> QED  BY <1>1, <1>2, <1>3, <1>4 DEF ResultAt

\* A run that has its verdict and deletes what it staged, and one that is killed.
LEMMA Stops ==
  ASSUME NEW r \in Runs, ResultAt(r), Idle(r), verdict'[r] = verdict[r],
         \/ pc[r] = "clean" /\ pc'[r] \in {"clean", "done"}
         \/ pc[r] \in Points \ Terminal /\ pc'[r] = "crashed"
  PROVE  ResultAt(r)'
<1>0. Judged(r) => pc[r] = "clean"
  BY DEF ResultAt, VerdictAt, Judged, Running, Terminal, Points
<1>1. VerdictAt(r)'
  BY DEF VerdictAt, Running, Terminal
<1>2. FreshAt(r)'
  <2>1. /\ DefinitionsRead(r)' = Stories /\ SidecarsRead(r)' = Stories
        /\ \A s \in Stories : Rewritten(r, s)' = Rewritten(r, s)
        /\ pc[r] = "clean" => DefinitionsRead(r) = Stories /\ SidecarsRead(r) = Stories
        /\ Judged(r)' = Judged(r)
    BY DEF DefinitionsRead, SidecarsRead, Rewritten, Judged, Idle
  <2> QED  BY <1>0, <2>1 DEF ResultAt, FreshAt, Idle
<1>3. StaleAt(r)'
  BY DEF ResultAt, StaleAt, Stale, Idle, OverPlan, Judged
<1>4. OrderAt(r)'
  BY DEF ResultAt, OrderAt, Idle, Running, Terminal
<1> QED  BY <1>1, <1>2, <1>3, <1>4 DEF ResultAt

\* Beginning: nothing has been read yet, and nothing is changed by others yet.
LEMMA StartResult ==
  ASSUME TypeOK, PlannedInv, NEW r \in Runs, ResultAt(r), Start(r)
  PROVE  ResultAt(r)'
<1>0. /\ pc \in [Runs -> Points] /\ verdict \in [Runs -> Verdicts]
      /\ disturbed \in [Runs -> SUBSET Stories]
      /\ pc[r] = "start" /\ planned[r] = <<>> /\ cursor[r] = 1
      /\ UNCHANGED <<definition, sidecar, cursor, observed, planned, updated>>
  BY DEF TypeOK, Start, PlannedInv, PlannedAt, Reading, files, progress, ResultAt, VerdictAt
<1>1. CASE /\ Goto(r, "read definitions") /\ UNCHANGED verdict
  <2>1. pc'[r] = "read definitions" /\ cursor'[r] = 1 /\ verdict'[r] = "none"
    BY <1>0, <1>1 DEF Goto, ResultAt, VerdictAt, Running, Points, Terminal
  <2>2. updated'[r] = <<>> /\ planned'[r] = <<>>
    BY <1>0 DEF ResultAt, OrderAt, Running, Points, Terminal
  <2>3. ReadBefore(r)' = {}
    <3>1. 1 \in 1..Len(StoryOrder)
      BY StoryOrderAssumption
    <3> QED  BY <2>1, <3>1, ReadFurther DEF ReadBefore
  <2>4. VerdictAt(r)'
    BY <2>1 DEF VerdictAt
  <2>5. FreshAt(r)'
    BY <2>1, <2>3 DEF FreshAt, DefinitionsRead, SidecarsRead
  <2>6. StaleAt(r)'
    <3>1. planned'[r] = planned[r] /\ observed'[r] = observed[r]
      BY <1>0
    <3> QED  BY <2>1, <3>1 DEF ResultAt, StaleAt, Stale, OverPlan, Judged
  <2>7. OrderAt(r)'
    <3>1. /\ Len(updated'[r]) = 0 /\ Len(updated'[r]) <= Len(planned'[r])
          /\ \A i \in 1..Len(updated'[r]) : updated'[r][i] = planned'[r][i]
      BY <2>2, NoElements
    <3> QED  BY <2>1, <2>2, <3>1, Zenon DEF OrderAt
  <2> QED  BY <2>4, <2>5, <2>6, <2>7 DEF ResultAt
<1>2. CASE (Ends(r, "unsafe") \/ Ends(r, "index failed")) /\ UNCHANGED disturbed
  <2>1. /\ pc'[r] = "done" /\ verdict'[r] \in {"unsafe", "index failed"}
        /\ Idle(r) /\ pc[r] \in Running \ {"read definitions", "read sidecars"}
    BY <1>0, <1>2 DEF Ends, Goto, Idle, Running, Points, Terminal
  <2> QED  BY <2>1, GivesUp
<1> QED  BY <1>1, <1>2 DEF Start

\* Reading one more definition.
LEMMA ReadDefinitionResult ==
  ASSUME TypeOK, CursorInv, PlannedInv, NEW r \in Runs, ResultAt(r), ReadDefinition(r)
  PROVE  ResultAt(r)'
<1> DEFINE n == Len(StoryOrder)
           i == cursor[r]
           s == StoryOrder[i]
<1>0. /\ pc \in [Runs -> Points] /\ cursor \in [Runs -> Nat]
      /\ observed \in [Runs -> [definition : [Stories -> Definitions],
                                sidecar : [Stories -> Sidecars]]]
      /\ pc[r] = "read definitions" /\ planned[r] = <<>>
      /\ observed' = [observed EXCEPT ![r].definition[s] = definition[s]]
      /\ UNCHANGED <<definition, sidecar, planned, updated, verdict, disturbed>>
      /\ \/ i < n /\ Advance(r) /\ UNCHANGED pc
         \/ ~(i < n) /\ Goto(r, "read sidecars") /\ From(r, 1)
  BY DEF TypeOK, ReadDefinition, PlannedInv, PlannedAt, Reading, files, history
<1>1. i \in 1..n /\ s \in Stories
  BY <1>0, BatchStory DEF CursorInv, CursorAt, OverBatch
<1>2. verdict[r] = "none" /\ updated[r] = <<>>
  BY <1>0 DEF ResultAt, VerdictAt, OrderAt, Running, Points, Terminal
<1>3. /\ observed'[r].sidecar = observed[r].sidecar
      /\ \A t \in Stories : observed'[r].definition[t] =
                              IF t = s THEN definition[s] ELSE observed[r].definition[t]
  BY <1>0, <1>1
<1>4. /\ pc'[r] \in {"read definitions", "read sidecars"}
      /\ DefinitionsRead(r)' \subseteq ReadBefore(r) \cup {s}
      /\ SidecarsRead(r)' = {}
  <2>1. CASE i < n /\ Advance(r) /\ UNCHANGED pc
    <3>1. pc'[r] = "read definitions" /\ cursor'[r] = i + 1
      BY <1>0, <2>1 DEF Advance, From
    <3>2. ReadBefore(r)' \subseteq ReadBefore(r) \cup {s}
      BY <1>1, <3>1, ReadFurther DEF ReadBefore
    <3> QED  BY <3>1, <3>2 DEF DefinitionsRead, SidecarsRead
  <2>2. CASE ~(i < n) /\ Goto(r, "read sidecars") /\ From(r, 1)
    <3>1. pc'[r] = "read sidecars" /\ cursor'[r] = 1
      BY <1>0, <2>2 DEF Goto, From
    <3>2. ReadBefore(r)' = {} /\ Stories \subseteq ReadBefore(r) \cup {s}
      BY <1>1, <2>2, <3>1, ReadFurther DEF ReadBefore
    <3> QED  BY <3>1, <3>2 DEF DefinitionsRead, SidecarsRead
  <2> QED  BY <1>0, <2>1, <2>2
<1>5. VerdictAt(r)'
  BY <1>0, <1>2, <1>4 DEF VerdictAt
<1>6. FreshAt(r)'
  <2>1. \A t \in Stories \ disturbed[r] :
          t \in ReadBefore(r) => observed[r].definition[t] = definition[t]
    BY <1>0 DEF ResultAt, FreshAt, DefinitionsRead
  <2>2. \A t \in Stories \ disturbed[r] :
          t \in ReadBefore(r) \cup {s} => observed'[r].definition[t] = definition[t]
    BY <1>3, <2>1
  <2> QED  BY <1>0, <1>4, <2>2 DEF FreshAt
<1>7. StaleAt(r)'
  <2>1. planned'[r] = <<>> /\ Range(<<>>) = {}
    BY <1>0, NoElements
  <2> QED  BY <1>0, <1>2, <1>4, <2>1 DEF StaleAt, OverPlan, Judged
<1>8. OrderAt(r)'
  BY <1>0, <1>2, <1>4 DEF ResultAt, OrderAt
<1> QED  BY <1>5, <1>6, <1>7, <1>8 DEF ResultAt

\* Reading one more sidecar.
LEMMA ReadSidecarResult ==
  ASSUME TypeOK, CursorInv, PlannedInv, NEW r \in Runs, ResultAt(r), ReadSidecar(r)
  PROVE  ResultAt(r)'
<1> DEFINE n == Len(StoryOrder)
           i == cursor[r]
           s == StoryOrder[i]
<1>0. /\ pc \in [Runs -> Points] /\ cursor \in [Runs -> Nat]
      /\ observed \in [Runs -> [definition : [Stories -> Definitions],
                                sidecar : [Stories -> Sidecars]]]
      /\ pc[r] = "read sidecars" /\ planned[r] = <<>>
      /\ observed' = [observed EXCEPT ![r].sidecar[s] = sidecar[s]]
      /\ UNCHANGED <<definition, sidecar, planned, updated, verdict, disturbed>>
      /\ \/ i < n /\ Advance(r) /\ UNCHANGED pc
         \/ ~(i < n) /\ Goto(r, "validate") /\ From(r, 1)
  BY DEF TypeOK, ReadSidecar, PlannedInv, PlannedAt, Reading, files, history
<1>1. i \in 1..n /\ s \in Stories
  BY <1>0, BatchStory DEF CursorInv, CursorAt, OverBatch
<1>2. verdict[r] = "none" /\ updated[r] = <<>>
  BY <1>0 DEF ResultAt, VerdictAt, OrderAt, Running, Points, Terminal
<1>3. /\ observed'[r].definition = observed[r].definition
      /\ \A t \in Stories : observed'[r].sidecar[t] =
                              IF t = s THEN sidecar[s] ELSE observed[r].sidecar[t]
  BY <1>0, <1>1
<1>4. /\ pc'[r] \in {"read sidecars", "validate"} /\ (pc'[r] = "validate" => cursor'[r] = 1)
      /\ SidecarsRead(r)' \subseteq ReadBefore(r) \cup {s}
      /\ DefinitionsRead(r)' = Stories
  <2>1. CASE i < n /\ Advance(r) /\ UNCHANGED pc
    <3>1. pc'[r] = "read sidecars" /\ cursor'[r] = i + 1
      BY <1>0, <2>1 DEF Advance, From
    <3>2. ReadBefore(r)' \subseteq ReadBefore(r) \cup {s}
      BY <1>1, <3>1, ReadFurther DEF ReadBefore
    <3> QED  BY <3>1, <3>2 DEF DefinitionsRead, SidecarsRead
  <2>2. CASE ~(i < n) /\ Goto(r, "validate") /\ From(r, 1)
    <3>1. pc'[r] = "validate" /\ cursor'[r] = 1
      BY <1>0, <2>2 DEF Goto, From
    <3>2. Stories \subseteq ReadBefore(r) \cup {s}
      BY <1>1, <2>2, ReadFurther DEF ReadBefore
    <3> QED  BY <3>1, <3>2 DEF DefinitionsRead, SidecarsRead
  <2> QED  BY <1>0, <2>1, <2>2
<1>5. VerdictAt(r)'
  BY <1>0, <1>2, <1>4 DEF VerdictAt
<1>6. FreshAt(r)'
  <2>0. Range(<<>>) = {}
    BY NoElements
  <2>1. \A t \in Stories \ disturbed[r] :
          /\ observed[r].definition[t] = definition[t]
          /\ t \in ReadBefore(r) => sidecar[t] = observed[r].sidecar[t]
    BY <1>0, <1>2, <2>0 DEF ResultAt, FreshAt, DefinitionsRead, SidecarsRead
  <2>2. \A t \in Stories \ disturbed[r] :
          /\ observed'[r].definition[t] = definition[t]
          /\ t \in ReadBefore(r) \cup {s} => sidecar[t] = observed'[r].sidecar[t]
    BY <1>3, <2>1
  <2> QED  BY <1>0, <1>2, <1>4, <2>0, <2>2 DEF FreshAt
<1>7. StaleAt(r)'
  <2>1. planned'[r] = <<>> /\ Range(<<>>) = {}
    BY <1>0, NoElements
  <2> QED  BY <1>0, <1>2, <1>4, <2>1 DEF StaleAt, OverPlan, Judged
<1>8. OrderAt(r)'
  BY <1>0, <1>2, <1>4 DEF ResultAt, OrderAt
<1> QED  BY <1>5, <1>6, <1>7, <1>8 DEF ResultAt

\* Accepting the sidecars, or refusing them.
LEMMA ValidateResult ==
  ASSUME TypeOK, PlannedInv, NEW r \in Runs, ResultAt(r), Validate(r)
  PROVE  ResultAt(r)'
<1>0. /\ pc \in [Runs -> Points] /\ verdict \in [Runs -> Verdicts]
      /\ pc[r] = "validate" /\ planned[r] = <<>> /\ cursor[r] = 1
      /\ UNCHANGED <<definition, sidecar, cursor, observed, planned, updated, disturbed>>
      /\ \/ Ends(r, "unsafe") \/ Ends(r, "invalid")
         \/ Goto(r, "plan") /\ UNCHANGED verdict
  BY DEF TypeOK, Validate, PlannedInv, PlannedAt, Reading, files, progress, history,
         ResultAt, VerdictAt
<1>1. CASE Ends(r, "unsafe") \/ Ends(r, "invalid")
  <2>1. /\ pc'[r] = "done" /\ verdict'[r] \in {"unsafe", "invalid"}
        /\ Idle(r) /\ pc[r] \in Running \ {"read definitions", "read sidecars"}
    BY <1>0, <1>1 DEF Ends, Goto, Idle, Running, Points, Terminal
  <2> QED  BY <2>1, GivesUp
<1>2. CASE Goto(r, "plan") /\ UNCHANGED verdict
  <2>1. /\ pc'[r] = "plan" /\ verdict'[r] = "none" /\ updated[r] = <<>>
        /\ updated'[r] = updated[r] /\ planned'[r] = planned[r]
    BY <1>0, <1>2 DEF Goto, ResultAt, VerdictAt, OrderAt, Running, Points, Terminal
  <2>2. ReadBefore(r)' = {}
    <3>1. 1..(cursor'[r] - 1) = {}
      BY <1>0
    <3> QED  BY <3>1, Zenon DEF ReadBefore
  <2>3. VerdictAt(r)'
    BY <2>1 DEF VerdictAt
  <2>4. FreshAt(r)'
    <3>1. /\ DefinitionsRead(r)' = Stories /\ SidecarsRead(r)' = Stories
          /\ DefinitionsRead(r) = Stories /\ SidecarsRead(r) = Stories
          /\ \A s \in Stories : Rewritten(r, s)' = Rewritten(r, s)
      BY <1>0, <2>1 DEF DefinitionsRead, SidecarsRead, Rewritten
    <3> QED  BY <1>0, <3>1 DEF ResultAt, FreshAt
  <2>5. StaleAt(r)'
    BY <1>0, <2>1, <2>2 DEF ResultAt, StaleAt, Stale, OverPlan, Judged
  <2>6. OrderAt(r)'
    <3>1. /\ Len(updated'[r]) <= Len(planned'[r])
          /\ \A i \in 1..Len(updated'[r]) : updated'[r][i] = planned'[r][i]
      BY <2>1 DEF ResultAt, OrderAt
    <3> QED  BY <2>1, <3>1, Zenon DEF OrderAt
  <2> QED  BY <2>3, <2>4, <2>5, <2>6 DEF ResultAt
<1> QED  BY <1>0, <1>1, <1>2

\* Planning one more Story.
LEMMA PlanResult ==
  ASSUME TypeOK, CursorInv, NEW r \in Runs, ResultAt(r), PlanStory(r)
  PROVE  ResultAt(r)'
<1> DEFINE n == Len(StoryOrder)
           i == cursor[r]
           s == StoryOrder[i]
           rewrites == IF Stale(r, s) THEN Append(planned[r], s) ELSE planned[r]
<1>0. /\ pc \in [Runs -> Points] /\ cursor \in [Runs -> Nat]
      /\ planned \in [Runs -> Seq(Stories)] /\ verdict \in [Runs -> Verdicts]
      /\ pc[r] = "plan"
      /\ UNCHANGED <<definition, sidecar, observed, updated, disturbed>>
      /\ planned' = [planned EXCEPT ![r] = rewrites]
      /\ \/ i < n /\ Advance(r) /\ UNCHANGED <<pc, verdict>>
         \/ ~(i < n) /\ rewrites = <<>> /\ Ends(r, "success")
         \/ ~(i < n) /\ Goto(r, "check paths") /\ UNCHANGED verdict
  BY DEF TypeOK, PlanStory, files, history
<1>1. i \in 1..n /\ s \in Stories
  BY <1>0, BatchStory DEF CursorInv, CursorAt, OverBatch
<1>2. verdict[r] = "none" /\ updated[r] = <<>>
  BY <1>0 DEF ResultAt, VerdictAt, OrderAt, Running, Points, Terminal
<1>3. /\ planned'[r] = rewrites /\ planned'[r] \in Seq(Stories)
      /\ Range(planned'[r]) = IF Stale(r, s) THEN Range(planned[r]) \cup {s}
                                             ELSE Range(planned[r])
  <2>1. Append(planned[r], s) \in Seq(Stories) /\ planned[r] \in Seq(Stories)
    <3>1. planned[r] \in Seq(Stories)
      BY <1>0
    <3> HIDE DEF s
    <3> QED  BY <1>1, <3>1
  <2>2. planned'[r] = rewrites
    BY <1>0
  <2>3. Range(Append(planned[r], s)) = Range(planned[r]) \cup {s}
    BY <1>1, <2>1, RangeGrows
  <2> QED  BY <2>1, <2>2, <2>3, Zenon
<1>4. /\ pc'[r] \in {"plan", "done", "check paths"}
      /\ pc'[r] = "plan" => ReadBefore(r)' \subseteq ReadBefore(r) \cup {s}
      /\ pc'[r] # "plan" => Stories \subseteq ReadBefore(r) \cup {s}
      /\ verdict'[r] = (IF pc'[r] = "done" THEN "success" ELSE "none")
      /\ pc'[r] = "done" => planned'[r] = <<>>
  <2>1. CASE i < n /\ Advance(r) /\ UNCHANGED <<pc, verdict>>
    <3>1. pc'[r] = "plan" /\ verdict'[r] = "none" /\ cursor'[r] = i + 1
      BY <1>0, <1>2, <2>1 DEF Advance, From
    <3>2. ReadBefore(r)' \subseteq ReadBefore(r) \cup {s}
      BY <1>1, <3>1, ReadFurther DEF ReadBefore
    <3> QED  BY <3>1, <3>2
  <2>2. CASE ~(i < n) /\ rewrites = <<>> /\ Ends(r, "success")
    <3>1. pc'[r] = "done" /\ verdict'[r] = "success"
      BY <1>0, <2>2 DEF Ends, Goto
    <3>2. Stories \subseteq ReadBefore(r) \cup {s}
      BY <1>1, <2>2, ReadFurther DEF ReadBefore
    <3> HIDE DEF rewrites
    <3> QED  BY <1>3, <2>2, <3>1, <3>2
  <2>3. CASE ~(i < n) /\ Goto(r, "check paths") /\ UNCHANGED verdict
    <3>1. pc'[r] = "check paths" /\ verdict'[r] = "none"
      BY <1>0, <1>2, <2>3 DEF Goto
    <3>2. Stories \subseteq ReadBefore(r) \cup {s}
      BY <1>1, <2>3, ReadFurther DEF ReadBefore
    <3> QED  BY <3>1, <3>2
  <2> QED  BY <1>0, <2>1, <2>2, <2>3, Zenon
<1>5. VerdictAt(r)'
  BY <1>4 DEF VerdictAt, Running, Terminal
<1>6. FreshAt(r)'
  <2>1. /\ DefinitionsRead(r)' = Stories /\ SidecarsRead(r)' = Stories
        /\ DefinitionsRead(r) = Stories /\ SidecarsRead(r) = Stories
        /\ \A t \in Stories : Rewritten(r, t)' = Rewritten(r, t)
    BY <1>0, <1>4 DEF DefinitionsRead, SidecarsRead, Rewritten
  <2> QED  BY <1>0, <2>1 DEF ResultAt, FreshAt
<1>7. StaleAt(r)'
  <2>1. \A t \in Stories : Stale(r, t)' <=> Stale(r, t)
    BY <1>0 DEF Stale
  <2>2. \A t \in ReadBefore(r) \cup {s} : Stale(r, t) => t \in Range(planned'[r])
    BY <1>0, <1>3 DEF ResultAt, StaleAt
  <2>3. \A t \in Range(planned'[r]) : Stale(r, t) /\ t \in Stories
    BY <1>0, <1>3, RangeOfStories DEF ResultAt, StaleAt
  <2>4. ReadBefore(r)' \subseteq Stories \/ pc'[r] # "plan"
    <3>1. ReadBefore(r) \subseteq Stories
      <4>1. \A k \in 1..(i - 1) : k \in 1..n
        BY <1>1, BatchStory, NextIndex
      <4> QED  BY <4>1, BatchStory DEF ReadBefore
    <3> QED  BY <1>1, <1>4, <3>1
  <2> QED  BY <1>4, <2>1, <2>2, <2>3, <2>4 DEF StaleAt, OverPlan, Judged
<1>8. OrderAt(r)'
  <2>1. updated'[r] = <<>> /\ Len(planned'[r]) \in Nat
    <3>1. updated'[r] = <<>>
      BY <1>0, <1>2
    <3> HIDE DEF rewrites
    <3> QED  BY <1>3, <3>1, RangeOfStories
  <2>2. /\ Len(updated'[r]) = 0 /\ Len(updated'[r]) <= Len(planned'[r])
        /\ \A k \in 1..Len(updated'[r]) : updated'[r][k] = planned'[r][k]
    BY <2>1, NoElements
  <2>3. planned'[r] = <<>> => Len(planned'[r]) = 0
    BY NoElements
  <2>4. verdict'[r] = "success" => planned'[r] = <<>>
    BY <1>4
  <2>5. pc'[r] \notin {"rename", "reindex"} /\ verdict'[r] # "rename failed"
    BY <1>4
  <2> QED  BY <2>1, <2>2, <2>3, <2>4, <2>5, Zenon DEF OrderAt
<1> QED  BY <1>5, <1>6, <1>7, <1>8 DEF ResultAt

\* Looking, staging and looking again.
LEMMA BeforeRenamesResult ==
  ASSUME TypeOK, CursorInv, NEW r \in Runs, ResultAt(r),
         CheckPath(r) \/ Stage(r) \/ Recheck(r)
  PROVE  ResultAt(r)'
<1>0. /\ pc \in [Runs -> Points] /\ cursor \in [Runs -> Nat]
      /\ verdict \in [Runs -> Verdicts]
  BY DEF TypeOK
<1>1. Idle(r) /\ pc[r] \in OverPlan \ {"rename"}
  BY DEF CheckPath, Stage, Recheck, OverPlan, Idle, files, progress, history
<1>2. \/ /\ UNCHANGED verdict
         /\ \/ UNCHANGED pc
            \/ \E p \in {"stage", "recheck", "rename"} : Goto(r, p) /\ From(r, 1)
      \/ Ends(r, "unsafe")
      \/ \E how \in {"stage failed", "changed"} :
           /\ verdict' = [verdict EXCEPT ![r] = how]
           /\ Goto(r, "clean")
  BY DEF CheckPath, Stage, Recheck, EndsAfterCleaning
<1>3. CASE /\ UNCHANGED verdict
           /\ \/ UNCHANGED pc
              \/ \E p \in {"stage", "recheck", "rename"} : Goto(r, p) /\ From(r, 1)
  <2>1. /\ pc'[r] \in OverPlan /\ (pc'[r] = "rename" => cursor'[r] = 1)
        /\ verdict'[r] = verdict[r]
    BY <1>0, <1>1, <1>3 DEF Goto, From, OverPlan
  <2> QED  BY <1>1, <2>1, GoesOn
<1>4. CASE \/ Ends(r, "unsafe")
           \/ \E how \in {"stage failed", "changed"} :
                /\ verdict' = [verdict EXCEPT ![r] = how]
                /\ Goto(r, "clean")
  <2>1. pc'[r] \in {"done", "clean"} /\ verdict'[r] \notin {"success", "rename failed"}
    BY <1>0, <1>4 DEF Ends, Goto
  <2>2. pc[r] \in Running \ {"read definitions", "read sidecars"}
    BY <1>1 DEF Running, OverPlan, Points, Terminal
  <2> QED  BY <1>1, <2>1, <2>2, GivesUp
<1> QED  BY <1>2, <1>3, <1>4

\* Replacing one more sidecar, or failing to.
LEMMA RenameResult ==
  ASSUME TypeOK, CursorInv, NEW r \in Runs, ResultAt(r), Rename(r)
  PROVE  ResultAt(r)'
<1> DEFINE n == Len(planned[r])
           i == cursor[r]
           s == Item(r)
<1>0. /\ pc \in [Runs -> Points] /\ cursor \in [Runs -> Nat]
      /\ sidecar \in [Stories -> Sidecars] /\ updated \in [Runs -> Seq(Stories)]
      /\ verdict \in [Runs -> Verdicts]
      /\ pc[r] = "rename"
      /\ UNCHANGED <<definition, observed, planned>>
  BY DEF TypeOK, Rename
<1>1. i \in 1..n /\ s \in Stories /\ n \in Nat
  BY <1>0, ItemIsStory DEF OverPlan
<1>2. /\ verdict[r] = "none" /\ Len(updated[r]) = i - 1
      /\ \A k \in 1..Len(updated[r]) : updated[r][k] = planned[r][k]
  BY <1>0 DEF ResultAt, VerdictAt, OrderAt, Running, Points, Terminal
<1>3. /\ DefinitionsRead(r) = Stories /\ SidecarsRead(r) = Stories
      /\ \A t \in Stories : Stale(r, t) => t \in Range(planned[r])
      /\ \A t \in Range(planned[r]) : Stale(r, t)
      /\ \A t \in Stories \ disturbed[r] :
           /\ observed[r].definition[t] = definition[t]
           /\ sidecar[t] = IF t \in Range(updated[r]) THEN Rewritten(r, t)
                                                     ELSE observed[r].sidecar[t]
  <2>1. DefinitionsRead(r) = Stories /\ SidecarsRead(r) = Stories
    BY <1>0 DEF DefinitionsRead, SidecarsRead
  <2>2. FreshAt(r) /\ StaleAt(r)
    BY DEF ResultAt
  <2> QED  BY <1>0, <2>1, <2>2 DEF FreshAt, StaleAt, OverPlan
<1>4. ASSUME pc'[r] \in {"rename", "reindex", "clean"} PROVE StaleAt(r)'
  <2>1. \A t \in Stories : Stale(r, t)' <=> Stale(r, t)
    BY <1>0 DEF Stale
  <2>2. planned'[r] = planned[r] /\ pc'[r] # "plan" /\ Range(planned[r]) \subseteq Stories
    BY <1>0, <1>4, RangeOfStories DEF TypeOK
  <2> QED  BY <1>3, <2>1, <2>2 DEF StaleAt
<1>5. CASE /\ sidecar' = [sidecar EXCEPT ![s] = Rewritten(r, s)]
           /\ updated' = [updated EXCEPT ![r] = Append(@, s)]
           /\ disturbed' = [q \in Runs |-> IF q = r THEN disturbed[q] ELSE disturbed[q] \cup {s}]
           /\ IF i < n THEN Advance(r) /\ UNCHANGED pc
                       ELSE Goto(r, "reindex") /\ UNCHANGED cursor
           /\ UNCHANGED verdict
  <2>1. /\ pc'[r] \in {"rename", "reindex"} /\ verdict'[r] = "none"
        /\ pc'[r] = "rename" => cursor'[r] = i + 1
        /\ pc'[r] = "reindex" => i = n
    <3>1. CASE i < n /\ Advance(r) /\ UNCHANGED pc
      BY <1>0, <1>2, <1>5, <3>1 DEF Advance, From
    <3>2. CASE ~(i < n) /\ Goto(r, "reindex")
      BY <1>0, <1>1, <1>2, <1>5, <3>2 DEF Goto
    <3> QED  BY <1>5, <3>1, <3>2
  <2>2. updated'[r] = Append(updated[r], s) /\ updated[r] \in Seq(Stories)
    BY <1>0, <1>5
  <2>3. /\ Len(updated'[r]) = i
        /\ \A k \in 1..i : updated'[r][k] = planned[r][k]
    <3>1. /\ Len(updated'[r]) = Len(updated[r]) + 1
          /\ updated'[r][Len(updated[r]) + 1] = s
          /\ \A k \in 1..Len(updated[r]) : updated'[r][k] = updated[r][k]
      <4> HIDE DEF s
      <4> QED  BY <1>1, <2>2
    <3>2. Len(updated[r]) + 1 = i /\ s = planned[r][i]
      BY <1>1, <1>2 DEF Item
    <3>3. \A k \in 1..i : k \in 1..Len(updated[r]) \/ k = i
      BY <1>1, <1>2
    <3> QED  BY <1>2, <3>1, <3>2, <3>3, Zenon
  <2>4. Range(updated'[r]) = Range(updated[r]) \cup {s}
    BY <1>1, <2>2, RangeGrows
  <2>5. VerdictAt(r)'
    BY <2>1 DEF VerdictAt
  <2>6. FreshAt(r)'
    <3>1. /\ \A t \in Stories : sidecar'[t] = IF t = s THEN Rewritten(r, s) ELSE sidecar[t]
          /\ disturbed'[r] = disturbed[r]
      BY <1>0, <1>1, <1>5
    <3>2. \A t \in Stories : Rewritten(r, t)' = Rewritten(r, t)
      BY <1>0 DEF Rewritten
    <3>3. \A t \in Stories \ disturbed[r] :
            sidecar'[t] = IF t \in Range(updated'[r]) THEN Rewritten(r, t)
                                                      ELSE observed[r].sidecar[t]
      <4> HIDE DEF s
      <4> QED  BY <1>3, <2>4, <3>1
    <3>4. definition' = definition /\ observed' = observed
      BY <1>0
    <3> QED  BY <1>3, <3>1, <3>2, <3>3, <3>4 DEF FreshAt
  <2>7. OrderAt(r)'
    <3>1. planned'[r] = planned[r]
      BY <1>0
    <3>2. Len(updated'[r]) <= Len(planned'[r])
      BY <1>1, <2>3, <3>1
    <3>3. pc'[r] = "rename" => Len(updated'[r]) = cursor'[r] - 1
      <4>1. i \in Nat /\ (i + 1) - 1 = i
        BY <1>1
      <4> QED  BY <2>1, <2>3, <4>1
    <3>4. pc'[r] = "reindex" => Len(updated'[r]) = Len(planned'[r])
      BY <2>1, <2>3, <3>1
    <3> QED  BY <2>1, <2>3, <3>1, <3>2, <3>3, <3>4, Zenon DEF OrderAt
  <2> QED  BY <1>4, <2>1, <2>5, <2>6, <2>7 DEF ResultAt
<1>6. CASE /\ EndsAfterCleaning(r, "rename failed", NotReached(r))
           /\ UNCHANGED <<sidecar, temps, updated, disturbed, cursor>>
  <2>1. pc'[r] = "clean" /\ verdict'[r] = "rename failed"
    BY <1>0, <1>6 DEF EndsAfterCleaning, Goto
  <2>2. VerdictAt(r)'
    BY <2>1 DEF VerdictAt, Running
  <2>3. FreshAt(r)'
    <3>1. \A t \in Stories : Rewritten(r, t)' = Rewritten(r, t)
      BY <1>0 DEF Rewritten
    <3> QED  BY <1>0, <1>3, <1>6, <3>1 DEF FreshAt
  <2>4. OrderAt(r)'
    <3>1. planned'[r] = planned[r] /\ updated'[r] = updated[r]
      BY <1>0, <1>6
    <3>2. Len(updated'[r]) < Len(planned'[r]) /\ Len(updated'[r]) <= Len(planned'[r])
      BY <1>1, <1>2, <3>1
    <3> QED  BY <1>2, <2>1, <3>1, <3>2, Zenon DEF OrderAt, Running
  <2> QED  BY <1>4, <2>1, <2>2, <2>3, <2>4 DEF ResultAt
<1> QED  BY <1>5, <1>6 DEF Rename

\* Reading the batch once more.
LEMMA ReindexResult ==
  ASSUME TypeOK, NEW r \in Runs, ResultAt(r), Reindex(r)
  PROVE  ResultAt(r)'
<1>0. /\ pc \in [Runs -> Points] /\ verdict \in [Runs -> Verdicts]
      /\ pc[r] = "reindex" /\ Idle(r)
      /\ Ends(r, "ERROR") \/ Ends(r, "success")
  BY DEF TypeOK, Reindex, files, progress, history, Idle
<1>1. CASE Ends(r, "ERROR")
  <2>1. /\ pc'[r] = "done" /\ verdict'[r] = "ERROR"
        /\ pc[r] \in Running \ {"read definitions", "read sidecars"}
    BY <1>0, <1>1 DEF Ends, Goto, Running, Points, Terminal
  <2> QED  BY <1>0, <2>1, GivesUp
<1>2. CASE Ends(r, "success")
  <2>1. /\ pc'[r] = "done" /\ verdict'[r] = "success"
        /\ updated'[r] = updated[r] /\ planned'[r] = planned[r] /\ observed'[r] = observed[r]
    BY <1>0, <1>2 DEF Ends, Goto, Idle
  <2>2. VerdictAt(r)'
    BY <2>1 DEF VerdictAt, Running, Terminal
  <2>3. FreshAt(r)'
    <3>1. /\ DefinitionsRead(r)' = Stories /\ SidecarsRead(r)' = Stories
          /\ DefinitionsRead(r) = Stories /\ SidecarsRead(r) = Stories
          /\ \A s \in Stories : Rewritten(r, s)' = Rewritten(r, s)
      BY <1>0, <2>1 DEF DefinitionsRead, SidecarsRead, Rewritten
    <3> QED  BY <1>0, <2>1, <3>1 DEF ResultAt, FreshAt, Idle
  <2>4. StaleAt(r)'
    BY <1>0, <2>1 DEF ResultAt, StaleAt, Stale
  <2>5. OrderAt(r)'
    <3>1. Len(updated[r]) = Len(planned[r]) /\ Len(updated[r]) <= Len(planned[r])
      BY <1>0 DEF ResultAt, OrderAt
    <3>2. \A i \in 1..Len(updated[r]) : updated[r][i] = planned[r][i]
      BY DEF ResultAt, OrderAt
    <3> QED  BY <2>1, <3>1, <3>2, Zenon DEF OrderAt, Running, Terminal
  <2> QED  BY <2>2, <2>3, <2>4, <2>5 DEF ResultAt
<1> QED  BY <1>0, <1>1, <1>2

\* A step of one run leaves what the others rely on alone, except for the
\* sidecar that it replaces.
LEMMA OthersRely ==
  ASSUME TypeOK, CursorInv, NEW r \in Runs, Step(r) \/ Crash(r), NEW q \in Runs, q # r
  PROVE  /\ updated'[q] = updated[q] /\ verdict'[q] = verdict[q]
         /\ UNCHANGED definition
         /\ \A s \in Stories \ disturbed'[q] : s \notin disturbed[q] /\ sidecar'[s] = sidecar[s]
<1> DEFINE Same == /\ updated'[q] = updated[q] /\ verdict'[q] = verdict[q]
                   /\ UNCHANGED definition
           Alone == UNCHANGED sidecar /\ disturbed'[q] = disturbed[q]
<1>0. /\ DOMAIN updated = Runs /\ DOMAIN verdict = Runs /\ DOMAIN disturbed = Runs
      /\ sidecar \in [Stories -> Sidecars]
  BY DEF TypeOK
<1> USE DEF Ends, EndsAfterCleaning, progress, files, history
<1>1. Start(r) \/ Validate(r) \/ Reindex(r) \/ Crash(r) \/ Clean(r) => Same /\ Alone
  BY <1>0 DEF Start, Validate, Reindex, Crash, Clean
<1>2. ReadDefinition(r) \/ ReadSidecar(r) => Same /\ Alone
  BY <1>0 DEF ReadDefinition, ReadSidecar
<1>3. PlanStory(r) \/ CheckPath(r) => Same /\ Alone
  BY <1>0 DEF PlanStory, CheckPath
<1>4. Stage(r) \/ Recheck(r) => Same /\ Alone
  BY <1>0 DEF Stage, Recheck
<1>5. CASE Rename(r)
  <2>1. Same
    BY <1>0, <1>5 DEF Rename
  <2>2. \/ Alone
        \/ /\ sidecar' = [sidecar EXCEPT ![Item(r)] = Rewritten(r, Item(r))]
           /\ disturbed'[q] = disturbed[q] \cup {Item(r)}
    BY <1>0, <1>5 DEF Rename
  <2> QED  BY <1>0, <2>1, <2>2
<1> QED  BY <1>1, <1>2, <1>3, <1>4, <1>5 DEF Step

\* Every step keeps what the verdicts rest on.
LEMMA ResultStep ==
  ASSUME IInv, ResultInv, [Next]_vars
  PROVE  ResultInv'
<1>0. TypeOK /\ CursorInv /\ PlannedInv /\ \A r \in Runs : ResultAt(r)
  BY DEF IInv, ResultInv
<1>1. ASSUME NEW r \in Runs, Step(r) \/ Crash(r) PROVE ResultAt(r)'
  <2>1. CASE Clean(r) \/ Crash(r)
    <3>1. /\ Idle(r) /\ verdict'[r] = verdict[r]
          /\ \/ pc[r] = "clean" /\ pc'[r] \in {"clean", "done"}
             \/ pc[r] \in Points \ Terminal /\ pc'[r] = "crashed"
      BY <1>0, <2>1 DEF TypeOK, Clean, Crash, Goto, Idle, files, progress, history
    <3> QED  BY <1>0, <3>1, Stops
  <2> QED  BY <1>0, <1>1, <2>1, StartResult, ReadDefinitionResult, ReadSidecarResult,
              ValidateResult, PlanResult, BeforeRenamesResult, RenameResult,
              ReindexResult DEF Step
<1>2. ASSUME NEW r \in Runs, Step(r) \/ Crash(r), NEW q \in Runs, q # r PROVE ResultAt(q)'
  <2>1. /\ pc'[q] = pc[q] /\ cursor'[q] = cursor[q]
        /\ planned'[q] = planned[q] /\ observed'[q] = observed[q]
    BY <1>0, <1>2, OthersStay
  <2>2. /\ updated'[q] = updated[q] /\ verdict'[q] = verdict[q]
        /\ \A s \in Stories \ disturbed'[q] :
             s \notin disturbed[q] /\ sidecar'[s] = sidecar[s] /\ definition'[s] = definition[s]
    BY <1>0, <1>2, OthersRely
  <2> QED  BY <1>0, <2>1, <2>2, ResultKept
<1>3. ASSUME NEW q \in Runs,
             \/ \E s \in Stories, v \in Definitions : EditDefinition(s, v)
             \/ \E s \in Stories, c \in Sidecars : EditSidecar(s, c)
             \/ UNCHANGED vars
      PROVE  ResultAt(q)'
  <2>1. UNCHANGED <<pc, cursor, planned, observed, updated, verdict>>
    BY <1>3 DEF EditDefinition, EditSidecar, Edit, vars, progress
  <2>2. \A s \in Stories \ disturbed'[q] :
          s \notin disturbed[q] /\ sidecar'[s] = sidecar[s] /\ definition'[s] = definition[s]
    <3>0. /\ definition \in [Stories -> Definitions] /\ sidecar \in [Stories -> Sidecars]
      BY <1>0 DEF TypeOK
    <3>1. ASSUME NEW x \in Stories, NEW v \in Definitions, EditDefinition(x, v)
          PROVE  /\ disturbed'[q] = disturbed[q] \cup {x} /\ UNCHANGED sidecar
                 /\ definition' = [definition EXCEPT ![x] = v]
      BY <3>1 DEF EditDefinition, Edit
    <3>2. ASSUME NEW x \in Stories, NEW c \in Sidecars, EditSidecar(x, c)
          PROVE  /\ disturbed'[q] = disturbed[q] \cup {x} /\ UNCHANGED definition
                 /\ sidecar' = [sidecar EXCEPT ![x] = c]
      BY <3>2 DEF EditSidecar, Edit
    <3>3. UNCHANGED vars => UNCHANGED <<definition, sidecar, disturbed>>
      BY DEF vars, files, history
    <3>4. CASE \E x \in Stories, v \in Definitions : EditDefinition(x, v)
      BY <3>0, <3>1, <3>4
    <3>5. CASE \E x \in Stories, c \in Sidecars : EditSidecar(x, c)
      BY <3>0, <3>2, <3>5
    <3> QED  BY <1>3, <3>3, <3>4, <3>5
  <2> QED  BY <1>0, <2>1, <2>2, ResultKept
<1>4. \/ \E r \in Runs : Step(r) \/ Crash(r)
      \/ \E s \in Stories, v \in Definitions : EditDefinition(s, v)
      \/ \E s \in Stories, c \in Sidecars : EditSidecar(s, c)
      \/ UNCHANGED vars
  BY DEF Next
<1> QED  BY <1>1, <1>2, <1>3, <1>4, Zenon DEF ResultInv

\* A run that has not begun has no verdict, and nothing it could rest on.
LEMMA InitResult == Init => ResultInv
<1> SUFFICES ASSUME Init, NEW r \in Runs PROVE ResultAt(r)
  BY DEF ResultInv
<1>0. /\ pc[r] = "start" /\ cursor[r] = 1 /\ verdict[r] = "none"
      /\ planned[r] = <<>> /\ updated[r] = <<>>
      /\ observed[r] = [definition |-> definition, sidecar |-> sidecar]
  BY DEF Init
<1>1. VerdictAt(r)
  BY <1>0 DEF VerdictAt
<1>2. FreshAt(r)
  BY <1>0, NoElements DEF FreshAt
<1>3. StaleAt(r)
  BY <1>0, NoElements DEF StaleAt, OverPlan, Judged
<1>4. OrderAt(r)
  <2>1. /\ Len(updated[r]) = 0 /\ Len(updated[r]) <= Len(planned[r])
        /\ \A i \in 1..Len(updated[r]) : updated[r][i] = planned[r][i]
    BY <1>0, NoElements
  <2> QED  BY <1>0, <2>1, Zenon DEF OrderAt
<1> QED  BY <1>1, <1>2, <1>3, <1>4 DEF ResultAt

\* A successful run has replaced all it planned, and all that was stale.
LEMMA SuccessHolds ==
  ASSUME TypeOK, ResultInv
  PROVE  SuccessMeansFresh
<1> SUFFICES ASSUME NEW r \in Runs, verdict[r] = "success",
                    NEW s \in Stories \ disturbed[r],
                    sidecar[s].kind = "valid", definition[s] # None
             PROVE  sidecar[s].digest = definition[s]
  BY DEF SuccessMeansFresh
<1>1. pc[r] \notin Running /\ Judged(r) /\ FreshAt(r) /\ StaleAt(r) /\ OrderAt(r)
  BY DEF ResultInv, ResultAt, VerdictAt, Judged
<1>2. DefinitionsRead(r) = Stories /\ SidecarsRead(r) = Stories
  BY <1>1 DEF DefinitionsRead, SidecarsRead, Running, Points, Terminal
<1>3. /\ observed[r].definition[s] = definition[s]
      /\ sidecar[s] = IF s \in Range(updated[r]) THEN Rewritten(r, s)
                                                ELSE observed[r].sidecar[s]
  BY <1>1, <1>2 DEF FreshAt
<1>4. CASE s \in Range(updated[r])
  <2>1. observed[r].sidecar[s] \in Sidecars
    BY DEF TypeOK
  <2>2. Rewritten(r, s).digest = observed[r].definition[s]
    BY <2>1 DEF Rewritten, Sidecars
  <2> QED  BY <1>3, <1>4, <2>2
<1>5. CASE s \notin Range(updated[r])
  <2>1. Range(updated[r]) = Range(planned[r])
    <3>1. /\ Len(updated[r]) = Len(planned[r])
          /\ \A i \in 1..Len(updated[r]) : updated[r][i] = planned[r][i]
      BY <1>1 DEF OrderAt
    <3>2. updated[r] \in Seq(Stories) /\ planned[r] \in Seq(Stories)
      BY DEF TypeOK
    <3>3. /\ Range(updated[r]) = {updated[r][i] : i \in 1..Len(updated[r])}
          /\ Range(planned[r]) = {planned[r][i] : i \in 1..Len(planned[r])}
      BY <3>2, RangeOfStories
    <3> QED  BY <3>1, <3>3
  <2>2. ~Stale(r, s)
    BY <1>1, <1>5, <2>1 DEF StaleAt
  <2> QED  BY <1>3, <1>5, <2>2 DEF Stale
<1> QED  BY <1>4, <1>5

\* What a run with a failed rename names has fresh digests, and the rest of its
\* plan the stale ones it has read.
LEMMA PartialHolds ==
  ASSUME TypeOK, ResultInv
  PROVE  PartialRewriteIsNamed
<1> SUFFICES ASSUME NEW r \in Runs, verdict[r] = "rename failed"
             PROVE  /\ updated[r] # planned[r] /\ IsPrefix(updated[r], planned[r])
                    /\ \A s \in Range(planned[r]) \ disturbed[r] :
                         s \in Range(updated[r]) <=> sidecar[s].digest = definition[s]
  BY DEF PartialRewriteIsNamed
<1>0. updated[r] \in Seq(Stories) /\ planned[r] \in Seq(Stories)
  BY DEF TypeOK
<1>1. pc[r] \notin Running /\ Judged(r) /\ FreshAt(r) /\ StaleAt(r) /\ OrderAt(r)
  BY DEF ResultInv, ResultAt, VerdictAt, Judged
<1>2. DefinitionsRead(r) = Stories /\ SidecarsRead(r) = Stories
  BY <1>1 DEF DefinitionsRead, SidecarsRead, Running, Points, Terminal
<1>3. /\ Len(updated[r]) < Len(planned[r]) /\ Len(updated[r]) <= Len(planned[r])
      /\ \A i \in 1..Len(updated[r]) : updated[r][i] = planned[r][i]
  BY <1>1 DEF OrderAt
<1>4. updated[r] # planned[r] /\ IsPrefix(updated[r], planned[r])
  BY <1>0, <1>3, ProperPrefix
<1>6. ASSUME NEW s \in Range(planned[r]) \ disturbed[r]
      PROVE  s \in Range(updated[r]) <=> sidecar[s].digest = definition[s]
  <2>1. s \in Stories
    BY <1>0, RangeOfStories
  <2>2. /\ observed[r].definition[s] = definition[s]
        /\ sidecar[s] = IF s \in Range(updated[r]) THEN Rewritten(r, s)
                                                  ELSE observed[r].sidecar[s]
    BY <1>1, <1>2, <1>6, <2>1 DEF FreshAt
  <2>3. Stale(r, s)
    BY <1>1, <1>6 DEF StaleAt
  <2>4. Rewritten(r, s).digest = observed[r].definition[s]
    <3>1. observed \in [Runs -> [definition : [Stories -> Definitions],
                                 sidecar : [Stories -> Sidecars]]]
      BY DEF TypeOK
    <3>2. observed[r].sidecar[s] \in Sidecars
      BY <2>1, <3>1
    <3> QED  BY <3>2 DEF Rewritten, Sidecars
  <2> QED  BY <2>2, <2>3, <2>4 DEF Stale
<1> QED  BY <1>4, <1>6

-----------------------------------------------------------------------------
(* The theorems.                                                           *)

\* The inductive invariant holds in every state of any number of runs of
\* readiness-digests, with anybody else editing the same batch.
THEOREM RunInvariance == Spec => []IInv
<1>1. Init => IInv
  BY InitSafety
<1>2. IInv /\ [Next]_vars => IInv'
  BY SafetyStep
<1> QED  BY <1>1, <1>2, PTL DEF Spec

\* Every variable of the runs keeps its type.
THEOREM RunTypes == Spec => []TypeOK
<1>1. IInv => TypeOK
  BY DEF IInv
<1> QED  BY <1>1, RunInvariance, PTL

\* What somebody else writes into a readiness.json is still there, its digests
\* apart, unless they wrote it between the re-check of
\* runReviewReadinessDigests and its rename.
THEOREM ChangesSurvive == Spec => []EditsSurvive
<1>1. IInv => EditsSurvive
  BY DEF IInv
<1> QED  BY <1>1, RunInvariance, PTL

\* What the verdicts rest on, too, holds in every state.
THEOREM ResultInvariance == Spec => []ResultInv
<1>1. Init => ResultInv
  BY InitResult
<1>2. IInv /\ ResultInv /\ [Next]_vars => ResultInv'
  BY ResultStep
<1> QED  BY <1>1, <1>2, RunInvariance, PTL DEF Spec

\* When runReviewReadinessDigests reports success, every readiness.json that
\* nobody else has changed in the meantime has the digest of its definition.
THEOREM SuccessIsFresh == Spec => []SuccessMeansFresh
<1>1. TypeOK /\ ResultInv => SuccessMeansFresh
  BY SuccessHolds
<1> QED  BY <1>1, RunTypes, ResultInvariance, PTL

\* When a rename fails, what runReviewReadinessDigests lists as updated is what
\* it has replaced: a proper prefix of the plan, and the only part of it that is
\* fresh.
THEOREM PartialIsNamed == Spec => []PartialRewriteIsNamed
<1>1. TypeOK /\ ResultInv => PartialRewriteIsNamed
  BY PartialHolds
<1> QED  BY <1>1, RunTypes, ResultInvariance, PTL
=============================================================================
