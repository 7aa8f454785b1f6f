---------------------------- MODULE InitSafetyProofs ----------------------------
(***************************************************************************)
(* The safety of InitMutation for every set of payloads, directories and     *)
(* contents, every number of faults and every number of edits: lemmas about  *)
(* its operators and its types, then the proof that the inductive invariant  *)
(* of InitInvariant holds in every reachable state, and on top of it the one *)
(* of InitVerdict: the verdict is right in every reachable state; and, as    *)
(* long as nobody else edits, every step of the execution is one of          *)
(* AdoptionMarker or leaves it alone.                                        *)
(***************************************************************************)
EXTENDS InitVerdict, TLAPS

USE DEF Modes, FileKinds, DirKinds, Planning, Preparing, Mutating, Terminal

\* A plan's effects are destinations.
LEMMA EffectsType ==
  ASSUME NEW m \in Modes, NEW files \in [Paths -> FileKinds]
  PROVE  PlanEffects(m, files) \in Seq(Paths)
<1>1. FreshPayloads \in Seq(Paths) /\ UpgradePayloads \in Seq(Paths)
  BY PayloadOrder DEF Paths, Payloads
<1>2. <<LegacyMarker, Marker>> \in Seq(Paths) /\ <<Marker>> \in Seq(Paths)
  BY DEF Paths
<1> QED  BY <1>1, <1>2 DEF PlanEffects, ActivePayloads

\* An execution starts with well-typed variables.
LEMMA InitType == Init => TypeOK
<1> SUFFICES ASSUME Init PROVE TypeOK
  OBVIOUS
<1> USE DEF Init
<1>1. disk \in [Paths -> FileKinds] /\ theirs \in [Paths -> FileKinds]
  OBVIOUS
<1>2. dirs \in [Directories -> DirKinds]
  OBVIOUS
<1>3. stage \in [Paths -> Stages]
  BY DEF Stages, NoStage
<1>4. pre \in [files : [Paths -> FileKinds], dirs : [Directories -> DirKinds]]
  BY <1>1, <1>2
<1>5. touched \in [Paths -> {"never", "early", "late"}]
  OBVIOUS
<1>6. failure \in Failures
  BY DEF NoFailure, Failures
<1>7. /\ effects \in Seq(Paths) /\ created \in Seq(Directories) /\ staged \in Seq(Paths)
      /\ prepared \in Seq(Paths) /\ attempted \in Seq(Paths) /\ applied \in Seq(Paths)
      /\ recoveryAttempted \in Seq(Paths)
  OBVIOUS
<1>8. mode \in Modes /\ pc \in Planning \cup Preparing \cup Mutating \cup Terminal
  OBVIOUS
<1>9. /\ restored \subseteq Paths /\ unrecovered \subseteq Paths
      /\ invalidated \subseteq {Marker} /\ invalidationFailed \subseteq {Marker}
      /\ stageResidue \subseteq Paths /\ dirResidue \subseteq Directories
  OBVIOUS
<1>10. /\ mismatched \in BOOLEAN /\ committed \in BOOLEAN /\ interrupted \in BOOLEAN
       /\ cursor \in Nat /\ faults \in Nat /\ edits \in Nat
       /\ outcome \in Outcomes \cup {"none"}
  OBVIOUS
<1> QED  BY <1>1, <1>2, <1>3, <1>4, <1>5, <1>6, <1>7, <1>8, <1>9, <1>10 DEF TypeOK

\* The name of the outcome is one that is documented.
LEMMA OutcomeType ==
  ASSUME NEW e, NEW o
  PROVE  EvaluateInitMutation(e, o) \in Outcomes
BY DEF EvaluateInitMutation, Outcomes

\* What the plan refuses with is a documented outcome too.
LEMMA PlanOutcomeType ==
  ASSUME NEW m \in Modes, NEW f, NEW d, PlanOutcome(m, f, d) # "INIT_PREVIEW"
  PROVE  PlanOutcome(m, f, d) \in Outcomes
BY DEF PlanOutcome, Outcomes

\* Every failure the executor reports is one that is documented.
LEMMA FailureType ==
  /\ NoFailure \in Failures
  /\ Failure("precondition", "INIT_STALE_PLAN") \in Failures
  /\ Failure("precondition", "INIT_STAGE_COLLISION") \in Failures
  /\ Failure("precondition", "INIT_PAYLOAD_INVALID") \in Failures
  /\ Failure("prepare", "INIT_PREPARATION_FAILED") \in Failures
  /\ Failure("prepare", "INIT_INTERRUPTED") \in Failures
  /\ Failure("prepare", "INIT_RECOVERY_CLEANUP_FAILED") \in Failures
  /\ Failure("apply", "INIT_INTERRUPTED") \in Failures
  /\ Failure("apply", "INIT_REPLACEMENT_FAILED") \in Failures
  /\ Failure("recovery", "INIT_RESTORE_FAILED") \in Failures
  /\ Failure("recovery", "INIT_RECOVERY_CLEANUP_FAILED") \in Failures
  /\ Failure("cleanup", "INIT_CLEANUP_FAILED") \in Failures
BY DEF NoFailure, Failure, Failures

\* The loops over directories visit managed directories.
LEMMA ActiveDirectoryType ==
  ASSUME NEW i \in 1..Len(ActiveDirectories(mode))
  PROVE  ActiveDirectories(mode)[i] \in Directories
<1>1. ActiveDirectories(mode) \in Seq(Directories)
  BY DirectoryOrder DEF ActiveDirectories, Directories
<1> QED  BY <1>1

\* The cleanup starts at an index.
LEMMA CleanFromType ==
  ASSUME staged \in Seq(Paths)
  PROVE  CleanFrom \in Nat
BY DEF CleanFrom

\* What a sequence over a set holds.
LEMMA ElementType ==
  ASSUME NEW S, NEW s \in Seq(S), NEW i \in Nat, i >= 1, i <= Len(s)
  PROVE  s[i] \in S
OBVIOUS

\* What is appended to a sequence over a set.
LEMMA AppendType ==
  ASSUME NEW S, NEW s \in Seq(S), NEW x \in S
  PROVE  Append(s, x) \in Seq(S)
OBVIOUS

\* Every step keeps the type invariant; the loops' indices matter for that.
LEMMA TypeStep ==
  ASSUME TypeOK, IndexInv, [Next]_vars
  PROVE  TypeOK'
<1> USE DEF filesystem, plan, progress, recovery, residue, verdict, history
<1>m. mode \in Modes
  BY DEF TypeOK
<1>k. disk \in [Paths -> FileKinds] /\ theirs \in [Paths -> FileKinds]
  BY DEF TypeOK
<1>d. dirs \in [Directories -> DirKinds]
  BY DEF TypeOK
<1>s. stage \in [Paths -> Stages]
  BY DEF TypeOK
<1>p. pre.files \in [Paths -> FileKinds]
  BY DEF TypeOK
<1>e. effects \in Seq(Paths) /\ prepared \in Seq(Paths)
  BY DEF TypeOK
<1>a. attempted \in Seq(Paths) /\ applied \in Seq(Paths) /\ recoveryAttempted \in Seq(Paths)
  BY DEF TypeOK
<1>c. created \in Seq(Directories) /\ staged \in Seq(Paths)
  BY DEF TypeOK
<1>n. cursor \in Nat /\ faults \in Nat /\ edits \in Nat
  BY DEF TypeOK
<1>f. failure \in Failures
  BY DEF TypeOK
<1>b. mismatched \in BOOLEAN /\ committed \in BOOLEAN
  BY DEF TypeOK
<1>r. /\ restored \subseteq Paths /\ unrecovered \subseteq Paths
      /\ stageResidue \subseteq Paths /\ dirResidue \subseteq Directories
  BY DEF TypeOK
<1>t. touched \in [Paths -> {"never", "early", "late"}]
  BY DEF TypeOK
<1>x. CleanFrom \in Nat
  BY <1>c, CleanFromType
<1>y. Marker \in Paths
  BY DEF Paths
<1>1. CASE Plan
  <2>p1. PlanEffects(mode, disk) \in Seq(Paths)
    BY <1>m, <1>k, EffectsType
  <2>s1. effects' \in {effects, PlanEffects(mode, disk)}
    BY <1>1 DEF Plan
  <2>1. effects' \in Seq(Paths)
    BY <2>s1, <1>e, <2>p1
  <2>2. outcome' \in Outcomes \cup {"none"}
    BY <1>1, TypeOK, PlanOutcomeType, <1>m DEF Plan, TypeOK
  <2>3. pc' \in {"validate", "done"}
    BY <1>1 DEF Plan
  <2>4. pre' = [files |-> disk, dirs |-> dirs]
    BY <1>1 DEF Plan
  <2>u. UNCHANGED <<filesystem, mode, cursor, created, staged, progress, recovery,
                 residue, mismatched, committed, failure, interrupted, faults,
                 history>>
    BY <1>1 DEF Plan
  <2> QED  BY <2>1, <2>2, <2>3, <2>4, <2>u DEF TypeOK
<1>2. CASE Validate
  <2>s1. failure' \in {failure, Failure("precondition", "INIT_STALE_PLAN"), Failure("precondition", "INIT_PAYLOAD_INVALID"), Failure("precondition", "INIT_STAGE_COLLISION")}
    BY <1>2 DEF Validate
  <2>1. failure' \in Failures
    BY <2>s1, <1>f, FailureType
  <2>s2. mismatched' \in {mismatched, TRUE}
    BY <1>2 DEF Validate
  <2>2. mismatched' \in BOOLEAN
    BY <2>s2, <1>b
  <2>s3. cursor' \in {cursor, 1}
    BY <1>2 DEF Validate
  <2>3. cursor' \in Nat
    BY <2>s3, <1>n
  <2>4. pc' \in {"finish", "directories"}
    BY <1>2 DEF Validate
  <2>u. UNCHANGED <<filesystem, plan, created, staged, progress, recovery, residue,
                 committed, outcome, interrupted, faults, history>>
    BY <1>2 DEF Validate
  <2> QED  BY <2>1, <2>2, <2>3, <2>4, <2>u DEF TypeOK
<1>3. CASE MakeDirectory
  <2>p1. ActiveDirectories(mode)[cursor] \in Directories
    BY <1>3, <1>n, ActiveDirectoryType DEF MakeDirectory, IndexInv
  <2>s1. \/ dirs' = dirs
        \/ dirs' = [dirs EXCEPT ![ActiveDirectories(mode)[cursor]] = "ours"]
    BY <1>3 DEF MakeDirectory
  <2>1. dirs' \in [Directories -> DirKinds]
    BY <2>s1, <1>d, <2>p1
  <2>s2. created' \in {created, Append(created, ActiveDirectories(mode)[cursor])}
    BY <1>3 DEF MakeDirectory
  <2>2. created' \in Seq(Directories)
    BY <2>s2, <1>c, <2>p1
  <2>s3. faults' \in {faults, faults + 1}
    BY <1>3 DEF MakeDirectory, Operation
  <2>3. faults' \in Nat
    BY <2>s3, <1>n
  <2>s4. cursor' \in {cursor + 1, CleanFrom}
    BY <1>3 DEF MakeDirectory, PrepareFailed
  <2>4. cursor' \in Nat
    BY <2>s4, <1>n, <1>x
  <2>5. pc' \in {"directories", "clean stages"}
    BY <1>3 DEF MakeDirectory, PrepareFailed
  <2>s6. failure' \in {failure, Failure("prepare", "INIT_PREPARATION_FAILED")}
    BY <1>3 DEF MakeDirectory, PrepareFailed
  <2>6. failure' \in Failures
    BY <2>s6, <1>f, FailureType
  <2>u. UNCHANGED <<disk, stage, plan, staged, progress, recovery, residue,
                 mismatched, committed, outcome, interrupted, history>>
    BY <1>3 DEF MakeDirectory
  <2> QED  BY <2>1, <2>2, <2>3, <2>4, <2>5, <2>6, <2>u DEF TypeOK
<1>4. CASE DirectoriesMade
  <2>1. pc' \in {"make stage"}
    BY <1>4 DEF DirectoriesMade
  <2>u. UNCHANGED <<filesystem, plan, cursor, created, staged, progress, recovery,
                 residue, verdict, interrupted, faults, history>>
    BY <1>4 DEF DirectoriesMade
  <2> QED  BY <2>1, <2>u DEF TypeOK
<1>5. CASE MakeStage
  <2>p1. Current \in Paths
    <3>1. Len(prepared) < Len(effects)
      BY <1>5 DEF MakeStage
    <3>3. Len(prepared) + 1 \in Nat /\ Len(prepared) + 1 >= 1 /\ Len(prepared) + 1 <= Len(effects)
      BY <3>1, <1>e
    <3> QED  BY <3>3, <1>e, ElementType DEF Current
  <2>p2. NewStage \in Stages
    BY DEF NewStage, Stages
  <2>s1. stage' = stage \/ stage' = [stage EXCEPT ![Current] = NewStage]
    BY <1>5 DEF MakeStage
  <2>1. stage' \in [Paths -> Stages]
    BY <2>s1, <1>s, <2>p1, <2>p2
  <2>s2. staged' \in {staged, Append(staged, Current)}
    BY <1>5 DEF MakeStage
  <2>2. staged' \in Seq(Paths)
    BY <2>s2, <1>c, <2>p1
  <2>s3. faults' \in {faults, faults + 1}
    BY <1>5 DEF MakeStage, Operation
  <2>3. faults' \in Nat
    BY <2>s3, <1>n
  <2>s4. cursor' \in {cursor, CleanFrom}
    BY <1>5 DEF MakeStage, PrepareFailed
  <2>4. cursor' \in Nat
    BY <2>s4, <1>n, <1>x
  <2>5. pc' \in {"copy original", "clean stages"}
    BY <1>5 DEF MakeStage, PrepareFailed
  <2>s6. failure' \in {failure, Failure("prepare", "INIT_PREPARATION_FAILED")}
    BY <1>5 DEF MakeStage, PrepareFailed
  <2>6. failure' \in Failures
    BY <2>s6, <1>f, FailureType
  <2>u. UNCHANGED <<disk, dirs, plan, created, progress, recovery, residue,
                 mismatched, committed, outcome, interrupted, history>>
    BY <1>5 DEF MakeStage
  <2> QED  BY <2>1, <2>2, <2>3, <2>4, <2>5, <2>6, <2>u DEF TypeOK
<1>6. CASE CopyOriginal
  <2>p1. Current \in Paths
    <3>1. pc = "copy original"
      BY <1>6 DEF CopyOriginal
    <3>2. Len(prepared) < Len(effects)
      BY <3>1 DEF IndexInv
    <3>3. Len(prepared) + 1 \in Nat /\ Len(prepared) + 1 >= 1 /\ Len(prepared) + 1 <= Len(effects)
      BY <3>2, <1>e
    <3> QED  BY <3>3, <1>e, ElementType DEF Current
  <2>s1. stage' = stage \/ stage' = [stage EXCEPT ![Current].original = disk[Current]]
    BY <1>6 DEF CopyOriginal, BackUp
  <2>1. stage' \in [Paths -> Stages]
    BY <2>s1, <1>s, <1>k, <2>p1 DEF Stages
  <2>2. disk' = disk
    BY <1>6 DEF CopyOriginal, BackUp
  <2>s3. faults' \in {faults, faults + 1}
    BY <1>6 DEF CopyOriginal, Operation
  <2>3. faults' \in Nat
    BY <2>s3, <1>n
  <2>s4. cursor' \in {cursor, CleanFrom}
    BY <1>6 DEF CopyOriginal, PrepareFailed
  <2>4. cursor' \in Nat
    BY <2>s4, <1>n, <1>x
  <2>5. pc' \in {"write new", "clean stages"}
    BY <1>6 DEF CopyOriginal, PrepareFailed
  <2>s6. failure' \in {failure, Failure("prepare", "INIT_PREPARATION_FAILED")}
    BY <1>6 DEF CopyOriginal, PrepareFailed
  <2>6. failure' \in Failures
    BY <2>s6, <1>f, FailureType
  <2>u. UNCHANGED <<dirs, plan, created, staged, progress, recovery, residue,
                 mismatched, committed, outcome, interrupted, history>>
    BY <1>6 DEF CopyOriginal
  <2> QED  BY <2>1, <2>2, <2>3, <2>4, <2>5, <2>6, <2>u DEF TypeOK
<1>7. CASE WriteNew
  <2>p1. Current \in Paths
    <3>1. pc = "write new"
      BY <1>7 DEF WriteNew
    <3>2. Len(prepared) < Len(effects)
      BY <3>1 DEF IndexInv
    <3>3. Len(prepared) + 1 \in Nat /\ Len(prepared) + 1 >= 1 /\ Len(prepared) + 1 <= Len(effects)
      BY <3>2, <1>e
    <3> QED  BY <3>3, <1>e, ElementType DEF Current
  <2>s1. stage' = stage \/ stage' = [stage EXCEPT ![Current].new = TRUE]
    BY <1>7 DEF WriteNew
  <2>1. stage' \in [Paths -> Stages]
    BY <2>s1, <1>s, <2>p1 DEF Stages
  <2>s2. prepared' \in {prepared, Append(prepared, Current)}
    BY <1>7 DEF WriteNew
  <2>2. prepared' \in Seq(Paths)
    BY <2>s2, <1>e, <2>p1
  <2>s3. faults' \in {faults, faults + 1}
    BY <1>7 DEF WriteNew, Operation
  <2>3. faults' \in Nat
    BY <2>s3, <1>n
  <2>s4. cursor' \in {cursor, CleanFrom}
    BY <1>7 DEF WriteNew, PrepareFailed
  <2>4. cursor' \in Nat
    BY <2>s4, <1>n, <1>x
  <2>5. pc' \in {"make stage", "clean stages"}
    BY <1>7 DEF WriteNew, PrepareFailed
  <2>s6. failure' \in {failure, Failure("prepare", "INIT_PREPARATION_FAILED")}
    BY <1>7 DEF WriteNew, PrepareFailed
  <2>6. failure' \in Failures
    BY <2>s6, <1>f, FailureType
  <2>u. UNCHANGED <<disk, dirs, plan, created, staged, attempted, applied, recovery,
                 residue, mismatched, committed, outcome, interrupted, history>>
    BY <1>7 DEF WriteNew
  <2> QED  BY <2>1, <2>2, <2>3, <2>4, <2>5, <2>6, <2>u DEF TypeOK
<1>8. CASE AllPrepared
  <2>1. pc' \in {"recapture"}
    BY <1>8 DEF AllPrepared
  <2>u. UNCHANGED <<filesystem, plan, cursor, created, staged, progress, recovery,
                 residue, verdict, interrupted, faults, history>>
    BY <1>8 DEF AllPrepared
  <2> QED  BY <2>1, <2>u DEF TypeOK
<1>9. CASE Recapture
  <2>s1. failure' \in {failure, Failure("precondition", "INIT_STALE_PLAN")}
    BY <1>9 DEF Recapture, PrepareFailed
  <2>1. failure' \in Failures
    BY <2>s1, <1>f, FailureType
  <2>s2. mismatched' \in {mismatched, TRUE}
    BY <1>9 DEF Recapture
  <2>2. mismatched' \in BOOLEAN
    BY <2>s2, <1>b
  <2>s3. cursor' \in {cursor, CleanFrom}
    BY <1>9 DEF Recapture, PrepareFailed
  <2>3. cursor' \in Nat
    BY <2>s3, <1>n, <1>x
  <2>4. pc' \in {"poll", "clean stages"}
    BY <1>9 DEF Recapture, PrepareFailed
  <2>u. UNCHANGED <<filesystem, plan, created, staged, progress, recovery, residue,
                 committed, outcome, interrupted, faults, history>>
    BY <1>9 DEF Recapture
  <2> QED  BY <2>1, <2>2, <2>3, <2>4, <2>u DEF TypeOK
<1>10. CASE PollBeforeApply
  <2>s1. failure' \in {failure, Failure("prepare", "INIT_INTERRUPTED")}
    BY <1>10 DEF PollBeforeApply, PrepareFailed
  <2>1. failure' \in Failures
    BY <2>s1, <1>f, FailureType
  <2>s2. cursor' \in {cursor, CleanFrom}
    BY <1>10 DEF PollBeforeApply, PrepareFailed
  <2>2. cursor' \in Nat
    BY <2>s2, <1>n, <1>x
  <2>3. pc' \in {"apply", "clean stages"}
    BY <1>10 DEF PollBeforeApply, PrepareFailed
  <2>u. UNCHANGED <<filesystem, plan, created, staged, progress, recovery, residue,
                 mismatched, committed, outcome, interrupted, faults, history>>
    BY <1>10 DEF PollBeforeApply
  <2> QED  BY <2>1, <2>2, <2>3, <2>u DEF TypeOK
<1>11. CASE ApplyEffect
  <2>p1. effects[Len(attempted) + 1] \in Paths
    <3>1. Len(attempted) < Len(effects)
      BY <1>11 DEF ApplyEffect
    <3>3. Len(attempted) + 1 \in Nat /\ Len(attempted) + 1 >= 1 /\ Len(attempted) + 1 <= Len(effects)
      BY <3>1, <1>e, <1>a
    <3> QED  BY <3>3, <1>e, <1>a, ElementType
  <2>p2. Target(effects[Len(attempted) + 1]) \in FileKinds
    BY ContentAssumption DEF Target
  <2>s1. disk' = disk \/ disk' = [disk EXCEPT ![effects[Len(attempted) + 1]] = Target(effects[Len(attempted) + 1])]
    BY <1>11 DEF ApplyEffect
  <2>1. disk' \in [Paths -> FileKinds]
    BY <2>s1, <1>k, <2>p1, <2>p2
  <2>s2. stage' = stage \/ stage' = [stage EXCEPT ![effects[Len(attempted) + 1]].new = FALSE]
    BY <1>11 DEF ApplyEffect
  <2>2. stage' \in [Paths -> Stages]
    BY <2>s2, <1>s, <2>p1 DEF Stages
  <2>s3. attempted' = Append(attempted, effects[Len(attempted) + 1])
    BY <1>11 DEF ApplyEffect
  <2>3. attempted' \in Seq(Paths)
    BY <2>s3, <1>a, <2>p1
  <2>s4. applied' \in {applied, Append(applied, effects[Len(attempted) + 1])}
    BY <1>11 DEF ApplyEffect
  <2>4. applied' \in Seq(Paths)
    BY <2>s4, <1>a, <2>p1, AppendType
  <2>s5. committed' = (Len(attempted) + 1 = Len(effects)) \/ committed' = committed
    BY <1>11 DEF ApplyEffect
  <2>5. committed' \in BOOLEAN
    BY <2>s5, <1>b
  <2>s6. faults' \in {faults, faults + 1}
    BY <1>11 DEF ApplyEffect, Operation
  <2>6. faults' \in Nat
    BY <2>s6, <1>n
  <2>s7. cursor' \in {cursor, CleanFrom}
    BY <1>11 DEF ApplyEffect, PrepareFailed
  <2>7. cursor' \in Nat
    BY <2>s7, <1>n, <1>x
  <2>8. pc' \in {"apply", "clean stages", "recover"}
    BY <1>11 DEF ApplyEffect, PrepareFailed
  <2>s9. failure' \in {failure, Failure("apply", "INIT_INTERRUPTED"), Failure("apply", "INIT_REPLACEMENT_FAILED")}
    BY <1>11 DEF ApplyEffect, PrepareFailed
  <2>9. failure' \in Failures
    BY <2>s9, <1>f, FailureType
  <2>u. UNCHANGED <<dirs, plan, created, staged, prepared, recovery, residue,
                 mismatched, outcome, interrupted, history>>
    BY <1>11 DEF ApplyEffect
  <2> QED  BY <2>1, <2>2, <2>3, <2>4, <2>5, <2>6, <2>7, <2>8, <2>9, <2>u DEF TypeOK
<1>12. CASE RecoverEffect
  <2>p1. attempted[Len(attempted) - Len(recoveryAttempted)] \in Paths
    BY <1>12, <1>a DEF RecoverEffect, Recovered, IndexInv
  <2>p2. Restoration(attempted[Len(attempted) - Len(recoveryAttempted)]) \in FileKinds
    BY <1>s, <1>p, <2>p1 DEF Restoration, Stages
  <2>s1. disk' = disk \/ disk' = [disk EXCEPT ![attempted[Len(attempted) - Len(recoveryAttempted)]] = Restoration(attempted[Len(attempted) - Len(recoveryAttempted)])]
    BY <1>12 DEF RecoverEffect
  <2>1. disk' \in [Paths -> FileKinds]
    BY <2>s1, <1>k, <2>p1, <2>p2
  <2>s2. recoveryAttempted' = Append(recoveryAttempted, attempted[Len(attempted) - Len(recoveryAttempted)])
    BY <1>12 DEF RecoverEffect
  <2>2. recoveryAttempted' \in Seq(Paths)
    BY <2>s2, <1>a, <2>p1
  <2>s3. restored' \in {restored, restored \cup {attempted[Len(attempted) - Len(recoveryAttempted)]}}
    BY <1>12 DEF RecoverEffect
  <2>3. restored' \subseteq Paths
    BY <2>s3, <1>r, <2>p1
  <2>s4. unrecovered' \in {unrecovered, unrecovered \cup {attempted[Len(attempted) - Len(recoveryAttempted)]}}
    BY <1>12 DEF RecoverEffect
  <2>4. unrecovered' \subseteq Paths
    BY <2>s4, <1>r, <2>p1
  <2>s5. faults' \in {faults, faults + 1}
    BY <1>12 DEF RecoverEffect, Operation
  <2>5. faults' \in Nat
    BY <2>s5, <1>n
  <2>6. pc' \in {"recover", "invalidate"}
    BY <1>12 DEF RecoverEffect
  <2>u. UNCHANGED <<dirs, stage, plan, cursor, created, staged, progress,
                 invalidated, invalidationFailed, residue, verdict, interrupted,
                 history>>
    BY <1>12 DEF RecoverEffect
  <2> QED  BY <2>1, <2>2, <2>3, <2>4, <2>5, <2>6, <2>u DEF TypeOK
<1>13. CASE Invalidate
  <2>s1. disk' = disk \/ disk' = [disk EXCEPT ![Marker] = "missing"]
    BY <1>13 DEF Invalidate
  <2>1. disk' \in [Paths -> FileKinds]
    BY <2>s1, <1>k, <1>y
  <2>s2. invalidated' \in {invalidated, {Marker}}
    BY <1>13 DEF Invalidate
  <2>2. invalidated' \subseteq {Marker}
    BY <2>s2, TypeOK DEF TypeOK
  <2>s3. invalidationFailed' \in {invalidationFailed, {Marker}}
    BY <1>13 DEF Invalidate
  <2>3. invalidationFailed' \subseteq {Marker}
    BY <2>s3, TypeOK DEF TypeOK
  <2>s4. faults' \in {faults, faults + 1}
    BY <1>13 DEF Invalidate, Operation
  <2>4. faults' \in Nat
    BY <2>s4, <1>n
  <2>5. pc' \in {"recover"}
    BY <1>13 DEF Invalidate
  <2>u. UNCHANGED <<dirs, stage, plan, cursor, created, staged, progress,
                 recoveryAttempted, restored, unrecovered, residue, verdict,
                 interrupted, history>>
    BY <1>13 DEF Invalidate
  <2> QED  BY <2>1, <2>2, <2>3, <2>4, <2>5, <2>u DEF TypeOK
<1>14. CASE RecoveryEnds
  <2>s1. failure' \in {failure, Failure("recovery", "INIT_RESTORE_FAILED")}
    BY <1>14 DEF RecoveryEnds, PrepareFailed
  <2>1. failure' \in Failures
    BY <2>s1, <1>f, FailureType
  <2>s2. cursor' \in {cursor, CleanFrom}
    BY <1>14 DEF RecoveryEnds, PrepareFailed
  <2>2. cursor' \in Nat
    BY <2>s2, <1>n, <1>x
  <2>3. pc' \in {"clean stages", "invalidate", "finish"}
    BY <1>14 DEF RecoveryEnds, PrepareFailed
  <2>u. UNCHANGED <<filesystem, plan, created, staged, progress, recovery, residue,
                 mismatched, committed, outcome, interrupted, faults, history>>
    BY <1>14 DEF RecoveryEnds
  <2> QED  BY <2>1, <2>2, <2>3, <2>u DEF TypeOK
<1>15. CASE CleanStage
  <2>p1. staged[cursor] \in Paths
    <3>0. cursor > 0
      BY <1>15 DEF CleanStage
    <3>1. pc = "clean stages"
      BY <1>15 DEF CleanStage
    <3>2. cursor <= Len(staged)
      BY <3>1 DEF IndexInv
    <3>3. cursor \in Nat /\ cursor >= 1 /\ cursor <= Len(staged)
      BY <3>0, <3>2, <1>c, <1>n
    <3> QED  BY <3>3, <1>c, <1>n, ElementType
  <2>p2. NoStage \in Stages /\ PartlyCleaned(stage[staged[cursor]]) \subseteq Stages
    BY <1>s, <2>p1 DEF NoStage, PartlyCleaned, Stages
  <2>s1. \E s \in {stage[staged[cursor]], NoStage} \cup PartlyCleaned(stage[staged[cursor]]) :
          stage' = [stage EXCEPT ![staged[cursor]] = s]
    BY <1>15, <1>s, <2>p1 DEF CleanStage
  <2>1. stage' \in [Paths -> Stages]
    BY <2>s1, <1>s, <2>p1, <2>p2
  <2>s2. stageResidue' \in {stageResidue, stageResidue \cup {staged[cursor]}}
    BY <1>15 DEF CleanStage
  <2>2. stageResidue' \subseteq Paths
    BY <2>s2, <1>r, <2>p1
  <2>s3. cursor > 0 /\ cursor' = cursor - 1
    BY <1>15 DEF CleanStage
  <2>3. cursor' \in Nat
    BY <2>s3, <1>n
  <2>s4. faults' \in {faults, faults + 1}
    BY <1>15 DEF CleanStage, Operation
  <2>4. faults' \in Nat
    BY <2>s4, <1>n
  <2>5. pc' \in {"clean stages"}
    BY <1>15 DEF CleanStage, PrepareFailed
  <2>u. UNCHANGED <<disk, dirs, plan, pc, created, staged, progress, recovery,
                 dirResidue, verdict, interrupted, history>>
    BY <1>15 DEF CleanStage
  <2> QED  BY <2>1, <2>2, <2>3, <2>4, <2>5, <2>u DEF TypeOK
<1>16. CASE StagesCleaned
  <2>s1. cursor' \in {cursor, Len(created)}
    BY <1>16 DEF StagesCleaned
  <2>1. cursor' \in Nat
    BY <2>s1, <1>n, <1>c
  <2>2. pc' \in {"finish", "clean directories"}
    BY <1>16 DEF StagesCleaned
  <2>u. UNCHANGED <<filesystem, plan, created, staged, progress, recovery, residue,
                 verdict, interrupted, faults, history>>
    BY <1>16 DEF StagesCleaned
  <2> QED  BY <2>1, <2>2, <2>u DEF TypeOK
<1>17. CASE CleanDirectory
  <2>p1. created[cursor] \in Directories
    <3>0. cursor > 0
      BY <1>17 DEF CleanDirectory
    <3>1. pc = "clean directories"
      BY <1>17 DEF CleanDirectory
    <3>2. cursor <= Len(created)
      BY <3>1 DEF IndexInv
    <3>3. cursor \in Nat /\ cursor >= 1 /\ cursor <= Len(created)
      BY <3>0, <3>2, <1>c, <1>n
    <3> QED  BY <3>3, <1>c, <1>n, ElementType
  <2>s1. dirs' = dirs \/ dirs' = [dirs EXCEPT ![created[cursor]] = "missing"]
    BY <1>17 DEF CleanDirectory
  <2>1. dirs' \in [Directories -> DirKinds]
    BY <2>s1, <1>d, <2>p1
  <2>s2. dirResidue' \in {dirResidue, dirResidue \cup {created[cursor]}}
    BY <1>17 DEF CleanDirectory
  <2>2. dirResidue' \subseteq Directories
    BY <2>s2, <1>r, <2>p1
  <2>s3. cursor > 0 /\ cursor' = cursor - 1
    BY <1>17 DEF CleanDirectory
  <2>3. cursor' \in Nat
    BY <2>s3, <1>n
  <2>s4. faults' \in {faults, faults + 1}
    BY <1>17 DEF CleanDirectory, Operation
  <2>4. faults' \in Nat
    BY <2>s4, <1>n
  <2>5. pc' \in {"clean directories"}
    BY <1>17 DEF CleanDirectory
  <2>u. UNCHANGED <<disk, stage, plan, pc, created, staged, progress, recovery,
                 stageResidue, verdict, interrupted, history>>
    BY <1>17 DEF CleanDirectory
  <2> QED  BY <2>1, <2>2, <2>3, <2>4, <2>5, <2>u DEF TypeOK
<1>18. CASE DirectoriesCleaned
  <2>1. pc' \in {"finish"}
    BY <1>18 DEF DirectoriesCleaned
  <2>u. UNCHANGED <<filesystem, plan, cursor, created, staged, progress, recovery,
                 residue, verdict, interrupted, faults, history>>
    BY <1>18 DEF DirectoriesCleaned
  <2> QED  BY <2>1, <2>u DEF TypeOK
<1>19. CASE Finish
  <2>s1. failure' = ReportedFailure
    BY <1>19 DEF Finish
  <2>1. failure' \in Failures
    BY <2>s1, <1>f, FailureType DEF ReportedFailure
  <2>2. outcome' \in Outcomes \cup {"none"}
    BY <1>19, OutcomeType DEF Finish
  <2>3. pc' \in {"done"}
    BY <1>19 DEF Finish
  <2>u. UNCHANGED <<filesystem, plan, cursor, created, staged, progress, recovery,
                 residue, mismatched, committed, interrupted, faults, history>>
    BY <1>19 DEF Finish
  <2> QED  BY <2>1, <2>2, <2>3, <2>u DEF TypeOK
<1>20. CASE Signal
  <2>1. interrupted' \in BOOLEAN
    BY <1>20 DEF Signal
  <2>u. UNCHANGED <<filesystem, plan, pc, cursor, created, staged, progress,
                 recovery, residue, verdict, faults, history>>
    BY <1>20 DEF Signal
  <2> QED  BY <2>1, <2>u DEF TypeOK
<1>21. CASE Crash
  <2>1. pc' \in {"crashed"}
    BY <1>21 DEF Crash
  <2>u. UNCHANGED <<filesystem, plan, cursor, created, staged, progress, recovery,
                 residue, verdict, interrupted, faults, history>>
    BY <1>21 DEF Crash
  <2> QED  BY <2>1, <2>u DEF TypeOK
<1>22. ASSUME NEW p \in Paths, NEW c \in FileKinds, EditFile(p, c) PROVE TypeOK'
  <2>1. disk' \in [Paths -> FileKinds] /\ theirs' \in [Paths -> FileKinds]
    BY <1>22, <1>k DEF EditFile
  <2>2. touched' \in [Paths -> {"never", "early", "late"}]
    BY <1>22, <1>t DEF EditFile, Touch
  <2>3. edits' \in Nat
    BY <1>22, <1>n DEF EditFile, Edit
  <2>u. UNCHANGED <<dirs, stage, plan, pc, cursor, created, staged, progress, recovery,
                    residue, verdict, interrupted, faults>>
    BY <1>22 DEF EditFile, Edit
  <2> QED  BY <2>1, <2>2, <2>3, <2>u DEF TypeOK
<1>23. ASSUME NEW p \in Paths, NEW owner \in {"none", "foreign"}, EditStage(p, owner) PROVE TypeOK'
  <2>1. [NoStage EXCEPT !.owner = owner] \in Stages
    BY DEF NoStage, Stages
  <2>2. stage' \in [Paths -> Stages]
    BY <1>23, <2>1, <1>s DEF EditStage
  <2>3. touched' \in [Paths -> {"never", "early", "late"}]
    BY <1>23, <1>t DEF EditStage, Touch
  <2>4. edits' \in Nat
    BY <1>23, <1>n DEF EditStage, Edit
  <2>u. UNCHANGED <<disk, dirs, theirs, plan, pc, cursor, created, staged, progress, recovery,
                    residue, verdict, interrupted, faults>>
    BY <1>23 DEF EditStage, Edit
  <2> QED  BY <2>2, <2>3, <2>4, <2>u DEF TypeOK
<1>24. ASSUME NEW d \in Directories, NEW kind \in {"missing", "foreign"}, EditDirectory(d, kind)
       PROVE  TypeOK'
  <2>1. dirs' \in [Directories -> DirKinds]
    BY <1>24, <1>d DEF EditDirectory
  <2>2. edits' \in Nat
    BY <1>24, <1>n DEF EditDirectory, Edit
  <2>u. UNCHANGED <<disk, stage, theirs, touched, plan, pc, cursor, created, staged, progress,
                    recovery, residue, verdict, interrupted, faults>>
    BY <1>24 DEF EditDirectory, Edit
  <2> QED  BY <2>1, <2>2, <2>u DEF TypeOK
<1>25. CASE UNCHANGED vars
  BY <1>25 DEF vars, TypeOK
<1> QED
  BY <1>1, <1>2, <1>3, <1>4, <1>5, <1>6, <1>7, <1>8, <1>9, <1>10, <1>11, <1>12, <1>13,
     <1>14, <1>15, <1>16, <1>17, <1>18, <1>19, <1>20, <1>21, <1>22, <1>23, <1>24, <1>25
     DEF Next, Step, Environment

-----------------------------------------------------------------------------
HIDE DEF Modes, DirKinds, Terminal

\* What the invariants talk about, apart from the program counter and the cursor.
Core == <<disk, stage, pre, effects, prepared, attempted, recoveryAttempted,
          unrecovered, invalidationFailed, committed, theirs, touched>>

\* The moves of the program counter that go with an unchanged Core.
QuietMove ==
  \/ pc' = pc
  \/ pc' \in {"clean directories", "finish", "done", "crashed"}
  \/ pc \in Preparing /\ pc' \in {"directories", "make stage", "clean stages"}
  \/ pc \in Preparing /\ pc' = "recapture" /\ Len(prepared) = Len(effects)
  \/ pc = "recapture" /\ pc' = "poll"
  \/ pc = "poll" /\ pc' = "apply"
  \/ pc = "recover" /\ pc' = "clean stages" /\ Recovered /\ unrecovered = {}
  \/ pc = "recover" /\ pc' = "invalidate" /\ unrecovered # {}

Quiet == UNCHANGED Core /\ QuietMove

SafetyInv ==
  /\ EffectsInv /\ PhaseInv /\ TheirsInv /\ UnappliedIsUnchanged
  /\ BackupInv /\ ApplyInv /\ RestoreInv /\ RetractInv /\ CleanInv
  /\ NoOriginalLost /\ MarkerVouches

\* The actions that leave the core of the invariant alone.
LEMMA QuietActions ==
  ASSUME TypeOK,
         \/ Validate \/ MakeDirectory \/ DirectoriesMade \/ AllPrepared \/ Recapture
         \/ PollBeforeApply \/ RecoveryEnds \/ StagesCleaned \/ CleanDirectory
         \/ DirectoriesCleaned \/ Finish \/ Signal \/ Crash \/ UNCHANGED vars
         \/ \E d \in Directories, kind \in {"missing", "foreign"} : EditDirectory(d, kind)
  PROVE  Quiet
<1> USE DEF Quiet, Core, QuietMove, filesystem, plan, progress, recovery, residue, verdict,
            history
<1>1. CASE Validate  BY <1>1 DEF Validate
<1>2. CASE MakeDirectory  BY <1>2 DEF MakeDirectory, PrepareFailed
<1>3. CASE DirectoriesMade  BY <1>3 DEF DirectoriesMade
<1>4. CASE AllPrepared  BY <1>4 DEF AllPrepared
<1>5. CASE Recapture  BY <1>5 DEF Recapture
<1>6. CASE PollBeforeApply  BY <1>6 DEF PollBeforeApply
<1>7. CASE RecoveryEnds  BY <1>7 DEF RecoveryEnds, KeepsBackups
<1>8. CASE StagesCleaned  BY <1>8 DEF StagesCleaned
<1>9. CASE CleanDirectory  BY <1>9 DEF CleanDirectory
<1>10. CASE DirectoriesCleaned  BY <1>10 DEF DirectoriesCleaned
<1>11. CASE Finish  BY <1>11 DEF Finish
<1>12. CASE Signal  BY <1>12 DEF Signal, Executing
<1>13. CASE Crash  BY <1>13 DEF Crash
<1>14. CASE \E d \in Directories, kind \in {"missing", "foreign"} : EditDirectory(d, kind)
  BY <1>14 DEF EditDirectory, Edit, Executing
<1>15. CASE UNCHANGED vars  BY <1>15 DEF vars
<1> QED  BY <1>1, <1>2, <1>3, <1>4, <1>5, <1>6, <1>7, <1>8, <1>9, <1>10, <1>11, <1>12,
            <1>13, <1>14, <1>15

\* Every planned effect has a managed destination.
LEMMA PlannedType ==
  ASSUME TypeOK
  PROVE  /\ Planned \subseteq Paths
         /\ \A i \in 1..Len(effects) : effects[i] \in Planned
<1>1. effects \in Seq(Paths)
  BY DEF TypeOK
<1> QED  BY <1>1 DEF Planned

\* Until the first replacement the target is as it was planned for.
LEMMA PreparingOriginal ==
  ASSUME TypeOK, SafetyInv, pc \in Planning \cup Preparing,
         NEW p \in Planned, Untouched(p)
  PROVE  disk[p] = pre.files[p]
<1>1. disk = theirs
  BY DEF SafetyInv, PhaseInv, UnappliedIsUnchanged
<1>2. theirs[p] = pre.files[p]
  BY PlannedType DEF SafetyInv, TheirsInv
<1> QED  BY <1>1, <1>2

\* A plan that is not empty ends with the marker.
LEMMA MarkerPlanned ==
  ASSUME TypeOK, SafetyInv, effects # <<>>
  PROVE  Marker \in Planned
<1>1. effects \in Seq(Paths) /\ effects[Len(effects)] = Marker
  BY DEF TypeOK, SafetyInv, EffectsInv
<1>2. Len(effects) \in 1..Len(effects)
  BY <1>1
<1> QED  BY <1>1, <1>2 DEF Planned

\* The effect that is prepared next is none of those prepared already.
LEMMA DistinctFromCurrent ==
  ASSUME TypeOK, SafetyInv, Len(prepared) < Len(effects),
         NEW i \in 1..Len(effects), i <= Len(prepared)
  PROVE  effects[i] # Current
<1>1. effects \in Seq(Paths) /\ prepared \in Seq(Paths)
  BY DEF TypeOK
<1>2. Len(prepared) + 1 \in 1..Len(effects) /\ i # Len(prepared) + 1
  BY <1>1
<1> QED  BY <1>2 DEF Current, SafetyInv, EffectsInv

\* Appending makes a sequence one longer.
LEMMA AppendLength ==
  ASSUME NEW S, NEW s \in Seq(S), NEW x
  PROVE  /\ Len(s) \in Nat /\ Len(Append(s, x)) = Len(s) + 1
         /\ Append(s, x)[Len(s) + 1] = x
         /\ \A i \in 1..Len(s) : Append(s, x)[i] = s[i]
OBVIOUS

\* The indices of a sequence are positive numbers.
LEMMA IndexNat ==
  ASSUME NEW S, NEW s \in Seq(S), NEW i \in 1..Len(s)
  PROVE  i \in Nat
OBVIOUS

\* An effect up to the next length was there before, or is the new one.
LEMMA PreparedLength ==
  ASSUME NEW n \in Nat, NEW k \in Nat, NEW i \in Nat, k = n \/ k = n + 1, i <= k
  PROVE  i <= n \/ i = n + 1
OBVIOUS

\* While destinations are replaced or restored every original has a backup.
LEMMA AllBacked ==
  ASSUME TypeOK, SafetyInv, pc \in Replacing,
         NEW p \in Planned, Untouched(p), pre.files[p] # "missing"
  PROVE  stage[p].original = pre.files[p]
<1>1. PICK i \in 1..Len(effects) : effects[i] = p
  BY DEF Planned
<1>2. i <= Len(prepared)
  <2>1. Len(prepared) = Len(effects)
    BY DEF SafetyInv, PhaseInv
  <2> QED  BY <1>1, <2>1
<1> QED  BY <1>1, <1>2 DEF SafetyInv, BackupInv, Backed

\* With every attempt taken back, every effect is above the index.
LEMMA AboveZero ==
  ASSUME NEW S, NEW e \in Seq(S), NEW a \in Seq(S), NEW r \in Seq(S),
         Len(a) = Len(r), NEW i \in 1..Len(e)
  PROVE  i > Len(a) - Len(r)
OBVIOUS

\* A step that leaves the core alone keeps every conjunct.
LEMMA QuietStep ==
  ASSUME TypeOK, IndexInv, SafetyInv, Quiet
  PROVE  SafetyInv'
<1> USE DEF Quiet, Core
<1>1. UNCHANGED <<Planned, Undisturbed>>
  BY DEF Planned, Undisturbed
<1>2. EffectsInv' /\ TheirsInv' /\ UnappliedIsUnchanged'
  BY DEF SafetyInv, EffectsInv, TheirsInv, UnappliedIsUnchanged, Untouched
<1>3. PhaseInv'
  BY DEF SafetyInv, PhaseInv, QuietMove, Committing, Replacing
<1>4. BackupInv'
  BY DEF SafetyInv, BackupInv, QuietMove, Replacing, Untouched, Backed
<1>5. ApplyInv'
  <2> SUFFICES ASSUME (pc = "apply")', NEW i \in 1..Len(effects), Untouched(effects[i])
      PROVE  disk[effects[i]] = IF i <= Len(attempted) THEN Target(effects[i])
                                                       ELSE pre.files[effects[i]]
    BY DEF ApplyInv, Untouched, Target
  <2>1. CASE pc = "apply"
    BY <2>1 DEF SafetyInv, ApplyInv
  <2>2. CASE pc = "poll"
    <3>1. Len(attempted) = 0
      BY <2>2 DEF SafetyInv, PhaseInv
    <3>2. disk[effects[i]] = pre.files[effects[i]]
      BY <2>2, PlannedType, PreparingOriginal
    <3> QED  BY <3>1, <3>2
  <2> QED  BY <2>1, <2>2 DEF QuietMove
<1>6. RestoreInv'
  BY DEF SafetyInv, RestoreInv, QuietMove, Untouched, Original
<1>7. RetractInv'
  BY DEF SafetyInv, RetractInv, QuietMove, Untouched
<1>8. CleanInv'
  <2> SUFFICES ASSUME (pc = "clean stages")', ~committed', NEW p \in Planned, Untouched(p)
      PROVE  Original(p)
    BY <1>1 DEF CleanInv, Untouched, Original
  <2>1. CASE pc = "clean stages"
    BY <2>1 DEF SafetyInv, CleanInv
  <2>2. CASE pc \in Preparing
    BY <2>2, PreparingOriginal DEF Original
  <2>3. CASE pc = "recover" /\ Recovered /\ unrecovered = {}
    <3>1. PICK i \in 1..Len(effects) : effects[i] = p
      BY DEF Planned
    <3> HIDE DEF Quiet, Core
    <3>2. i > Len(attempted) - Len(recoveryAttempted)
      <4>1. effects \in Seq(Paths) /\ attempted \in Seq(Paths) /\ recoveryAttempted \in Seq(Paths)
        BY DEF TypeOK
      <4>2. Len(attempted) = Len(recoveryAttempted)
        BY <2>3 DEF Recovered
      <4> QED  BY <3>1, <4>1, <4>2, AboveZero
    <3> QED  BY <2>3, <3>1, <3>2 DEF SafetyInv, RestoreInv
  <2> QED  BY <2>1, <2>2, <2>3 DEF QuietMove
<1>9. NoOriginalLost'
  BY <1>1 DEF SafetyInv, NoOriginalLost
<1>10. MarkerVouches'
  BY <1>1 DEF SafetyInv, MarkerVouches, Target
<1> QED  BY <1>2, <1>3, <1>4, <1>5, <1>6, <1>7, <1>8, <1>9, <1>10 DEF SafetyInv

\* The conjuncts that another step can disturb, action by action.

\* A plan repeats no destination and ends with the marker.
LEMMA EffectsStep ==
  ASSUME NEW m \in Modes, NEW files
  PROVE  LET e == PlanEffects(m, files) IN
         /\ e # <<>> /\ e[Len(e)] = Marker
         /\ \A i, j \in 1..Len(e) : e[i] = e[j] => i = j
<1> DEFINE a == ActivePayloads(m)
           t == IF m = "upgrade" /\ files[LegacyMarker] \in Contents
                THEN <<LegacyMarker, Marker>> ELSE <<Marker>>
           e == PlanEffects(m, files)
<1>1. a \in Seq(Payloads)
  BY PayloadOrder DEF ActivePayloads, Payloads
<1>2. \A i, j \in 1..Len(a) : a[i] = a[j] => i = j
  BY PayloadOrder DEF ActivePayloads
<1>3. t \in Seq({LegacyMarker, Marker}) /\ Len(t) \in 1..2 /\ t[Len(t)] = Marker
  <2>1. CASE t = <<LegacyMarker, Marker>>
    <3> HIDE DEF t
    <3> QED  BY <2>1
  <2>2. CASE t = <<Marker>>
    <3> HIDE DEF t
    <3> QED  BY <2>2
  <2> QED  BY <2>1, <2>2
<1>4. \A i, j \in 1..Len(t) : t[i] = t[j] => i = j
  BY MarkersAreNoPayload
<1>5. e = a \o t
  BY DEF PlanEffects
<1> HIDE DEF a, t, e
<1>6. /\ Len(e) = Len(a) + Len(t)
      /\ \A i \in 1..Len(a) : e[i] = a[i]
      /\ \A i \in Len(a) + 1 .. Len(e) : e[i] = t[i - Len(a)]
  BY <1>1, <1>3, <1>5
<1>7. e # <<>> /\ e[Len(e)] = Marker
  <2>1. Len(a) \in Nat /\ Len(t) \in Nat /\ Len(t) >= 1
    <3>1. Len(a) \in Nat
      BY <1>1
    <3>2. Len(t) \in 1..2
      BY <1>3
    <3>3. Len(t) \in Nat /\ Len(t) >= 1
      BY <3>2
    <3> QED  BY <3>1, <3>3
  <2>2. Len(e) \in Len(a) + 1 .. Len(e) /\ Len(e) - Len(a) = Len(t)
    BY <1>6, <2>1
  <2>3. e[Len(e)] = t[Len(t)]
    BY <1>6, <2>2
  <2>4. Len(e) # 0
    BY <1>6, <2>1
  <2> QED  BY <1>3, <2>3, <2>4
<1>8. ASSUME NEW i \in 1..Len(e), NEW j \in 1..Len(e), e[i] = e[j] PROVE i = j
  <2>1. \A k \in 1..Len(a) : a[k] \in Payloads
    BY <1>1
  <2>2. \A k \in 1..Len(t) : t[k] \notin Payloads
    BY <1>3, MarkersAreNoPayload
  <2>3. CASE i <= Len(a) /\ j <= Len(a)
    BY <1>1, <1>2, <1>6, <1>8, <2>3
  <2>4. CASE i > Len(a) /\ j > Len(a)
    BY <1>1, <1>3, <1>4, <1>6, <1>8, <2>4
  <2>5. CASE (i <= Len(a)) # (j <= Len(a))
    BY <1>1, <1>3, <1>6, <1>8, <2>1, <2>2, <2>5
  <2> QED  BY <1>1, <1>3, <1>6, <2>3, <2>4, <2>5
<1> QED  BY <1>7, <1>8 DEF e

\* Planning establishes the relation between the plan and the disk.
LEMMA PlanStep ==
  ASSUME TypeOK, IndexInv, SafetyInv, Plan
  PROVE  SafetyInv'
<1> USE DEF filesystem, plan, progress, recovery, residue, verdict, history
<1>1. /\ pc = "plan" /\ pc' \in {"validate", "done"}
      /\ pre'.files = disk
      /\ effects' \in {effects, PlanEffects(mode, disk)}
      /\ UNCHANGED <<disk, stage, prepared, attempted, recoveryAttempted, unrecovered,
                     invalidationFailed, theirs, touched>>
  BY DEF Plan
<1>2. UNCHANGED committed
  BY DEF Plan
<1>3. effects = <<>> /\ attempted = <<>> /\ disk = theirs
  BY <1>1 DEF IndexInv, SafetyInv, PhaseInv, UnappliedIsUnchanged
<1>4. prepared = <<>>
  <2>1. prepared \in Seq(Paths) /\ Len(prepared) <= Len(effects)
    BY DEF TypeOK, IndexInv
  <2> QED  BY <1>3, <2>1
<1>5. EffectsInv'
  <2>1. CASE effects' = effects
    BY <2>1 DEF SafetyInv, EffectsInv
  <2>2. CASE effects' = PlanEffects(mode, disk)
    <3>1. mode \in Modes
      BY DEF TypeOK
    <3> QED  BY <2>2, <3>1, EffectsStep DEF EffectsInv
  <2> QED  BY <1>1, <2>1, <2>2
<1>6. PhaseInv'
  BY <1>1, <1>2, <1>3 DEF SafetyInv, PhaseInv, Committing, Replacing
<1>7. TheirsInv' /\ UnappliedIsUnchanged'
  BY <1>1, <1>3 DEF TheirsInv, UnappliedIsUnchanged
<1>8. BackupInv'
  <2>1. \A i \in 1..Len(effects') : ~(i <= Len(prepared'))
    BY <1>1, <1>4
  <2>2. pc' # "write new"
    BY <1>1
  <2> QED  BY <2>1, <2>2 DEF BackupInv
<1>9. ApplyInv' /\ RestoreInv' /\ RetractInv' /\ CleanInv'
  BY <1>1 DEF ApplyInv, RestoreInv, RetractInv, CleanInv
<1>10. NoOriginalLost'
  BY <1>1 DEF NoOriginalLost
<1>11. MarkerVouches'
  BY <1>1 DEF MarkerVouches
<1> QED  BY <1>5, <1>6, <1>7, <1>8, <1>9, <1>10, <1>11 DEF SafetyInv

\* A step of the preparation loop can only disturb the backups.
LEMMA PreparingStep ==
  ASSUME TypeOK, SafetyInv,
         pc \in {"make stage", "copy original", "write new"},
         pc' \in {"make stage", "copy original", "write new", "clean stages"},
         UNCHANGED <<disk, pre, effects, attempted, recoveryAttempted, unrecovered,
                     invalidationFailed, theirs, touched>>,
         UNCHANGED committed,
         BackupInv'
  PROVE  SafetyInv'
<1>1. UNCHANGED <<Planned, Undisturbed>>
  BY DEF Planned, Undisturbed
<1>2. EffectsInv' /\ TheirsInv' /\ UnappliedIsUnchanged'
  BY DEF SafetyInv, EffectsInv, TheirsInv, UnappliedIsUnchanged, Untouched
<1>3. PhaseInv'
  BY DEF SafetyInv, PhaseInv, Committing, Replacing
<1>4. ApplyInv' /\ RestoreInv' /\ RetractInv'
  BY DEF ApplyInv, RestoreInv, RetractInv
<1>5. \A p \in Planned : Untouched(p) => disk'[p] = pre'.files[p]
  BY PreparingOriginal
<1>6. CleanInv' /\ NoOriginalLost'
  BY <1>1, <1>5 DEF CleanInv, NoOriginalLost, Original, Untouched
<1>7. MarkerVouches'
  BY <1>1 DEF SafetyInv, MarkerVouches, Target
<1> QED  BY <1>2, <1>3, <1>4, <1>6, <1>7 DEF SafetyInv

\* A change by somebody else is theirs, not the execution's.
LEMMA EditFileStep ==
  ASSUME TypeOK, SafetyInv, NEW p \in Paths, NEW c \in FileKinds, EditFile(p, c)
  PROVE  SafetyInv'
<1> USE DEF plan, progress, recovery, residue, verdict
<1>1. /\ UNCHANGED <<stage, pre, effects, pc, prepared, attempted, recoveryAttempted,
                     unrecovered, invalidationFailed>>
      /\ disk' = [disk EXCEPT ![p] = c] /\ theirs' = [theirs EXCEPT ![p] = c]
  BY DEF EditFile, Edit
<1>2. UNCHANGED committed
  BY DEF EditFile, Edit
<1>3. touched' = [touched EXCEPT ![p] = "early"] \/ touched' = [touched EXCEPT ![p] = "late"]
  BY DEF EditFile, Touch
<1>4. \A q \in Paths : Untouched(q)' =>
        Untouched(q) /\ q # p /\ disk'[q] = disk[q] /\ theirs'[q] = theirs[q]
  BY <1>1, <1>3 DEF TypeOK, Untouched
<1>5. UNCHANGED Planned
  BY <1>1 DEF Planned
<1>6. EffectsInv' /\ PhaseInv' /\ TheirsInv' /\ UnappliedIsUnchanged'
  BY <1>1, <1>2, <1>4 DEF SafetyInv, EffectsInv, PhaseInv, TheirsInv, UnappliedIsUnchanged
<1>a. \A i \in 1..Len(effects) : effects[i] \in Paths
  BY PlannedType
<1>7. BackupInv' /\ ApplyInv' /\ RestoreInv'
  <2>1. BackupInv'
    BY <1>1, <1>4, <1>a DEF SafetyInv, BackupInv, Backed
  <2>2. ApplyInv'
    BY <1>1, <1>4, <1>a DEF SafetyInv, ApplyInv, Target
  <2>3. RestoreInv'
    BY <1>1, <1>4, <1>a DEF SafetyInv, RestoreInv, Original
  <2> QED  BY <2>1, <2>2, <2>3
<1>8. RetractInv'
  BY <1>1, <1>4 DEF SafetyInv, RetractInv, Paths
<1>9. CleanInv' /\ NoOriginalLost'
  BY <1>1, <1>2, <1>4, <1>5, PlannedType
     DEF SafetyInv, CleanInv, NoOriginalLost, Original, Untouched
<1>10. MarkerVouches'
  <2> SUFFICES ASSUME Undisturbed', effects # <<>>, pre.files[Marker] # NewContent,
                      disk'[Marker] = NewContent
      PROVE  (\A q \in Planned : disk'[q] = Target(q)) \/ Marker \in invalidationFailed
    BY <1>1, <1>5 DEF MarkerVouches, Target
  <2>1. \A q \in Planned : Untouched(q) /\ disk'[q] = disk[q]
    BY <1>4, <1>5, PlannedType DEF Undisturbed, Untouched
  <2>2. Marker \in Planned
    BY MarkerPlanned
  <2> QED  BY <2>1, <2>2 DEF SafetyInv, MarkerVouches, Undisturbed, Untouched
<1> QED  BY <1>6, <1>7, <1>8, <1>9, <1>10 DEF SafetyInv

\* Whoever touches a staging directory has touched its path.
LEMMA EditStageStep ==
  ASSUME TypeOK, SafetyInv, NEW p \in Paths, NEW owner \in {"none", "foreign"},
         EditStage(p, owner)
  PROVE  SafetyInv'
<1> USE DEF plan, progress, recovery, residue, verdict
<1>1. UNCHANGED <<disk, theirs, pre, effects, pc, prepared, attempted, recoveryAttempted,
                  unrecovered, invalidationFailed>>
  BY DEF EditStage, Edit
<1>2. UNCHANGED committed
  BY DEF EditStage, Edit
<1>3. /\ touched' = [touched EXCEPT ![p] = "early"] \/ touched' = [touched EXCEPT ![p] = "late"]
      /\ stage' = [stage EXCEPT ![p] = [NoStage EXCEPT !.owner = owner]]
  BY DEF EditStage, Touch
<1>4. \A q \in Paths : Untouched(q)' => Untouched(q) /\ stage'[q] = stage[q]
  BY <1>3 DEF TypeOK, Untouched
<1>5. UNCHANGED Planned
  BY <1>1 DEF Planned
<1>6. EffectsInv' /\ PhaseInv' /\ TheirsInv' /\ UnappliedIsUnchanged'
  BY <1>1, <1>2, <1>4 DEF SafetyInv, EffectsInv, PhaseInv, TheirsInv, UnappliedIsUnchanged
<1>7. BackupInv' /\ ApplyInv' /\ RestoreInv'
  BY <1>1, <1>4, PlannedType
     DEF SafetyInv, BackupInv, ApplyInv, RestoreInv, Backed, Original, Target
<1>8. RetractInv'
  BY <1>1, <1>4 DEF SafetyInv, RetractInv, Paths
<1>9. CleanInv' /\ NoOriginalLost'
  BY <1>1, <1>2, <1>4, <1>5, PlannedType
     DEF SafetyInv, CleanInv, NoOriginalLost, Original, Untouched
<1>10. MarkerVouches'
  BY <1>1, <1>4, <1>5, PlannedType
     DEF SafetyInv, MarkerVouches, Undisturbed, Untouched, Target
<1> QED  BY <1>6, <1>7, <1>8, <1>9, <1>10 DEF SafetyInv

\* A new stage is not the stage of an effect that is prepared already.
LEMMA MakeStageStep ==
  ASSUME TypeOK, SafetyInv, MakeStage
  PROVE  SafetyInv'
<1> USE DEF filesystem, plan, progress, recovery, residue, verdict, history
<1>1. /\ pc = "make stage" /\ pc' \in {"copy original", "clean stages"}
      /\ UNCHANGED <<disk, pre, effects, prepared, attempted, recoveryAttempted, unrecovered,
                     invalidationFailed, theirs, touched>>
      /\ stage' = stage \/ stage' = [stage EXCEPT ![Current] = NewStage]
  BY DEF MakeStage, PrepareFailed
<1>2. UNCHANGED committed
  BY DEF MakeStage
<1>3. Len(prepared) < Len(effects)
  BY DEF MakeStage
<1>4. BackupInv'
  <2> SUFFICES ASSUME pc' \in Preparing \cup Replacing, NEW i \in 1..Len(effects),
                      i <= Len(prepared), Untouched(effects[i]), pre.files[effects[i]] # "missing"
      PROVE  stage'[effects[i]].original = pre.files[effects[i]]
    BY <1>1 DEF BackupInv, Untouched, Backed
  <2>1. stage[effects[i]].original = pre.files[effects[i]]
    BY <1>1 DEF SafetyInv, BackupInv, Backed
  <2>2. effects[i] # Current
    BY <1>3, DistinctFromCurrent
  <2>3. effects[i] \in Paths /\ stage \in [Paths -> Stages]
    BY PlannedType DEF TypeOK
  <2> QED  BY <1>1, <2>1, <2>2, <2>3
<1> QED  BY <1>1, <1>2, <1>4, PreparingStep

\* The copy is one of the original: nobody has touched it yet.
LEMMA CopyOriginalStep ==
  ASSUME TypeOK, IndexInv, SafetyInv, CopyOriginal
  PROVE  SafetyInv'
<1> USE DEF filesystem, plan, progress, recovery, residue, verdict, history
<1>1. /\ pc = "copy original" /\ pc' \in {"write new", "clean stages"}
      /\ UNCHANGED <<disk, pre, effects, prepared, attempted, recoveryAttempted, unrecovered,
                     invalidationFailed, theirs, touched>>
      /\ stage' = stage \/ stage' = [stage EXCEPT ![Current].original = disk[Current]]
      /\ (pc' = "write new" /\ pre.files[Current] # "missing") =>
           stage' = [stage EXCEPT ![Current].original = disk[Current]]
  BY DEF CopyOriginal, PrepareFailed, BackUp, HasEffect
<1>2. UNCHANGED committed
  BY DEF CopyOriginal
<1>3. Len(prepared) < Len(effects)
  BY <1>1 DEF IndexInv
<1>4. stage \in [Paths -> Stages] /\ \A i \in 1..Len(effects) : effects[i] \in Paths
  BY PlannedType DEF TypeOK
<1>5. BackupInv'
  <2> SUFFICES ASSUME pc' = "write new", NEW i \in 1..Len(effects),
                      i <= Len(prepared) \/ i = Len(prepared) + 1,
                      Untouched(effects[i]), pre.files[effects[i]] # "missing"
      PROVE  stage'[effects[i]].original = pre.files[effects[i]]
    BY <1>1 DEF BackupInv, Untouched, Backed, Replacing
  <2>1. CASE i <= Len(prepared)
    <3>1. stage[effects[i]].original = pre.files[effects[i]]
      BY <1>1, <2>1 DEF SafetyInv, BackupInv, Backed
    <3>2. effects[i] # Current
      BY <1>3, <2>1, DistinctFromCurrent
    <3> QED  BY <1>1, <1>4, <3>1, <3>2
  <2>2. CASE i = Len(prepared) + 1
    <3>1. effects[i] = Current
      BY <2>2 DEF Current
    <3>2. disk[Current] = pre.files[Current]
      BY <1>1, <3>1, PlannedType, PreparingOriginal
    <3>3. stage' = [stage EXCEPT ![Current].original = disk[Current]]
      BY <1>1, <3>1
    <3>4. stage[Current] \in Stages /\ Current \in Paths
      BY <1>4, <3>1
    <3> QED  BY <1>4, <3>1, <3>2, <3>3, <3>4 DEF Stages
  <2> QED  BY <2>1, <2>2
<1> QED  BY <1>1, <1>2, <1>5, PreparingStep

\* With its payload written an effect is prepared, and backed up.
LEMMA WriteNewStep ==
  ASSUME TypeOK, IndexInv, SafetyInv, WriteNew
  PROVE  SafetyInv'
<1> USE DEF filesystem, plan, progress, recovery, residue, verdict, history
<1>1. /\ pc = "write new" /\ pc' \in {"make stage", "clean stages"}
      /\ UNCHANGED <<disk, pre, effects, attempted, recoveryAttempted, unrecovered,
                     invalidationFailed, theirs, touched>>
      /\ stage' = stage \/ stage' = [stage EXCEPT ![Current].new = TRUE]
      /\ prepared' \in {prepared, Append(prepared, Current)}
  BY DEF WriteNew, PrepareFailed
<1>2. UNCHANGED committed
  BY DEF WriteNew
<1>3. stage \in [Paths -> Stages] /\ \A i \in 1..Len(effects) : effects[i] \in Paths
  BY PlannedType DEF TypeOK
<1>4. /\ Len(prepared) \in Nat /\ Len(prepared') \in Nat
      /\ Len(prepared') = Len(prepared) \/ Len(prepared') = Len(prepared) + 1
  <2>1. prepared \in Seq(Paths)
    BY DEF TypeOK
  <2>2. CASE prepared' = Append(prepared, Current)
    BY <2>1, <2>2, AppendLength
  <2>3. CASE prepared' = prepared
    BY <2>1, <2>3
  <2> QED  BY <1>1, <2>2, <2>3
<1>5. \A q \in Paths : stage'[q].original = stage[q].original
  <2>1. ASSUME NEW q \in Paths, stage' = [stage EXCEPT ![Current].new = TRUE]
        PROVE  stage'[q].original = stage[q].original
    <3>1. stage[q] \in Stages
      BY <1>3
    <3>2. CASE q = Current
      BY <1>3, <2>1, <3>1, <3>2 DEF Stages
    <3>3. CASE q # Current
      BY <1>3, <2>1, <3>3
    <3> QED  BY <3>2, <3>3
  <2> QED  BY <1>1, <2>1
<1>6. BackupInv'
  <2> SUFFICES ASSUME NEW i \in 1..Len(effects), i <= Len(prepared'), pc' = "make stage",
                      Untouched(effects[i]), pre.files[effects[i]] # "missing"
      PROVE  stage'[effects[i]].original = pre.files[effects[i]]
    BY <1>1 DEF BackupInv, Untouched, Backed, Replacing
  <2>1. i <= Len(prepared) \/ i = Len(prepared) + 1
    <3>1. effects \in Seq(Paths)
      BY DEF TypeOK
    <3>2. i \in Nat
      BY <3>1, IndexNat
    <3> QED  BY <1>4, <3>2, PreparedLength
  <2> QED  BY <1>1, <1>3, <1>5, <2>1 DEF SafetyInv, BackupInv, Backed
<1> QED  BY <1>1, <1>2, <1>6, PreparingStep

\* Backups go only when the originals are in place.
LEMMA CleanStageStep ==
  ASSUME TypeOK, IndexInv, SafetyInv, CleanStage
  PROVE  SafetyInv'
<1> USE DEF filesystem, plan, progress, recovery, residue, verdict, history
<1>1. /\ pc = "clean stages" /\ pc' = pc
      /\ UNCHANGED <<disk, pre, effects, prepared, attempted, recoveryAttempted, unrecovered,
                     invalidationFailed, theirs, touched>>
  BY DEF CleanStage
<1>2. UNCHANGED committed
  BY DEF CleanStage
<1>3. UNCHANGED <<Planned, Undisturbed>>
  BY <1>1 DEF Planned, Undisturbed
<1>4. EffectsInv' /\ PhaseInv' /\ TheirsInv' /\ UnappliedIsUnchanged'
  BY <1>1, <1>2 DEF SafetyInv, EffectsInv, PhaseInv, TheirsInv, UnappliedIsUnchanged, Untouched
<1>5. BackupInv' /\ ApplyInv' /\ RestoreInv' /\ RetractInv'
  BY <1>1 DEF BackupInv, ApplyInv, RestoreInv, RetractInv, Replacing
<1>6. CleanInv' /\ NoOriginalLost'
  BY <1>1, <1>2, <1>3 DEF SafetyInv, CleanInv, NoOriginalLost, Original, Untouched
<1>7. MarkerVouches'
  BY <1>1, <1>3 DEF SafetyInv, MarkerVouches, Target
<1> QED  BY <1>4, <1>5, <1>6, <1>7 DEF SafetyInv

\* Removing the marker makes nothing it could vouch for.
LEMMA InvalidateStep ==
  ASSUME TypeOK, IndexInv, SafetyInv, Invalidate
  PROVE  SafetyInv'
<1> USE DEF filesystem, plan, progress, recovery, residue, verdict, history
<1>1. /\ pc = "invalidate" /\ pc' = "recover"
      /\ UNCHANGED <<stage, pre, effects, prepared, attempted, recoveryAttempted, unrecovered,
                     theirs, touched>>
      /\ disk' = disk \/ disk' = [disk EXCEPT ![Marker] = "missing"]
      /\ disk'[Marker] = "missing" \/ invalidationFailed' = {Marker}
      /\ invalidationFailed' = invalidationFailed \/ invalidationFailed' = {Marker}
  <2>1. Marker \in Paths /\ disk \in [Paths -> FileKinds]
    BY DEF TypeOK, Paths
  <2> QED  BY <2>1 DEF Invalidate, HasEffect
<1>2. UNCHANGED committed
  BY DEF Invalidate
<1>3. UNCHANGED <<Planned, Undisturbed>>
  BY <1>1 DEF Planned, Undisturbed
<1>4. attempted # <<>> /\ unrecovered # {}
  BY <1>1 DEF SafetyInv, PhaseInv
<1>5. EffectsInv' /\ PhaseInv' /\ TheirsInv' /\ UnappliedIsUnchanged'
  BY <1>1, <1>2, <1>4 DEF SafetyInv, EffectsInv, PhaseInv, TheirsInv, UnappliedIsUnchanged,
                          Untouched, Committing, Replacing
<1>6. BackupInv'
  BY <1>1 DEF SafetyInv, BackupInv, Replacing, Untouched, Backed
<1>7. ApplyInv' /\ RestoreInv' /\ CleanInv'
  BY <1>1, <1>4 DEF ApplyInv, RestoreInv, CleanInv
<1>8. RetractInv'
  <2>1. NewContent # "missing"
    BY ContentAssumption
  <2>2. invalidationFailed' = {Marker} => Marker \in invalidationFailed'
    OBVIOUS
  <2> QED  BY <1>1, <2>1, <2>2 DEF RetractInv
<1>9. NoOriginalLost'
  <2> SUFFICES ASSUME NEW q \in Planned, Untouched(q), pre.files[q] # "missing", ~committed
      PROVE  disk'[q] = pre.files[q] \/ stage[q].original = pre.files[q]
    BY <1>1, <1>2, <1>3 DEF NoOriginalLost, Untouched
  <2> QED  BY <1>1, AllBacked DEF Replacing
<1>10. MarkerVouches'
  <2>1. NewContent # "missing"
    BY ContentAssumption
  <2>2. CASE invalidationFailed' = {Marker}
    BY <2>2 DEF MarkerVouches
  <2>3. CASE disk'[Marker] = "missing"
    BY <2>1, <2>3 DEF MarkerVouches
  <2> QED  BY <1>1, <2>2, <2>3
<1> QED  BY <1>5, <1>6, <1>7, <1>8, <1>9, <1>10 DEF SafetyInv

\* One replacement: what is below the index is in place, what is above is not.
LEMMA ApplyEffectStep ==
  ASSUME TypeOK, IndexInv, SafetyInv, ApplyEffect
  PROVE  SafetyInv'
<1> DEFINE n == Len(attempted)
           p == effects[Len(attempted) + 1]
<1> USE DEF filesystem, plan, progress, recovery, residue, verdict, history
<1>1. /\ pc = "apply"
      /\ attempted' = Append(attempted, p)
      /\ UNCHANGED <<pre, effects, prepared, recoveryAttempted, unrecovered,
                     invalidationFailed, theirs, touched>>
      /\ disk' = disk \/ disk' = [disk EXCEPT ![p] = Target(p)]
      /\ stage' = stage \/ stage' = [stage EXCEPT ![p].new = FALSE]
  BY DEF ApplyEffect
<1>2. n < Len(effects)
  BY DEF ApplyEffect
<1>3. \/ pc' = "apply" /\ disk' = [disk EXCEPT ![p] = Target(p)]
      \/ pc' = "clean stages"
      \/ pc' = "recover"
  BY DEF ApplyEffect, HasEffect
<1>4. pc' = "clean stages" => committed'
  BY <1>1 DEF ApplyEffect
<1>5. pc' \in {"apply", "recover"} => ~committed'
  BY <1>1 DEF ApplyEffect, SafetyInv, PhaseInv, Committing, Replacing
<1>6. /\ recoveryAttempted = <<>> /\ unrecovered = {} /\ ~committed
      /\ Len(prepared) = Len(effects)
  BY <1>1 DEF SafetyInv, PhaseInv, Committing, Replacing
<1>7. /\ effects \in Seq(Paths) /\ attempted \in Seq(Paths)
      /\ stage \in [Paths -> Stages] /\ disk \in [Paths -> FileKinds]
  BY DEF TypeOK
<1>8. n \in Nat /\ n + 1 \in 1..Len(effects) /\ Len(attempted') = n + 1 /\ attempted' # <<>>
  <2>1. n \in Nat /\ n + 1 \in 1..Len(effects)
    BY <1>2, <1>7
  <2>2. Len(attempted') = n + 1
    BY <1>1, <1>7, AppendLength
  <2>3. n + 1 # 0
    BY <2>1
  <2> QED  BY <2>1, <2>2, <2>3
<1>9. \A i \in 1..Len(effects) : effects[i] \in Paths /\ effects[i] \in Planned
  BY PlannedType
<1>10. \A i \in 1..Len(effects) : i # n + 1 => effects[i] # p
  BY <1>8 DEF SafetyInv, EffectsInv
<1> HIDE DEF n, p
<1>11. p \in Paths /\ p = effects[n + 1]
  BY <1>8, <1>9 DEF n, p
<1>12. \A i \in 1..Len(effects) : i # n + 1 => disk'[effects[i]] = disk[effects[i]]
  BY <1>1, <1>7, <1>9, <1>10
<1>13. \A i \in 1..Len(effects) : Untouched(effects[i]) =>
         disk[effects[i]] = IF i <= n THEN Target(effects[i]) ELSE pre.files[effects[i]]
  BY <1>1 DEF SafetyInv, ApplyInv, n
<1>14. disk'[p] = disk[p] \/ disk'[p] = Target(p)
  BY <1>1, <1>7, <1>11
<1>15. \A q \in Paths : stage'[q].original = stage[q].original
  <2>1. ASSUME NEW q \in Paths, stage' = [stage EXCEPT ![p].new = FALSE]
        PROVE  stage'[q].original = stage[q].original
    <3>1. stage[q] \in Stages
      BY <1>7
    <3>2. CASE q = p
      BY <1>7, <2>1, <3>1, <3>2 DEF Stages
    <3>3. CASE q # p
      BY <1>7, <2>1, <3>3
    <3> QED  BY <3>2, <3>3
  <2> QED  BY <1>1, <2>1
<1>16. UNCHANGED <<Planned, Undisturbed>>
  BY <1>1 DEF Planned, Undisturbed
<1>a. EffectsInv' /\ TheirsInv' /\ UnappliedIsUnchanged'
  BY <1>1, <1>8 DEF SafetyInv, EffectsInv, TheirsInv, UnappliedIsUnchanged, Untouched
<1>b. PhaseInv'
  BY <1>1, <1>3, <1>5, <1>6, <1>8 DEF PhaseInv, Committing, Replacing
<1>c. BackupInv'
  <2> SUFFICES ASSUME NEW i \in 1..Len(effects), pc' # "write new", i <= Len(prepared),
                      Untouched(effects[i]), pre.files[effects[i]] # "missing"
      PROVE  stage'[effects[i]].original = pre.files[effects[i]]
    BY <1>1, <1>3 DEF BackupInv, Untouched, Backed, Replacing
  <2>1. stage[effects[i]].original = pre.files[effects[i]]
    BY <1>1 DEF SafetyInv, BackupInv, Backed, Replacing
  <2> QED  BY <1>9, <1>15, <2>1
<1>d. ApplyInv'
  <2> SUFFICES ASSUME pc' = "apply", NEW i \in 1..Len(effects), Untouched(effects[i])
      PROVE  disk'[effects[i]] = IF i <= n + 1 THEN Target(effects[i]) ELSE pre.files[effects[i]]
    BY <1>1, <1>8 DEF ApplyInv, Untouched, Target
  <2>1. CASE i = n + 1
    <3>1. disk'[p] = Target(p)
      BY <1>3, <1>7, <1>11
    <3> QED  BY <1>8, <1>11, <2>1, <3>1
  <2>2. CASE i # n + 1
    <3>1. i \in Nat
      BY <1>7, IndexNat
    <3>2. (i <= n) = (i <= n + 1)
      BY <1>8, <2>2, <3>1
    <3> QED  BY <1>12, <1>13, <2>2, <3>2
  <2> QED  BY <2>1, <2>2
<1>e. RestoreInv'
  <2> SUFFICES ASSUME NEW i \in 1..Len(effects), i > n + 1, Untouched(effects[i])
      PROVE  disk'[effects[i]] = pre.files[effects[i]]
    <3>1. Len(attempted') - Len(recoveryAttempted') = n + 1
      BY <1>1, <1>6, <1>8
    <3> QED  BY <1>1, <3>1 DEF RestoreInv, Untouched, Original
  <2>1. i \in Nat
    BY <1>7, IndexNat
  <2>2. i # n + 1 /\ ~(i <= n)
    BY <1>8, <2>1
  <2> QED  BY <1>12, <1>13, <2>2
<1>17. effects # <<>> /\ Len(effects) \in 1..Len(effects) /\ effects[Len(effects)] = Marker
  <2>1. Len(effects) \in 1..Len(effects) /\ Len(effects) # 0
    BY <1>7, <1>8
  <2> QED  BY <2>1 DEF SafetyInv, EffectsInv
<1>18. ~(Len(effects) <= n)
  BY <1>7, <1>8
<1>19. (Untouched(Marker) /\ pre.files[Marker] # NewContent) =>
         disk[Marker] # NewContent /\ disk[Marker] = pre.files[Marker]
  BY <1>13, <1>17, <1>18
<1>f. RetractInv'
  <2> SUFFICES ASSUME Untouched(Marker), pre.files[Marker] # NewContent, n + 1 < Len(effects)
      PROVE  disk'[Marker] # NewContent
    BY <1>1, <1>6, <1>8 DEF RetractInv, Untouched
  <2>1. Len(effects) # n + 1
    BY <1>7, <1>8
  <2> QED  BY <1>12, <1>17, <1>19, <2>1
<1>g. CleanInv'
  BY <1>3, <1>4 DEF CleanInv
<1>h. NoOriginalLost'
  <2> SUFFICES ASSUME NEW q \in Planned, Untouched(q), pre.files[q] # "missing"
      PROVE  stage'[q].original = pre.files[q]
    BY <1>1, <1>16 DEF NoOriginalLost, Untouched
  <2> QED  BY <1>1, <1>15, AllBacked, PlannedType DEF Replacing
<1>i. MarkerVouches'
  <2> SUFFICES ASSUME Undisturbed, pre.files[Marker] # NewContent, disk'[Marker] = NewContent,
                      NEW q \in Planned
      PROVE  disk'[q] = Target(q)
    BY <1>1, <1>16 DEF MarkerVouches, Target
  <2>1. Untouched(Marker)
    BY MarkerPlanned, <1>17 DEF Undisturbed, Untouched
  <2>2. Len(effects) = n + 1
    BY <1>12, <1>17, <1>19, <2>1
  <2>3. p = Marker /\ disk'[p] = Target(p)
    BY <1>11, <1>14, <1>17, <1>19, <2>1, <2>2
  <2>4. PICK i \in 1..Len(effects) : effects[i] = q
    BY DEF Planned
  <2>5. Untouched(q)
    BY DEF Undisturbed, Untouched
  <2>6. CASE i = n + 1
    BY <1>11, <2>3, <2>4, <2>6
  <2>7. CASE i # n + 1
    <3>1. i \in Nat /\ i <= n + 1
      BY <1>7, <2>2, <2>4, IndexNat
    <3>2. i <= n
      BY <1>8, <2>7, <3>1
    <3> QED  BY <1>12, <1>13, <2>4, <2>5, <2>7, <3>2
  <2> QED  BY <2>6, <2>7
<1> QED  BY <1>a, <1>b, <1>c, <1>d, <1>e, <1>f, <1>g, <1>h, <1>i DEF SafetyInv

\* One restoration, which a backup of the original makes possible.
LEMMA RecoverEffectStep ==
  ASSUME TypeOK, IndexInv, SafetyInv, RecoverEffect
  PROVE  SafetyInv'
<1> DEFINE n == Len(attempted)
           k == Len(recoveryAttempted)
           p == attempted[Len(attempted) - Len(recoveryAttempted)]
<1> USE DEF filesystem, plan, progress, recovery, residue, verdict, history
<1>1. /\ pc = "recover"
      /\ recoveryAttempted' = Append(recoveryAttempted, p)
      /\ UNCHANGED <<stage, pre, effects, prepared, attempted, invalidationFailed, theirs,
                     touched>>
      /\ disk' = disk \/ disk' = [disk EXCEPT ![p] = Restoration(p)]
  BY DEF RecoverEffect
<1>2. UNCHANGED committed
  BY DEF RecoverEffect
<1>3. \/ /\ unrecovered' = unrecovered /\ pc' = "recover"
         /\ disk' = [disk EXCEPT ![p] = Restoration(p)]
      \/ unrecovered' = unrecovered \cup {p} /\ pc' = IF p = Marker THEN "invalidate" ELSE "recover"
  BY DEF RecoverEffect, HasEffect
<1>4. k # n /\ k <= n /\ n <= Len(effects)
  BY DEF RecoverEffect, Recovered, IndexInv
<1>5. /\ effects \in Seq(Paths) /\ attempted \in Seq(Paths)
      /\ recoveryAttempted \in Seq(Paths)
      /\ stage \in [Paths -> Stages] /\ disk \in [Paths -> FileKinds]
  BY DEF TypeOK
<1>6. /\ n \in Nat /\ k \in Nat /\ n - k \in 1..n /\ n - k \in 1..Len(effects)
      /\ Len(recoveryAttempted') = k + 1 /\ recoveryAttempted' # <<>>
  <2>1. n \in Nat /\ k \in Nat /\ n - k \in 1..n /\ n - k \in 1..Len(effects)
    BY <1>4, <1>5
  <2>2. Len(recoveryAttempted') = k + 1
    BY <1>1, <1>5, AppendLength
  <2>3. k + 1 # 0
    BY <2>1
  <2> QED  BY <2>1, <2>2, <2>3
<1>7. \A i \in 1..Len(effects) : effects[i] \in Paths /\ effects[i] \in Planned
  BY PlannedType
<1>8. p = effects[n - k]
  BY <1>6 DEF IndexInv
<1>9. attempted # <<>> /\ ~committed
  BY <1>1 DEF SafetyInv, PhaseInv, Committing, Replacing
<1> HIDE DEF n, k, p
<1>10. p \in Paths /\ p \in Planned
  BY <1>6, <1>7, <1>8
<1>11. Untouched(p) => Restoration(p) = pre.files[p]
  BY <1>1, <1>10, AllBacked DEF Restoration, Replacing
<1>12. \A q \in Paths : q # p => disk'[q] = disk[q]
  BY <1>1, <1>5, <1>10
<1>13. disk'[p] = disk[p] \/ disk'[p] = Restoration(p)
  BY <1>1, <1>5, <1>10
<1>14. UNCHANGED <<Planned, Undisturbed>>
  BY <1>1 DEF Planned, Undisturbed
<1>15. Marker \in Paths
  BY DEF Paths
<1>16. (p # Marker /\ Untouched(Marker) /\ pre.files[Marker] # NewContent) =>
         disk[Marker] # NewContent \/ Marker \in invalidationFailed
  <2> SUFFICES ASSUME p # Marker
      PROVE  recoveryAttempted # <<>> \/ n < Len(effects)
    BY <1>1 DEF SafetyInv, RetractInv, n
  <2>1. CASE k = 0 /\ n = Len(effects)
    <3>1. p = effects[Len(effects)] /\ effects # <<>>
      BY <1>5, <1>6, <1>8, <2>1
    <3> QED  BY <3>1 DEF SafetyInv, EffectsInv
  <2>2. CASE k # 0
    BY <2>2 DEF k
  <2>3. CASE n # Len(effects)
    BY <1>4, <1>5, <1>6, <2>3
  <2> QED  BY <2>1, <2>2, <2>3
<1>a. EffectsInv' /\ TheirsInv' /\ UnappliedIsUnchanged'
  BY <1>1, <1>9 DEF SafetyInv, EffectsInv, TheirsInv, UnappliedIsUnchanged, Untouched
<1>b. PhaseInv'
  <2>1. Len(prepared) = Len(effects)
    BY <1>1 DEF SafetyInv, PhaseInv, Replacing
  <2> QED  BY <1>1, <1>2, <1>3, <1>9, <2>1 DEF PhaseInv, Committing, Replacing
<1>c. BackupInv'
  BY <1>1, <1>3 DEF SafetyInv, BackupInv, Replacing, Untouched, Backed
<1>d. ApplyInv' /\ CleanInv'
  BY <1>3 DEF ApplyInv, CleanInv
<1>e. RestoreInv'
  <2> SUFFICES ASSUME unrecovered' = {}, NEW i \in 1..Len(effects), i > n - (k + 1),
                      Untouched(effects[i])
      PROVE  disk'[effects[i]] = pre.files[effects[i]]
    BY <1>1, <1>6 DEF RestoreInv, Untouched, Original, n
  <2>1. unrecovered = {} /\ disk' = [disk EXCEPT ![p] = Restoration(p)]
    BY <1>3
  <2>2. CASE i = n - k
    BY <1>5, <1>8, <1>10, <1>11, <2>1, <2>2
  <2>3. CASE i # n - k
    <3>1. i \in Nat
      BY <1>5, IndexNat
    <3>2. i > n - k
      BY <1>6, <2>3, <3>1
    <3>3. disk[effects[i]] = pre.files[effects[i]]
      BY <1>1, <2>1, <3>2 DEF SafetyInv, RestoreInv, Original, n, k
    <3>4. effects[i] # p
      BY <1>6, <1>8, <2>3 DEF SafetyInv, EffectsInv
    <3> QED  BY <1>7, <1>12, <3>3, <3>4
  <2> QED  BY <2>2, <2>3
<1>f. RetractInv'
  <2> SUFFICES ASSUME pc' = "recover", Untouched(Marker), pre.files[Marker] # NewContent
      PROVE  disk'[Marker] # NewContent \/ Marker \in invalidationFailed
    BY <1>1 DEF RetractInv, Untouched
  <2>1. CASE p = Marker
    <3>1. disk' = [disk EXCEPT ![p] = Restoration(p)]
      BY <1>3, <2>1
    <3> QED  BY <1>5, <1>10, <1>11, <2>1, <3>1
  <2>2. CASE p # Marker
    BY <1>12, <1>15, <1>16, <2>2
  <2> QED  BY <2>1, <2>2
<1>g. NoOriginalLost'
  <2> SUFFICES ASSUME NEW q \in Planned, Untouched(q), pre.files[q] # "missing"
      PROVE  stage[q].original = pre.files[q]
    BY <1>1, <1>14 DEF NoOriginalLost, Untouched
  <2> QED  BY <1>1, AllBacked DEF Replacing
<1>h. MarkerVouches'
  <2> SUFFICES ASSUME Undisturbed, effects # <<>>, pre.files[Marker] # NewContent,
                      disk'[Marker] = NewContent
      PROVE  (\A q \in Planned : disk'[q] = Target(q)) \/ Marker \in invalidationFailed
    BY <1>1, <1>14 DEF MarkerVouches, Target
  <2>1. Untouched(Marker)
    BY MarkerPlanned DEF Undisturbed, Untouched
  <2>2. CASE p = Marker
    <3>1. disk' = disk
      BY <1>1, <1>5, <1>10, <1>11, <2>1, <2>2
    <3> QED  BY <3>1 DEF SafetyInv, MarkerVouches
  <2>3. CASE p # Marker
    BY <1>12, <1>15, <1>16, <2>1, <2>3
  <2> QED  BY <2>2, <2>3
<1> QED  BY <1>a, <1>b, <1>c, <1>d, <1>e, <1>f, <1>g, <1>h DEF SafetyInv

-----------------------------------------------------------------------------
\* The loops' indices.  IndexInv has a conjunct on the lists of effects and one
\* on the cursor, which most steps leave to the other.

Lists ==
  /\ Len(prepared) <= Len(effects)
  /\ Len(attempted) <= Len(effects)
  /\ \A i \in 1..Len(attempted) : attempted[i] = effects[i]
  /\ Len(recoveryAttempted) <= Len(attempted)

\* The arithmetic is kept apart from the program counter.
AtDirectory  == cursor >= 1
MoreToPrepare == Len(prepared) < Len(effects)
InStaged     == cursor <= Len(staged)
InCreated    == cursor <= Len(created)

Cursors ==
  /\ pc \in Planning => effects = <<>>
  /\ pc = "directories" => AtDirectory
  /\ pc \in {"copy original", "write new"} => MoreToPrepare
  /\ pc = "clean stages" => InStaged
  /\ pc = "clean directories" => InCreated

\* The parts of IndexInv, one by one.
LEMMA IndexParts ==
  /\ IndexInv => Lists /\ Cursors
  /\ (Lists /\ Cursors)' => IndexInv'
BY DEF IndexInv, Lists, Cursors, AtDirectory, MoreToPrepare, InStaged, InCreated

\* A step that leaves the lists alone keeps what is said of them.
LEMMA ListsUnchanged ==
  ASSUME Lists, UNCHANGED <<effects, prepared, attempted, recoveryAttempted>>
  PROVE  Lists'
BY DEF Lists

\* The loops that clean up count downwards.
LEMMA LowerCursor ==
  ASSUME NEW c \in Nat, NEW n, c <= n, NEW d, d = c - 1, n \in Nat
  PROVE  d <= n
OBVIOUS

\* Every step keeps the loops within their lists.
LEMMA IndexStep ==
  ASSUME TypeOK, IndexInv, SafetyInv, [Next]_vars
  PROVE  IndexInv'
<1> USE DEF filesystem, plan, progress, recovery, residue, verdict, history
<1>0. Lists /\ Cursors
  BY IndexParts
<1>n. cursor \in Nat /\ Len(staged) \in Nat /\ Len(created) \in Nat
  <2>1. cursor \in Nat /\ staged \in Seq(Paths) /\ created \in Seq(Directories)
    BY DEF TypeOK
  <2> QED  BY <2>1
<1>l. /\ Len(effects) \in Nat /\ Len(prepared) \in Nat /\ Len(attempted) \in Nat
      /\ Len(recoveryAttempted) \in Nat
  <2>1. effects \in Seq(Paths) /\ prepared \in Seq(Paths) /\ attempted \in Seq(Paths)
        /\ recoveryAttempted \in Seq(Paths)
    BY DEF TypeOK
  <2> QED  BY <2>1
<1>c. (cursor' = CleanFrom /\ staged' = staged) => InStaged'
  BY <1>n DEF CleanFrom, InStaged
<1>1. CASE Plan
  <2>1. pc = "plan" /\ pc' \in {"validate", "done"}
        /\ UNCHANGED <<prepared, attempted, recoveryAttempted>>
    BY <1>1 DEF Plan
  <2>2. Len(prepared) = 0 /\ Len(attempted) = 0 /\ Len(recoveryAttempted) = 0
    BY <1>0, <1>l, <2>1 DEF Lists, Cursors
  <2>3. effects' \in Seq(Paths)
    BY TypeStep DEF TypeOK
  <2>4. Lists'
    BY <2>1, <2>2, <2>3 DEF Lists
  <2>5. Cursors'
    BY <2>1 DEF Cursors
  <2> QED  BY <2>4, <2>5, IndexParts
<1>2. CASE Validate
  <2>1. pc' \in {"finish", "directories"} /\ (pc' = "directories" => cursor' = 1)
        /\ UNCHANGED <<effects, prepared, attempted, recoveryAttempted>>
    BY <1>2 DEF Validate
  <2>2. cursor' = 1 => AtDirectory'
    BY DEF AtDirectory
  <2>3. Cursors'
    BY <2>1, <2>2 DEF Cursors
  <2> QED  BY <1>0, <2>1, <2>3, ListsUnchanged, IndexParts
<1>3. CASE MakeDirectory
  <2>1. /\ pc = "directories"
        /\ \/ pc' = pc /\ cursor' = cursor + 1
           \/ pc' = "clean stages" /\ cursor' = CleanFrom
        /\ UNCHANGED <<effects, prepared, attempted, recoveryAttempted, staged>>
    BY <1>3 DEF MakeDirectory, PrepareFailed
  <2>2. AtDirectory
    BY <1>0, <2>1 DEF Cursors
  <2>3. cursor' = cursor + 1 => AtDirectory'
    BY <1>n, <2>2 DEF AtDirectory
  <2>4. cursor' = CleanFrom => InStaged'
    BY <1>c, <2>1
  <2>5. Cursors'
    BY <2>1, <2>3, <2>4 DEF Cursors
  <2> QED  BY <1>0, <2>1, <2>5, ListsUnchanged, IndexParts
<1>4. CASE DirectoriesMade \/ AllPrepared \/ Recapture \/ PollBeforeApply \/ RecoveryEnds
  <2>1. /\ \/ pc' \in {"make stage", "recapture", "poll", "apply", "invalidate", "finish"}
           \/ pc' = "clean stages" /\ cursor' = CleanFrom
        /\ UNCHANGED <<effects, prepared, attempted, recoveryAttempted, staged>>
    BY <1>4 DEF DirectoriesMade, AllPrepared, Recapture, PollBeforeApply, RecoveryEnds
  <2>2. Cursors'
    BY <1>c, <2>1 DEF Cursors
  <2> QED  BY <1>0, <2>1, <2>2, ListsUnchanged, IndexParts
<1>5. CASE MakeStage
  <2>1. /\ \/ pc' = "copy original"
           \/ pc' = "clean stages" /\ cursor' = CleanFrom /\ staged' = staged
        /\ UNCHANGED <<effects, prepared, attempted, recoveryAttempted>>
    BY <1>5 DEF MakeStage, PrepareFailed
  <2>2. MoreToPrepare'
    BY <1>5, <2>1 DEF MakeStage, MoreToPrepare
  <2>3. Cursors'
    BY <1>c, <2>1, <2>2 DEF Cursors
  <2> QED  BY <1>0, <2>1, <2>3, ListsUnchanged, IndexParts
<1>6. CASE CopyOriginal
  <2>1. /\ pc = "copy original"
        /\ \/ pc' = "write new"
           \/ pc' = "clean stages" /\ cursor' = CleanFrom
        /\ UNCHANGED <<effects, prepared, attempted, recoveryAttempted, staged>>
    BY <1>6 DEF CopyOriginal, PrepareFailed
  <2>2. UNCHANGED MoreToPrepare
    BY <2>1 DEF MoreToPrepare
  <2>3. Cursors'
    BY <1>0, <1>c, <2>1, <2>2 DEF Cursors
  <2> QED  BY <1>0, <2>1, <2>3, ListsUnchanged, IndexParts
<1>7. CASE WriteNew
  <2>1. /\ pc = "write new"
        /\ \/ pc' = "make stage"
           \/ pc' = "clean stages" /\ cursor' = CleanFrom
        /\ prepared' = prepared \/ prepared' = Append(prepared, Current)
        /\ UNCHANGED <<effects, attempted, recoveryAttempted, staged>>
    BY <1>7 DEF WriteNew, PrepareFailed
  <2>2. Len(prepared) < Len(effects)
    BY <1>0, <2>1 DEF Cursors, MoreToPrepare
  <2>3. Len(prepared') <= Len(effects)
    <3>1. prepared \in Seq(Paths)
      BY DEF TypeOK
    <3>2. CASE prepared' = Append(prepared, Current)
      <4>1. Len(prepared') = Len(prepared) + 1
        BY <3>1, <3>2, AppendLength
      <4> QED  BY <1>l, <2>2, <4>1
    <3>3. CASE prepared' = prepared
      BY <1>l, <2>2, <3>3
    <3> QED  BY <2>1, <3>2, <3>3
  <2>4. Lists'
    BY <1>0, <2>1, <2>3 DEF Lists
  <2>5. Cursors'
    BY <1>c, <2>1 DEF Cursors
  <2> QED  BY <2>4, <2>5, IndexParts
<1>8. CASE ApplyEffect
  <2> DEFINE p == effects[Len(attempted) + 1]
  <2>1. /\ pc = "apply"
        /\ \/ pc' \in {"apply", "recover"}
           \/ pc' = "clean stages" /\ cursor' = CleanFrom
        /\ attempted' = Append(attempted, p)
        /\ UNCHANGED <<effects, prepared, recoveryAttempted, staged>>
    BY <1>8 DEF ApplyEffect
  <2>2. Len(attempted) < Len(effects)
    BY <1>8 DEF ApplyEffect
  <2>3. attempted \in Seq(Paths)
    BY DEF TypeOK
  <2> HIDE DEF p
  <2>4. Len(attempted') = Len(attempted) + 1
    BY <2>1, <2>3, AppendLength
  <2>5. \A i \in 1..Len(attempted') : attempted'[i] = effects[i]
    <3>1. TAKE i \in 1..Len(attempted')
    <3>2. CASE i = Len(attempted) + 1
      BY <2>1, <2>3, <3>2, AppendLength DEF p
    <3>3. CASE i # Len(attempted) + 1
      <4>1. i \in 1..Len(attempted)
        BY <1>l, <2>4, <3>3
      <4>2. attempted'[i] = attempted[i]
        BY <2>1, <2>3, <4>1, AppendLength
      <4>3. attempted[i] = effects[i]
        BY <1>0, <4>1 DEF Lists
      <4> QED  BY <4>2, <4>3
    <3> QED  BY <3>2, <3>3
  <2>6. Len(attempted') <= Len(effects) /\ Len(recoveryAttempted) <= Len(attempted')
    <3>1. Len(recoveryAttempted) <= Len(attempted)
      BY <1>0 DEF Lists
    <3> QED  BY <1>l, <2>2, <2>4, <3>1
  <2>7. Lists'
    BY <1>0, <2>1, <2>5, <2>6 DEF Lists
  <2>8. Cursors'
    BY <1>c, <2>1 DEF Cursors
  <2> QED  BY <2>7, <2>8, IndexParts
<1>9. CASE RecoverEffect
  <2> DEFINE p == attempted[Len(attempted) - Len(recoveryAttempted)]
  <2>1. /\ pc' \in {"recover", "invalidate"}
        /\ recoveryAttempted' = Append(recoveryAttempted, p)
        /\ UNCHANGED <<effects, prepared, attempted>>
    BY <1>9 DEF RecoverEffect
  <2>2. Len(recoveryAttempted) # Len(attempted) /\ Len(recoveryAttempted) <= Len(attempted)
    BY <1>0, <1>9 DEF RecoverEffect, Recovered, Lists
  <2>3. recoveryAttempted \in Seq(Paths)
    BY DEF TypeOK
  <2> HIDE DEF p
  <2>4. Len(recoveryAttempted') = Len(recoveryAttempted) + 1
    BY <2>1, <2>3, AppendLength
  <2>5. Len(recoveryAttempted') <= Len(attempted)
    BY <1>l, <2>2, <2>4
  <2>6. Lists'
    BY <1>0, <2>1, <2>5 DEF Lists
  <2>7. Cursors'
    BY <2>1 DEF Cursors
  <2> QED  BY <2>6, <2>7, IndexParts
<1>10. CASE Invalidate \/ DirectoriesCleaned \/ Finish \/ Crash
  <2>1. /\ pc' \in {"recover", "finish", "done", "crashed"}
        /\ UNCHANGED <<effects, prepared, attempted, recoveryAttempted>>
    BY <1>10 DEF Invalidate, DirectoriesCleaned, Finish, Crash
  <2>2. Cursors'
    BY <2>1 DEF Cursors
  <2> QED  BY <1>0, <2>1, <2>2, ListsUnchanged, IndexParts
<1>11. CASE CleanStage
  <2>1. /\ pc = "clean stages" /\ pc' = pc
        /\ UNCHANGED <<effects, prepared, attempted, recoveryAttempted, staged>>
    BY <1>11 DEF CleanStage
  <2>2. cursor' = cursor - 1
    BY <1>11 DEF CleanStage
  <2>a. InStaged
    BY <1>0, <2>1 DEF Cursors
  <2>3. InStaged'
    BY <1>n, <2>1, <2>2, <2>a, LowerCursor DEF InStaged
  <2>4. Cursors'
    BY <2>1, <2>3 DEF Cursors
  <2> QED  BY <1>0, <2>1, <2>4, ListsUnchanged, IndexParts
<1>12. CASE StagesCleaned
  <2>1. /\ \/ pc' = "finish"
           \/ pc' = "clean directories" /\ cursor' = Len(created)
        /\ UNCHANGED <<effects, prepared, attempted, recoveryAttempted, created>>
    BY <1>12 DEF StagesCleaned
  <2>2. cursor' = Len(created) => InCreated'
    <3>1. created' = created
      BY <2>1
    <3> QED  BY <1>n, <3>1 DEF InCreated
  <2>3. Cursors'
    BY <2>1, <2>2 DEF Cursors
  <2> QED  BY <1>0, <2>1, <2>3, ListsUnchanged, IndexParts
<1>13. CASE CleanDirectory
  <2>1. /\ pc = "clean directories" /\ pc' = pc
        /\ UNCHANGED <<effects, prepared, attempted, recoveryAttempted, created>>
    BY <1>13 DEF CleanDirectory
  <2>2. cursor' = cursor - 1
    BY <1>13 DEF CleanDirectory
  <2>a. InCreated
    BY <1>0, <2>1 DEF Cursors
  <2>3. InCreated'
    BY <1>n, <2>1, <2>2, <2>a, LowerCursor DEF InCreated
  <2>4. Cursors'
    BY <2>1, <2>3 DEF Cursors
  <2> QED  BY <1>0, <2>1, <2>4, ListsUnchanged, IndexParts
<1>14. CASE \/ Signal \/ UNCHANGED vars
            \/ \E p \in Paths, c \in FileKinds : EditFile(p, c)
            \/ \E p \in Paths, owner \in {"none", "foreign"} : EditStage(p, owner)
            \/ \E d \in Directories, kind \in {"missing", "foreign"} : EditDirectory(d, kind)
  <2>1. UNCHANGED <<pc, cursor, effects, prepared, attempted, recoveryAttempted, staged,
                    created>>
    BY <1>14 DEF Signal, vars, EditFile, EditStage, EditDirectory, Edit
  <2>2. UNCHANGED <<AtDirectory, MoreToPrepare, InStaged, InCreated>>
    BY <2>1 DEF AtDirectory, MoreToPrepare, InStaged, InCreated
  <2>3. Cursors'
    BY <1>0, <2>1, <2>2 DEF Cursors
  <2> QED  BY <1>0, <2>1, <2>3, ListsUnchanged, IndexParts
<1> QED
  BY <1>1, <1>2, <1>3, <1>4, <1>5, <1>6, <1>7, <1>8, <1>9, <1>10, <1>11, <1>12, <1>13, <1>14
     DEF Next, Step, Environment

-----------------------------------------------------------------------------

\* The invariant holds when an execution starts.
LEMMA InitSafety == Init => IInv
<1> SUFFICES ASSUME Init PROVE IInv
  OBVIOUS
<1>1. TypeOK
  BY InitType
<1>2. IndexInv
  BY DEF Init, IndexInv
<1>3. Planned = {}
  BY DEF Init, Planned
<1>4. EffectsInv /\ PhaseInv /\ TheirsInv /\ UnappliedIsUnchanged /\ BackupInv
  BY DEF Init, EffectsInv, PhaseInv, TheirsInv, UnappliedIsUnchanged, BackupInv, Replacing
<1>5. ApplyInv /\ RestoreInv /\ RetractInv /\ CleanInv
  BY DEF Init, ApplyInv, RestoreInv, RetractInv, CleanInv
<1>6. NoOriginalLost /\ MarkerVouches
  BY <1>3 DEF Init, NoOriginalLost, MarkerVouches
<1> QED  BY <1>1, <1>2, <1>4, <1>5, <1>6 DEF IInv

\* Every step keeps the invariant.
LEMMA SafetyStep ==
  ASSUME TypeOK, IndexInv, SafetyInv, [Next]_vars
  PROVE  SafetyInv'
<1>1. CASE \/ Validate \/ MakeDirectory \/ DirectoriesMade \/ AllPrepared \/ Recapture
           \/ PollBeforeApply \/ RecoveryEnds \/ StagesCleaned \/ CleanDirectory
           \/ DirectoriesCleaned \/ Finish \/ Signal \/ Crash \/ UNCHANGED vars
           \/ \E d \in Directories, kind \in {"missing", "foreign"} : EditDirectory(d, kind)
  BY <1>1, QuietActions, QuietStep
<1>2. CASE Plan  BY <1>2, PlanStep
<1>3. CASE MakeStage  BY <1>3, MakeStageStep
<1>4. CASE CopyOriginal  BY <1>4, CopyOriginalStep
<1>5. CASE WriteNew  BY <1>5, WriteNewStep
<1>6. CASE ApplyEffect  BY <1>6, ApplyEffectStep
<1>7. CASE RecoverEffect  BY <1>7, RecoverEffectStep
<1>8. CASE Invalidate  BY <1>8, InvalidateStep
<1>9. CASE CleanStage  BY <1>9, CleanStageStep
<1>10. ASSUME NEW p \in Paths, NEW c \in FileKinds, EditFile(p, c) PROVE SafetyInv'
  BY <1>10, EditFileStep
<1>11. ASSUME NEW p \in Paths, NEW owner \in {"none", "foreign"}, EditStage(p, owner)
       PROVE  SafetyInv'
  BY <1>11, EditStageStep
<1> QED
  BY <1>1, <1>2, <1>3, <1>4, <1>5, <1>6, <1>7, <1>8, <1>9, <1>10, <1>11
     DEF Next, Step, Environment

\* IInv is inductive: the executor keeps its lists, its backups and the target in
\* the relation its loops rely on, whatever fails and whoever else edits.
THEOREM Invariance == Spec => []IInv
<1>1. IInv <=> TypeOK /\ IndexInv /\ SafetyInv
  BY DEF IInv, SafetyInv
<1>2. (IInv <=> TypeOK /\ IndexInv /\ SafetyInv)'
  BY DEF IInv, SafetyInv
<1>3. IInv /\ [Next]_vars => IInv'
  BY <1>1, <1>2, TypeStep, IndexStep, SafetyStep
<1> QED  BY InitSafety, <1>3, PTL DEF Spec

\* Every variable of the executor keeps its type.
THEOREM TypeCorrectness == Spec => []TypeOK
<1>1. IInv => TypeOK
  BY DEF IInv
<1> QED  BY <1>1, Invariance, PTL

\* The original of every planned file is on disk or in its backup until the
\* execution has committed: executeInitMutation never loses a managed file.
THEOREM OriginalsSurvive == Spec => []NoOriginalLost
<1>1. IInv => NoOriginalLost
  BY DEF IInv
<1> QED  BY <1>1, Invariance, PTL

\* A new adoption marker on disk means a complete snapshot, or a reported failure
\* to remove it: the marker is applied last and retracted first.
THEOREM MarkerIsTruthful == Spec => []MarkerVouches
<1>1. IInv => MarkerVouches
  BY DEF IInv
<1> QED  BY <1>1, Invariance, PTL

\* An execution that has not reached its first replacement leaves every managed
\* file to whoever else changes the target.
THEOREM PreparationIsHarmless == Spec => []UnappliedIsUnchanged
<1>1. IInv => UnappliedIsUnchanged
  BY DEF IInv
<1> QED  BY <1>1, Invariance, PTL

-----------------------------------------------------------------------------
(* The verdict. *)

HIDE DEF Modes, DirKinds, Terminal

\* The groups of variables, and what their types say of the lists.

\* The lists of a state are sequences of paths.
LEMMA ListTypes ==
  ASSUME TypeOK
  PROVE  /\ effects \in Seq(Paths) /\ prepared \in Seq(Paths) /\ staged \in Seq(Paths)
         /\ attempted \in Seq(Paths) /\ applied \in Seq(Paths)
         /\ recoveryAttempted \in Seq(Paths)
BY DEF TypeOK

\* Their lengths are numbers.
LEMMA LengthTypes ==
  ASSUME TypeOK
  PROVE  /\ Len(effects) \in Nat /\ Len(prepared) \in Nat /\ Len(staged) \in Nat
         /\ Len(attempted) \in Nat /\ Len(applied) \in Nat
         /\ Len(recoveryAttempted) \in Nat
BY ListTypes

\* Only the empty one has no elements.
LEMMA EmptyLists ==
  ASSUME TypeOK
  PROVE  /\ effects = <<>> <=> Len(effects) = 0
         /\ prepared = <<>> <=> Len(prepared) = 0
         /\ staged = <<>> <=> Len(staged) = 0
         /\ attempted = <<>> <=> Len(attempted) = 0
         /\ applied = <<>> <=> Len(applied) = 0
         /\ recoveryAttempted = <<>> <=> Len(recoveryAttempted) = 0
BY ListTypes

\* What Append adds to the range of a sequence.
LEMMA AppendRange ==
  ASSUME NEW S, NEW s \in Seq(S), NEW x
  PROVE  Range(Append(s, x)) = Range(s) \cup {x}
<1>1. /\ Len(s) \in Nat /\ DOMAIN s = 1..Len(s)
      /\ DOMAIN Append(s, x) = 1..(Len(s) + 1)
      /\ Append(s, x)[Len(s) + 1] = x
      /\ \A i \in 1..Len(s) : Append(s, x)[i] = s[i]
  OBVIOUS
<1>2. Len(s) + 1 \in 1..(Len(s) + 1) /\ \A i \in 1..Len(s) : i \in 1..(Len(s) + 1)
  BY <1>1
<1>3. \A i \in 1..(Len(s) + 1) : i \in 1..Len(s) \/ i = Len(s) + 1
  BY <1>1
<1> QED  BY <1>1, <1>2, <1>3 DEF Range

\* The range of an empty sequence.
LEMMA EmptyRange ==
  Range(<<>>) = {}
BY DEF Range

\* The destination the recovery loop comes to next is an effect, and none of those
\* it has been at before.
LEMMA NextToRecover ==
  ASSUME TypeOK, IndexInv, EffectsInv, ListInv, ~Recovered
  PROVE  LET p == attempted[Len(attempted) - Len(recoveryAttempted)] IN
         /\ Len(attempted) - Len(recoveryAttempted) \in 1..Len(effects)
         /\ p = effects[Len(attempted) - Len(recoveryAttempted)]
         /\ p \notin Range(recoveryAttempted)
<1> DEFINE n == Len(attempted)
           k == Len(recoveryAttempted)
           e == Len(effects)
<1>1. n \in Nat /\ k \in Nat /\ e \in Nat /\ k <= n /\ k # n /\ n <= e
  BY LengthTypes DEF IndexInv, Recovered
<1>2. \A i \in 1..n : attempted[i] = effects[i]
  BY DEF IndexInv
<1>3. \A i \in 1..k : recoveryAttempted[i] = attempted[n + 1 - i]
  BY DEF ListInv, ListContents
<1>4. \A i, j \in 1..e : effects[i] = effects[j] => i = j
  BY DEF EffectsInv
<1>5. DOMAIN recoveryAttempted = 1..k
  BY ListTypes
<1> HIDE DEF n, k, e
<1>6. n - k \in 1..n /\ n - k \in 1..e
  BY <1>1
<1>7. \A i \in 1..k : n + 1 - i \in 1..n /\ n + 1 - i \in 1..e /\ n + 1 - i # n - k
  BY <1>1
<1>8. \A i \in 1..k : recoveryAttempted[i] # effects[n - k]
  BY <1>2, <1>3, <1>4, <1>6, <1>7
<1>9. effects[n - k] \notin Range(recoveryAttempted)
  BY <1>5, <1>8 DEF Range
<1> QED  BY <1>2, <1>6, <1>9 DEF n, k, e

-----------------------------------------------------------------------------
\* The scope.

\* A plan stays within the destinations of its mode.
LEMMA PlanScope ==
  ASSUME NEW m \in Modes, NEW files
  PROVE  {PlanEffects(m, files)[i] : i \in 1..Len(PlanEffects(m, files))}
           \subseteq Destinations(m)
<1> DEFINE a == ActivePayloads(m)
           t == IF m = "upgrade" /\ files[LegacyMarker] \in Contents
                THEN <<LegacyMarker, Marker>> ELSE <<Marker>>
           e == PlanEffects(m, files)
<1>1. a \in Seq(Payloads)
  BY PayloadOrder DEF ActivePayloads, Payloads
<1>2. t \in Seq(Destinations(m))
  <2>1. CASE t = <<LegacyMarker, Marker>> /\ m = "upgrade"
    <3>1. LegacyMarker \in Destinations(m) /\ Marker \in Destinations(m)
      BY <2>1 DEF Destinations
    <3> HIDE DEF t
    <3> QED  BY <2>1, <3>1
  <2>2. CASE t = <<Marker>>
    <3>1. Marker \in Destinations(m)
      BY DEF Destinations
    <3> HIDE DEF t
    <3> QED  BY <2>2, <3>1
  <2> QED  BY <2>1, <2>2
<1>3. \A i \in 1..Len(a) : a[i] \in Destinations(m)
  <2>1. DOMAIN a = 1..Len(a)
    BY <1>1
  <2> QED  BY <2>1 DEF Destinations, Range
<1>4. e = a \o t
  BY DEF PlanEffects
<1> HIDE DEF a, t, e
<1>5. \A i \in 1..Len(e) : (i \in 1..Len(a) /\ e[i] = a[i])
                           \/ (i - Len(a) \in 1..Len(t) /\ e[i] = t[i - Len(a)])
  BY <1>1, <1>2, <1>4
<1>6. \A i \in 1..Len(t) : t[i] \in Destinations(m)
  BY <1>2
<1>7. \A i \in 1..Len(e) : e[i] \in Destinations(m)
  BY <1>3, <1>5, <1>6
<1> QED  BY <1>7 DEF e

\* The destination the apply loop comes to next is planned.
LEMMA NextToApply ==
  ASSUME TypeOK, Len(attempted) < Len(effects)
  PROVE  /\ Len(attempted) + 1 \in 1..Len(effects)
         /\ effects[Len(attempted) + 1] \in Planned
<1>1. Len(attempted) + 1 \in 1..Len(effects)
  BY LengthTypes
<1> QED  BY <1>1, PlannedType

\* Only planned destinations are ever replaced, restored or removed.
LEMMA ScopeStep ==
  ASSUME TypeOK, IndexInv, SafetyInv, ListInv, ScopeInv, [Next]_vars
  PROVE  ScopeInv'
<1> USE DEF filesystem, plan, progress, recovery, residue, verdict, history
<1>1. CASE Plan
  <2>1. /\ effects' = effects \/ effects' = PlanEffects(mode, disk)
        /\ UNCHANGED <<mode, disk, theirs>> /\ pc = "plan"
    BY <1>1 DEF Plan
  <2>2. disk = theirs
    BY <2>1 DEF SafetyInv, PhaseInv, UnappliedIsUnchanged
  <2>3. CASE effects' = effects
    BY <2>1, <2>3 DEF ScopeInv, Planned
  <2>4. CASE effects' = PlanEffects(mode, disk)
    <3>1. mode \in Modes
      BY DEF TypeOK
    <3>2. Planned' \subseteq Destinations(mode)
      BY <2>4, <3>1, PlanScope DEF Planned
    <3> QED  BY <2>1, <2>2, <3>2 DEF ScopeInv
  <2> QED  BY <2>1, <2>3, <2>4
<1>2. CASE UNCHANGED <<effects, mode, disk, theirs>>
  BY <1>2 DEF ScopeInv, Planned
<1>3. ASSUME UNCHANGED <<effects, mode, theirs>>, NEW p \in Planned, NEW c,
             disk' = [disk EXCEPT ![p] = c]
      PROVE  ScopeInv'
  <2>1. UNCHANGED Planned
    BY <1>3 DEF Planned
  <2>2. \A q \in Paths \ Planned : disk'[q] = disk[q]
    BY <1>3 DEF TypeOK
  <2> QED  BY <1>3, <2>1, <2>2 DEF ScopeInv
<1>4. CASE ApplyEffect
  <2> DEFINE p == effects[Len(attempted) + 1]
  <2>1. /\ UNCHANGED <<effects, mode, theirs>>
        /\ disk' = disk \/ disk' = [disk EXCEPT ![p] = Target(p)]
    BY <1>4 DEF ApplyEffect
  <2>2. p \in Planned
    BY <1>4, NextToApply DEF ApplyEffect
  <2> QED  BY <1>2, <1>3, <2>1, <2>2
<1>5. CASE RecoverEffect
  <2> DEFINE p == attempted[Len(attempted) - Len(recoveryAttempted)]
  <2>1. /\ UNCHANGED <<effects, mode, theirs>>
        /\ disk' = disk \/ disk' = [disk EXCEPT ![p] = Restoration(p)]
    BY <1>5 DEF RecoverEffect
  <2>2. p \in Planned
    BY <1>5, NextToRecover, PlannedType DEF RecoverEffect, SafetyInv
  <2> QED  BY <1>2, <1>3, <2>1, <2>2
<1>6. CASE Invalidate
  <2>1. /\ UNCHANGED <<effects, mode, theirs>> /\ pc = "invalidate"
        /\ disk' = disk \/ disk' = [disk EXCEPT ![Marker] = "missing"]
    BY <1>6 DEF Invalidate
  <2>2. effects # <<>>
    <3>1. attempted # <<>>
      BY <2>1 DEF SafetyInv, PhaseInv
    <3>2. Len(attempted) <= Len(effects)
      BY DEF IndexInv
    <3> QED  BY <3>1, <3>2, LengthTypes, EmptyLists
  <2> QED  BY <1>2, <1>3, <2>1, <2>2, MarkerPlanned
<1>7. ASSUME NEW p \in Paths, NEW c \in FileKinds, EditFile(p, c) PROVE ScopeInv'
  <2>1. /\ UNCHANGED <<effects, mode>>
        /\ disk' = [disk EXCEPT ![p] = c] /\ theirs' = [theirs EXCEPT ![p] = c]
    BY <1>7 DEF EditFile, Edit
  <2>2. \A q \in Paths : disk[q] = theirs[q] => disk'[q] = theirs'[q]
    BY <2>1 DEF TypeOK
  <2> QED  BY <2>1, <2>2 DEF ScopeInv, Planned
<1>8. CASE \/ Validate \/ MakeDirectory \/ DirectoriesMade
           \/ MakeStage \/ CopyOriginal \/ WriteNew \/ AllPrepared
           \/ Recapture \/ PollBeforeApply \/ RecoveryEnds
           \/ CleanStage \/ StagesCleaned \/ CleanDirectory \/ DirectoriesCleaned
           \/ Finish \/ Signal \/ Crash \/ UNCHANGED vars
           \/ \E p \in Paths, owner \in {"none", "foreign"} : EditStage(p, owner)
           \/ \E d \in Directories, kind \in {"missing", "foreign"} : EditDirectory(d, kind)
  <2>1. UNCHANGED <<effects, mode, disk, theirs>>
    BY <1>8 DEF Validate, MakeDirectory, DirectoriesMade, MakeStage, CopyOriginal, BackUp,
                WriteNew, AllPrepared, Recapture, PollBeforeApply, RecoveryEnds, CleanStage,
                StagesCleaned, CleanDirectory, DirectoriesCleaned, Finish, Signal, Crash,
                vars, EditStage, EditDirectory, Edit
  <2> QED  BY <1>2, <2>1
<1> QED
  BY <1>1, <1>4, <1>5, <1>6, <1>7, <1>8 DEF Next, Step, Environment

-----------------------------------------------------------------------------
\* What other people do.

\* The recapture has seen every change that came before it, and what comes after
\* it is late.
LEMMA EarlyStep ==
  ASSUME TypeOK, IndexInv, SafetyInv, ScopeInv, EarlyInv, [Next]_vars
  PROVE  EarlyInv'
<1> USE DEF filesystem, plan, progress, recovery, residue, verdict, history
<1>1. CASE Recapture
  <2>1. /\ UNCHANGED <<disk, mode, pre, effects, theirs, touched, attempted>>
        /\ pc = "recapture"
        /\ pc' = "poll" => StalePaths = {}
        /\ pc' \in {"poll", "clean stages"}
    BY <1>1 DEF Recapture
  <2>2. attempted = <<>> /\ disk = theirs
    BY <2>1 DEF SafetyInv, PhaseInv, UnappliedIsUnchanged
  <2>3. StalePaths = {} => \A p \in Planned : theirs[p] = pre.files[p]
    BY <2>2 DEF ScopeInv, StalePaths
  <2>4. UNCHANGED Planned
    BY <2>1 DEF Planned
  <2> QED  BY <2>1, <2>2, <2>3, <2>4 DEF EarlyInv
<1>2. CASE Plan
  <2>1. pc = "plan" /\ pc' \in {"validate", "done"} /\ UNCHANGED attempted
    BY <1>2 DEF Plan
  <2>2. attempted = <<>>
    BY <2>1 DEF SafetyInv, PhaseInv
  <2> QED  BY <2>1, <2>2 DEF EarlyInv
<1>3. CASE /\ pc' \in {"poll", "apply"} => pc \in {"poll", "apply"}
           /\ attempted' # <<>> => attempted # <<>> \/ pc = "apply"
           /\ UNCHANGED <<effects, touched, theirs, pre>>
  BY <1>3 DEF EarlyInv, Planned
<1>4. ASSUME UNCHANGED <<effects, pc, attempted, pre>>, NEW p \in Paths, Touch(p),
             \A q \in Paths \ {p} : theirs'[q] = theirs[q]
      PROVE  EarlyInv'
  <2>1. UNCHANGED Planned
    BY <1>4 DEF Planned
  <2>2. SUFFICES ASSUME pc \in {"poll", "apply"} \/ attempted # <<>>,
                        NEW q \in Planned, touched'[q] # "late"
                 PROVE  theirs'[q] = pre.files[q]
    BY <1>4, <2>1 DEF EarlyInv
  <2>3. pc \notin Preparing \ {"poll"}
    BY <2>2 DEF SafetyInv, PhaseInv
  <2>4. touched' = [touched EXCEPT ![p] = "late"]
    BY <1>4, <2>3 DEF Touch
  <2>5. q \in Paths
    BY PlannedType
  <2>6. q # p /\ touched[q] = touched'[q]
    BY <2>2, <2>4, <2>5 DEF TypeOK
  <2> QED  BY <1>4, <2>2, <2>5, <2>6 DEF EarlyInv
<1>5. ASSUME NEW p \in Paths, NEW c \in FileKinds, EditFile(p, c) PROVE EarlyInv'
  <2>1. /\ UNCHANGED <<effects, pc, attempted, pre>> /\ Touch(p)
        /\ theirs' = [theirs EXCEPT ![p] = c]
    BY <1>5 DEF EditFile, Edit
  <2>2. \A q \in Paths \ {p} : theirs'[q] = theirs[q]
    BY <2>1 DEF TypeOK
  <2> QED  BY <1>4, <2>1, <2>2
<1>6. ASSUME NEW p \in Paths, NEW owner \in {"none", "foreign"}, EditStage(p, owner)
      PROVE  EarlyInv'
  BY <1>4, <1>6 DEF EditStage, Edit
<1>7. CASE \/ Validate \/ MakeDirectory \/ DirectoriesMade
           \/ MakeStage \/ CopyOriginal \/ WriteNew \/ AllPrepared
           \/ PollBeforeApply \/ ApplyEffect \/ RecoverEffect \/ Invalidate
           \/ RecoveryEnds
  <2>1. /\ pc' \in {"poll", "apply"} => pc \in {"poll", "apply"}
        /\ attempted' # <<>> => attempted # <<>> \/ pc = "apply"
        /\ UNCHANGED <<effects, touched, theirs, pre>>
    BY <1>7 DEF Validate, MakeDirectory, DirectoriesMade, MakeStage, CopyOriginal, BackUp,
                WriteNew, PrepareFailed, AllPrepared, PollBeforeApply, RecoveryEnds,
                ApplyEffect, RecoverEffect, Invalidate
  <2> QED  BY <1>3, <2>1
<1>8. CASE \/ CleanStage \/ StagesCleaned \/ CleanDirectory \/ DirectoriesCleaned
           \/ Finish \/ Signal \/ Crash \/ UNCHANGED vars
           \/ \E d \in Directories, kind \in {"missing", "foreign"} : EditDirectory(d, kind)
  <2>1. /\ pc' \in {"poll", "apply"} => pc \in {"poll", "apply"}
        /\ UNCHANGED <<attempted, effects, touched, theirs, pre>>
    BY <1>8 DEF CleanStage, StagesCleaned, CleanDirectory, DirectoriesCleaned, Finish,
                Signal, Crash, vars, EditDirectory, Edit
  <2> QED  BY <1>3, <2>1
<1> QED
  BY <1>1, <1>2, <1>5, <1>6, <1>7, <1>8 DEF Next, Step, Environment

-----------------------------------------------------------------------------
\* What is back in place.

\* Cleaning up starts where every original nobody touched is in place.
LEMMA RestoredStep ==
  ASSUME TypeOK, IndexInv, SafetyInv, RestoredInv, [Next]_vars
  PROVE  RestoredInv'
<1> USE DEF filesystem, plan, progress, recovery, residue, verdict, history
<1>1. CASE /\ pc \in Preparing /\ UNCHANGED <<effects, disk, pre, touched>>
  <2>1. UNCHANGED Planned
    BY <1>1 DEF Planned
  <2>2. \A p \in Planned : Untouched(p) => Original(p)
    BY <1>1, PreparingOriginal DEF Original
  <2> QED  BY <1>1, <2>1, <2>2 DEF RestoredInv, Untouched, Original
<1>2. CASE pc' \notin Cleaning \/ committed' \/ unrecovered' # {}
  BY <1>2 DEF RestoredInv
<1>3. CASE pc \in Cleaning /\ UNCHANGED <<committed, unrecovered, effects, disk, pre, touched>>
  BY <1>3 DEF RestoredInv, Planned, Untouched, Original
<1>4. CASE Plan  BY <1>2, <1>4 DEF Plan, Cleaning
<1>5. CASE \/ Validate \/ MakeDirectory \/ DirectoriesMade
           \/ MakeStage \/ WriteNew \/ AllPrepared \/ Recapture \/ PollBeforeApply
  BY <1>1, <1>5 DEF Validate, MakeDirectory, DirectoriesMade, MakeStage, WriteNew, AllPrepared,
                    Recapture, PollBeforeApply
<1>6. CASE CopyOriginal
  BY <1>1, <1>6 DEF CopyOriginal, BackUp
<1>7. CASE ApplyEffect
  <2>1. pc = "apply" /\ (pc' \in Cleaning => committed')
    BY <1>7 DEF ApplyEffect, Cleaning
  <2> QED  BY <1>2, <2>1
<1>8. CASE RecoverEffect \/ Invalidate
  BY <1>2, <1>8 DEF RecoverEffect, Invalidate, Cleaning
<1>9. CASE RecoveryEnds
  <2>1. /\ pc = "recover" /\ UNCHANGED <<effects, disk, pre, touched, unrecovered>>
        /\ Len(recoveryAttempted) = Len(attempted)
    BY <1>9 DEF RecoveryEnds, Recovered
  <2>2. SUFFICES ASSUME unrecovered = {}, NEW p \in Planned, Untouched(p)
                 PROVE  Original(p)
    BY <2>1 DEF RestoredInv, Planned, Untouched, Original
  <2>3. PICK i \in 1..Len(effects) : effects[i] = p
    BY DEF Planned
  <2>4. i > Len(attempted) - Len(recoveryAttempted)
    BY <2>1, ListTypes, AboveZero
  <2> QED  BY <2>1, <2>2, <2>3, <2>4 DEF SafetyInv, RestoreInv
<1>10. CASE CleanStage \/ StagesCleaned \/ CleanDirectory \/ DirectoriesCleaned
  BY <1>3, <1>10 DEF CleanStage, StagesCleaned, CleanDirectory, DirectoriesCleaned, Cleaning
<1>11. CASE Finish \/ Crash
  BY <1>2, <1>11 DEF Finish, Crash, Cleaning
<1>12. ASSUME UNCHANGED <<effects, pc, pre, committed, unrecovered>>,
              NEW p \in Paths, Touch(p),
              \A q \in Paths \ {p} : disk'[q] = disk[q]
       PROVE  RestoredInv'
  <2>1. UNCHANGED Planned
    BY <1>12 DEF Planned
  <2>2. \A q \in Paths : Untouched(q)' => q # p /\ Untouched(q)
    BY <1>12 DEF Touch, Untouched, TypeOK
  <2>3. \A q \in Planned : Untouched(q)' => Untouched(q) /\ disk'[q] = disk[q]
    BY <1>12, <2>2, PlannedType
  <2> QED  BY <1>12, <2>1, <2>3 DEF RestoredInv, Original
<1>13. ASSUME NEW p \in Paths, NEW c \in FileKinds, EditFile(p, c) PROVE RestoredInv'
  <2>1. /\ UNCHANGED <<effects, pc, pre, committed, unrecovered>> /\ Touch(p)
        /\ disk' = [disk EXCEPT ![p] = c]
    BY <1>13 DEF EditFile, Edit
  <2>2. \A q \in Paths \ {p} : disk'[q] = disk[q]
    BY <2>1 DEF TypeOK
  <2> QED  BY <1>12, <2>1, <2>2
<1>14. ASSUME NEW p \in Paths, NEW owner \in {"none", "foreign"}, EditStage(p, owner)
       PROVE  RestoredInv'
  BY <1>12, <1>14 DEF EditStage, Edit
<1>15. CASE \/ Signal \/ UNCHANGED vars
            \/ \E d \in Directories, kind \in {"missing", "foreign"} : EditDirectory(d, kind)
  <2>1. UNCHANGED <<pc, committed, unrecovered, effects, disk, pre, touched>>
    BY <1>15 DEF Signal, vars, EditDirectory, Edit
  <2> QED  BY <2>1 DEF RestoredInv, Planned, Untouched, Original
<1> QED
  BY <1>4, <1>5, <1>6, <1>7, <1>8, <1>9, <1>10, <1>11, <1>13, <1>14, <1>15
     DEF Next, Step, Environment
-----------------------------------------------------------------------------
\* The lists.

\* A list that grows by the next effect still follows the plan.
LEMMA GrowsByPlan ==
  ASSUME NEW S, NEW s \in Seq(S), NEW e \in Seq(S),
         \A i \in 1..Len(s) : s[i] = e[i]
  PROVE  \A i \in 1..Len(Append(s, e[Len(s) + 1])) :
           Append(s, e[Len(s) + 1])[i] = e[i]
<1>1. Len(s) \in Nat /\ Len(Append(s, e[Len(s) + 1])) = Len(s) + 1
  BY AppendLength
<1>2. TAKE i \in 1..Len(Append(s, e[Len(s) + 1]))
<1>3. CASE i = Len(s) + 1
  BY <1>3, AppendLength
<1>4. CASE i # Len(s) + 1
  <2>1. i \in 1..Len(s)
    BY <1>1, <1>4
  <2> QED  BY <2>1, AppendLength
<1> QED  BY <1>3, <1>4

\* Where no list changes, the program counter moves between positions that ask the
\* same of them.
LEMMA ListQuiet ==
  ASSUME TypeOK, SafetyInv, ListInv,
         UNCHANGED <<effects, prepared, staged, attempted, applied, recoveryAttempted>>,
         \/ pc' = pc
         \/ pc \in Starting /\ pc' \in Starting \cup {"make stage"}
         \/ pc \in {"copy original", "write new"} /\ pc' \in {"copy original", "write new"}
         \/ /\ pc \in {"make stage", "recapture", "poll"} \cup Replacing
            /\ pc' \in {"recapture", "poll"} \cup Replacing
            /\ pc' \in Forward => pc \in Forward
         \/ pc' \in Cleaning \cup Terminal
  PROVE  ListInv'
<1>1. ListContents'
  BY DEF ListInv, ListContents
<1>2. ListLengths
  BY DEF ListInv
<1>3. (pc \in Starting /\ pc' = "make stage") => Len(staged) = Len(prepared)
  BY <1>2 DEF ListLengths
<1>4. ListLengths'
  BY <1>2, <1>3 DEF ListLengths, Starting, Replacing, Cleaning, Terminal, Forward
<1> QED
  BY <1>1, <1>4 DEF ListInv

\* Every loop appends what the plan has next, and no action forgets what a list holds.
LEMMA ListStep ==
  ASSUME TypeOK, IndexInv, SafetyInv, ListInv, [Next]_vars
  PROVE  ListInv'
<1> USE DEF filesystem, plan, progress, recovery, residue, verdict, history
<1>1. CASE Plan
  <2>1. pc = "plan" /\ pc' \in {"validate", "done"}
        /\ UNCHANGED <<prepared, staged, attempted, applied, recoveryAttempted>>
    BY <1>1 DEF Plan
  <2>2. prepared = <<>> /\ staged = <<>> /\ attempted = <<>>
    BY <2>1 DEF ListInv, ListLengths, Starting, SafetyInv, PhaseInv
  <2>5. Len(attempted) = 0
    BY <2>1, EmptyLists DEF SafetyInv, PhaseInv
  <2>3. Len(applied) = 0 /\ Len(recoveryAttempted) = 0
    <3>1. Len(applied) <= Len(attempted) /\ Len(recoveryAttempted) <= Len(attempted)
      BY DEF ListInv, ListLengths, IndexInv
    <3>2. Len(attempted) = 0
      BY <2>2
    <3> QED  BY <3>1, <3>2, LengthTypes, EmptyLists
  <2>4. Len(effects') \in Nat
    <3>1. effects' \in Seq(Paths)
      BY TypeStep DEF TypeOK
    <3> QED  BY <3>1
  <2>6. ListContents'
    BY <2>1, <2>2, <2>3 DEF ListContents
  <2>7. ListLengths'
    <3>1. /\ Len(staged') <= Len(effects') /\ Len(applied') <= Len(attempted')
          /\ Len(applied') = Len(attempted') /\ Len(prepared') = 0 /\ Len(staged') = 0
          /\ Len(attempted') = 0
      BY <2>1, <2>2, <2>3, <2>4, <2>5
    <3> QED  BY <2>1, <3>1 DEF ListLengths, Starting, Replacing, Forward
  <2> QED  BY <2>6, <2>7 DEF ListInv
<1>2. CASE MakeStage
  <2>1. /\ pc = "make stage" /\ Len(prepared) < Len(effects)
        /\ UNCHANGED <<effects, prepared, attempted, applied, recoveryAttempted>>
        /\ \/ pc' = "copy original" /\ staged' = Append(staged, Current)
           \/ pc' = "clean stages" /\ staged' = staged
    BY <1>2 DEF MakeStage, PrepareFailed
  <2>2. CASE pc' = "clean stages" /\ staged' = staged
    BY <2>1, <2>2, ListQuiet DEF Cleaning
  <2>3. CASE pc' = "copy original" /\ staged' = Append(staged, Current)
    <3>1. Len(staged) = Len(prepared) /\ Len(applied) = Len(attempted) /\ Len(attempted) = 0
      BY <2>1, EmptyLists DEF ListInv, ListLengths, Forward, SafetyInv, PhaseInv
    <3>2. Current = effects[Len(staged) + 1]
      BY <3>1 DEF Current
    <3>3. \A i \in 1..Len(staged') : staged'[i] = effects[i]
      <4>1. \A i \in 1..Len(staged) : staged[i] = effects[i]
        BY DEF ListInv, ListContents
      <4>2. effects \in Seq(Paths) /\ staged \in Seq(Paths)
        BY ListTypes
      <4>3. staged' = Append(staged, effects[Len(staged) + 1])
        BY <2>3, <3>2
      <4> QED  BY <4>1, <4>2, <4>3, GrowsByPlan
    <3>4. Len(staged') = Len(prepared) + 1 /\ Len(staged') <= Len(effects)
      <4>1. Len(staged') = Len(staged) + 1
        BY <2>3, ListTypes, AppendLength
      <4>2. Len(prepared) < Len(effects)
        BY <2>1
      <4> QED  BY <3>1, <4>1, <4>2, LengthTypes
    <3>5. ListContents'
      BY <2>1, <3>3 DEF ListInv, ListContents
    <3>6. ListLengths'
      BY <2>1, <2>3, <3>1, <3>4 DEF ListInv, ListLengths, Starting, Replacing, Forward
    <3> QED  BY <3>5, <3>6 DEF ListInv
  <2> QED  BY <2>1, <2>2, <2>3
<1>3. CASE WriteNew
  <2>1. /\ pc = "write new"
        /\ UNCHANGED <<effects, staged, attempted, applied, recoveryAttempted>>
        /\ \/ pc' = "make stage" /\ prepared' = Append(prepared, Current)
           \/ pc' = "clean stages" /\ prepared' = prepared
    BY <1>3 DEF WriteNew, PrepareFailed
  <2>2. CASE pc' = "clean stages" /\ prepared' = prepared
    BY <2>1, <2>2, ListQuiet DEF Cleaning
  <2>3. CASE pc' = "make stage" /\ prepared' = Append(prepared, Current)
    <3>1. Len(staged) = Len(prepared) + 1 /\ Len(applied) = Len(attempted) /\ Len(attempted) = 0
      BY <2>1, EmptyLists DEF ListInv, ListLengths, Forward, SafetyInv, PhaseInv
    <3>2. \A i \in 1..Len(prepared') : prepared'[i] = effects[i]
      <4>1. \A i \in 1..Len(prepared) : prepared[i] = effects[i]
        BY DEF ListInv, ListContents
      <4>2. effects \in Seq(Paths) /\ prepared \in Seq(Paths)
        BY ListTypes
      <4>3. prepared' = Append(prepared, effects[Len(prepared) + 1])
        BY <2>3 DEF Current
      <4> QED  BY <4>1, <4>2, <4>3, GrowsByPlan
    <3>3. Len(prepared') = Len(staged)
      <4>1. Len(prepared') = Len(prepared) + 1
        BY <2>3, ListTypes, AppendLength
      <4> QED  BY <3>1, <4>1
    <3>4. ListContents'
      BY <2>1, <3>2 DEF ListInv, ListContents
    <3>5. ListLengths'
      BY <2>1, <2>3, <3>1, <3>3 DEF ListInv, ListLengths, Starting, Replacing, Forward
    <3> QED  BY <3>4, <3>5 DEF ListInv
  <2> QED  BY <2>1, <2>2, <2>3
<1>4. CASE ApplyEffect
  <2> DEFINE p == effects[Len(attempted) + 1]
  <2>1. /\ pc = "apply" /\ pc' \in {"apply", "recover", "clean stages"}
        /\ attempted' = Append(attempted, p)
        /\ UNCHANGED <<effects, prepared, staged, recoveryAttempted>>
        /\ \/ applied' = Append(applied, p)
           \/ applied' = applied /\ pc' = "recover"
    BY <1>4 DEF ApplyEffect
  <2>2. /\ Len(prepared) = Len(effects) /\ Len(staged) = Len(prepared)
        /\ Len(applied) = Len(attempted) /\ Len(recoveryAttempted) = 0
    BY <2>1, EmptyLists DEF ListInv, ListLengths, Forward, Replacing, SafetyInv, PhaseInv
  <2> HIDE DEF p
  <2>3. /\ Len(attempted') = Len(attempted) + 1 /\ attempted'[Len(attempted) + 1] = p
        /\ \A i \in 1..Len(attempted) : attempted'[i] = attempted[i]
    <3>1. attempted \in Seq(Paths)
      BY ListTypes
    <3> QED  BY <2>1, <3>1, AppendLength
  <2>4. /\ Len(applied') <= Len(attempted')
        /\ pc' # "recover" => Len(applied') = Len(attempted')
        /\ \A i \in 1..Len(applied') : applied'[i] = attempted'[i]
    <3>1. \A i \in 1..Len(applied) : applied[i] = attempted[i]
      BY DEF ListInv, ListContents
    <3>2. CASE applied' = applied /\ pc' = "recover"
      BY <2>2, <2>3, <3>1, <3>2, LengthTypes
    <3>3. CASE applied' = Append(applied, p)
      <4>1. /\ Len(applied') = Len(applied) + 1 /\ applied'[Len(applied) + 1] = p
            /\ \A i \in 1..Len(applied) : applied'[i] = applied[i]
        BY <3>3, ListTypes, AppendLength
      <4>2. \A i \in 1..(Len(applied) + 1) : i \in 1..Len(applied) \/ i = Len(applied) + 1
        BY ListTypes
      <4> QED  BY <2>2, <2>3, <3>1, <4>1, <4>2, LengthTypes
    <3> QED  BY <2>1, <3>2, <3>3
  <2>5. \A i \in 1..Len(recoveryAttempted') :
          recoveryAttempted'[i] = attempted'[Len(attempted') + 1 - i]
    <3>1. Len(recoveryAttempted') = 0
      BY <2>1, <2>2
    <3> QED  BY <3>1
  <2>6. ListContents'
    BY <2>1, <2>4, <2>5 DEF ListInv, ListContents
  <2>7. ListLengths'
    BY <2>1, <2>2, <2>4 DEF ListInv, ListLengths, Starting, Replacing, Forward
  <2> QED  BY <2>6, <2>7 DEF ListInv
<1>5. CASE RecoverEffect
  <2> DEFINE n == Len(attempted)
             k == Len(recoveryAttempted)
             p == attempted[Len(attempted) - Len(recoveryAttempted)]
  <2>1. /\ pc = "recover" /\ pc' \in {"recover", "invalidate"}
        /\ recoveryAttempted' = Append(recoveryAttempted, p)
        /\ UNCHANGED <<effects, prepared, staged, attempted, applied>>
    BY <1>5 DEF RecoverEffect
  <2>2. /\ k \in Nat /\ n \in Nat
        /\ Len(recoveryAttempted') = k + 1 /\ recoveryAttempted'[k + 1] = attempted[n - k]
        /\ \A i \in 1..k : recoveryAttempted'[i] = recoveryAttempted[i]
    <3>1. recoveryAttempted \in Seq(Paths)
      BY ListTypes
    <3> QED  BY <2>1, <3>1, LengthTypes, AppendLength
  <2>3. \A i \in 1..k : recoveryAttempted[i] = attempted[n + 1 - i]
    BY DEF ListInv, ListContents
  <2> HIDE DEF n, k, p
  <2>4. \A i \in 1..(k + 1) : recoveryAttempted'[i] = attempted[n + 1 - i]
    <3>1. n + 1 - (k + 1) = n - k /\ \A i \in 1..(k + 1) : i \in 1..k \/ i = k + 1
      BY <2>2
    <3> QED  BY <2>2, <2>3, <3>1
  <2>5. \A i \in 1..Len(recoveryAttempted') :
          recoveryAttempted'[i] = attempted'[Len(attempted') + 1 - i]
    BY <2>1, <2>2, <2>4 DEF n
  <2>6. ListContents'
    BY <2>1, <2>5 DEF ListInv, ListContents
  <2>7. ListLengths'
    BY <2>1 DEF ListInv, ListLengths, Starting, Replacing, Forward
  <2> QED  BY <2>6, <2>7 DEF ListInv
<1>6. CASE Validate \/ MakeDirectory \/ DirectoriesMade \/ CopyOriginal
  BY <1>6, ListQuiet
     DEF Validate, MakeDirectory, DirectoriesMade, CopyOriginal, PrepareFailed, Starting, Cleaning
<1>8. CASE AllPrepared \/ Recapture \/ PollBeforeApply \/ Invalidate \/ RecoveryEnds
  BY <1>8, ListQuiet
     DEF AllPrepared, Recapture, PollBeforeApply, Invalidate, RecoveryEnds, Replacing,
         Cleaning, Forward
<1>7. CASE \/ CleanStage \/ StagesCleaned \/ CleanDirectory \/ DirectoriesCleaned
           \/ Finish \/ Signal \/ Crash \/ UNCHANGED vars
           \/ \E p \in Paths, c \in FileKinds : EditFile(p, c)
           \/ \E p \in Paths, owner \in {"none", "foreign"} : EditStage(p, owner)
           \/ \E d \in Directories, kind \in {"missing", "foreign"} : EditDirectory(d, kind)
  <2>1. /\ UNCHANGED <<effects, prepared, staged, attempted, applied, recoveryAttempted>>
        /\ pc' = pc \/ pc' \in Cleaning \cup Terminal
    BY <1>7 DEF CleanStage, StagesCleaned, CleanDirectory, DirectoriesCleaned, Finish, Signal,
                Crash, vars, EditFile, EditStage, EditDirectory, Edit, Cleaning, Terminal
  <2> QED  BY <2>1, ListQuiet
<1> QED
  BY <1>1, <1>2, <1>3, <1>4, <1>5, <1>6, <1>7, <1>8 DEF Next, Step, Environment
-----------------------------------------------------------------------------
\* What recovery records.

\* Recovery records every destination once, and deals with the marker once.
LEMMA RecoveryStep ==
  ASSUME TypeOK, IndexInv, SafetyInv, ListInv, RecoveryInv, [Next]_vars
  PROVE  RecoveryInv'
<1> USE DEF filesystem, plan, progress, recovery, residue, verdict, history
<1>1. CASE RecoverEffect
  <2> DEFINE p == attempted[Len(attempted) - Len(recoveryAttempted)]
  <2>1. /\ pc = "recover" /\ ~Recovered
        /\ recoveryAttempted' = Append(recoveryAttempted, p)
        /\ UNCHANGED <<invalidated, invalidationFailed>>
        /\ \/ /\ restored' = restored \cup {p} /\ unrecovered' = unrecovered /\ pc' = "recover"
           \/ /\ restored' = restored /\ unrecovered' = unrecovered \cup {p}
              /\ pc' = IF p = Marker THEN "invalidate" ELSE "recover"
    BY <1>1 DEF RecoverEffect
  <2>2. p \notin Range(recoveryAttempted)
    BY <2>1, NextToRecover DEF SafetyInv
  <2>3. Range(recoveryAttempted') = Range(recoveryAttempted) \cup {p}
    BY <2>1, ListTypes, AppendRange
  <2> HIDE DEF p
  <2>4. p = Marker => Handled = {}
    BY <2>1, <2>2 DEF RecoveryInv
  <2>5. Handled # {} => Marker \in Range(recoveryAttempted)
    BY <2>1 DEF RecoveryInv
  <2>6. UNCHANGED Handled
    BY <2>1 DEF Handled
  <2> QED  BY <2>1, <2>2, <2>3, <2>4, <2>5, <2>6 DEF RecoveryInv
<1>2. CASE Invalidate
  <2>1. /\ pc = "invalidate" /\ pc' = "recover"
        /\ UNCHANGED <<recoveryAttempted, attempted, restored, unrecovered>>
        /\ \/ invalidated' = {Marker} /\ invalidationFailed' = invalidationFailed
           \/ invalidated' = invalidated /\ invalidationFailed' = {Marker}
    BY <1>2 DEF Invalidate
  <2>2. /\ unrecovered # {} /\ invalidated = {} /\ invalidationFailed = {}
        /\ Marker \in Range(recoveryAttempted) \/ Recovered
    BY <2>1 DEF RecoveryInv, Handled, SafetyInv, PhaseInv
  <2> QED  BY <2>1, <2>2 DEF RecoveryInv, Recovered
<1>3. CASE RecoveryEnds
  <2>1. /\ pc = "recover" /\ Recovered
        /\ UNCHANGED <<recoveryAttempted, attempted, restored, unrecovered, invalidated,
                       invalidationFailed>>
        /\ pc' \in {"clean stages", "invalidate", "finish"}
        /\ pc' = "invalidate" => Marker \notin Handled
    BY <1>3 DEF RecoveryEnds, MarkerHandled, Handled
  <2>2. Handled \subseteq {Marker}
    BY DEF TypeOK, Handled
  <2>3. UNCHANGED Handled
    BY <2>1 DEF Handled
  <2> QED  BY <2>1, <2>2, <2>3 DEF RecoveryInv, Recovered
<1>4. CASE ApplyEffect
  <2>1. /\ pc = "apply" /\ pc' \in {"apply", "recover", "clean stages"}
        /\ UNCHANGED <<recoveryAttempted, restored, unrecovered, invalidated,
                       invalidationFailed>>
    BY <1>4 DEF ApplyEffect
  <2>2. Handled' = {}
    BY <2>1 DEF RecoveryInv, SafetyInv, PhaseInv, Handled
  <2> QED  BY <2>1, <2>2 DEF RecoveryInv
<1>5. CASE /\ UNCHANGED <<recoveryAttempted, restored, unrecovered, invalidated,
                           invalidationFailed, attempted>>
           /\ pc' \in {"recover", "invalidate"} => pc' = pc
  BY <1>5 DEF RecoveryInv, Recovered, Handled
<1>6. CASE \/ Plan \/ Validate \/ MakeDirectory \/ DirectoriesMade
           \/ MakeStage \/ CopyOriginal \/ WriteNew \/ AllPrepared
           \/ Recapture \/ PollBeforeApply
  BY <1>5, <1>6
     DEF Plan, Validate, MakeDirectory, DirectoriesMade, MakeStage, CopyOriginal, WriteNew,
         PrepareFailed, AllPrepared, Recapture, PollBeforeApply
<1>7. CASE \/ CleanStage \/ StagesCleaned \/ CleanDirectory \/ DirectoriesCleaned
           \/ Finish \/ Signal \/ Crash \/ UNCHANGED vars
           \/ \E p \in Paths, c \in FileKinds : EditFile(p, c)
           \/ \E p \in Paths, owner \in {"none", "foreign"} : EditStage(p, owner)
           \/ \E d \in Directories, kind \in {"missing", "foreign"} : EditDirectory(d, kind)
  BY <1>5, <1>7
     DEF CleanStage, StagesCleaned, CleanDirectory, DirectoriesCleaned, Finish, Signal,
         Crash, vars, EditFile, EditStage, EditDirectory, Edit
<1> QED
  BY <1>1, <1>2, <1>3, <1>4, <1>6, <1>7 DEF Next, Step, Environment

-----------------------------------------------------------------------------
\* What a failure says.

\* The stage a failure names.
LEMMA FailureStage ==
  ASSUME NEW s, NEW c
  PROVE  Failure(s, c).stage = s
BY DEF Failure

\* A failure is recorded at the stage where the execution turns back.
LEMMA FailureStep ==
  ASSUME TypeOK, IndexInv, SafetyInv, ListInv, RecoveryInv, FailureInv, [Next]_vars
  PROVE  FailureInv'
<1> USE DEF filesystem, plan, progress, recovery, residue, verdict, history
<1>1. CASE ApplyEffect
  <2> DEFINE p == effects[Len(attempted) + 1]
  <2>1. /\ pc = "apply" /\ Len(attempted) < Len(effects)
        /\ attempted' = Append(attempted, p)
        /\ UNCHANGED <<effects, mismatched, recoveryAttempted>>
    BY <1>1 DEF ApplyEffect
  <2>a. \/ pc' = "recover" /\ failure'.stage = "apply"
        \/ pc' = "apply" /\ failure' = failure
        \/ /\ pc' = "clean stages" /\ failure' = failure
           /\ Len(attempted) + 1 = Len(effects)
           /\ applied' = Append(applied, p)
    BY <1>1, FailureStage DEF ApplyEffect
  <2>b. pc' = "clean stages" => committed'
    BY <1>1, <2>1 DEF ApplyEffect
  <2>2. /\ failure = NoFailure /\ ~mismatched /\ Len(applied) = Len(attempted)
        /\ recoveryAttempted = <<>>
    BY <2>1 DEF FailureInv, Forward, ListInv, ListLengths, SafetyInv, PhaseInv
  <2>3. /\ Len(attempted') = Len(attempted) + 1
        /\ applied' = Append(applied, p) => Len(applied') = Len(applied) + 1
    BY <2>1, ListTypes, AppendLength
  <2>4. effects # <<>>
    BY <2>1, LengthTypes, EmptyLists
  <2> HIDE DEF p
  <2>5. CASE pc' = "recover" /\ failure'.stage = "apply"
    BY <2>1, <2>2, <2>5 DEF FailureInv, Forward, Cleaning
  <2>6. CASE pc' = "apply" /\ failure' = failure
    BY <2>1, <2>2, <2>6 DEF FailureInv, Forward, Cleaning
  <2>7. CASE /\ pc' = "clean stages" /\ failure' = failure
             /\ Len(attempted) + 1 = Len(effects)
             /\ applied' = Append(applied, p)
    <3>1. Len(attempted') = Len(effects) /\ Len(applied') = Len(effects)
      BY <2>2, <2>3, <2>7
    <3> QED  BY <2>1, <2>b, <2>2, <2>4, <2>7, <3>1 DEF FailureInv, Forward, Cleaning
  <2> QED  BY <2>a, <2>5, <2>6, <2>7
<1>2. CASE RecoveryEnds
  <2>1. /\ pc = "recover" /\ Recovered
        /\ UNCHANGED <<attempted, recoveryAttempted, unrecovered, invalidated,
                       invalidationFailed, mismatched, committed>>
        /\ \/ pc' = "clean stages" /\ unrecovered = {} /\ failure' = failure
           \/ pc' = "invalidate" /\ failure' = failure
           \/ /\ pc' = "finish" /\ unrecovered # {} /\ Marker \in Handled
              /\ failure'.stage = "recovery"
    BY <1>2, FailureStage DEF RecoveryEnds, MarkerHandled, KeepsBackups, Handled
  <2>2. failure.stage = "apply" /\ ~mismatched /\ attempted # <<>> /\ ~committed
    BY <2>1 DEF FailureInv, SafetyInv, PhaseInv, Committing, Replacing
  <2>3. Recovered' /\ Handled' = Handled
    BY <2>1 DEF Recovered, Handled
  <2>4. CASE pc' = "clean stages" /\ unrecovered = {} /\ failure' = failure
    BY <2>1, <2>2, <2>3, <2>4 DEF FailureInv, Forward, Cleaning
  <2>5. CASE pc' = "invalidate" /\ failure' = failure
    BY <2>1, <2>2, <2>5 DEF FailureInv, Forward, Cleaning
  <2>6. CASE pc' = "finish" /\ unrecovered # {} /\ Marker \in Handled /\ failure'.stage = "recovery"
    <3>1. Handled' # {} /\ unrecovered' # {} /\ attempted' # <<>> /\ ~committed' /\ ~mismatched'
      BY <2>1, <2>2, <2>3, <2>6
    <3> QED  BY <2>1, <2>3, <2>6, <3>1 DEF FailureInv, Forward, Cleaning
  <2> QED  BY <2>1, <2>4, <2>5, <2>6
<1>3. CASE /\ pc \in Preparing /\ pc' \in Cleaning
           /\ failure'.stage \in {"precondition", "prepare"}
           /\ UNCHANGED <<attempted, committed>>
  <2>1. attempted = <<>> /\ ~committed
    BY <1>3 DEF SafetyInv, PhaseInv, Committing
  <2> QED  BY <1>3, <2>1 DEF FailureInv, Forward, Cleaning
<1>4. CASE /\ pc \in Forward /\ pc' \in Forward /\ UNCHANGED <<failure, mismatched>>
  BY <1>4 DEF FailureInv, Forward, Cleaning
<1>5. CASE pc' \in Terminal
  BY <1>5 DEF FailureInv, Forward, Cleaning, Terminal
<1>6. CASE Plan
  BY <1>4, <1>5, <1>6 DEF Plan, Forward, Terminal
<1>7. CASE \/ Validate \/ MakeDirectory \/ DirectoriesMade \/ AllPrepared
           \/ Recapture \/ PollBeforeApply
  <2>1. /\ pc \in Preparing
        /\ \/ pc' \in Forward /\ UNCHANGED <<failure, mismatched>>
           \/ /\ pc' \in Cleaning /\ UNCHANGED <<attempted, committed>>
              /\ failure'.stage \in {"precondition", "prepare"}
    BY <1>7, FailureStage
       DEF Validate, MakeDirectory, DirectoriesMade, AllPrepared, Recapture,
           PollBeforeApply, PrepareFailed, Forward, Cleaning
  <2> QED  BY <1>3, <1>4, <2>1 DEF Forward
<1>8. CASE MakeStage \/ CopyOriginal \/ WriteNew
  <2>1. /\ pc \in Preparing
        /\ \/ pc' \in Forward /\ UNCHANGED <<failure, mismatched>>
           \/ /\ pc' \in Cleaning /\ UNCHANGED <<attempted, committed>>
              /\ failure'.stage = "prepare"
    BY <1>8, FailureStage
       DEF MakeStage, CopyOriginal, WriteNew, PrepareFailed, Forward, Cleaning
  <2> QED  BY <1>3, <1>4, <2>1 DEF Forward
<1>9. CASE RecoverEffect \/ Invalidate
  <2>1. /\ pc \in {"recover", "invalidate"} /\ pc' \in {"recover", "invalidate"}
        /\ UNCHANGED <<failure, mismatched>>
    BY <1>9 DEF RecoverEffect, Invalidate
  <2> QED  BY <2>1 DEF FailureInv, Forward, Cleaning
<1>10. CASE /\ pc \in Cleaning /\ pc' \in Cleaning
            /\ pc = "finish" => pc' = "finish"
            /\ UNCHANGED <<effects, attempted, applied, recoveryAttempted, unrecovered,
                           invalidated, invalidationFailed, mismatched, committed, failure>>
  <2>1. UNCHANGED <<Recovered, Handled>>
    BY <1>10 DEF Recovered, Handled
  <2> QED  BY <1>10, <2>1 DEF FailureInv, Forward, Cleaning
<1>11. CASE CleanStage \/ StagesCleaned \/ CleanDirectory \/ DirectoriesCleaned
  BY <1>10, <1>11 DEF CleanStage, StagesCleaned, CleanDirectory, DirectoriesCleaned, Cleaning
<1>12. CASE Finish \/ Crash
  BY <1>5, <1>12 DEF Finish, Crash, Terminal
<1>13. CASE \/ Signal \/ UNCHANGED vars
            \/ \E p \in Paths, c \in FileKinds : EditFile(p, c)
            \/ \E p \in Paths, owner \in {"none", "foreign"} : EditStage(p, owner)
            \/ \E d \in Directories, kind \in {"missing", "foreign"} : EditDirectory(d, kind)
  <2>1. UNCHANGED <<pc, effects, attempted, applied, recoveryAttempted, unrecovered,
                    invalidated, invalidationFailed, mismatched, committed, failure>>
    BY <1>13 DEF Signal, vars, EditFile, EditStage, EditDirectory, Edit
  <2>2. UNCHANGED <<Recovered, Handled>>
    BY <2>1 DEF Recovered, Handled
  <2> QED  BY <2>1, <2>2 DEF FailureInv
<1> QED
  BY <1>1, <1>2, <1>6, <1>7, <1>8, <1>9, <1>11, <1>12, <1>13 DEF Next, Step, Environment
-----------------------------------------------------------------------------
\* What is left behind.

\* Only what this execution made is ever named as residue.
LEMMA ResidueStep ==
  ASSUME TypeOK, IndexInv, SafetyInv, ListInv, ResidueInv, [Next]_vars
  PROVE  ResidueInv'
<1> USE DEF filesystem, plan, progress, recovery, residue, verdict, history
<1>1. CASE MakeStage
  <2>1. /\ pc = "make stage" /\ pc' \in {"copy original", "clean stages"}
        /\ staged' = staged \/ staged' = Append(staged, Current)
        /\ UNCHANGED <<stageResidue, dirResidue, committed>>
    BY <1>1 DEF MakeStage, PrepareFailed
  <2>2. Range(staged) \subseteq Range(staged')
    BY <2>1, ListTypes, AppendRange
  <2> QED  BY <2>1, <2>2 DEF ResidueInv, Forward
<1>2. CASE ApplyEffect
  <2>1. /\ pc = "apply" /\ UNCHANGED <<staged, stageResidue, dirResidue>>
        /\ pc' \in {"apply", "recover", "clean stages"}
    BY <1>2 DEF ApplyEffect
  <2> QED  BY <2>1 DEF ResidueInv, Forward
<1>3. CASE CleanStage
  <2>1. /\ pc = "clean stages" /\ pc' = pc /\ cursor > 0
        /\ UNCHANGED <<staged, dirResidue, committed>>
        /\ stageResidue' \subseteq stageResidue \cup {staged[cursor]}
    BY <1>3 DEF CleanStage
  <2>2. cursor \in 1..Len(staged) /\ DOMAIN staged = 1..Len(staged)
    <3>1. cursor <= Len(staged)
      BY <2>1 DEF IndexInv
    <3>2. cursor > 0
      BY <2>1
    <3>3. cursor \in Nat /\ staged \in Seq(Paths)
      BY DEF TypeOK
    <3> QED  BY <3>1, <3>2, <3>3
  <2>3. staged[cursor] \in Range(staged)
    BY <2>2 DEF Range
  <2> QED  BY <2>1, <2>3 DEF ResidueInv, Forward
<1>4. CASE StagesCleaned
  BY <1>4 DEF StagesCleaned, ResidueInv, Forward
<1>5. CASE CleanDirectory
  BY <1>5 DEF CleanDirectory, ResidueInv, Forward
<1>6. CASE \/ Validate \/ MakeDirectory \/ DirectoriesMade \/ CopyOriginal \/ WriteNew
           \/ AllPrepared \/ Recapture \/ PollBeforeApply
  <2>1. /\ UNCHANGED <<staged, stageResidue, dirResidue, committed>>
        /\ pc \in Forward /\ pc' \in Forward \cup {"clean stages", "finish"}
    BY <1>6 DEF Validate, MakeDirectory, DirectoriesMade, CopyOriginal, WriteNew,
                PrepareFailed, AllPrepared, Recapture, PollBeforeApply, Forward
  <2> QED  BY <2>1 DEF ResidueInv, Forward
<1>7. CASE \/ Plan \/ RecoverEffect \/ Invalidate \/ RecoveryEnds \/ DirectoriesCleaned
           \/ Finish \/ Crash
  <2>1. /\ UNCHANGED <<staged, stageResidue, dirResidue, committed>>
        /\ pc' \in Forward \cup {"recover", "invalidate", "clean stages"} =>
             pc \in Forward \cup {"recover", "invalidate"}
        /\ pc' # "clean directories"
    BY <1>7 DEF Plan, RecoverEffect, Invalidate, RecoveryEnds, DirectoriesCleaned,
                Finish, Crash, Forward
  <2> QED  BY <2>1 DEF ResidueInv, Forward
<1>8. CASE \/ Signal \/ UNCHANGED vars
           \/ \E p \in Paths, c \in FileKinds : EditFile(p, c)
           \/ \E p \in Paths, owner \in {"none", "foreign"} : EditStage(p, owner)
           \/ \E d \in Directories, kind \in {"missing", "foreign"} : EditDirectory(d, kind)
  <2>1. UNCHANGED <<pc, staged, stageResidue, dirResidue, committed>>
    BY <1>8 DEF Signal, vars, EditFile, EditStage, EditDirectory, Edit
  <2> QED  BY <2>1 DEF ResidueInv
<1> QED
  BY <1>1, <1>2, <1>3, <1>4, <1>5, <1>6, <1>7, <1>8 DEF Next, Step, Environment

\* Nothing is recorded of a recovery that has not begun.
LEMMA NothingRecovered ==
  ASSUME TypeOK, IndexInv, RecoveryInv, attempted = <<>> \/ recoveryAttempted = <<>>
  PROVE  /\ recoveryAttempted = <<>> /\ restored = {} /\ unrecovered = {} /\ Handled = {}
<1>1. Len(recoveryAttempted) <= Len(attempted)
  BY DEF IndexInv
<1>2. recoveryAttempted = <<>>
  BY <1>1, EmptyLists, LengthTypes
<1>3. restored \cup unrecovered = {}
  BY <1>2, EmptyRange DEF RecoveryInv
<1> QED  BY <1>2, <1>3 DEF RecoveryInv

\* Where stages or directories are cleaned up, nothing is unrecovered.
LEMMA CleaningRecovered ==
  ASSUME TypeOK, IndexInv, RecoveryInv, FailureInv, pc \in {"clean stages", "clean directories"}
  PROVE  unrecovered = {}
BY NothingRecovered DEF FailureInv, Cleaning

\* Above the recovery loop's index everything is restored or named.
LEMMA NamedStep ==
  ASSUME TypeOK, IndexInv, SafetyInv, ListInv, RecoveryInv, FailureInv, NamedInv, [Next]_vars
  PROVE  NamedInv'
<1> USE DEF filesystem, plan, progress, recovery, residue, verdict, history
<1>1. CASE ApplyEffect
  <2> DEFINE n == Len(attempted)
             p == effects[Len(attempted) + 1]
  <2>1. /\ pc = "apply" /\ pc' \in {"apply", "recover", "clean stages"}
        /\ attempted' = Append(attempted, p)
        /\ UNCHANGED <<effects, pre, touched, recoveryAttempted>>
        /\ disk' = disk \/ disk' = [disk EXCEPT ![p] = Target(p)]
    BY <1>1 DEF ApplyEffect
  <2>2. n < Len(effects) /\ n \in Nat /\ n + 1 \in 1..Len(effects)
    <3>1. n < Len(effects)
      BY <1>1 DEF ApplyEffect
    <3> QED  BY <3>1, LengthTypes
  <2>3. Len(attempted') = n + 1
    BY <2>1, ListTypes, AppendLength
  <2>4. Len(recoveryAttempted) = 0
    BY <2>1, EmptyLists DEF SafetyInv, PhaseInv
  <2>5. \A i \in 1..Len(effects) : i # n + 1 => effects[i] # p
    BY <2>2 DEF SafetyInv, EffectsInv
  <2>6. \A i \in 1..Len(effects) : (i > n /\ Untouched(effects[i])) => Original(effects[i])
    <3>1. \A i \in 1..Len(effects) : i > n => ~(i <= n)
      BY <2>2
    <3> QED  BY <2>1, <3>1 DEF SafetyInv, ApplyInv, Original
  <2>7. \A i \in 1..Len(effects) : i > n + 1 => i > n /\ i # n + 1
    BY <2>2
  <2> HIDE DEF n, p
  <2>8. \A i \in 1..Len(effects) : i # n + 1 => disk'[effects[i]] = disk[effects[i]]
    BY <2>1, <2>5, PlannedType DEF TypeOK
  <2>9. SUFFICES ASSUME NEW i \in 1..Len(effects), Untouched(effects[i]),
                        i > Len(attempted') - Len(recoveryAttempted')
        PROVE  disk'[effects[i]] = pre.files[effects[i]]
    BY <2>1 DEF NamedInv, Untouched, Original
  <2>10. recoveryAttempted' = recoveryAttempted
    BY <2>1
  <2>11. i > n + 1
    BY <2>2, <2>3, <2>4, <2>9, <2>10
  <2> QED  BY <2>6, <2>7, <2>8, <2>9, <2>11 DEF Original
<1>2. CASE RecoverEffect
  <2> DEFINE n == Len(attempted)
             k == Len(recoveryAttempted)
             p == attempted[Len(attempted) - Len(recoveryAttempted)]
  <2>1. /\ pc = "recover" /\ ~Recovered /\ pc' \in {"recover", "invalidate"}
        /\ recoveryAttempted' = Append(recoveryAttempted, p)
        /\ UNCHANGED <<effects, attempted, pre, touched, stage, invalidated, invalidationFailed>>
        /\ disk' = disk \/ disk' = [disk EXCEPT ![p] = Restoration(p)]
    BY <1>2 DEF RecoverEffect
  <2>2. \/ unrecovered' = unrecovered /\ disk' = [disk EXCEPT ![p] = Restoration(p)]
        \/ unrecovered' = unrecovered \cup {p}
    BY <1>2 DEF RecoverEffect, HasEffect
  <2>3. n - k \in 1..Len(effects) /\ p = effects[n - k]
    BY <2>1, NextToRecover DEF SafetyInv
  <2>4. Len(recoveryAttempted') = k + 1
    BY <2>1, ListTypes, AppendLength
  <2>5. /\ n \in Nat /\ k \in Nat
        /\ \A i \in 1..Len(effects) : i > n - (k + 1) => i > n - k \/ i = n - k
    BY LengthTypes
  <2>6. \A i \in 1..Len(effects) : i # n - k => effects[i] # p
    BY <2>3 DEF SafetyInv, EffectsInv
  <2>7. p \in Planned /\ p \in Paths
    BY <2>3, PlannedType
  <2>8. Untouched(p) => Restoration(p) = pre.files[p]
    BY <2>1, <2>7, AllBacked DEF Restoration, Replacing
  <2>9. \A i \in 1..Len(effects) :
          (i > n - k /\ Untouched(effects[i])) =>
            Original(effects[i]) \/ effects[i] \in unrecovered \cup Handled
    BY <2>1 DEF NamedInv
  <2> HIDE DEF n, k, p
  <2>10. Handled' = Handled /\ unrecovered \subseteq unrecovered'
    BY <2>1, <2>2 DEF Handled
  <2>11. \A i \in 1..Len(effects) : i # n - k => disk'[effects[i]] = disk[effects[i]]
    BY <2>1, <2>6, PlannedType DEF TypeOK
  <2>12. SUFFICES ASSUME NEW i \in 1..Len(effects), i > n - (k + 1), Untouched(effects[i])
         PROVE  \/ disk'[effects[i]] = pre.files[effects[i]]
                \/ effects[i] \in unrecovered' \cup Handled'
    BY <2>1, <2>4 DEF NamedInv, Untouched, Original, n
  <2>13. CASE i # n - k
    BY <2>5, <2>9, <2>10, <2>11, <2>12, <2>13 DEF Original
  <2>14. CASE i = n - k
    <3>1. CASE p \in unrecovered'
      BY <2>3, <2>14, <3>1
    <3>2. CASE disk' = [disk EXCEPT ![p] = Restoration(p)]
      BY <2>3, <2>7, <2>8, <2>12, <2>14, <3>2 DEF TypeOK
    <3> QED  BY <2>2, <3>1, <3>2
  <2> QED  BY <2>13, <2>14
<1>3. CASE Invalidate
  <2>1. /\ pc = "invalidate"
        /\ UNCHANGED <<effects, attempted, recoveryAttempted, unrecovered, pre, touched>>
        /\ disk' = disk \/ disk' = [disk EXCEPT ![Marker] = "missing"]
        /\ invalidated' = {Marker} \/ invalidationFailed' = {Marker}
    BY <1>3 DEF Invalidate
  <2>2. Handled = {} /\ Marker \in Handled'
    BY <2>1 DEF RecoveryInv, Handled
  <2>3. \A i \in 1..Len(effects) : effects[i] # Marker => disk'[effects[i]] = disk[effects[i]]
    BY <2>1, PlannedType DEF TypeOK
  <2> QED  BY <2>1, <2>2, <2>3 DEF NamedInv, Untouched, Original
<1>4. CASE /\ pc' \in {"recover", "invalidate", "finish"} => pc \in {"recover", "invalidate"}
           /\ UNCHANGED <<effects, attempted, recoveryAttempted, unrecovered, invalidated,
                          invalidationFailed, disk, pre, touched>>
  BY <1>4 DEF NamedInv, Untouched, Original, Handled
<1>5. CASE RecoveryEnds  BY <1>4, <1>5 DEF RecoveryEnds
<1>6. CASE pc' \notin {"recover", "invalidate"} /\ (pc' = "finish" => unrecovered' = {})
  BY <1>6 DEF NamedInv
<1>7. CASE \/ Plan \/ Validate \/ MakeDirectory \/ DirectoriesMade
           \/ MakeStage \/ CopyOriginal \/ WriteNew \/ AllPrepared
           \/ Recapture \/ PollBeforeApply
  <2>1. /\ pc \in Forward /\ pc' \notin {"recover", "invalidate"} /\ UNCHANGED unrecovered
    BY <1>7 DEF Plan, Validate, MakeDirectory, DirectoriesMade, MakeStage, CopyOriginal,
                WriteNew, PrepareFailed, AllPrepared, Recapture, PollBeforeApply, Forward
  <2>2. unrecovered = {}
    BY <2>1 DEF SafetyInv, PhaseInv, Forward
  <2> QED  BY <1>6, <2>1, <2>2
<1>8. ASSUME UNCHANGED <<pc, effects, attempted, recoveryAttempted, unrecovered, pre,
                         invalidated, invalidationFailed>>,
             NEW p \in Paths, Touch(p), \A q \in Paths \ {p} : disk'[q] = disk[q]
      PROVE  NamedInv'
  <2>1. \A q \in Paths : Untouched(q)' => q # p /\ Untouched(q)
    BY <1>8 DEF Touch, Untouched, TypeOK
  <2>2. \A i \in 1..Len(effects) :
          Untouched(effects[i])' => Untouched(effects[i]) /\ disk'[effects[i]] = disk[effects[i]]
    BY <1>8, <2>1, PlannedType
  <2> QED  BY <1>8, <2>2 DEF NamedInv, Original, Handled
<1>9. ASSUME NEW p \in Paths, NEW c \in FileKinds, EditFile(p, c) PROVE NamedInv'
  <2>1. /\ UNCHANGED <<pc, effects, attempted, recoveryAttempted, unrecovered, pre,
                       invalidated, invalidationFailed>>
        /\ Touch(p) /\ disk' = [disk EXCEPT ![p] = c]
    BY <1>9 DEF EditFile, Edit
  <2>2. \A q \in Paths \ {p} : disk'[q] = disk[q]
    BY <2>1 DEF TypeOK
  <2> QED  BY <1>8, <2>1, <2>2
<1>10. ASSUME NEW p \in Paths, NEW owner \in {"none", "foreign"}, EditStage(p, owner)
       PROVE  NamedInv'
  BY <1>8, <1>10 DEF EditStage, Edit
<1>11. CASE \/ Signal \/ UNCHANGED vars
            \/ \E d \in Directories, kind \in {"missing", "foreign"} : EditDirectory(d, kind)
  <2>1. UNCHANGED <<pc, effects, attempted, recoveryAttempted, unrecovered, invalidated,
                    invalidationFailed, disk, pre, touched>>
    BY <1>11 DEF Signal, vars, EditDirectory, Edit
  <2> QED  BY <2>1 DEF NamedInv, Untouched, Original, Handled
<1>12. CASE CleanStage \/ StagesCleaned \/ CleanDirectory \/ DirectoriesCleaned
  <2>1. /\ pc \in {"clean stages", "clean directories"} /\ pc' \notin {"recover", "invalidate"}
        /\ UNCHANGED unrecovered
    BY <1>12 DEF CleanStage, StagesCleaned, CleanDirectory, DirectoriesCleaned
  <2> QED  BY <1>6, <2>1, CleaningRecovered
<1>13. CASE Finish \/ Crash
  BY <1>6, <1>13 DEF Finish, Crash
<1> QED
  BY <1>1, <1>2, <1>3, <1>5, <1>7, <1>9, <1>10, <1>11, <1>12, <1>13 DEF Next, Step, Environment

-----------------------------------------------------------------------------
\* The verdict.

\* A list that has come to its end is the plan.
LEMMA SameList ==
  ASSUME NEW S, NEW s \in Seq(S), NEW e \in Seq(S), Len(s) = Len(e),
         \A i \in 1..Len(s) : s[i] = e[i]
  PROVE  s = e
OBVIOUS

\* A list that agrees with another as far as it goes is a prefix of it.
LEMMA AgreeingPrefix ==
  ASSUME NEW S, NEW s \in Seq(S), NEW e \in Seq(S), Len(s) <= Len(e),
         \A i \in 1..Len(s) : s[i] = e[i]
  PROVE  IsPrefix(s, e)
BY DEF IsPrefix

\* The elements of a part of the plan are planned.
LEMMA PartOfPlan ==
  ASSUME NEW S, NEW s \in Seq(S), NEW e \in Seq(S), Len(s) <= Len(e),
         \A i \in 1..Len(s) : s[i] = e[i]
  PROVE  Range(s) \subseteq Range(e)
<1>1. DOMAIN s = 1..Len(s) /\ DOMAIN e = 1..Len(e) /\ \A i \in 1..Len(s) : i \in 1..Len(e)
  OBVIOUS
<1> QED  BY <1>1 DEF Range

\* Recovery goes through the attempted effects backwards.
LEMMA RecoveredBackwards ==
  ASSUME TypeOK, ListInv, Recovered
  PROVE  /\ recoveryAttempted = Reverse(attempted)
         /\ Range(recoveryAttempted) = Range(attempted)
<1> DEFINE n == Len(attempted)
<1>1. /\ Len(recoveryAttempted) = n /\ n \in Nat
      /\ DOMAIN recoveryAttempted = 1..n /\ DOMAIN attempted = 1..n
  BY ListTypes DEF Recovered
<1>2. \A i \in 1..n : recoveryAttempted[i] = attempted[n + 1 - i]
  BY <1>1 DEF ListInv, ListContents
<1>3. recoveryAttempted = Reverse(attempted)
  <2>1. Reverse(attempted) = [i \in 1..n |-> attempted[(n - i) + 1]]
    BY DEF Reverse
  <2>2. \A i \in 1..n : (n - i) + 1 = n + 1 - i
    BY <1>1
  <2>3. recoveryAttempted = [i \in 1..n |-> recoveryAttempted[i]]
    BY <1>1, ListTypes
  <2> HIDE DEF n
  <2> QED  BY <1>2, <2>1, <2>2, <2>3
<1> HIDE DEF n
<1>4. \A i \in 1..n : n + 1 - i \in 1..n /\ n + 1 - (n + 1 - i) = i
  BY <1>1
<1>5. Range(recoveryAttempted) = Range(attempted)
  BY <1>1, <1>2, <1>4 DEF Range
<1> QED  BY <1>3, <1>5
\* An observation the evaluator accepts has an outcome of its own.
LEMMA AcceptedHasOutcome ==
  ASSUME NEW e, NEW obs, ValidExecutionObservation(e, obs),
         obs.committed \/ obs.failure # NoFailure
  PROVE  EvaluateInitMutation(e, obs) # "ERROR"
<1> DEFINE residueLeft == obs.stageResidue # {} \/ obs.dirResidue # {}
<1>1. EvaluateInitMutation(e, obs) =
        IF (obs.mismatched \/ obs.failure.stage = "precondition") /\ ~residueLeft
        THEN "INIT_OPERATION_REFUSED"
        ELSE IF \/ obs.unrecovered \cup obs.invalidationFailed # {}
                \/ obs.failure.stage = "recovery"
                \/ ~obs.committed /\ residueLeft
        THEN "INIT_RECOVERY_INCOMPLETE"
        ELSE IF ~obs.committed /\ obs.failure # NoFailure
        THEN "INIT_APPLY_FAILED_RECOVERED"
        ELSE IF residueLeft \/ obs.failure.stage = "cleanup"
        THEN "INIT_CLEANUP_INCOMPLETE"
        ELSE IF obs.committed THEN "INIT_APPLIED" ELSE "ERROR"
  BY DEF EvaluateInitMutation
<1> HIDE DEF residueLeft
<1> QED  BY <1>1

\* The observation of a finished execution is one the evaluator accepts, and no
\* failure of it goes unreported.
LEMMA AcceptedStep ==
  ASSUME TypeOK, IndexInv, SafetyInv, ListInv, RecoveryInv, FailureInv, ResidueInv,
         pc = "finish"
  PROVE  EvaluateInitMutation(effects, [Observation EXCEPT !.failure = ReportedFailure]) # "ERROR"
<1> DEFINE obs == [Observation EXCEPT !.failure = ReportedFailure]
           clean == stageResidue = {} /\ dirResidue = {}
<1>1. /\ obs.committed = committed /\ obs.prepared = prepared /\ obs.attempted = attempted
      /\ obs.applied = applied /\ obs.recoveryAttempted = recoveryAttempted
      /\ obs.restored = restored /\ obs.unrecovered = unrecovered
      /\ obs.invalidated = invalidated /\ obs.invalidationFailed = invalidationFailed
      /\ obs.retained = (IF unrecovered = {} THEN <<>> ELSE staged)
      /\ obs.stageResidue = stageResidue /\ obs.dirResidue = dirResidue
      /\ obs.mismatched = mismatched /\ obs.failure = ReportedFailure
  BY DEF Observation
<1> HIDE DEF obs
\* The lists.
<1>2. /\ IsPrefix(prepared, effects) /\ IsPrefix(attempted, effects)
      /\ IsPrefix(applied, attempted)
      /\ Range(staged) \subseteq Range(effects)
      /\ Range(attempted) \subseteq Range(effects)
  <2>1. /\ Len(prepared) <= Len(effects) /\ Len(attempted) <= Len(effects)
        /\ Len(applied) <= Len(attempted) /\ Len(staged) <= Len(effects)
    BY DEF IndexInv, ListInv, ListLengths
  <2>2. /\ \A i \in 1..Len(prepared) : prepared[i] = effects[i]
        /\ \A i \in 1..Len(attempted) : attempted[i] = effects[i]
        /\ \A i \in 1..Len(applied) : applied[i] = attempted[i]
        /\ \A i \in 1..Len(staged) : staged[i] = effects[i]
    BY DEF IndexInv, ListInv, ListContents
  <2>3. IsPrefix(prepared, effects) /\ IsPrefix(attempted, effects)
    BY <2>1, <2>2, ListTypes, AgreeingPrefix
  <2>4. IsPrefix(applied, attempted)
    BY <2>1, <2>2, ListTypes, AgreeingPrefix
  <2>5. Range(staged) \subseteq Range(effects) /\ Range(attempted) \subseteq Range(effects)
    BY <2>1, <2>2, ListTypes, PartOfPlan
  <2> QED  BY <2>3, <2>4, <2>5
<1>3. Len(attempted) # 0 => prepared = effects /\ staged = effects
  <2>1. \A i \in 1..Len(prepared) : prepared[i] = effects[i]
    BY DEF ListInv, ListContents
  <2>2. \A i \in 1..Len(staged) : staged[i] = effects[i]
    BY DEF ListInv, ListContents
  <2>3. Len(attempted) # 0 => Len(prepared) = Len(effects) /\ Len(staged) = Len(effects)
    BY DEF ListInv, ListLengths
  <2>4. Len(attempted) # 0 => prepared = effects
    BY <2>1, <2>3, ListTypes, SameList
  <2>5. Len(attempted) # 0 => staged = effects
    BY <2>2, <2>3, ListTypes, SameList
  <2> QED  BY <2>4, <2>5
<1>4. attempted = <<>> \/ recoveryAttempted = <<>> =>
        /\ recoveryAttempted = <<>> /\ restored = {} /\ unrecovered = {}
        /\ invalidated = {} /\ invalidationFailed = {}
  BY NothingRecovered DEF Handled
<1>5. /\ restored \cup unrecovered = Range(recoveryAttempted) /\ restored \cap unrecovered = {}
      /\ invalidated \cup invalidationFailed \subseteq {Marker}
      /\ invalidated \cap invalidationFailed = {}
      /\ unrecovered = {} => invalidated \cup invalidationFailed = {}
      /\ stageResidue \subseteq Range(staged)
      /\ committed => dirResidue = {}
  BY DEF RecoveryInv, ResidueInv, Handled, TypeOK
\* The three ways to get here that did not commit, and the one that did.
<1>6. CASE committed
  <2>1. /\ failure = NoFailure /\ ~mismatched /\ recoveryAttempted = <<>>
        /\ Len(attempted) = Len(effects) /\ Len(applied) = Len(effects) /\ effects # <<>>
    BY <1>6 DEF FailureInv, Cleaning
  <2>2. Len(attempted) # 0
    BY <2>1, EmptyLists
  <2>3. effects = prepared /\ effects = attempted /\ effects = applied
    <3>1. \A i \in 1..Len(attempted) : attempted[i] = effects[i]
      BY DEF IndexInv
    <3>2. attempted = effects
      BY <2>1, <3>1, ListTypes, SameList
    <3>3. \A i \in 1..Len(applied) : applied[i] = attempted[i]
      BY DEF ListInv, ListContents
    <3>4. applied = attempted
      BY <2>1, <3>3, ListTypes, SameList
    <3> QED  BY <1>3, <2>2, <3>2, <3>4
  <2>4. /\ obs.retained = <<>> /\ restored = {} /\ unrecovered = {}
        /\ invalidated = {} /\ invalidationFailed = {}
    BY <1>1, <1>4, <2>1
  <2>5. /\ clean => ReportedFailure = NoFailure
        /\ ~clean => ReportedFailure = Failure("cleanup", "INIT_CLEANUP_FAILED")
    BY <1>6, <2>1 DEF ReportedFailure
  <2>6. obs.failure.stage \in {"none", "cleanup"}
    BY <1>1, <2>5, FailureStage DEF NoFailure
  <2>7. ValidExecutionObservation(effects, obs)
    BY <1>1, <1>2, <1>5, <1>6, <2>1, <2>3, <2>4, <2>6, EmptyRange
       DEF ValidExecutionObservation, Nothing
  <2> QED  BY <1>1, <1>6, <2>7, AcceptedHasOutcome DEF obs
<1>7. CASE ~committed
  <2>1. \/ failure.stage \in {"precondition", "prepare"} /\ attempted = <<>>
        \/ /\ failure.stage \in {"apply", "recovery"} /\ ~mismatched
           /\ attempted # <<>> /\ Recovered
           /\ failure.stage = "apply" => unrecovered = {}
           /\ unrecovered # {} => Handled # {}
    BY <1>7 DEF FailureInv, Cleaning
  <2>2. /\ ReportedFailure.stage \in {failure.stage, "recovery"}
        /\ failure.stage \in {"precondition", "prepare"} =>
             ReportedFailure.stage = failure.stage
    BY <1>7, FailureStage DEF ReportedFailure
  <2>3. obs.failure # NoFailure
    BY <1>1, <2>1, <2>2 DEF NoFailure
  <2>4. ValidExecutionObservation(effects, obs)
    <3>1. CASE failure.stage \in {"precondition", "prepare"} /\ attempted = <<>>
      <4>1. applied = <<>>
        <5>1. Len(applied) <= Len(attempted)
          BY DEF ListInv, ListLengths
        <5> QED  BY <3>1, <5>1, EmptyLists, LengthTypes
      <4>2. obs.failure.stage \in {"precondition", "prepare"}
        BY <1>1, <2>2, <3>1
      <4>3. /\ recoveryAttempted = <<>> /\ restored = {} /\ unrecovered = {}
            /\ invalidated = {} /\ invalidationFailed = {} /\ obs.retained = <<>>
        BY <1>1, <1>4, <3>1
      <4> QED
        BY <1>1, <1>2, <1>5, <1>7, <3>1, <4>1, <4>2, <4>3, EmptyRange
           DEF ValidExecutionObservation, Nothing
    <3>2. CASE /\ failure.stage \in {"apply", "recovery"} /\ ~mismatched
               /\ attempted # <<>> /\ Recovered
               /\ unrecovered # {} => Handled # {}
      <4>1. obs.failure.stage \in {"apply", "recovery"}
        BY <1>1, <2>2, <3>2
      <4>2. /\ recoveryAttempted = Reverse(attempted)
            /\ Range(recoveryAttempted) = Range(attempted)
        BY <3>2, RecoveredBackwards
      <4>3. prepared = effects /\ staged = effects
        BY <1>3, <3>2, EmptyLists
      <4>4. /\ unrecovered \cup invalidationFailed # {} => obs.retained = effects
            /\ unrecovered # {} => Marker \in invalidated \cup invalidationFailed
            /\ unrecovered = {} => obs.retained = <<>>
        BY <1>1, <1>5, <3>2, <4>3 DEF Handled
      <4>5. Range(obs.retained) \subseteq Range(effects)
        BY <1>1, <4>3, EmptyRange
      <4> QED
        BY <1>1, <1>2, <1>5, <1>7, <3>2, <4>1, <4>2, <4>3, <4>4, <4>5
           DEF ValidExecutionObservation
    <3> QED  BY <2>1, <3>1, <3>2
  <2> QED  BY <2>3, <2>4, AcceptedHasOutcome DEF obs
<1> QED  BY <1>6, <1>7
\* With everything as it was restored, the target is what other people made of it.
LEMMA RestoredIsTheirs ==
  ASSUME TypeOK, SafetyInv, ScopeInv, \A p \in Planned : Untouched(p) => Original(p)
  PROVE  \A p \in Paths : touched[p] = "never" => disk[p] = theirs[p]
<1>1. SUFFICES ASSUME NEW p \in Paths, touched[p] = "never"
      PROVE  disk[p] = theirs[p]
  OBVIOUS
<1>2. CASE p \in Planned
  BY <1>1, <1>2 DEF SafetyInv, TheirsInv, Untouched, Original
<1>3. CASE p \notin Planned
  BY <1>3 DEF ScopeInv
<1> QED  BY <1>2, <1>3

\* The outcome of a finished execution says what became of the target.
LEMMA OutcomeStep ==
  ASSUME TypeOK, IndexInv, SafetyInv, VerdictInv, [Next]_vars
  PROVE  OutcomeInv'
<1> USE DEF VerdictInv, filesystem, plan, progress, recovery, residue, verdict, history
<1>1. CASE Plan
  <2>1. /\ pc = "plan" /\ UNCHANGED <<disk, theirs, touched>>
        /\ \/ outcome' = outcome
           \/ outcome' = PlanOutcome(mode, disk, dirs) /\ pc' = "done"
    BY <1>1 DEF Plan
  <2>2. outcome = "none"
    BY <2>1 DEF OutcomeInv
  <2>3. PlanOutcome(mode, disk, dirs) \in
          {"INIT_CONFLICT", "INIT_OPERATION_REFUSED", "INIT_PREVIEW"}
    BY DEF PlanOutcome
  <2>4. disk = theirs
    BY <2>1 DEF SafetyInv, PhaseInv, UnappliedIsUnchanged
  <2> QED
    BY <2>1, <2>2, <2>3, <2>4
       DEF OutcomeInv, ObservationAccepted, RestoredMeansRestored, UnrestoredIsNamed
<1>2. CASE Finish
  <2> DEFINE obs == [Observation EXCEPT !.failure = ReportedFailure]
  <2>1. /\ pc = "finish" /\ pc' = "done" /\ outcome' = EvaluateInitMutation(effects, obs)
        /\ UNCHANGED <<effects, disk, stage, theirs, touched, pre, unrecovered, invalidated,
                       invalidationFailed>>
    BY <1>2 DEF Finish
  <2>2. EvaluateInitMutation(effects, obs) # "ERROR"
    BY <2>1, AcceptedStep
  <2>3. /\ obs.committed = committed /\ obs.unrecovered = unrecovered
        /\ obs.invalidationFailed = invalidationFailed /\ obs.mismatched = mismatched
        /\ obs.failure = ReportedFailure
        /\ obs.stageResidue = stageResidue /\ obs.dirResidue = dirResidue
    BY DEF Observation
  <2> HIDE DEF obs
  <2>4. (~committed /\ unrecovered = {}) =>
          \A p \in Paths : touched[p] = "never" => disk[p] = theirs[p]
    BY <2>1, RestoredIsTheirs DEF RestoredInv, Cleaning
  <2>5. outcome' \in {"INIT_OPERATION_REFUSED", "INIT_APPLY_FAILED_RECOVERED"} =>
          ~committed /\ unrecovered = {}
    <3>1. CASE committed
      <4>1. failure = NoFailure /\ ~mismatched
        BY <2>1, <3>1 DEF FailureInv, Cleaning
      <4>2. obs.failure.stage # "precondition"
        BY <2>3, <3>1, <4>1, FailureStage DEF ReportedFailure, NoFailure
      <4> QED  BY <2>1, <2>3, <3>1, <4>1, <4>2 DEF EvaluateInitMutation
    <3>2. CASE unrecovered # {}
      <4>1. ~mismatched /\ failure.stage = "recovery"
        <5>1. recoveryAttempted # <<>> /\ attempted # <<>>
          BY <3>2, NothingRecovered
        <5> QED  BY <2>1, <3>2, <5>1 DEF FailureInv, Cleaning
      <4>2. obs.failure.stage # "precondition"
        BY <2>3, <4>1, FailureStage DEF ReportedFailure
      <4>3. obs.unrecovered \cup obs.invalidationFailed # {}
        BY <2>3, <3>2
      <4> QED  BY <2>1, <2>3, <4>1, <4>2, <4>3 DEF EvaluateInitMutation
    <3> QED  BY <3>1, <3>2
  <2>6. outcome' = "INIT_RECOVERY_INCOMPLETE" => ~committed
    <3>1. SUFFICES ASSUME committed PROVE outcome' # "INIT_RECOVERY_INCOMPLETE"
      OBVIOUS
    <3>2. failure = NoFailure /\ recoveryAttempted = <<>>
      BY <2>1, <3>1 DEF FailureInv, Cleaning
    <3>3. unrecovered = {} /\ Handled = {}
      BY <3>2, NothingRecovered
    <3>4. obs.failure.stage # "recovery" /\ obs.unrecovered \cup obs.invalidationFailed = {}
      BY <2>3, <3>1, <3>2, <3>3, FailureStage DEF ReportedFailure, NoFailure, Handled
    <3> QED  BY <2>1, <2>3, <3>1, <3>4 DEF EvaluateInitMutation
  <2>7. ASSUME ~committed, NEW p \in Planned, touched[p] = "never", disk[p] # pre.files[p]
        PROVE  /\ p \in unrecovered \cup Handled
               /\ pre.files[p] # "missing" => stage[p].original = pre.files[p]
    <3>1. unrecovered # {}
      BY <2>1, <2>7 DEF RestoredInv, Cleaning, Untouched, Original
    <3>2. Recovered
      <4>1. recoveryAttempted # <<>> /\ attempted # <<>>
        BY <3>1, NothingRecovered
      <4> QED  BY <2>1, <2>7, <4>1 DEF FailureInv, Cleaning
    <3>3. PICK i \in 1..Len(effects) : effects[i] = p
      BY DEF Planned
    <3>4. i > Len(attempted) - Len(recoveryAttempted)
      BY <3>2, ListTypes, AboveZero DEF Recovered
    <3>5. p \in unrecovered \cup Handled
      BY <2>1, <2>7, <3>1, <3>3, <3>4 DEF NamedInv, Untouched, Original
    <3> QED  BY <2>7, <3>5 DEF SafetyInv, NoOriginalLost
  <2>8. UNCHANGED Planned
    BY <2>1 DEF Planned
  <2>9. ObservationAccepted'
    BY <2>1, <2>2 DEF ObservationAccepted
  <2>10. RestoredMeansRestored'
    BY <2>1, <2>4, <2>5 DEF RestoredMeansRestored
  <2>11. UnrestoredIsNamed'
    BY <2>1, <2>6, <2>7, <2>8 DEF UnrestoredIsNamed, Handled
  <2> QED  BY <2>1, <2>9, <2>10, <2>11 DEF OutcomeInv
<1>3. CASE outcome = "none" /\ outcome' = outcome
  BY <1>3 DEF OutcomeInv, ObservationAccepted, RestoredMeansRestored, UnrestoredIsNamed
<1>4. CASE \/ Validate \/ MakeDirectory \/ DirectoriesMade
           \/ MakeStage \/ CopyOriginal \/ WriteNew \/ AllPrepared
           \/ Recapture \/ PollBeforeApply \/ ApplyEffect \/ RecoverEffect \/ Invalidate
           \/ RecoveryEnds \/ CleanStage \/ StagesCleaned \/ CleanDirectory
           \/ DirectoriesCleaned \/ Signal \/ Crash
           \/ \E p \in Paths, c \in FileKinds : EditFile(p, c)
           \/ \E p \in Paths, owner \in {"none", "foreign"} : EditStage(p, owner)
           \/ \E d \in Directories, kind \in {"missing", "foreign"} : EditDirectory(d, kind)
  <2>1. pc # "done" /\ outcome' = outcome
    BY <1>4 DEF Validate, MakeDirectory, DirectoriesMade, MakeStage, CopyOriginal, WriteNew,
                AllPrepared, Recapture, PollBeforeApply, ApplyEffect, RecoverEffect,
                Invalidate, RecoveryEnds, CleanStage, StagesCleaned, CleanDirectory,
                DirectoriesCleaned, Signal, Crash, EditFile, EditStage, EditDirectory, Edit,
                Executing, Terminal
  <2> QED  BY <1>3, <2>1 DEF OutcomeInv
<1>5. CASE UNCHANGED vars
  <2>1. UNCHANGED <<pc, effects, disk, stage, theirs, touched, pre, unrecovered, invalidated,
                    invalidationFailed, outcome>>
    BY <1>5 DEF vars
  <2> QED
    BY <2>1 DEF OutcomeInv, ObservationAccepted, RestoredMeansRestored, UnrestoredIsNamed, Planned
<1> QED  BY <1>1, <1>2, <1>4, <1>5 DEF Next, Step, Environment

-----------------------------------------------------------------------------
\* The invariant.

\* Nothing has been listed, recovered or reported when an execution starts.
LEMMA InitVerdictInv == Init => VerdictInv
<1> SUFFICES ASSUME Init PROVE VerdictInv
  OBVIOUS
<1>1. Planned = {}
  BY DEF Init, Planned
<1>2. ListInv /\ RecoveryInv /\ FailureInv /\ ResidueInv
  BY EmptyRange
     DEF Init, ListInv, ListContents, ListLengths, RecoveryInv, FailureInv, ResidueInv, Handled,
         Starting, Replacing, Forward, Cleaning
<1>3. ScopeInv /\ EarlyInv /\ RestoredInv /\ NamedInv
  BY <1>1 DEF Init, ScopeInv, EarlyInv, RestoredInv, NamedInv, Cleaning
<1>4. OutcomeInv
  BY DEF Init, OutcomeInv, ObservationAccepted, RestoredMeansRestored, UnrestoredIsNamed
<1> QED  BY <1>2, <1>3, <1>4 DEF VerdictInv

\* Both invariants together are inductive: each failure stage, list and record of
\* the executor agrees with what it has done to the target.
THEOREM VerdictInvariance == Spec => [](IInv /\ VerdictInv)
<1>1. IInv <=> TypeOK /\ IndexInv /\ SafetyInv
  BY DEF IInv, SafetyInv
<1>2. IInv /\ VerdictInv /\ [Next]_vars => VerdictInv'
  <2> SUFFICES ASSUME TypeOK, IndexInv, SafetyInv, VerdictInv, [Next]_vars PROVE VerdictInv'
    BY <1>1
  <2>1. /\ ListInv /\ RecoveryInv /\ FailureInv /\ ResidueInv /\ ScopeInv
        /\ EarlyInv /\ RestoredInv /\ NamedInv
    BY DEF VerdictInv
  <2>2. ListInv' /\ RecoveryInv' /\ FailureInv' /\ ResidueInv'
    BY <2>1, ListStep, RecoveryStep, FailureStep, ResidueStep
  <2>3. ScopeInv' /\ EarlyInv' /\ RestoredInv' /\ NamedInv'
    BY <2>1, ScopeStep, EarlyStep, RestoredStep, NamedStep
  <2> QED  BY <2>2, <2>3, OutcomeStep DEF VerdictInv
<1> QED  BY InitVerdictInv, <1>2, Invariance, PTL DEF Spec

\* No combination of faults, edits by others and signals makes the evaluator refuse
\* the observation the executor returns.
THEOREM ObservationsAreAccepted == Spec => []ObservationAccepted
<1>1. IInv /\ VerdictInv => ObservationAccepted
  BY DEF VerdictInv, OutcomeInv
<1> QED  BY <1>1, VerdictInvariance, PTL

\* A result that refuses, or that claims the prior state was restored, is right about
\* every path nobody else touched.
THEOREM RestorationIsTrue == Spec => []RestoredMeansRestored
<1>1. IInv /\ VerdictInv => RestoredMeansRestored
  BY DEF VerdictInv, OutcomeInv
<1> QED  BY <1>1, VerdictInvariance, PTL

\* After an incomplete recovery every destination that is not as it was is named, and
\* its backup is kept.
THEOREM NothingUnnamed == Spec => []UnrestoredIsNamed
<1>1. IInv /\ VerdictInv => UnrestoredIsNamed
  BY DEF VerdictInv, OutcomeInv
<1> QED  BY <1>1, VerdictInvariance, PTL

\* A replacement never goes over what somebody else changed before the recapture.
THEOREM EarlyEditsAreKept == Spec => []EarlyEditsSurvive
<1>1. IInv /\ VerdictInv => EarlyEditsSurvive
  BY DEF VerdictInv, EarlyInv, EarlyEditsSurvive
<1> QED  BY <1>1, VerdictInvariance, PTL

-----------------------------------------------------------------------------
\* What the execution leaves behind.

\* What is left of a stage that is partly cleaned still has its owner.
LEMMA PartlyCleanedOwner ==
  ASSUME NEW s \in Stages, NEW left \in PartlyCleaned(s)
  PROVE  left.owner = s.owner
BY DEF Stages, PartlyCleaned

\* A stage gets another owner only where it is made, cleaned, or edited by somebody else.
LEMMA OwnerFrame ==
  ASSUME TypeOK, [Next]_vars
  PROVE  \/ MakeStage
         \/ CleanStage
         \/ \E p \in Paths, owner \in {"none", "foreign"} : EditStage(p, owner)
         \/ \A p \in Paths : stage'[p].owner = stage[p].owner
<1> USE DEF filesystem, plan, progress, recovery, residue, verdict, history
<1>t. stage \in [Paths -> Stages]
  BY DEF TypeOK
<1>1. CASE CopyOriginal
  <2>1. stage' = stage \/ stage' = [stage EXCEPT ![Current].original = disk[Current]]
    BY <1>1 DEF CopyOriginal, BackUp
  <2> SUFFICES ASSUME NEW p \in Paths PROVE stage'[p].owner = stage[p].owner
    OBVIOUS
  <2>2. stage[p] \in Stages
    BY <1>t
  <2>3. \/ stage'[p] = stage[p]
        \/ stage'[p] = [stage[p] EXCEPT !.original = disk[Current]]
    BY <1>t, <2>1
  <2> QED  BY <2>2, <2>3 DEF Stages
<1>2. CASE WriteNew
  <2>1. stage' = stage \/ stage' = [stage EXCEPT ![Current].new = TRUE]
    BY <1>2 DEF WriteNew
  <2> SUFFICES ASSUME NEW p \in Paths PROVE stage'[p].owner = stage[p].owner
    OBVIOUS
  <2>2. stage[p] \in Stages
    BY <1>t
  <2>3. stage'[p] = stage[p] \/ stage'[p] = [stage[p] EXCEPT !.new = TRUE]
    BY <1>t, <2>1
  <2> QED  BY <2>2, <2>3 DEF Stages
<1>3. CASE ApplyEffect
  <2> DEFINE q == effects[Len(attempted) + 1]
  <2>1. stage' = stage \/ stage' = [stage EXCEPT ![q].new = FALSE]
    BY <1>3 DEF ApplyEffect
  <2> HIDE DEF q
  <2> SUFFICES ASSUME NEW p \in Paths PROVE stage'[p].owner = stage[p].owner
    OBVIOUS
  <2>2. stage[p] \in Stages
    BY <1>t
  <2>3. stage'[p] = stage[p] \/ stage'[p] = [stage[p] EXCEPT !.new = FALSE]
    BY <1>t, <2>1
  <2> QED  BY <2>2, <2>3 DEF Stages
<1>4. CASE \/ Plan \/ Validate \/ MakeDirectory \/ DirectoriesMade \/ AllPrepared
           \/ Recapture \/ PollBeforeApply \/ RecoverEffect \/ Invalidate \/ RecoveryEnds
           \/ StagesCleaned \/ CleanDirectory \/ DirectoriesCleaned \/ Finish
           \/ Signal \/ Crash \/ UNCHANGED vars
           \/ \E p \in Paths, c \in FileKinds : EditFile(p, c)
           \/ \E d \in Directories, kind \in {"missing", "foreign"} : EditDirectory(d, kind)
  <2>1. stage' = stage
    BY <1>4 DEF Plan, Validate, MakeDirectory, DirectoriesMade, AllPrepared, Recapture,
                PollBeforeApply, RecoverEffect, Invalidate, RecoveryEnds, StagesCleaned,
                CleanDirectory, DirectoriesCleaned, Finish, Signal, Crash, vars, EditFile,
                EditDirectory
  <2> QED  BY <2>1
<1> QED  BY <1>1, <1>2, <1>3, <1>4 DEF Next, Step, Environment

\* A directory changes only where it is made, cleaned, or edited by somebody else.
LEMMA DirectoryFrame ==
  ASSUME [Next]_vars
  PROVE  \/ MakeDirectory
         \/ CleanDirectory
         \/ \E d \in Directories, kind \in {"missing", "foreign"} : EditDirectory(d, kind)
         \/ dirs' = dirs
<1> USE DEF filesystem, plan, progress, recovery, residue, verdict, history
<1> QED
  BY DEF Next, Step, Environment, Plan, Validate, DirectoriesMade, MakeStage, CopyOriginal,
         WriteNew, AllPrepared, Recapture, PollBeforeApply, ApplyEffect, RecoverEffect,
         Invalidate, RecoveryEnds, CleanStage, StagesCleaned, DirectoriesCleaned, Finish,
         Signal, Crash, vars, EditFile, EditStage

\* Whatever the execution records stays on record, and only the two steps that make
\* something record it.
LEMMA RecordFrame ==
  ASSUME TypeOK, [Next]_vars
  PROVE  /\ MakeStage \/ staged' = staged
         /\ MakeDirectory \/ created' = created
         /\ Range(staged) \subseteq Range(staged')
         /\ Range(created) \subseteq Range(created')
<1> USE DEF filesystem, plan, progress, recovery, residue, verdict, history
<1>1. MakeStage \/ staged' = staged
  BY DEF Next, Step, Environment, Plan, Validate, MakeDirectory, DirectoriesMade, CopyOriginal,
         WriteNew, AllPrepared, Recapture, PollBeforeApply, ApplyEffect, RecoverEffect,
         Invalidate, RecoveryEnds, CleanStage, StagesCleaned, CleanDirectory,
         DirectoriesCleaned, Finish, Signal, Crash, vars, EditFile, EditStage, EditDirectory,
         Edit
<1>2. MakeDirectory \/ created' = created
  BY DEF Next, Step, Environment, Plan, Validate, DirectoriesMade, MakeStage, CopyOriginal,
         WriteNew, AllPrepared, Recapture, PollBeforeApply, ApplyEffect, RecoverEffect,
         Invalidate, RecoveryEnds, CleanStage, StagesCleaned, CleanDirectory,
         DirectoriesCleaned, Finish, Signal, Crash, vars, EditFile, EditStage, EditDirectory,
         Edit
<1>3. MakeStage => staged' = staged \/ staged' = Append(staged, Current)
  BY DEF MakeStage
<1>4. MakeDirectory => created' = created \/ created' = Append(created, ActiveDirectories(mode)[cursor])
  BY DEF MakeDirectory
<1>5. staged \in Seq(Paths) /\ created \in Seq(Directories)
  BY DEF TypeOK
<1>6. Range(staged) \subseteq Range(staged')
  BY <1>1, <1>3, <1>5, AppendRange
<1>7. Range(created) \subseteq Range(created')
  BY <1>2, <1>4, <1>5, AppendRange
<1> QED  BY <1>1, <1>2, <1>6, <1>7

\* An execution that has begun to clean up, or has ended, does not go back.
LEMMA KeepingFrame ==
  ASSUME [Next]_vars, pc' \in Keeping
  PROVE  pc \in Keeping
<1> USE DEF filesystem, plan, progress, recovery, residue, verdict, history,
            Keeping, Forward, Planning, Preparing
<1>1. CASE \/ StagesCleaned \/ DirectoriesCleaned \/ Finish \/ Crash
  BY <1>1 DEF StagesCleaned, DirectoriesCleaned, Finish, Crash
<1>2. CASE \/ CleanStage \/ CleanDirectory \/ Signal \/ UNCHANGED vars
           \/ \E p \in Paths, c \in FileKinds : EditFile(p, c)
           \/ \E p \in Paths, owner \in {"none", "foreign"} : EditStage(p, owner)
           \/ \E d \in Directories, kind \in {"missing", "foreign"} : EditDirectory(d, kind)
  BY <1>2 DEF CleanStage, CleanDirectory, Signal, vars, EditFile, EditStage, EditDirectory, Edit
<1>3. CASE \/ Plan \/ Validate \/ MakeDirectory \/ DirectoriesMade \/ MakeStage \/ CopyOriginal
           \/ WriteNew \/ AllPrepared \/ Recapture \/ PollBeforeApply \/ ApplyEffect
           \/ RecoverEffect \/ Invalidate \/ RecoveryEnds
  BY <1>3 DEF Plan, Validate, MakeDirectory, DirectoriesMade, MakeStage, CopyOriginal, WriteNew,
              AllPrepared, Recapture, PollBeforeApply, ApplyEffect, RecoverEffect, Invalidate,
              RecoveryEnds
<1> QED  BY <1>1, <1>2, <1>3 DEF Next, Step, Environment

\* A preparation that has failed stays one.
LEMMA PrepareFailureFrame ==
  ASSUME FailureInv, PhaseInv, ResidueInv, [Next]_vars, pc \notin Keeping,
         attempted = <<>>, failure.stage = "prepare"
  PROVE  attempted' = <<>> /\ failure'.stage = "prepare"
<1> USE DEF filesystem, plan, progress, recovery, residue, verdict, history
<1>1. CASE Finish
  <2>1. pc = "finish" /\ attempted' = attempted /\ failure' = ReportedFailure
    BY <1>1 DEF Finish
  <2>2. ~committed
    BY <2>1 DEF FailureInv, Cleaning, NoFailure, Failure
  <2> QED  BY <2>1, <2>2 DEF ReportedFailure, Failure
<1>2. CASE \/ CleanStage \/ CleanDirectory \/ StagesCleaned \/ DirectoriesCleaned
           \/ Signal \/ Crash \/ UNCHANGED vars
           \/ \E p \in Paths, c \in FileKinds : EditFile(p, c)
           \/ \E p \in Paths, owner \in {"none", "foreign"} : EditStage(p, owner)
           \/ \E d \in Directories, kind \in {"missing", "foreign"} : EditDirectory(d, kind)
  BY <1>2 DEF CleanStage, CleanDirectory, StagesCleaned, DirectoriesCleaned, Signal, Crash, vars,
              EditFile, EditStage, EditDirectory, Edit
<1>3. CASE \/ Plan \/ Validate \/ MakeDirectory \/ DirectoriesMade \/ MakeStage \/ CopyOriginal
           \/ WriteNew \/ AllPrepared \/ Recapture \/ PollBeforeApply \/ ApplyEffect
           \/ RecoverEffect \/ Invalidate \/ RecoveryEnds
  <2>1. pc \in Keeping
    BY <1>3 DEF Plan, Validate, MakeDirectory, DirectoriesMade, MakeStage, CopyOriginal,
                WriteNew, AllPrepared, Recapture, PollBeforeApply, ApplyEffect, RecoverEffect,
                Invalidate, RecoveryEnds, Keeping, Forward, Planning, Preparing
  <2> QED  BY <2>1
<1> QED  BY <1>1, <1>2, <1>3 DEF Next, Step, Environment

\* Elsewhere than where something is made, nothing that is not on record comes about.
LEMMA NothingUnrecorded ==
  ASSUME TypeOK, [Next]_vars
  PROVE  /\ MakeStage \/ UnrecordedStages' \subseteq UnrecordedStages
         /\ MakeDirectory \/ UnrecordedDirectories' \subseteq UnrecordedDirectories
<1> USE DEF filesystem, plan, progress, recovery, residue, verdict, history
<1>t. stage \in [Paths -> Stages] /\ dirs \in [Directories -> DirKinds]
  BY DEF TypeOK
<1>1. ASSUME ~MakeStage PROVE \A p \in Paths : stage'[p].owner = "run" => stage[p].owner = "run"
  <2>1. CASE CleanStage
    <3> DEFINE p == staged[cursor]
    <3>1. \/ stage' = stage
          \/ stage' = [stage EXCEPT ![p] = NoStage]
          \/ \E left \in PartlyCleaned(stage[p]) : stage' = [stage EXCEPT ![p] = left]
      BY <2>1 DEF CleanStage
    <3> HIDE DEF p
    <3>2. CASE stage' = stage
      BY <3>2
    <3>3. CASE stage' = [stage EXCEPT ![p] = NoStage]
      BY <1>t, <3>3 DEF NoStage
    <3>4. ASSUME NEW left \in PartlyCleaned(stage[p]), stage' = [stage EXCEPT ![p] = left],
                 NEW q \in Paths
          PROVE  stage'[q].owner = stage[q].owner
      <4>1. CASE q = p
        <5>1. stage'[q] = left /\ stage[p] \in Stages
          BY <1>t, <3>4, <4>1
        <5> QED  BY <3>4, <4>1, <5>1, PartlyCleanedOwner
      <4>2. CASE q # p
        BY <1>t, <3>4, <4>2
      <4> QED  BY <4>1, <4>2
    <3> QED  BY <3>1, <3>2, <3>3, <3>4
  <2>2. ASSUME NEW p \in Paths, NEW owner \in {"none", "foreign"}, EditStage(p, owner)
        PROVE  \A q \in Paths : stage'[q].owner = "run" => stage[q].owner = "run"
    <3>1. stage' = [stage EXCEPT ![p] = [NoStage EXCEPT !.owner = owner]]
      BY <2>2 DEF EditStage
    <3> QED  BY <1>t, <3>1 DEF NoStage
  <2> QED  BY <1>1, <2>1, <2>2, OwnerFrame
<1>2. ASSUME ~MakeDirectory PROVE \A d \in Directories : dirs'[d] = "ours" => dirs[d] = "ours"
  <2>1. CASE CleanDirectory
    <3>1. dirs' = dirs \/ dirs' = [dirs EXCEPT ![created[cursor]] = "missing"]
      BY <2>1 DEF CleanDirectory
    <3> QED  BY <1>t, <3>1
  <2>2. ASSUME NEW d \in Directories, NEW kind \in {"missing", "foreign"}, EditDirectory(d, kind)
        PROVE  \A e \in Directories : dirs'[e] = "ours" => dirs[e] = "ours"
    <3>1. dirs' = [dirs EXCEPT ![d] = kind]
      BY <2>2 DEF EditDirectory
    <3> QED  BY <1>t, <3>1
  <2> QED  BY <1>2, <2>1, <2>2, DirectoryFrame
<1>3. Range(staged) \subseteq Range(staged') /\ Range(created) \subseteq Range(created')
  BY RecordFrame
<1> QED  BY <1>1, <1>2, <1>3 DEF UnrecordedStages, UnrecordedDirectories

\* At most one thing is made without being recorded, and it ends the preparation.
LEMMA UnrecordedStep ==
  ASSUME TypeOK, PhaseInv, FailureInv, ResidueInv, UnrecordedInv, [Next]_vars
  PROVE  UnrecordedInv'
<1> USE DEF filesystem, plan, progress, recovery, residue, verdict, history
<1>t. /\ stage \in [Paths -> Stages] /\ dirs \in [Directories -> DirKinds]
      /\ staged \in Seq(Paths) /\ created \in Seq(Directories)
  BY DEF TypeOK
<1>1. CASE MakeStage
  <2>1. /\ pc = "make stage" /\ UNCHANGED <<attempted, dirs, created>>
        /\ \/ stage' = stage /\ staged' = staged
           \/ stage' = [stage EXCEPT ![Current] = NewStage] /\ staged' = Append(staged, Current)
           \/ /\ stage' = [stage EXCEPT ![Current] = NewStage] /\ staged' = staged
              /\ failure' = Failure("prepare", "INIT_PREPARATION_FAILED")
              /\ pc' = "clean stages"
    BY <1>1 DEF MakeStage, PrepareFailed, HasEffect
  <2>2. UnrecordedStages = {} /\ UnrecordedDirectories = {} /\ attempted = <<>>
    BY <2>1 DEF UnrecordedInv, Keeping, Forward, Preparing, PhaseInv
  <2>3. UnrecordedDirectories' = {}
    BY <2>1, <2>2 DEF UnrecordedDirectories
  <2>4. CASE stage' = stage /\ staged' = staged
    <3>1. UnrecordedStages' = {}
      BY <2>2, <2>4 DEF UnrecordedStages
    <3> QED  BY <2>3, <3>1 DEF UnrecordedInv
  <2>5. CASE stage' = [stage EXCEPT ![Current] = NewStage] /\ staged' = Append(staged, Current)
    <3>1. Range(staged') = Range(staged) \cup {Current}
      BY <1>t, <2>5, AppendRange
    <3>2. \A q \in Paths : q # Current => stage'[q] = stage[q]
      BY <1>t, <2>5
    <3>3. UnrecordedStages' = {}
      BY <2>2, <3>1, <3>2 DEF UnrecordedStages
    <3> QED  BY <2>3, <3>3 DEF UnrecordedInv
  <2>6. CASE /\ stage' = [stage EXCEPT ![Current] = NewStage] /\ staged' = staged
             /\ failure' = Failure("prepare", "INIT_PREPARATION_FAILED")
             /\ pc' = "clean stages"
    <3>1. \A q \in Paths : q # Current => stage'[q] = stage[q]
      BY <1>t, <2>6
    <3>2. UnrecordedStages' \subseteq {Current}
      BY <2>2, <2>6, <3>1 DEF UnrecordedStages
    <3>3. failure'.stage = "prepare" /\ attempted' = <<>> /\ pc' \notin Keeping
      BY <2>1, <2>2, <2>6 DEF Failure, Keeping, Forward, Planning, Preparing
    <3> QED  BY <2>3, <3>2, <3>3 DEF UnrecordedInv
  <2> QED  BY <2>1, <2>4, <2>5, <2>6
<1>2. CASE MakeDirectory
  <2> DEFINE d == ActiveDirectories(mode)[cursor]
  <2>1. /\ pc = "directories" /\ UNCHANGED <<attempted, stage, staged>>
        /\ \/ dirs' = dirs /\ created' = created
           \/ dirs' = [dirs EXCEPT ![d] = "ours"] /\ created' = Append(created, d)
           \/ /\ dirs' = [dirs EXCEPT ![d] = "ours"] /\ created' = created
              /\ failure' = Failure("prepare", "INIT_PREPARATION_FAILED")
              /\ pc' = "clean stages"
    BY <1>2 DEF MakeDirectory, PrepareFailed, HasEffect
  <2> HIDE DEF d
  <2>2. UnrecordedStages = {} /\ UnrecordedDirectories = {} /\ attempted = <<>>
    BY <2>1 DEF UnrecordedInv, Keeping, Forward, Preparing, PhaseInv
  <2>3. UnrecordedStages' = {}
    BY <2>1, <2>2 DEF UnrecordedStages
  <2>4. CASE dirs' = dirs /\ created' = created
    <3>1. UnrecordedDirectories' = {}
      BY <2>2, <2>4 DEF UnrecordedDirectories
    <3> QED  BY <2>3, <3>1 DEF UnrecordedInv
  <2>5. CASE dirs' = [dirs EXCEPT ![d] = "ours"] /\ created' = Append(created, d)
    <3>1. Range(created') = Range(created) \cup {d}
      BY <1>t, <2>5, AppendRange
    <3>2. \A e \in Directories : e # d => dirs'[e] = dirs[e]
      BY <1>t, <2>5
    <3>3. UnrecordedDirectories' = {}
      BY <2>2, <3>1, <3>2 DEF UnrecordedDirectories
    <3> QED  BY <2>3, <3>3 DEF UnrecordedInv
  <2>6. CASE /\ dirs' = [dirs EXCEPT ![d] = "ours"] /\ created' = created
             /\ failure' = Failure("prepare", "INIT_PREPARATION_FAILED")
             /\ pc' = "clean stages"
    <3>1. \A e \in Directories : e # d => dirs'[e] = dirs[e]
      BY <1>t, <2>6
    <3>2. UnrecordedDirectories' \subseteq {d}
      BY <2>2, <2>6, <3>1 DEF UnrecordedDirectories
    <3>3. failure'.stage = "prepare" /\ attempted' = <<>> /\ pc' \notin Keeping
      BY <2>1, <2>2, <2>6 DEF Failure, Keeping, Forward, Planning, Preparing
    <3> QED  BY <2>3, <3>2, <3>3 DEF UnrecordedInv
  <2> QED  BY <2>1, <2>4, <2>5, <2>6
<1>3. CASE ~MakeStage /\ ~MakeDirectory
  <2>1. /\ UnrecordedStages' \subseteq UnrecordedStages
        /\ UnrecordedDirectories' \subseteq UnrecordedDirectories
    BY <1>3, NothingUnrecorded
  <2>2. CASE pc \in Keeping
    <3>1. UnrecordedStages' = {} /\ UnrecordedDirectories' = {}
      BY <2>1, <2>2 DEF UnrecordedInv
    <3> QED  BY <3>1 DEF UnrecordedInv
  <2>3. CASE pc \notin Keeping
    <3>1. pc' \notin Keeping
      BY <2>3, KeepingFrame
    <3>2. UnrecordedStages' \cup UnrecordedDirectories' # {} =>
            attempted' = <<>> /\ failure'.stage = "prepare"
      BY <2>1, <2>3, PrepareFailureFrame DEF UnrecordedInv
    <3> QED  BY <2>1, <3>1, <3>2 DEF UnrecordedInv
  <2> QED  BY <2>2, <2>3
<1> QED  BY <1>1, <1>2, <1>3

\* What a sequence over a set ranges over.
LEMMA ElementRange ==
  ASSUME NEW S, NEW s \in Seq(S)
  PROVE  Range(s) \subseteq S
<1>1. DOMAIN s = 1..Len(s) /\ \A i \in 1..Len(s) : s[i] \in S
  OBVIOUS
<1> QED  BY <1>1 DEF Range

\* An execution that cleans up has nothing left to recover.
LEMMA CleaningFrame ==
  ASSUME TypeOK, RecoveryInv, FailureInv, IndexInv, [Next]_vars,
         pc' \in {"finish", "done"}, unrecovered' # {}, PhaseInv
  PROVE  /\ unrecovered' = unrecovered
         /\ \/ RecoveryEnds /\ pc = "recover"
            \/ pc \in {"finish", "done"}
<1> USE DEF filesystem, plan, progress, recovery, residue, verdict, history
<1>1. CASE Plan \/ Validate
  <2>1. pc \in {"plan", "validate"} /\ unrecovered' = unrecovered
    BY <1>1 DEF Plan, Validate
  <2> QED  BY <2>1 DEF PhaseInv, Planning, Preparing
<1>2. CASE StagesCleaned \/ DirectoriesCleaned
  <2>1. /\ unrecovered' = unrecovered
        /\ pc \in {"clean stages", "clean directories"}
    BY <1>2 DEF StagesCleaned, DirectoriesCleaned
  <2>2. recoveryAttempted = <<>> => unrecovered = {}
    BY EmptyRange DEF RecoveryInv
  <2>3. attempted = <<>> => recoveryAttempted = <<>>
    <3> SUFFICES ASSUME attempted = <<>> PROVE recoveryAttempted = <<>>
      OBVIOUS
    <3>1. Len(recoveryAttempted) <= Len(attempted)
      BY DEF IndexInv
    <3> QED  BY <3>1, EmptyLists, LengthTypes
  <2>4. unrecovered = {}
    BY <2>1, <2>2, <2>3 DEF FailureInv, Cleaning
  <2> QED  BY <2>1, <2>4
<1>3. CASE Finish
  BY <1>3 DEF Finish
<1>4. CASE RecoveryEnds
  BY <1>4 DEF RecoveryEnds
<1>5. CASE \/ Signal \/ UNCHANGED vars
           \/ \E p \in Paths, c \in FileKinds : EditFile(p, c)
           \/ \E p \in Paths, owner \in {"none", "foreign"} : EditStage(p, owner)
           \/ \E d \in Directories, kind \in {"missing", "foreign"} : EditDirectory(d, kind)
  BY <1>5 DEF Signal, vars, EditFile, EditStage, EditDirectory, Edit
<1>6. CASE \/ MakeDirectory \/ DirectoriesMade \/ MakeStage \/ CopyOriginal \/ WriteNew
           \/ AllPrepared \/ Recapture \/ PollBeforeApply \/ ApplyEffect \/ RecoverEffect
           \/ Invalidate \/ CleanStage \/ CleanDirectory \/ Crash
  <2>1. pc' \notin {"finish", "done"}
    BY <1>6 DEF MakeDirectory, DirectoriesMade, MakeStage, CopyOriginal, WriteNew, PrepareFailed,
                AllPrepared, Recapture, PollBeforeApply, ApplyEffect, RecoverEffect, Invalidate,
                CleanStage, CleanDirectory, Crash
  <2> QED  BY <2>1
<1> QED  BY <1>1, <1>2, <1>3, <1>4, <1>5, <1>6, Zenon DEF Next, Step, Environment

\* What is recorded stays until it is cleaned up, where nobody else edits.
LEMMA KeptStep ==
  ASSUME TypeOK, IndexInv, PhaseInv, RecoveryInv, FailureInv, KeptInv, [Next]_vars
  PROVE  KeptInv'
<1> USE DEF filesystem, plan, progress, recovery, residue, verdict, history
<1> DEFINE Here == edits = 0 /\ (pc \in Keeping \/ (pc \in {"finish", "done"} /\ unrecovered # {}))
           All  == /\ \A p \in Range(staged) : stage[p].owner = "run"
                   /\ \A d \in Range(created) : dirs[d] = "ours"
<1>t. /\ stage \in [Paths -> Stages] /\ dirs \in [Directories -> DirKinds] /\ edits \in Nat
      /\ staged \in Seq(Paths) /\ created \in Seq(Directories)
  BY DEF TypeOK
<1>r. Range(staged) \subseteq Paths /\ Range(created) \subseteq Directories
  BY <1>t, ElementRange
<1>1. ASSUME pc' \in {"plan", "validate"} PROVE created' = <<>>
  <2>1. pc \in {"plan", "validate"} /\ ~MakeDirectory
    BY <1>1, Zenon DEF Next, Step, Environment, Plan, Validate, MakeDirectory, PrepareFailed,
                DirectoriesMade, MakeStage, CopyOriginal, WriteNew, AllPrepared, Recapture,
                PollBeforeApply, ApplyEffect, RecoverEffect, Invalidate, RecoveryEnds, CleanStage,
                StagesCleaned, CleanDirectory, DirectoriesCleaned, Finish, Signal, Crash, vars,
                EditFile, EditStage, EditDirectory, Edit
  <2>2. created' = created
    BY <2>1, RecordFrame, Zenon
  <2> QED  BY <2>1, <2>2 DEF KeptInv
<1>2. ASSUME Here' PROVE All'
  <2>1. /\ edits' = edits
        /\ ~\E p \in Paths, owner \in {"none", "foreign"} : EditStage(p, owner)
        /\ ~\E d \in Directories, kind \in {"missing", "foreign"} : EditDirectory(d, kind)
    <3>1. ~Edit
      <4>1. Edit => edits' = edits + 1
        BY DEF Edit
      <4> QED  BY <1>t, <1>2, <4>1
    <3>2. ~\E p \in Paths, c \in FileKinds : EditFile(p, c)
      BY <3>1 DEF EditFile
    <3>3. /\ ~\E p \in Paths, owner \in {"none", "foreign"} : EditStage(p, owner)
          /\ ~\E d \in Directories, kind \in {"missing", "foreign"} : EditDirectory(d, kind)
      BY <3>1 DEF EditStage, EditDirectory
    <3>4. CASE Step
      <4>1. edits' = edits
        BY <3>4, Zenon DEF Step, Plan, Validate, MakeDirectory, DirectoriesMade, MakeStage, CopyOriginal,
           WriteNew, AllPrepared, Recapture, PollBeforeApply, ApplyEffect, RecoverEffect,
           Invalidate, RecoveryEnds, CleanStage, StagesCleaned, CleanDirectory,
           DirectoriesCleaned, Finish
      <4> QED  BY <3>3, <4>1
    <3>5. CASE Signal \/ Crash \/ UNCHANGED vars
      <4>1. edits' = edits
        BY <3>5 DEF Signal, Crash, vars
      <4> QED  BY <3>3, <4>1
    <3> QED  BY <3>2, <3>3, <3>4, <3>5 DEF Next, Environment
  <2>2. Here
    <3>1. CASE pc' \in Keeping
      BY <1>2, <2>1, <3>1, KeepingFrame
    <3>2. CASE pc' \in {"finish", "done"} /\ unrecovered' # {}
      BY <1>2, <2>1, <3>2, CleaningFrame DEF Keeping
    <3> QED  BY <1>2, <3>1, <3>2
  <2>3. All
    BY <2>2 DEF KeptInv
  <2>4. ~CleanStage /\ ~CleanDirectory
    <3>1. CleanStage \/ CleanDirectory => pc \in {"clean stages", "clean directories"}
      BY DEF CleanStage, CleanDirectory
    <3> QED  BY <2>2, <3>1 DEF Keeping, Forward, Planning, Preparing
  <2>5. \A p \in Range(staged') : stage'[p].owner = "run"
    <3>1. CASE MakeStage
      <4>1. \/ stage' = stage /\ staged' = staged
            \/ /\ stage' = [stage EXCEPT ![Current] = NewStage]
               /\ staged' = staged \/ staged' = Append(staged, Current)
        BY <3>1 DEF MakeStage, HasEffect
      <4>2. \A p \in Paths : stage[p].owner = "run" => stage'[p].owner = "run"
        BY <1>t, <4>1 DEF NewStage
      <4>3. CASE staged' = staged
        BY <1>r, <2>3, <4>2, <4>3
      <4>4. CASE /\ stage' = [stage EXCEPT ![Current] = NewStage]
                 /\ staged' = Append(staged, Current)
        <5>1. Range(staged') = Range(staged) \cup {Current}
          BY <1>t, <4>4, AppendRange
        <5>2. Current \in Paths
          <6>1. /\ Len(prepared) < Len(effects) /\ effects \in Seq(Paths)
                /\ Len(prepared) \in Nat /\ Len(effects) \in Nat
            BY <3>1, LengthTypes DEF MakeStage, TypeOK
          <6>2. Len(prepared) + 1 \in Nat /\ Len(prepared) + 1 >= 1 /\ Len(prepared) + 1 <= Len(effects)
            BY <6>1
          <6> QED  BY <6>1, <6>2, ElementType DEF Current
        <5>3. stage'[Current].owner = "run"
          BY <1>t, <4>4, <5>2 DEF NewStage
        <5> QED  BY <1>r, <2>3, <4>2, <5>1, <5>3
      <4> QED  BY <4>1, <4>3, <4>4
    <3>2. CASE ~MakeStage
      <4>1. staged' = staged /\ \A p \in Paths : stage'[p].owner = stage[p].owner
        BY <2>1, <2>4, <3>2, RecordFrame, OwnerFrame
      <4> QED  BY <1>r, <2>3, <4>1
    <3> QED  BY <3>1, <3>2
  <2>6. \A d \in Range(created') : dirs'[d] = "ours"
    <3>1. CASE MakeDirectory
      <4> DEFINE d == ActiveDirectories(mode)[cursor]
      <4>1. \/ dirs' = dirs /\ created' = created
            \/ /\ dirs' = [dirs EXCEPT ![d] = "ours"]
               /\ created' = created \/ created' = Append(created, d)
        BY <3>1 DEF MakeDirectory, HasEffect
      <4>d. d \in Directories
        BY <3>1, ActiveDirectoryType DEF MakeDirectory, IndexInv, TypeOK
      <4> HIDE DEF d
      <4>2. \A e \in Directories : dirs[e] = "ours" => dirs'[e] = "ours"
        BY <1>t, <4>1
      <4>3. CASE created' = created
        BY <1>r, <2>3, <4>2, <4>3
      <4>4. CASE dirs' = [dirs EXCEPT ![d] = "ours"] /\ created' = Append(created, d)
        <5>1. Range(created') = Range(created) \cup {d}
          BY <1>t, <4>4, AppendRange
        <5>2. dirs'[d] = "ours"
          BY <1>t, <4>d, <4>4
        <5> QED  BY <1>r, <2>3, <4>2, <5>1, <5>2
      <4> QED  BY <4>1, <4>3, <4>4
    <3>2. CASE ~MakeDirectory
      <4>1. created' = created /\ dirs' = dirs
        BY <2>1, <2>4, <3>2, RecordFrame, DirectoryFrame
      <4> QED  BY <2>3, <4>1
    <3> QED  BY <3>1, <3>2
  <2> QED  BY <2>5, <2>6
<1> QED  BY <1>1, <1>2 DEF KeptInv

\* A loop over a list that is at its first element has passed all of them.
LEMMA Passed ==
  ASSUME NEW S, NEW s \in Seq(S), NEW x \in Range(s)
  PROVE  \E i \in 1..Len(s) : i > 0 /\ s[i] = x
<1>1. DOMAIN s = 1..Len(s)
  OBVIOUS
<1>2. PICK i \in 1..Len(s) : s[i] = x
  BY <1>1 DEF Range
<1>3. i > 0
  OBVIOUS
<1> QED  BY <1>2, <1>3

\* A loop that starts at the end of a list has passed nothing.
LEMMA PassedNone ==
  ASSUME NEW S, NEW s \in Seq(S), NEW i \in 1..Len(s)
  PROVE  ~(i > Len(s))
OBVIOUS

\* A loop that comes to the next element has passed one more.
LEMMA PassedOneMore ==
  ASSUME NEW c \in Nat, NEW S, NEW s \in Seq(S), NEW i \in 1..Len(s), i > c - 1
  PROVE  i = c \/ i > c
OBVIOUS

\* What the cleanup of stages has passed is gone or residue.
LEMMA StagesLeftStep ==
  ASSUME TypeOK, IndexInv, SafetyInv, VerdictInv, StagesLeftInv, [Next]_vars
  PROVE  StagesLeftInv'
<1> USE DEF filesystem, plan, progress, recovery, residue, verdict, history
<1>t. /\ stage \in [Paths -> Stages] /\ staged \in Seq(Paths) /\ cursor \in Nat
      /\ touched \in [Paths -> {"never", "early", "late"}]
      /\ \A i \in 1..Len(staged) : staged[i] \in Paths
  <2>1. stage \in [Paths -> Stages] /\ staged \in Seq(Paths) /\ cursor \in Nat
        /\ touched \in [Paths -> {"never", "early", "late"}]
    BY DEF TypeOK
  <2> QED  BY <2>1
<1>1. CASE pc' \notin {"clean stages", "clean directories", "finish"}
  BY <1>1 DEF StagesLeftInv
<1>2. CASE pc' = "clean stages" /\ cursor' = CleanFrom /\ staged' = staged
  BY <1>t, <1>2, PassedNone DEF StagesLeftInv, CleanFrom
<1>3. CASE Validate
  <2>1. /\ pc = "validate" /\ pc' \in {"finish", "directories"} /\ UNCHANGED <<stage, stageResidue>>
    BY <1>3 DEF Validate
  <2>2. staged = <<>>
    BY <2>1, EmptyLists DEF VerdictInv, ListInv, ListLengths, Starting
  <2>3. Range(staged') = {}
    BY <1>3, <2>2, EmptyRange DEF Validate
  <2> QED  BY <2>1, <2>3 DEF StagesLeftInv
<1>4. CASE \/ Plan \/ MakeDirectory \/ DirectoriesMade \/ CopyOriginal \/ WriteNew
           \/ AllPrepared \/ Recapture \/ PollBeforeApply
  <2>1. \/ pc' \notin {"clean stages", "clean directories", "finish"}
        \/ pc' = "clean stages" /\ cursor' = CleanFrom /\ staged' = staged
    BY <1>4 DEF Plan, MakeDirectory, DirectoriesMade, CopyOriginal, WriteNew, PrepareFailed,
                AllPrepared, Recapture, PollBeforeApply
  <2> QED  BY <1>1, <1>2, <2>1
<1>5. CASE MakeStage \/ ApplyEffect
  <2>1. \/ pc' \notin {"clean stages", "clean directories", "finish"}
        \/ pc' = "clean stages" /\ cursor' = CleanFrom /\ staged' = staged
    BY <1>5 DEF MakeStage, PrepareFailed, ApplyEffect
  <2> QED  BY <1>1, <1>2, <2>1
<1>6. CASE RecoverEffect \/ Invalidate \/ Finish \/ Crash
  <2>1. pc' \notin {"clean stages", "clean directories", "finish"}
    BY <1>6 DEF RecoverEffect, Invalidate, Finish, Crash
  <2> QED  BY <1>1, <2>1
<1>7. CASE RecoveryEnds
  <2>1. /\ UNCHANGED <<staged, unrecovered>>
        /\ \/ pc' = "invalidate"
           \/ pc' = "clean stages" /\ cursor' = CleanFrom
           \/ pc' = "finish" /\ unrecovered # {}
    BY <1>7 DEF RecoveryEnds, KeepsBackups
  <2>2. CASE pc' = "finish" /\ unrecovered # {}
    BY <2>1, <2>2 DEF StagesLeftInv
  <2> QED  BY <1>1, <1>2, <2>1, <2>2
<1>8. CASE CleanStage
  <2> DEFINE p == staged[cursor]
  <2>1. /\ pc = "clean stages" /\ pc' = pc /\ cursor > 0 /\ cursor' = cursor - 1
        /\ UNCHANGED <<staged, unrecovered, touched>> /\ stageResidue \subseteq stageResidue'
    BY <1>8 DEF CleanStage
  <2>2. \/ stage' = stage /\ stage[p].owner = "none"
        \/ stage' = stage /\ p \in stageResidue'
        \/ stage' = [stage EXCEPT ![p] = NoStage]
        \/ /\ p \in stageResidue'
           /\ \E left \in PartlyCleaned(stage[p]) : stage' = [stage EXCEPT ![p] = left]
    BY <1>8 DEF CleanStage, HasEffect, Remains
  <2>3. cursor \in 1..Len(staged)
    <3>1. cursor <= Len(staged)
      BY <2>1 DEF IndexInv
    <3>2. cursor > 0
      BY <2>1
    <3> QED  BY <1>t, <3>1, <3>2
  <2>4. p \in Paths
    BY <1>t, <2>3
  <2> HIDE DEF p
  <2>5. SUFFICES ASSUME NEW i \in 1..Len(staged), i > cursor - 1, LeftStage(staged[i])'
        PROVE  staged[i] \in stageResidue'
    BY <2>1 DEF StagesLeftInv
  <2>6. CASE staged[i] = p
    <3>1. \/ stage'[p] = stage[p] /\ stage[p].owner = "none"
          \/ stage'[p] = NoStage
          \/ p \in stageResidue'
      BY <1>t, <2>2, <2>4
    <3>2. stage'[staged[i]].owner \in {"run", "foreign"}
      BY <2>1, <2>5 DEF LeftStage
    <3> QED  BY <2>6, <3>1, <3>2 DEF NoStage
  <2>7. CASE staged[i] # p
    <3>1. i # cursor
      BY <2>7 DEF p
    <3>2. i > cursor
      BY <1>t, <2>5, <3>1, PassedOneMore
    <3>3. stage'[staged[i]] = stage[staged[i]]
      BY <1>t, <2>2, <2>7
    <3>4. LeftStage(staged[i])
      BY <2>1, <2>5, <3>3 DEF LeftStage
    <3> QED  BY <2>1, <3>2, <3>4 DEF StagesLeftInv
  <2> QED  BY <2>6, <2>7
<1>9. CASE StagesCleaned
  <2>1. /\ pc = "clean stages" /\ pc' \in {"finish", "clean directories"} /\ cursor = 0
        /\ UNCHANGED <<stage, staged, touched, stageResidue>>
    BY <1>9 DEF StagesCleaned
  <2>2. ASSUME NEW p \in Range(staged), LeftStage(p) PROVE p \in stageResidue
    <3>1. PICK i \in 1..Len(staged) : i > 0 /\ staged[i] = p
      BY <1>t, <2>2, Passed
    <3> QED  BY <2>1, <2>2, <3>1 DEF StagesLeftInv
  <2> QED  BY <2>1, <2>2 DEF StagesLeftInv, LeftStage
<1>10. CASE CleanDirectory \/ DirectoriesCleaned
  <2>1. /\ pc = "clean directories" /\ pc' \in {"clean directories", "finish"}
        /\ UNCHANGED <<stage, staged, touched, stageResidue, unrecovered>>
    BY <1>10 DEF CleanDirectory, DirectoriesCleaned
  <2> QED  BY <2>1 DEF StagesLeftInv, LeftStage
<1>11. CASE /\ UNCHANGED <<pc, cursor, staged, stageResidue, unrecovered>>
            /\ \A p \in Paths : LeftStage(p)' => LeftStage(p)
  <2>1. Range(staged) \subseteq Paths
    BY <1>t, ElementRange
  <2> QED  BY <1>t, <1>11, <2>1 DEF StagesLeftInv
<1>12. CASE pc \notin {"clean stages", "clean directories", "finish"} /\ UNCHANGED pc
  BY <1>12 DEF StagesLeftInv
<1>13. ASSUME NEW p \in Paths, NEW owner \in {"none", "foreign"}, EditStage(p, owner)
       PROVE  StagesLeftInv'
  <2>1. /\ UNCHANGED <<pc, cursor, staged, stageResidue, unrecovered>>
        /\ stage' = [stage EXCEPT ![p] = [NoStage EXCEPT !.owner = owner]]
        /\ Touch(p)
    BY <1>13 DEF EditStage, Edit
  <2>2. ASSUME pc \in {"clean stages", "clean directories", "finish"}, NEW q \in Paths,
               LeftStage(q)'
        PROVE  LeftStage(q)
    <3>1. touched' = [touched EXCEPT ![p] = "late"]
      BY <2>1, <2>2 DEF Touch, Preparing
    <3>2. CASE q = p
      BY <1>t, <2>2, <3>1, <3>2, <2>1 DEF LeftStage, NoStage
    <3>3. CASE q # p
      BY <1>t, <2>1, <2>2, <3>1, <3>3 DEF LeftStage
    <3> QED  BY <3>2, <3>3
  <2> QED  BY <1>11, <1>12, <2>1, <2>2
<1>14. ASSUME NEW p \in Paths, NEW c \in FileKinds, EditFile(p, c)
       PROVE  StagesLeftInv'
  <2>1. UNCHANGED <<pc, cursor, staged, stage, stageResidue, unrecovered>> /\ Touch(p)
    BY <1>14 DEF EditFile, Edit
  <2>2. ASSUME pc \in {"clean stages", "clean directories", "finish"}, NEW q \in Paths,
               LeftStage(q)'
        PROVE  LeftStage(q)
    <3>1. touched' = [touched EXCEPT ![p] = "late"]
      BY <2>1, <2>2 DEF Touch, Preparing
    <3>2. touched'[q] = "early" => touched[q] = "early"
      BY <1>t, <3>1
    <3> QED  BY <2>1, <2>2, <3>2 DEF LeftStage
  <2> QED  BY <1>11, <1>12, <2>1, <2>2
<1>15. CASE \/ Signal \/ UNCHANGED vars
            \/ \E d \in Directories, kind \in {"missing", "foreign"} : EditDirectory(d, kind)
  <2>1. UNCHANGED <<pc, cursor, staged, stage, touched, stageResidue, unrecovered>>
    BY <1>15 DEF Signal, vars, EditDirectory, Edit
  <2> QED  BY <1>11, <2>1 DEF LeftStage
<1> QED
  BY <1>3, <1>4, <1>5, <1>6, <1>7, <1>8, <1>9, <1>10, <1>13, <1>14, <1>15, Zenon
     DEF Next, Step, Environment

\* What the cleanup of directories has passed is gone or residue.
LEMMA DirectoriesLeftStep ==
  ASSUME TypeOK, IndexInv, SafetyInv, VerdictInv, KeptInv, DirectoriesLeftInv, [Next]_vars
  PROVE  DirectoriesLeftInv'
<1> USE DEF filesystem, plan, progress, recovery, residue, verdict, history
<1>t. /\ dirs \in [Directories -> DirKinds] /\ created \in Seq(Directories) /\ cursor \in Nat
      /\ \A i \in 1..Len(created) : created[i] \in Directories
  <2>1. dirs \in [Directories -> DirKinds] /\ created \in Seq(Directories) /\ cursor \in Nat
    BY DEF TypeOK
  <2> QED  BY <2>1
<1>1. CASE pc' \notin {"clean directories", "finish"}
  BY <1>1 DEF DirectoriesLeftInv
<1>2. CASE Validate
  <2>1. pc = "validate" /\ pc' \in {"finish", "directories"} /\ created' = created
    BY <1>2 DEF Validate
  <2>2. Range(created') = {}
    BY <2>1, EmptyRange DEF KeptInv
  <2> QED  BY <2>1, <2>2 DEF DirectoriesLeftInv
<1>3. CASE \/ Plan \/ MakeDirectory \/ DirectoriesMade \/ CopyOriginal \/ WriteNew
           \/ AllPrepared \/ Recapture \/ PollBeforeApply
  <2>1. pc' \notin {"clean directories", "finish"}
    BY <1>3 DEF Plan, MakeDirectory, DirectoriesMade, CopyOriginal, WriteNew, PrepareFailed,
                AllPrepared, Recapture, PollBeforeApply
  <2> QED  BY <1>1, <2>1
<1>4. CASE MakeStage \/ ApplyEffect \/ RecoverEffect \/ Invalidate \/ CleanStage \/ Finish \/ Crash
  <2>1. pc' \notin {"clean directories", "finish"}
    BY <1>4 DEF MakeStage, PrepareFailed, ApplyEffect, RecoverEffect, Invalidate, CleanStage,
                Finish, Crash
  <2> QED  BY <1>1, <2>1
<1>5. CASE RecoveryEnds
  <2>1. pc' # "clean directories" /\ (pc' = "finish" => unrecovered' # {})
    BY <1>5 DEF RecoveryEnds, KeepsBackups
  <2> QED  BY <2>1 DEF DirectoriesLeftInv
<1>6. CASE StagesCleaned
  <2>1. /\ \/ pc' = "finish" /\ committed'
           \/ pc' = "clean directories" /\ cursor' = Len(created)
        /\ UNCHANGED created
    BY <1>6 DEF StagesCleaned
  <2> QED  BY <1>t, <2>1, PassedNone DEF DirectoriesLeftInv
<1>7. CASE CleanDirectory
  <2> DEFINE d == created[cursor]
  <2>1. /\ pc = "clean directories" /\ pc' = pc /\ cursor > 0 /\ cursor' = cursor - 1
        /\ UNCHANGED created /\ dirResidue \subseteq dirResidue'
    BY <1>7 DEF CleanDirectory
  <2>2. \/ dirs' = dirs /\ dirs[d] = "missing"
        \/ dirs' = [dirs EXCEPT ![d] = "missing"]
        \/ d \in dirResidue' /\ dirs' = dirs
    BY <1>7 DEF CleanDirectory
  <2>3. cursor \in 1..Len(created)
    <3>1. cursor <= Len(created)
      BY <2>1 DEF IndexInv
    <3>2. cursor > 0
      BY <2>1
    <3> QED  BY <1>t, <3>1, <3>2
  <2>4. d \in Directories
    BY <1>t, <2>3
  <2> HIDE DEF d
  <2>5. SUFFICES ASSUME NEW i \in 1..Len(created), i > cursor - 1, dirs'[created[i]] = "ours"
        PROVE  created[i] \in dirResidue'
    BY <2>1 DEF DirectoriesLeftInv
  <2>6. CASE created[i] = d
    BY <1>t, <2>2, <2>4, <2>5, <2>6
  <2>7. CASE created[i] # d
    <3>1. i # cursor
      BY <2>7 DEF d
    <3>2. i > cursor
      BY <1>t, <2>5, <3>1, PassedOneMore
    <3>3. dirs'[created[i]] = dirs[created[i]]
      BY <1>t, <2>2, <2>7
    <3> QED  BY <2>1, <2>5, <3>2, <3>3 DEF DirectoriesLeftInv
  <2> QED  BY <2>6, <2>7
<1>8. CASE DirectoriesCleaned
  <2>1. /\ pc = "clean directories" /\ pc' = "finish" /\ cursor = 0
        /\ UNCHANGED <<dirs, created, dirResidue>>
    BY <1>8 DEF DirectoriesCleaned
  <2>2. ASSUME NEW d \in Range(created), dirs[d] = "ours" PROVE d \in dirResidue
    <3>1. PICK i \in 1..Len(created) : i > 0 /\ created[i] = d
      BY <1>t, <2>2, Passed
    <3> QED  BY <2>1, <2>2, <3>1 DEF DirectoriesLeftInv
  <2> QED  BY <2>1, <2>2 DEF DirectoriesLeftInv
<1>9. CASE /\ UNCHANGED <<pc, cursor, created, dirResidue, unrecovered, committed>>
           /\ \A d \in Directories : dirs'[d] = "ours" => dirs[d] = "ours"
  <2>1. Range(created) \subseteq Directories
    BY <1>t, ElementRange
  <2> QED  BY <1>t, <1>9, <2>1 DEF DirectoriesLeftInv
<1>10. ASSUME NEW d \in Directories, NEW kind \in {"missing", "foreign"}, EditDirectory(d, kind)
       PROVE  DirectoriesLeftInv'
  <2>1. /\ UNCHANGED <<pc, cursor, created, dirResidue, unrecovered, committed>>
        /\ dirs' = [dirs EXCEPT ![d] = kind]
    BY <1>10 DEF EditDirectory, Edit
  <2>2. \A e \in Directories : dirs'[e] = "ours" => dirs[e] = "ours"
    BY <1>t, <2>1
  <2> QED  BY <1>9, <2>1, <2>2
<1>11. CASE \/ Signal \/ UNCHANGED vars
            \/ \E p \in Paths, c \in FileKinds : EditFile(p, c)
            \/ \E p \in Paths, owner \in {"none", "foreign"} : EditStage(p, owner)
  <2>1. UNCHANGED <<pc, cursor, created, dirs, dirResidue, unrecovered, committed>>
    BY <1>11 DEF Signal, vars, EditFile, EditStage, Edit
  <2> QED  BY <1>9, <2>1
<1> QED
  BY <1>2, <1>3, <1>4, <1>5, <1>6, <1>7, <1>8, <1>10, <1>11 DEF Next, Step, Environment

\* A finished execution has accounted for what it left.
LEMMA LeftoversStep ==
  ASSUME TypeOK, IndexInv, PhaseInv, VerdictInv, UnrecordedInv', KeptInv, KeptInv',
         StagesLeftInv, DirectoriesLeftInv, LeftoversAreNamed, [Next]_vars
  PROVE  LeftoversAreNamed'
<1> USE DEF filesystem, plan, progress, recovery, residue, verdict, history
<1>1. CASE outcome' = "none"
  BY <1>1 DEF LeftoversAreNamed
<1>2. CASE Plan
  <2>1. pc = "plan" /\ UNCHANGED <<staged, created, unrecovered, committed>>
    BY <1>2 DEF Plan
  <2>2. staged' = <<>> /\ created' = <<>> /\ unrecovered' = {}
    BY <2>1, EmptyLists DEF VerdictInv, ListInv, ListLengths, Starting, KeptInv, PhaseInv, Planning
  <2> QED  BY <2>2, EmptyRange DEF LeftoversAreNamed, UnrecordedInv
<1>3. CASE Finish
  <2>1. /\ pc = "finish" /\ pc' = "done"
        /\ UNCHANGED <<stage, dirs, staged, created, stageResidue, dirResidue, unrecovered,
                       committed, touched, edits>>
    BY <1>3 DEF Finish
  <2>2. ASSUME NEW p \in Range(staged'), LeftStage(p)'
        PROVE  p \in stageResidue' \cup Range(Observation.retained')
    <3>1. p \in Range(staged) /\ LeftStage(p)
      BY <2>1, <2>2 DEF LeftStage
    <3>2. CASE unrecovered = {}
      BY <2>1, <3>1, <3>2 DEF StagesLeftInv
    <3>3. CASE unrecovered # {}
      <4>1. Observation.retained' = staged
        BY <2>1, <3>3 DEF Observation
      <4> QED  BY <3>1, <4>1
    <3> QED  BY <3>2, <3>3
  <2>3. (~committed' /\ unrecovered' = {}) =>
           \A d \in Range(created') : dirs'[d] = "ours" => d \in dirResidue'
    BY <2>1 DEF DirectoriesLeftInv
  <2>4. (unrecovered' # {} /\ edits' = 0) =>
           /\ \A p \in Range(staged') : stage'[p].owner = "run"
           /\ \A d \in Range(created') : dirs'[d] = "ours"
    BY <2>1 DEF KeptInv
  <2> QED  BY <2>2, <2>3, <2>4 DEF LeftoversAreNamed, UnrecordedInv
<1>4. CASE outcome' # "none" /\ ~Plan /\ ~Finish
  <2>1. CASE UNCHANGED vars
    <3>1. UNCHANGED <<outcome, stage, dirs, staged, created, stageResidue, dirResidue,
                      unrecovered, committed, touched, edits, attempted, failure>>
      BY <2>1 DEF vars
    <3> QED  BY <3>1 DEF LeftoversAreNamed, LeftStage, Observation, UnrecordedStages,
                         UnrecordedDirectories
  <2>2. CASE ~UNCHANGED vars
    <3>1. outcome' = outcome /\ pc # "done"
      BY <1>4, <2>2, Zenon
         DEF Next, Step, Environment, Validate, MakeDirectory, DirectoriesMade, MakeStage,
             CopyOriginal, WriteNew, AllPrepared, Recapture, PollBeforeApply, ApplyEffect,
             RecoverEffect, Invalidate, RecoveryEnds, CleanStage, StagesCleaned,
             CleanDirectory, DirectoriesCleaned, Signal, Crash, Terminal, EditFile, EditStage,
             EditDirectory, Edit, Executing, Preparing, Mutating
    <3> QED  BY <1>4, <3>1 DEF VerdictInv, OutcomeInv
  <2> QED  BY <2>1, <2>2
<1> QED  BY <1>1, <1>2, <1>3, <1>4

\* Everything an execution made and recorded is gone or named at the end, except for
\* directories a committed execution or an incomplete recovery keeps, and at most one
\* thing was made without being recorded.
THEOREM LeftoversNamed == Spec => []LeftoversAreNamed
<1> DEFINE All == IInv /\ VerdictInv
<1>1. Init => LeftInv
  <2> SUFFICES ASSUME Init PROVE LeftInv
    OBVIOUS
  <2>1. /\ \A p \in Paths : stage[p].owner # "run"
        /\ \A d \in Directories : dirs[d] # "ours"
    BY DEF Init, NoStage
  <2>2. UnrecordedStages = {} /\ UnrecordedDirectories = {}
    BY <2>1 DEF UnrecordedStages, UnrecordedDirectories
  <2>3. /\ pc = "plan" /\ outcome = "none"
        /\ Range(staged) = {} /\ created = <<>> /\ Range(created) = {}
    BY EmptyRange DEF Init
  <2> QED
    BY <2>2, <2>3
       DEF LeftInv, UnrecordedInv, KeptInv, StagesLeftInv, DirectoriesLeftInv, LeftoversAreNamed
<1>2. All /\ LeftInv /\ [Next]_vars => LeftInv'
  <2> SUFFICES ASSUME TypeOK, IndexInv, PhaseInv, SafetyInv, VerdictInv, LeftInv, [Next]_vars
               PROVE  LeftInv'
    BY DEF IInv, SafetyInv
  <2>1. RecoveryInv /\ FailureInv /\ ResidueInv
    BY DEF VerdictInv
  <2>2. UnrecordedInv /\ KeptInv /\ StagesLeftInv /\ DirectoriesLeftInv /\ LeftoversAreNamed
    BY DEF LeftInv
  <2>3. UnrecordedInv'
    BY <2>1, <2>2, UnrecordedStep
  <2>4. KeptInv'
    BY <2>1, <2>2, KeptStep
  <2>5. StagesLeftInv' /\ DirectoriesLeftInv'
    BY <2>2, StagesLeftStep, DirectoriesLeftStep
  <2>6. LeftoversAreNamed'
    BY <2>2, <2>3, <2>4, LeftoversStep
  <2> QED  BY <2>3, <2>4, <2>5, <2>6 DEF LeftInv
<1>3. LeftInv => LeftoversAreNamed
  BY DEF LeftInv
<1>4. Spec => []All
  BY VerdictInvariance
<1> QED  BY <1>1, <1>2, <1>3, <1>4, PTL DEF Spec

-----------------------------------------------------------------------------
\* The refinement of AdoptionMarker, where nobody else edits.

\* Nobody touches anything.
LEMMA AloneStep ==
  ASSUME MaxEdits = 0, Alone, [Next]_vars
  PROVE  Alone'
<1> USE DEF history
<1>1. ~Edit
  BY DEF Edit, Alone
<1>2. CASE UNCHANGED <<edits, touched>>
  BY <1>2 DEF Alone, Untouched
<1>3. CASE Step
  BY <1>2, <1>3
     DEF Step, Plan, Validate, MakeDirectory, DirectoriesMade, MakeStage, CopyOriginal,
         WriteNew, AllPrepared, Recapture, PollBeforeApply, ApplyEffect, RecoverEffect,
         Invalidate, RecoveryEnds, CleanStage, StagesCleaned, CleanDirectory,
         DirectoriesCleaned, Finish
<1>4. CASE Signal \/ Crash \/ UNCHANGED vars
  BY <1>2, <1>4 DEF Signal, Crash, vars
<1> QED
  BY <1>1, <1>3, <1>4 DEF Next, Environment, EditFile, EditStage, EditDirectory

\* What the actions that replace, restore or remove nothing leave alone.
LEMMA PromiseFrame ==
  ASSUME \/ Validate \/ MakeDirectory \/ DirectoriesMade
         \/ MakeStage \/ CopyOriginal \/ WriteNew \/ AllPrepared
         \/ Recapture \/ PollBeforeApply \/ RecoveryEnds
         \/ CleanStage \/ StagesCleaned \/ CleanDirectory \/ DirectoriesCleaned
         \/ Signal \/ Crash \/ UNCHANGED vars
  PROVE  UNCHANGED <<effects, disk, pre, committed, invalidationFailed, outcome>>
BY DEF Validate, MakeDirectory, DirectoriesMade, MakeStage, CopyOriginal, BackUp, WriteNew,
       AllPrepared, Recapture, PollBeforeApply, RecoveryEnds, CleanStage, StagesCleaned,
       CleanDirectory, DirectoriesCleaned, Signal, Crash, vars, filesystem, plan, progress,
       recovery, residue, verdict, history

\* A plan is made of what nobody has changed, so it takes over the same originals.
LEMMA PlannedOriginals ==
  ASSUME TypeOK, IndexInv, SafetyInv, Alone, Plan
  PROVE  /\ pre'.files = disk /\ disk = pre.files /\ disk' = disk
         /\ effects = <<>> /\ ~committed /\ ~committed'
         /\ UNCHANGED invalidationFailed
<1> USE DEF filesystem, recovery
<1>1. pc = "plan" /\ pre'.files = disk /\ disk' = disk /\ UNCHANGED <<committed, invalidationFailed>>
  BY DEF Plan
<1>2. disk = theirs
  BY <1>1 DEF SafetyInv, PhaseInv, UnappliedIsUnchanged
<1>3. \A p \in Paths : theirs[p] = pre.files[p]
  BY DEF SafetyInv, TheirsInv, Alone
<1>4. disk = pre.files
  <2>1. disk \in [Paths -> FileKinds] /\ pre.files \in [Paths -> FileKinds]
    BY DEF TypeOK
  <2>2. \A p \in Paths : disk[p] = pre.files[p]
    BY <1>2, <1>3
  <2> QED  BY <2>1, <2>2
<1>5. effects = <<>>
  BY <1>1 DEF IndexInv
<1>6. ~committed
  BY <1>1 DEF SafetyInv, PhaseInv, Committing
<1> QED  BY <1>1, <1>4, <1>5, <1>6

\* The effect that is applied next is as it was, and when it is the last everything
\* else is in place.
LEMMA AppliedPlaces ==
  ASSUME TypeOK, IndexInv, SafetyInv, Alone, pc = "apply", Len(attempted) < Len(effects)
  PROVE  /\ Original(effects[Len(attempted) + 1])
         /\ Len(attempted) + 1 = Len(effects) =>
              \A i \in 1..Len(effects) :
                i # Len(attempted) + 1 => disk[effects[i]] = Target(effects[i])
<1>1. \A i \in 1..Len(effects) :
        disk[effects[i]] = IF i <= Len(attempted) THEN Target(effects[i])
                                                  ELSE pre.files[effects[i]]
  <2>1. \A i \in 1..Len(effects) : Untouched(effects[i])
    BY PlannedType DEF Alone, Planned
  <2> QED  BY <2>1 DEF SafetyInv, ApplyInv
<1>2. Len(attempted) + 1 \in 1..Len(effects) /\ ~(Len(attempted) + 1 <= Len(attempted))
  BY LengthTypes
<1>3. ASSUME Len(attempted) + 1 = Len(effects), NEW i \in 1..Len(effects),
             i # Len(attempted) + 1
      PROVE  i <= Len(attempted)
  BY <1>3, LengthTypes
<1> QED  BY <1>1, <1>2, <1>3 DEF Original

\* What recovery puts back is what was there.
LEMMA RestoresOriginal ==
  ASSUME TypeOK, IndexInv, SafetyInv, ListInv, Alone, pc = "recover", ~Recovered
  PROVE  LET p == attempted[Len(attempted) - Len(recoveryAttempted)] IN
         /\ p \in Planned
         /\ Restoration(p) = pre.files[p]
<1> DEFINE p == attempted[Len(attempted) - Len(recoveryAttempted)]
<1>1. /\ Len(attempted) - Len(recoveryAttempted) \in 1..Len(effects)
      /\ p = effects[Len(attempted) - Len(recoveryAttempted)]
  BY NextToRecover DEF SafetyInv
<1>2. p \in Planned /\ p \in Paths
  BY <1>1, PlannedType
<1>3. Len(prepared) = Len(effects)
  BY DEF SafetyInv, PhaseInv, Replacing
<1>4. Backed(p)
  BY <1>1, <1>2, <1>3 DEF SafetyInv, BackupInv, Replacing, Alone
<1> QED  BY <1>2, <1>4 DEF Restoration, Backed

\* Nothing but the plan is ever put in place, and nothing is taken back once the
\* execution has committed.
LEMMA PlacesStep ==
  ASSUME TypeOK, IndexInv, SafetyInv, ListInv, MaxEdits = 0, PromiseInv, [Next]_vars
  PROVE  PlacesInv' /\ CommittedInv'
<1> USE DEF PromiseInv
<1>1. CASE Plan
  BY <1>1, PlannedOriginals DEF PlacesInv, CommittedInv, Original
<1>2. CASE UNCHANGED <<effects, disk, pre, committed>>
  BY <1>2 DEF PlacesInv, CommittedInv, Original, Planned
<1>3. ASSUME UNCHANGED <<effects, pre>>, NEW p \in Planned, NEW c,
             disk' = [disk EXCEPT ![p] = c], p = Marker \/ c \in {pre.files[p], Target(p)}
      PROVE  PlacesInv'
  <2>1. UNCHANGED Planned
    BY <1>3 DEF Planned
  <2>2. \A q \in Planned : disk'[q] = IF q = p THEN c ELSE disk[q]
    BY <1>3, PlannedType DEF TypeOK
  <2> QED  BY <1>3, <2>1, <2>2 DEF PlacesInv, Original
<1>4. CASE ApplyEffect
  <2> DEFINE n == Len(attempted) + 1
             p == effects[n]
  <2>1. /\ pc = "apply" /\ Len(attempted) < Len(effects)
        /\ UNCHANGED <<effects, pre>>
        /\ disk' = disk \/ disk' = [disk EXCEPT ![p] = Target(p)]
        /\ committed' => n = Len(effects) /\ disk' = [disk EXCEPT ![p] = Target(p)]
    <3>1. ~committed
      BY <1>4 DEF ApplyEffect, SafetyInv, PhaseInv, Committing, Replacing
    <3> QED  BY <1>4, <3>1 DEF ApplyEffect, plan, HasEffect
  <2>2. p \in Planned /\ n \in 1..Len(effects)
    BY <2>1, NextToApply
  <2>3. UNCHANGED Planned
    BY <2>1 DEF Planned
  <2>4. PlacesInv'
    <3>1. CASE disk' = disk
      BY <2>1, <2>3, <3>1 DEF PlacesInv, Original
    <3>2. CASE disk' = [disk EXCEPT ![p] = Target(p)]
      BY <1>3, <2>1, <2>2, <3>2
    <3> QED  BY <2>1, <3>1, <3>2
  <2>5. ASSUME committed' PROVE \A q \in Planned : disk'[q] = Target(q)
    <3>1. \A i \in 1..Len(effects) : i # n => disk[effects[i]] = Target(effects[i])
      BY <2>1, <2>5, AppliedPlaces
    <3>2. \A q \in Planned : disk'[q] = IF q = p THEN Target(p) ELSE disk[q]
      BY <2>1, <2>5, PlannedType DEF TypeOK
    <3>3. TAKE q \in Planned
    <3>4. PICK i \in 1..Len(effects) : q = effects[i]
      BY DEF Planned
    <3> HIDE DEF n
    <3> QED  BY <3>1, <3>2, <3>4
  <2> QED  BY <2>3, <2>4, <2>5 DEF CommittedInv
<1>5. CASE RecoverEffect
  <2> DEFINE p == attempted[Len(attempted) - Len(recoveryAttempted)]
  <2>1. /\ pc = "recover" /\ ~Recovered
        /\ UNCHANGED <<effects, pre, committed>>
        /\ disk' = disk \/ disk' = [disk EXCEPT ![p] = Restoration(p)]
    BY <1>5 DEF RecoverEffect, plan, verdict
  <2>2. p \in Planned /\ Restoration(p) = pre.files[p]
    BY <2>1, RestoresOriginal
  <2>3. ~committed
    BY <2>1 DEF SafetyInv, PhaseInv, Committing, Replacing
  <2>4. PlacesInv'
    <3>1. CASE disk' = [disk EXCEPT ![p] = Restoration(p)]
      BY <1>3, <2>1, <2>2, <3>1
    <3> QED  BY <1>2, <2>1, <3>1
  <2> QED  BY <2>1, <2>3, <2>4 DEF CommittedInv
<1>6. CASE Invalidate
  <2>1. /\ pc = "invalidate" /\ UNCHANGED <<effects, pre, committed>>
        /\ disk' = disk \/ disk' = [disk EXCEPT ![Marker] = "missing"]
    BY <1>6 DEF Invalidate, plan, verdict
  <2>2. ~committed /\ attempted # <<>>
    BY <2>1 DEF SafetyInv, PhaseInv, Committing, Replacing
  <2>3. Marker \in Planned
    <3>1. Len(attempted) <= Len(effects)
      BY DEF IndexInv
    <3> QED  BY <2>2, <3>1, LengthTypes, EmptyLists, MarkerPlanned
  <2>4. PlacesInv'
    <3>1. CASE disk' = [disk EXCEPT ![Marker] = "missing"]
      BY <1>3, <2>1, <2>3, <3>1
    <3> QED  BY <1>2, <2>1, <3>1
  <2> QED  BY <2>1, <2>2, <2>4 DEF CommittedInv
<1>7. CASE Finish
  BY <1>2, <1>7 DEF Finish, filesystem, plan
<1>8. ~Edit
  BY DEF Edit, Alone
<1> QED
  BY <1>1, <1>2, <1>4, <1>5, <1>6, <1>7, <1>8, PromiseFrame
     DEF Next, Step, Environment, EditFile, EditStage, EditDirectory

\* The last effect is the marker, and it is the only one that is.
LEMMA LastIsMarker ==
  ASSUME TypeOK, SafetyInv, NEW i \in 1..Len(effects)
  PROVE  effects[i] = Marker <=> i = Len(effects)
<1>1. Len(effects) \in 1..Len(effects) /\ effects # <<>>
  BY LengthTypes, EmptyLists
<1>2. effects[Len(effects)] = Marker
  BY <1>1 DEF SafetyInv, EffectsInv
<1> QED  BY <1>1, <1>2 DEF SafetyInv, EffectsInv

\* Where neither the plan nor the target changes, nothing changes for a reader.
LEMMA PromiseUnchanged ==
  ASSUME UNCHANGED <<effects, disk, pre, invalidationFailed, outcome>>
  PROVE  UNCHANGED Promise!vars
BY DEF Promise!vars, MarkerIsNew, Planned

\* The actions of AdoptionMarker in terms of the execution.
LEMMA PromiseActions ==
  /\ Promise!Begin <=>
       /\ Reported = "none"
       /\ Altered = {} /\ Pending = {}
       /\ Pending' \in SUBSET (Paths \ {Marker})
       /\ UNCHANGED <<Altered, MarkerIsNew, Distrusted, Reported>>
  /\ Promise!Publish <=>
       /\ Reported = "none"
       /\ Pending = {}
       /\ MarkerIsNew' = TRUE
       /\ Altered' = Altered \cup {Marker}
       /\ UNCHANGED <<Pending, Distrusted, Reported>>
  /\ Promise!Retract <=>
       /\ Reported = "none"
       /\ \/ MarkerIsNew' = FALSE /\ UNCHANGED Distrusted
          \/ MarkerIsNew' \in {MarkerIsNew, FALSE} /\ Distrusted' = TRUE
       /\ Altered' \in {Altered, Altered \ {Marker}, Altered \cup {Marker}}
       /\ UNCHANGED <<Pending, Reported>>
  /\ Promise!Conclude <=>
       /\ Reported = "none"
       /\ Reported' \in {"installed", "unchanged", "incomplete"}
       /\ Reported' = "installed" => Pending = {} /\ ~Distrusted
       /\ Reported' = "unchanged" => Altered = {} /\ ~MarkerIsNew
       /\ UNCHANGED <<Altered, Pending, MarkerIsNew, Distrusted>>
BY DEF Promise!Begin, Promise!Publish, Promise!Retract, Promise!Conclude, Altered, Pending,
       Distrusted, Reported

LEMMA PromiseMoves ==
  ASSUME NEW p
  PROVE  /\ Promise!Replace(p) <=>
              /\ Reported = "none"
              /\ p # Marker /\ ~MarkerIsNew
              /\ Pending' = Pending \ {p}
              /\ Altered' \in {Altered, Altered \cup {p}}
              /\ UNCHANGED <<MarkerIsNew, Distrusted, Reported>>
         /\ Promise!Restore(p) <=>
              /\ Reported = "none"
              /\ p # Marker /\ (~MarkerIsNew \/ Distrusted)
              /\ Altered' = Altered \ {p}
              /\ Pending' \in {Pending, Pending \cup {p}}
              /\ UNCHANGED <<MarkerIsNew, Distrusted, Reported>>
BY DEF Promise!Replace, Promise!Restore, Altered, Pending, Distrusted, Reported

\* Without an outcome nothing has been concluded.
LEMMA NothingReported ==
  /\ outcome = "none" => Reported = "none"
  /\ UNCHANGED outcome => UNCHANGED Reported
  /\ UNCHANGED invalidationFailed => UNCHANGED Distrusted
BY DEF Reported, Distrusted

\* Planning begins an installation, or concludes one that changed nothing.
LEMMA PlanKeepsPromise ==
  ASSUME TypeOK, IndexInv, SafetyInv, VerdictInv, PromiseInv, Plan
  PROVE  Promise!Begin \/ Promise!Conclude
<1> USE DEF PromiseInv
<1>1. /\ pre'.files = disk /\ disk = pre.files /\ disk' = disk
      /\ effects = <<>> /\ UNCHANGED invalidationFailed
  BY PlannedOriginals
<1>2. Altered = {} /\ Altered' = {} /\ Pending = {}
  BY <1>1 DEF Altered, Pending, Planned
<1>3. ~MarkerIsNew /\ UNCHANGED MarkerIsNew
  BY <1>1 DEF MarkerIsNew
<1>4. outcome = "none"
  BY DEF Plan, VerdictInv, OutcomeInv
<1>5. CASE /\ outcome' = outcome /\ effects' = PlanEffects(mode, disk)
  <2>1. Pending' \subseteq Paths \ {Marker}
    <3>1. mode \in Modes
      BY DEF TypeOK
    <3>2. Planned' \subseteq Destinations(mode)
      BY <1>5, <3>1, PlanScope DEF Planned
    <3>3. Destinations(mode) \subseteq Paths
      BY DEF Destinations, Paths, Payloads, ActivePayloads
    <3> QED  BY <3>2, <3>3 DEF Pending
  <2> QED
    BY <1>1, <1>2, <1>3, <1>4, <1>5, <2>1, PromiseActions, NothingReported
<1>6. CASE /\ outcome' = PlanOutcome(mode, disk, dirs) /\ UNCHANGED effects
           /\ PlanOutcome(mode, disk, dirs) # "INIT_PREVIEW"
  <2>1. outcome' \in {"INIT_CONFLICT", "INIT_OPERATION_REFUSED"}
    BY <1>6 DEF PlanOutcome
  <2>2. Pending' = {}
    BY <1>1, <1>6 DEF Pending, Planned
  <2> QED
    <3>1. Reported' = "unchanged"
      BY <2>1 DEF Reported
    <3> QED
      BY <1>1, <1>2, <1>3, <1>4, <2>2, <3>1, PromiseActions, NothingReported
<1> QED  BY <1>5, <1>6 DEF Plan

\* A replaced payload is a Replace, and the replaced marker is a Publish.
LEMMA ApplyKeepsPromise ==
  ASSUME TypeOK, IndexInv, SafetyInv, VerdictInv, PromiseInv, ApplyEffect
  PROVE  \/ Promise!Publish
         \/ \E p \in Paths : Promise!Replace(p)
         \/ UNCHANGED Promise!vars
<1> USE DEF PromiseInv
<1> DEFINE n == Len(attempted) + 1
<1>0. PICK p : p = effects[n]
  OBVIOUS
<1>1. /\ pc = "apply" /\ Len(attempted) < Len(effects)
      /\ UNCHANGED <<effects, pre, invalidationFailed, outcome>>
      /\ disk' = disk \/ disk' = [disk EXCEPT ![p] = Target(p)]
  BY <1>0 DEF ApplyEffect, plan, recovery
<1>2. n \in 1..Len(effects) /\ p \in Planned /\ p \in Paths
  BY <1>0, <1>1, NextToApply, PlannedType
<1>3. disk[p] = pre.files[p]
  BY <1>0, <1>1, AppliedPlaces DEF Original
<1>4. outcome = "none"
  BY <1>1 DEF VerdictInv, OutcomeInv
<1>5. UNCHANGED Planned
  BY <1>1 DEF Planned
<1>6. CASE disk' = disk
  BY <1>1, <1>6, PromiseUnchanged
<1>7. CASE disk' = [disk EXCEPT ![p] = Target(p)] /\ p # Marker
  <2>1. \A q \in Paths : disk'[q] = IF q = p THEN Target(p) ELSE disk[q]
    BY <1>7 DEF TypeOK
  <2>2. ~MarkerIsNew /\ UNCHANGED MarkerIsNew
    <3>1. effects # <<>> /\ Len(effects) \in 1..Len(effects)
      BY <1>2, LengthTypes, EmptyLists
    <3>2. effects[Len(effects)] = Marker /\ Len(effects) # n
      BY <1>0, <1>2, <1>7, <3>1, LastIsMarker
    <3>3. disk[Marker] = pre.files[Marker]
      <4>1. ~(Len(effects) <= Len(attempted))
        BY <1>1, LengthTypes
      <4>2. Untouched(Marker)
        BY DEF Alone, Paths
      <4> QED  BY <1>1, <3>1, <3>2, <4>1, <4>2 DEF SafetyInv, ApplyInv
    <3>4. disk'[Marker] = disk[Marker]
      BY <1>7, <2>1 DEF Paths
    <3> QED  BY <1>1, <3>3, <3>4 DEF MarkerIsNew
  <2>3. Pending' = Pending \ {p}
    BY <1>1, <1>5, <2>1, PlannedType DEF Pending
  <2>4. Altered' \in {Altered, Altered \cup {p}}
    <3>1. Altered' = IF Target(p) = pre.files[p] THEN Altered ELSE Altered \cup {p}
      BY <1>1, <1>2, <1>3, <2>1 DEF Altered
    <3> QED  BY <3>1
  <2>5. Promise!Replace(p)
    BY <1>1, <1>4, <1>7, <2>2, <2>3, <2>4, PromiseMoves, NothingReported
  <2> QED  BY <1>2, <2>5
<1>8. CASE disk' = [disk EXCEPT ![p] = Target(p)] /\ p = Marker
  <2>1. \A q \in Paths : disk'[q] = IF q = Marker THEN NewContent ELSE disk[q]
    BY <1>8, MarkersAreNoPayload DEF TypeOK, Target
  <2>2. n = Len(effects)
    BY <1>0, <1>2, <1>8, LastIsMarker
  <2>3. Pending = {} /\ Pending' = {}
    <3>1. \A i \in 1..Len(effects) : i # n => disk[effects[i]] = Target(effects[i])
      BY <1>1, <2>2, AppliedPlaces
    <3>2. \A q \in Planned \ {Marker} : disk[q] = Target(q)
      <4> TAKE q \in Planned \ {Marker}
      <4>1. PICK i \in 1..Len(effects) : q = effects[i]
        BY DEF Planned
      <4>2. i # n
        BY <1>0, <1>8, <4>1
      <4> QED  BY <3>1, <4>1, <4>2
    <3> QED  BY <1>5, <2>1, <3>2, PlannedType DEF Pending
  <2>4. CASE pre.files[Marker] = NewContent
    <3>1. disk' = disk
      <4>1. disk \in [Paths -> FileKinds] /\ disk' = [disk EXCEPT ![Marker] = NewContent]
        BY <1>8, MarkersAreNoPayload DEF TypeOK, Target
      <4> QED  BY <1>3, <1>8, <2>4, <4>1
    <3> QED  BY <1>6, <3>1
  <2>5. CASE pre.files[Marker] # NewContent
    <3>1. MarkerIsNew'
      <4>1. effects # <<>>
        BY <1>2, LengthTypes, EmptyLists
      <4> QED  BY <1>1, <2>1, <2>5, <4>1 DEF MarkerIsNew, Paths
    <3>2. Altered' = Altered \cup {Marker}
      BY <1>1, <2>1, <2>5 DEF Altered, Paths
    <3>3. Promise!Publish
      BY <1>1, <1>4, <2>3, <3>1, <3>2, PromiseActions, NothingReported
    <3> QED  BY <3>3
  <2> QED  BY <2>4, <2>5
<1> QED  BY <1>1, <1>6, <1>7, <1>8

\* A destination that is taken back is a Restore, and the marker that is taken back
\* is a Retract.
LEMMA RecoverKeepsPromise ==
  ASSUME TypeOK, IndexInv, SafetyInv, VerdictInv, PromiseInv, RecoverEffect
  PROVE  \/ Promise!Retract
         \/ \E p \in Paths : Promise!Restore(p)
         \/ UNCHANGED Promise!vars
<1> USE DEF PromiseInv
<1>0. PICK p : p = attempted[Len(attempted) - Len(recoveryAttempted)]
  OBVIOUS
<1>1. /\ pc = "recover" /\ ~Recovered
      /\ UNCHANGED <<effects, pre, invalidationFailed, outcome>>
      /\ disk' = disk \/ disk' = [disk EXCEPT ![p] = Restoration(p)]
  BY <1>0 DEF RecoverEffect, plan, verdict
<1>2. p \in Planned /\ p \in Paths /\ Restoration(p) = pre.files[p]
  <2>1. ListInv
    BY DEF VerdictInv
  <2> QED  BY <1>0, <1>1, <2>1, RestoresOriginal, PlannedType
<1>4. outcome = "none"
  BY <1>1 DEF VerdictInv, OutcomeInv
<1>5. UNCHANGED Planned
  BY <1>1 DEF Planned
<1>6. CASE disk' = disk
  BY <1>1, <1>6, PromiseUnchanged
<1>7. CASE disk' = [disk EXCEPT ![p] = pre.files[p]]
  <2>1. \A q \in Paths : disk'[q] = IF q = p THEN pre.files[p] ELSE disk[q]
    BY <1>7 DEF TypeOK
  <2>2. Altered' = Altered \ {p}
    BY <1>1, <2>1 DEF Altered
  <2>3. CASE p = Marker
    <3>1. MarkerIsNew' = FALSE
      BY <1>1, <1>2, <2>1, <2>3 DEF MarkerIsNew
    <3>2. UNCHANGED Pending
      BY <1>1, <1>5, <2>1, <2>3, PlannedType DEF Pending
    <3>3. Promise!Retract
      BY <1>1, <1>4, <2>2, <2>3, <3>1, <3>2, PromiseActions, NothingReported
    <3> QED  BY <3>3
  <2>4. CASE p # Marker
    <3>1. UNCHANGED MarkerIsNew
      BY <1>1, <2>1, <2>4 DEF MarkerIsNew, Paths
    <3>2. ~MarkerIsNew \/ Distrusted
      <4>1. SUFFICES ASSUME MarkerIsNew PROVE Distrusted
        OBVIOUS
      <4>2. Untouched(Marker) /\ pre.files[Marker] # NewContent /\ disk[Marker] = NewContent
        BY <4>1 DEF MarkerIsNew, Alone, Paths
      <4>3. recoveryAttempted # <<>> \/ Len(attempted) < Len(effects)
        <5>1. SUFFICES ASSUME recoveryAttempted = <<>>, ~(Len(attempted) < Len(effects))
              PROVE  FALSE
          OBVIOUS
        <5>2. ListInv /\ EffectsInv
          BY DEF VerdictInv, SafetyInv
        <5>3. /\ Len(attempted) - Len(recoveryAttempted) \in 1..Len(effects)
              /\ p = effects[Len(attempted) - Len(recoveryAttempted)]
          BY <1>0, <1>1, <5>2, NextToRecover
        <5>4. Len(attempted) - Len(recoveryAttempted) = Len(effects)
          <6>1. Len(recoveryAttempted) = 0
            BY <5>1
          <6> QED  BY <5>1, <5>3, <6>1, LengthTypes
        <5> QED  BY <2>4, <5>3, <5>4, LastIsMarker
      <4>4. Marker \in invalidationFailed
        BY <1>1, <4>2, <4>3 DEF SafetyInv, RetractInv
      <4> QED  BY <4>4 DEF Distrusted
    <3>3. Pending' \in {Pending, Pending \cup {p}}
      <4>1. CASE pre.files[p] # Target(p)
        <5>1. Pending' = Pending \cup {p}
          BY <1>1, <1>2, <1>5, <2>1, <2>4, <4>1, PlannedType DEF Pending
        <5> QED  BY <5>1
      <4>2. CASE pre.files[p] = Target(p)
        <5>1. disk[p] = pre.files[p]
          BY <1>2, <2>4, <4>2 DEF PlacesInv, Original
        <5>2. Pending' = Pending
          BY <1>1, <1>5, <2>1, <5>1, PlannedType DEF Pending
        <5> QED  BY <5>2
      <4> QED  BY <4>1, <4>2
    <3>4. Promise!Restore(p)
      BY <1>1, <1>4, <2>2, <2>4, <3>1, <3>2, <3>3, PromiseMoves, NothingReported
    <3> QED  BY <1>2, <3>4
  <2> QED  BY <2>3, <2>4
<1> QED  BY <1>1, <1>2, <1>6, <1>7

\* Removing the marker is a Retract, and so is failing to.
LEMMA InvalidateKeepsPromise ==
  ASSUME TypeOK, VerdictInv, Invalidate
  PROVE  Promise!Retract
<1>1. /\ pc = "invalidate" /\ UNCHANGED <<effects, pre, outcome>>
      /\ disk' = disk \/ disk' = [disk EXCEPT ![Marker] = "missing"]
      /\ \/ disk' = [disk EXCEPT ![Marker] = "missing"] /\ UNCHANGED invalidationFailed
         \/ invalidationFailed' = {Marker}
  BY DEF Invalidate, plan, verdict, HasEffect
<1>2. outcome = "none"
  BY <1>1 DEF VerdictInv, OutcomeInv
<1>3. CASE disk' = [disk EXCEPT ![Marker] = "missing"]
  <2>1. \A q \in Paths : disk'[q] = IF q = Marker THEN "missing" ELSE disk[q]
    BY <1>3 DEF TypeOK
  <2>2. MarkerIsNew' = FALSE
    BY <1>1, <2>1, ContentAssumption DEF MarkerIsNew, Paths
  <2>3. UNCHANGED Pending
    <3>1. UNCHANGED Planned
      BY <1>1 DEF Planned
    <3> QED  BY <1>1, <2>1, <3>1, PlannedType DEF Pending
  <2>4. Altered' \in {Altered \ {Marker}, Altered \cup {Marker}}
    <3>1. Altered' = IF pre.files[Marker] = "missing" THEN Altered \ {Marker}
                                                      ELSE Altered \cup {Marker}
      BY <1>1, <2>1 DEF Altered, Paths
    <3> QED  BY <3>1
  <2>5. UNCHANGED Distrusted \/ Distrusted' = TRUE
    BY <1>1 DEF Distrusted
  <2> QED
    BY <1>1, <1>2, <2>2, <2>3, <2>4, <2>5, PromiseActions, NothingReported
<1>4. CASE disk' = disk /\ invalidationFailed' = {Marker}
  <2>1. UNCHANGED <<Altered, Pending, MarkerIsNew>>
    BY <1>1, <1>4 DEF Altered, Pending, Planned, MarkerIsNew
  <2>2. Distrusted' = TRUE
    BY <1>4 DEF Distrusted
  <2> QED
    BY <1>1, <1>2, <2>1, <2>2, PromiseActions, NothingReported
<1> QED  BY <1>1, <1>3, <1>4

\* The verdict of a finished execution is a Conclude.
LEMMA FinishKeepsPromise ==
  ASSUME TypeOK, IndexInv, SafetyInv, VerdictInv, VerdictInv', PromiseInv, Finish
  PROVE  Promise!Conclude
<1> USE DEF PromiseInv
<1> DEFINE obs == [Observation EXCEPT !.failure = ReportedFailure]
<1>1. /\ pc = "finish" /\ outcome' = EvaluateInitMutation(effects, obs)
      /\ UNCHANGED <<effects, disk, pre, theirs, touched, invalidationFailed>>
  BY DEF Finish, filesystem, plan, recovery, history
<1>2. /\ obs.committed = committed /\ obs.failure = ReportedFailure
      /\ obs.invalidationFailed = invalidationFailed /\ obs.mismatched = mismatched
      /\ obs.stageResidue = stageResidue /\ obs.dirResidue = dirResidue
  BY DEF Observation
<1> HIDE DEF obs
<1>3. outcome = "none"
  BY <1>1 DEF VerdictInv, OutcomeInv
<1>4. outcome' # "ERROR"
  BY DEF VerdictInv, OutcomeInv, ObservationAccepted
<1>5. outcome' \in {"INIT_OPERATION_REFUSED", "INIT_RECOVERY_INCOMPLETE",
                    "INIT_APPLY_FAILED_RECOVERED", "INIT_CLEANUP_INCOMPLETE", "INIT_APPLIED"}
  BY <1>1, <1>4 DEF EvaluateInitMutation
<1>6. outcome' \in {"INIT_CLEANUP_INCOMPLETE", "INIT_APPLIED"} =>
        committed /\ invalidationFailed = {}
  <2>1. SUFFICES ASSUME outcome' \in {"INIT_CLEANUP_INCOMPLETE", "INIT_APPLIED"}
        PROVE  committed /\ invalidationFailed = {}
    OBVIOUS
  <2>2. obs.invalidationFailed = {}
    BY <1>1, <2>1 DEF EvaluateInitMutation
  <2>3. ASSUME ~committed PROVE FALSE
    <3>1. failure.stage \in {"precondition", "prepare", "apply", "recovery"}
      BY <1>1, <2>3 DEF VerdictInv, FailureInv, Cleaning
    <3>2. obs.failure # NoFailure
      BY <1>2, <2>3, <3>1, FailureStage DEF ReportedFailure, NoFailure
    <3> QED  BY <1>1, <1>2, <2>1, <2>3, <3>2 DEF EvaluateInitMutation
  <2> QED  BY <1>2, <2>2, <2>3
<1>7. committed => Pending = {}
  BY DEF CommittedInv, Pending
<1>8. outcome' \in {"INIT_OPERATION_REFUSED", "INIT_APPLY_FAILED_RECOVERED"} =>
        Altered = {} /\ ~MarkerIsNew
  <2>1. SUFFICES ASSUME outcome' \in {"INIT_OPERATION_REFUSED", "INIT_APPLY_FAILED_RECOVERED"}
        PROVE  Altered = {} /\ ~MarkerIsNew
    OBVIOUS
  <2>2. \A p \in Paths : disk[p] = theirs[p]
    <3>1. RestoredMeansRestored'
      BY DEF VerdictInv, OutcomeInv
    <3> QED  BY <1>1, <2>1, <3>1 DEF RestoredMeansRestored, Alone, Untouched
  <2>3. \A p \in Paths : disk[p] = pre.files[p]
    BY <2>2 DEF SafetyInv, TheirsInv, Alone
  <2> QED  BY <2>3 DEF Altered, MarkerIsNew, Paths
<1>9. UNCHANGED <<Altered, Pending, MarkerIsNew, Distrusted>>
  BY <1>1 DEF Altered, Pending, Planned, MarkerIsNew, Distrusted
<1>10. /\ Reported = "none"
       /\ Reported' \in {"installed", "unchanged", "incomplete"}
       /\ Reported' = "installed" =>
            outcome' \in {"INIT_CLEANUP_INCOMPLETE", "INIT_APPLIED"}
       /\ Reported' = "unchanged" =>
            outcome' \in {"INIT_OPERATION_REFUSED", "INIT_APPLY_FAILED_RECOVERED"}
  BY <1>3, <1>5 DEF Reported
<1>11. (~Distrusted) <=> invalidationFailed = {}
  BY DEF Distrusted
<1> QED  BY <1>6, <1>7, <1>8, <1>9, <1>10, <1>11, PromiseActions

\* The execution implements AdoptionMarker: whatever fails and wherever it stops, a
\* reader sees nothing but the steps that protocol allows, as long as nobody else
\* edits the target.
THEOREM PromiseIsKept ==
  ASSUME MaxEdits = 0
  PROVE  Spec => KeepsPromise
<1> DEFINE All == IInv /\ VerdictInv
<1>1. Init => PromiseInv
  BY DEF Init, PromiseInv, Alone, Untouched, PlacesInv, CommittedInv, Planned
<1>2. All /\ PromiseInv /\ [Next]_vars => PromiseInv'
  BY AloneStep, PlacesStep DEF PromiseInv, IInv, SafetyInv, VerdictInv
<1>3. Init => Promise!Init
  <2> SUFFICES ASSUME Init PROVE Promise!Init
    OBVIOUS
  <2>1. Altered = {} /\ Pending = {}
    BY DEF Init, Altered, Pending, Planned
  <2>2. MarkerIsNew = FALSE /\ Distrusted = FALSE /\ Reported = "none"
    BY DEF Init, MarkerIsNew, Distrusted, Reported
  <2> QED  BY <2>1, <2>2 DEF Promise!Init, Altered, Pending, Distrusted, Reported
<1>4. All /\ All' /\ PromiseInv /\ [Next]_vars => [Promise!Next]_Promise!vars
  <2> SUFFICES ASSUME TypeOK, IndexInv, SafetyInv, VerdictInv, VerdictInv', PromiseInv,
                      [Next]_vars
               PROVE  Promise!Next \/ UNCHANGED Promise!vars
    BY DEF IInv, SafetyInv
  <2>1. CASE Plan
    BY <2>1, PlanKeepsPromise DEF Promise!Next
  <2>2. CASE ApplyEffect
    BY <2>2, ApplyKeepsPromise DEF Promise!Next
  <2>3. CASE RecoverEffect
    BY <2>3, RecoverKeepsPromise DEF Promise!Next
  <2>4. CASE Invalidate
    BY <2>4, InvalidateKeepsPromise DEF Promise!Next
  <2>5. CASE Finish
    BY <2>5, FinishKeepsPromise DEF Promise!Next
  <2>6. CASE \/ Validate \/ MakeDirectory \/ DirectoriesMade
             \/ MakeStage \/ CopyOriginal \/ WriteNew \/ AllPrepared
             \/ Recapture \/ PollBeforeApply \/ RecoveryEnds
             \/ CleanStage \/ StagesCleaned \/ CleanDirectory \/ DirectoriesCleaned
             \/ Signal \/ Crash \/ UNCHANGED vars
    BY <2>6, PromiseFrame, PromiseUnchanged
  <2>7. ~Edit
    BY DEF Edit, PromiseInv, Alone
  <2> QED
    BY <2>1, <2>2, <2>3, <2>4, <2>5, <2>6, <2>7
       DEF Next, Step, Environment, EditFile, EditStage, EditDirectory
<1>5. Spec => []All
  BY VerdictInvariance
<1>6. KeepsPromise <=> Promise!Init /\ [][Promise!Next]_Promise!vars
  BY DEF KeepsPromise, Promise!Spec
<1> QED  BY <1>1, <1>2, <1>3, <1>4, <1>5, <1>6, PTL DEF Spec
=============================================================================
