---------------------------- MODULE GoalPlanProofs -----------------------------
(***************************************************************************)
(* What `review preflight`, `review goal-plan` and `review observe` promise   *)
(* for any number of executions, reports, faults and edits: a Coverage Review *)
(* says "approved" only of what a stored report found READY, the files of a   *)
(* plan belong together, and a report is news.                              *)
(*                                                                         *)
(* All three follow from IInv of GoalPlanInvariant.  That reports are news is *)
(* said of executions that may have ended long ago, so the invariant gives    *)
(* every stored report a writer of its own; the writer of the later of two    *)
(* equal reports cannot have listed the earlier one, or it would have compared *)
(* them.                                                                    *)
(***************************************************************************)
EXTENDS GoalPlanInvariant, TLAPS

-----------------------------------------------------------------------------
(* Codes, numbers and functions.                                           *)

\* What is found are codes.
LEMMA FindingTypes ==
  /\ \A f \in Fingerprints : Diagnostics[f] \subseteq Codes /\ StoryIssues[f] \subseteq Codes
  /\ \A h, e : HeadFindings(h, e) \subseteq Codes
  /\ \A S, A, f : RecordFindings(S, A, f) \subseteq Codes
  /\ \A R, A, f, d : UnresolvedFindings(R, A, f, d) \subseteq Codes
  /\ \A s \in Semantics : \A f : SemanticFindings(s, f) \subseteq Codes
<1>1. \A f \in Fingerprints : Diagnostics[f] \subseteq Codes /\ StoryIssues[f] \subseteq Codes
  BY BatchAssumption DEF Codes, BlockedCodes
<1>2. \A h, e : HeadFindings(h, e) \subseteq Codes
  BY DEF HeadFindings, If, Codes, BlockedCodes, StaleCodes
<1>3. \A r, S, f : ResponseFindings(r, S, f) \subseteq Codes
  BY DEF ResponseFindings, If, Codes, IncompleteCodes
<1>4. \A S, A, f : RecordFindings(S, A, f) \subseteq Codes
  <2>1. "RECORD_INVALID" \in Codes
    BY DEF Codes, AdvisoryCodes
  <2> QED  BY <1>3, <2>1 DEF RecordFindings, If
<1>5. \A R, A, f, d : UnresolvedFindings(R, A, f, d) \subseteq Codes
  <2>1. "UNRESOLVED_BLOCKING" \in Codes /\ "REVISION_UNADDRESSED" \in Codes
    BY DEF Codes, BlockedCodes, IncompleteCodes
  <2> QED  BY <2>1 DEF UnresolvedFindings, If
<1>6. ASSUME NEW s \in Semantics, NEW f
      PROVE  SemanticFindings(s, f) \subseteq Codes
  <2>1. "SEMANTIC_MISSING" \in Codes /\ "SEMANTIC_STALE" \in Codes
    BY DEF Codes, StaleCodes, IncompleteCodes
  <2>2. s # None => s.says \subseteq Codes
    BY FilesAssumption
  <2>3. \/ SemanticFindings(s, f) = {"SEMANTIC_MISSING"}
        \/ SemanticFindings(s, f) = {"SEMANTIC_STALE"}
        \/ s # None /\ SemanticFindings(s, f) = s.says
    BY DEF SemanticFindings
  <2> QED  BY <2>1, <2>2, <2>3
<1> QED  BY <1>1, <1>2, <1>4, <1>5, <1>6

\* Every set of codes has an outcome, and a report that could not be written is not
\* READY.
LEMMA OutcomeTypes ==
  ASSUME NEW C \in SUBSET Codes
  PROVE  /\ Outcome(C) \in PreflightOutcomes
         /\ C \cup {"RECORD_WRITE_FAILED"} \in SUBSET Codes
         /\ Outcome(C \cup {"RECORD_WRITE_FAILED"}) # "READY"
<1>1. Outcome(C) \in PreflightOutcomes
  BY DEF Outcome, Codes, PreflightOutcomes
<1>2. "RECORD_WRITE_FAILED" \in IncompleteCodes /\ "RECORD_WRITE_FAILED" \notin AdvisoryCodes
  BY DEF IncompleteCodes, AdvisoryCodes
<1> DEFINE D == C \cup {"RECORD_WRITE_FAILED"}
<1>3. D \cap IncompleteCodes # {} /\ ~(D \subseteq AdvisoryCodes) /\ D \in SUBSET Codes
  BY <1>2 DEF Codes
<1> HIDE DEF D
<1>4. Outcome(D) # "READY"
  BY <1>3 DEF Outcome
<1> QED  BY <1>1, <1>3, <1>4 DEF D

\* The highest of the first numbers.
LEMMA HighestOf ==
  ASSUME NEW h \in Nat
  PROVE  /\ Highest(1..h) = h
         /\ 1..h = {} <=> h = 0
         /\ h # 0 => h \in 1..h
<1>1. CASE h = 0
  BY <1>1 DEF Highest
<1>2. CASE h # 0
  <2>1. h \in 1..h /\ \A m \in 1..h : m <= h
    BY <1>2
  <2>2. \A n \in 1..h : (\A m \in 1..h : m <= n) => n = h
    BY <2>1
  <2>3. (CHOOSE n \in 1..h : \A m \in 1..h : m <= n) = h
    BY <2>1, <2>2
  <2> QED  BY <2>1, <2>3 DEF Highest
<1> QED  BY <1>1, <1>2

-----------------------------------------------------------------------------
(* What a step changes.                                                    *)

\* A step of one process.
Step(q) == Start(q) \/ Observe(q) \/ Work(q)

Environment == EditSources \/ Commit \/ Import \/ Answer \/ Confirm

\* A step of one process leaves what the others know alone.
LEMMA OthersStay ==
  ASSUME TypeOK, NEW q \in Procs, Step(q), NEW p \in Procs, p # q
  PROVE  /\ job'[p] = job[p] /\ pc'[p] = pc[p] /\ snap'[p] = snap[p] /\ found'[p] = found[p]
         /\ listed'[p] = listed[p] /\ applies'[p] = applies[p] /\ report'[p] = report[p]
         /\ plan'[p] = plan[p]
<1> USE DEF TypeOK, Goto, Finish, Find, judgement
<1>1. CASE Start(q)
  BY <1>1 DEF Start
<1>2. CASE Observe(q)
  BY <1>2 DEF Observe
<1>3. CASE ReadHead(q) \/ ReadStatus(q) \/ CheckStories(q) \/ ReadSemantic(q)
  BY <1>3 DEF ReadHead, ReadStatus, CheckStories, ReadSemantic
<1>4. CASE ReadRecords(q)
  BY <1>4 DEF ReadRecords, ReadListed
<1>5. CASE ReadConfirmation(q)
  BY <1>5 DEF ReadConfirmation
<1>6. CASE Evaluate(q) \/ WriteReport(q)
  BY <1>6 DEF Evaluate, WriteReport, Judged, Unwritten
<1>7. CASE Approve(q)
  BY <1>7 DEF Approve
<1>8. ASSUME NEW part \in Parts, WriteArtifact(q, part)
      PROVE  /\ judgement' = judgement /\ pc'[p] = pc[p]
  BY <1>8 DEF WriteArtifact, Continue, Parts
<1> QED  BY <1>1, <1>2, <1>3, <1>4, <1>5, <1>6, <1>7, <1>8 DEF Step, Work

\* What is written changes in three actions only.
LEMMA WrittenFrame ==
  ASSUME NEW q \in Procs, Step(q)
  PROVE  /\ reports' = reports \/ WriteReport(q)
         /\ artifacts' = artifacts \/ \E part \in Parts : WriteArtifact(q, part)
         /\ observed' = observed \/ Observe(q)
         /\ \A part \in Parts : WriteArtifact(q, part) => reports' = reports /\ observed' = observed
         /\ WriteReport(q) => artifacts' = artifacts /\ observed' = observed
         /\ Observe(q) => artifacts' = artifacts /\ reports' = reports
         /\ UNCHANGED <<world, records>>
BY DEF Step, Work, Start, Observe, ReadHead, ReadStatus, ReadRecords, ReadConfirmation,
       CheckStories, ReadSemantic, Evaluate, WriteReport, Approve, WriteArtifact, written

\* The others change nothing of what is written or known.
LEMMA EnvironmentFrame ==
  ASSUME Environment \/ UNCHANGED vars
  PROVE  UNCHANGED <<reports, artifacts, observed, pc, job, snap, found, listed, applies,
                     report, plan, result, faults>>
BY DEF Environment, EditSources, Commit, Import, Answer, Confirm, Others, written, judgement,
       vars, bounds

\* A step is one of a process, one of the others, or none.
LEMMA NextCases ==
  ASSUME [Next]_vars
  PROVE  (\E q \in Procs : Step(q)) \/ Environment \/ UNCHANGED vars
BY DEF Next, Step, Environment

-----------------------------------------------------------------------------
(* Types.                                                                  *)

\* A report is one, and says what it is made of.
LEMMA ReportTyped ==
  ASSUME TypeOK, JobsInv, NEW p \in Procs, pc[p] # "idle",
         NEW c \in Confirmations \cup {None}, NEW C \in SUBSET Codes
  PROVE  /\ Report(p, c, C) \in ReportType /\ Report(p, c, C) # None
         /\ Report(p, c, C).fp = snap[p] /\ Report(p, c, C).found = C
         /\ Report(p, c, C).outcome = Outcome(C) /\ Report(p, c, C).confirmation = c
<1>1. job[p] \in AllJobs
  BY DEF JobsInv
<1>2. job[p] \in JobType
  BY <1>1, ProcessAssumption DEF AllJobs
<1>3. <<job[p].fp, job[p].rev>> \in Marks \X Marks
  BY <1>2 DEF JobType, Marks
<1>4. Outcome(C) \in PreflightOutcomes
  BY OutcomeTypes
<1>5. snap[p] \in Fingerprints
  BY DEF TypeOK
<1>6. Report(p, c, C) \in ReportType
  BY <1>3, <1>4, <1>5 DEF Report, ReportType
<1>7. Report(p, c, C) # None
  BY <1>6, NoneAssumption
<1> QED  BY <1>6, <1>7 DEF Report

\* A process that has begun writes into a plan of its own prefix.
LEMMA PlanTyped ==
  ASSUME TypeOK, JobsInv, NEW p \in Procs, pc[p] # "idle"
  PROVE  PlanOf(p) \in Plans /\ PlanOf(p)[1] = Own(p)
<1>1. job[p] \in AllJobs
  BY DEF JobsInv
<1>2. PrefixOf[snap[p]] \in Prefixes
  BY ProcessAssumption DEF TypeOK
<1> QED  BY <1>1, <1>2 DEF PlanOf, Plans, Own

-----------------------------------------------------------------------------
(* The types of what a process is and has found.                           *)

\* A process that has begun has its command.
LEMMA JobsInvStep ==
  ASSUME TypeOK, JobsInv, [Next]_vars
  PROVE  JobsInv'
<1>1. CASE Environment \/ UNCHANGED vars
  BY <1>1, EnvironmentFrame DEF JobsInv
<1>2. ASSUME NEW q \in Procs, Step(q)
      PROVE  JobsInv'
  <2>1. job[q] \in AllJobs => job'[q] \in AllJobs
    <3>1. CASE Start(q) \/ Observe(q)
      <4>1. PICK j \in Jobs[q] : job' = [job EXCEPT ![q] = j]
        BY <3>1 DEF Start, Observe
      <4> QED  BY <4>1 DEF AllJobs, TypeOK
    <3>2. CASE Work(q)
      BY <3>2 DEF Work, ReadHead, ReadStatus, ReadRecords, ReadConfirmation, CheckStories,
                  ReadSemantic, Evaluate, WriteReport, Approve, WriteArtifact, judgement
    <3> QED  BY <1>2, <3>1, <3>2 DEF Step
  <2>2. pc[q] = "idle" => job'[q] \in AllJobs
    <3>1. CASE Start(q) \/ Observe(q)
      <4>1. PICK j \in Jobs[q] : job' = [job EXCEPT ![q] = j]
        BY <3>1 DEF Start, Observe
      <4> QED  BY <4>1 DEF AllJobs, TypeOK
    <3>2. CASE Work(q)
      BY <3>2 DEF Work, ReadHead, ReadStatus, ReadRecords, ReadConfirmation, CheckStories,
                  ReadSemantic, Evaluate, WriteReport, Approve, WriteArtifact, Parts
    <3> QED  BY <1>2, <3>1, <3>2 DEF Step
  <2>3. job'[q] \in AllJobs
    BY <2>1, <2>2 DEF JobsInv
  <2>4. \A p \in Procs : p # q => job'[p] = job[p] /\ pc'[p] = pc[p]
    BY <1>2, OthersStay
  <2> QED  BY <2>3, <2>4 DEF JobsInv
<1> QED  BY <1>1, <1>2, NextCases

\* The functions of the processes.
LEMMA ProcessTypes ==
  ASSUME TypeOK, JobsInv, NEW q \in Procs, Step(q)
  PROVE  /\ pc' \in [Procs -> Points] /\ result' \in [Procs -> Results]
         /\ snap' \in [Procs -> Fingerprints] /\ found' \in [Procs -> SUBSET Codes]
         /\ job' \in [Procs -> AllJobs \cup {None}]
         /\ faults' \in 0..MaxFaults /\ edits' \in 0..MaxEdits
<1> USE DEF Goto, Finish, Find, judgement, bounds
<1>1. /\ pc \in [Procs -> Points] /\ result \in [Procs -> Results]
      /\ snap \in [Procs -> Fingerprints] /\ found \in [Procs -> SUBSET Codes]
      /\ job \in [Procs -> AllJobs \cup {None}]
      /\ faults \in 0..MaxFaults /\ edits \in 0..MaxEdits /\ sources \in Fingerprints
  BY DEF TypeOK
<1>2. \A j \in Jobs[q] : j \in AllJobs
  BY DEF AllJobs
<1>3. \A k : Fault(k) => faults' \in 0..MaxFaults /\ edits' \in 0..MaxEdits
  BY <1>1, BoundsAssumption DEF Fault
<1> DEFINE FindsCodes == \E C \in SUBSET Codes : found' = [found EXCEPT ![q] = @ \cup C]
           Moves == \E r \in Points : pc' = [pc EXCEPT ![q] = r]
           Ends == \E r \in Results : result' = [result EXCEPT ![q] = r]
           Counts == UNCHANGED bounds \/ \E k : Fault(k)
<1>4. FindsCodes \/ UNCHANGED found => found' \in [Procs -> SUBSET Codes]
  BY <1>1
<1>5. Moves \/ UNCHANGED pc => pc' \in [Procs -> Points]
  BY <1>1
<1>6. Ends \/ UNCHANGED result => result' \in [Procs -> Results]
  BY <1>1
<1>7. Counts => faults' \in 0..MaxFaults /\ edits' \in 0..MaxEdits
  BY <1>1, <1>3
<1>8. /\ {"git", "records", "status", "confirmation", "stories", "semantic", "evaluate",
          "write", "approve", "declaration", "manifest", "coverage", "done"} \subseteq Points
      /\ {"refused", "error", "unsafe", "judged", "conflict", "published", "observed"}
           \subseteq Results
  BY DEF Points, Results
<1>9. /\ (FindsCodes \/ UNCHANGED found) /\ (Moves \/ UNCHANGED pc) /\ (Ends \/ UNCHANGED result)
      /\ Counts
      /\ (UNCHANGED snap \/ snap' = [snap EXCEPT ![q] = sources])
      /\ (UNCHANGED job \/ \E j \in Jobs[q] : job' = [job EXCEPT ![q] = j])
  <2>1. CASE Start(q)
    <3>1. /\ snap' = [snap EXCEPT ![q] = sources]
          /\ \E j \in Jobs[q] : job' = [job EXCEPT ![q] = j]
          /\ Moves /\ (Ends \/ UNCHANGED result) /\ Counts
      BY <1>8, <2>1 DEF Start
    <3>2. {"READINESS_MISSING", "PACKET_FINGERPRINT_MISMATCH"} \subseteq Codes
      BY DEF Codes, BlockedCodes, StaleCodes
    <3>3. \/ UNCHANGED found
          \/ \E j \in Jobs[q] :
               Find(q, Diagnostics[sources]
                     \cup If(j.command = "goal-plan" /\ sources \notin WithSidecars,
                             {"READINESS_MISSING"})
                     \cup If(j.fp \notin {None, sources}, {"PACKET_FINGERPRINT_MISMATCH"}))
      BY <2>1 DEF Start
    <3>4. FindsCodes \/ UNCHANGED found
      BY <1>1, <3>2, <3>3, FindingTypes DEF If
    <3> QED  BY <3>1, <3>4
  <2>2. CASE Observe(q)
    <3>1. UNCHANGED <<found, snap>> /\ \E j \in Jobs[q] : job' = [job EXCEPT ![q] = j]
      BY <2>2 DEF Observe
    <3>2. Moves /\ Ends /\ Counts
      BY <1>8, <2>2 DEF Observe
    <3> QED  BY <3>1, <3>2
  <2>3. CASE ReadHead(q)
    <3>1. UNCHANGED <<job, snap>> /\ Moves /\ (Ends \/ UNCHANGED result) /\ Counts
      BY <1>8, <2>3 DEF ReadHead
    <3>2. UNCHANGED found \/ Find(q, HeadFindings(head, job[q].rev))
      BY <2>3 DEF ReadHead
    <3> QED  BY <3>1, <3>2, FindingTypes
  <2>4. CASE ReadStatus(q)
    <3>1. UNCHANGED <<job, snap>> /\ Moves /\ (Ends \/ UNCHANGED result) /\ Counts
      BY <1>8, <2>4 DEF ReadStatus
    <3>2. UNCHANGED found \/ Find(q, If(head # sources, {"SOURCES_UNCOMMITTED"}))
      BY <2>4 DEF ReadStatus
    <3>3. "SOURCES_UNCOMMITTED" \in Codes
      BY DEF Codes, BlockedCodes
    <3> QED  BY <3>1, <3>2, <3>3 DEF If
  <2>5. CASE ReadRecords(q)
    <3>1. UNCHANGED <<job, snap, result>> /\ Moves /\ Counts
      BY <1>8, <2>5 DEF ReadRecords
    <3>2. {"RECORD_INVALID", "BASELINE_INVALID"} \subseteq Codes
      BY DEF Codes, AdvisoryCodes
    <3>3. \/ Find(q, {"RECORD_INVALID"})
          \/ \E lost \in {{}, {"RECORD_INVALID"}, {"BASELINE_INVALID"}} : \E S, A :
               Find(q, lost \cup RecordFindings(S, A, snap[q]))
      BY <2>5 DEF ReadRecords, ReadListed
    <3>4. \A lost \in {{}, {"RECORD_INVALID"}, {"BASELINE_INVALID"}} : \A S, A :
            lost \cup RecordFindings(S, A, snap[q]) \in SUBSET Codes
      BY <3>2, FindingTypes
    <3> QED  BY <3>1, <3>2, <3>3, <3>4
  <2>6. CASE ReadConfirmation(q)
    <3>1. UNCHANGED <<job, snap, result>> /\ Moves /\ Counts
      BY <1>8, <2>6 DEF ReadConfirmation
    <3>2. {"RECORD_INVALID", "CONFIRMATION_MISSING", "CONFIRMATION_STALE"} \subseteq Codes
      BY DEF Codes, AdvisoryCodes, IncompleteCodes, StaleCodes
    <3>3. \E C \in SUBSET Codes : Find(q, C)
      <4> DEFINE lost == If(\E x \in listed[q].confirmations : confirmed[x] = None, {"RECORD_INVALID"})
                 R == RevisionsIn(listed[q].sheets)
                 U(d) == UnresolvedFindings(R, listed[q].responses, snap[q], d)
                 final == {IF {confirmed[x] : x \in listed[q].confirmations} \ {None} = {}
                           THEN "CONFIRMATION_MISSING" ELSE "CONFIRMATION_STALE"}
      <4>1. lost \subseteq Codes
        BY <3>2 DEF If
      <4>2. final \subseteq Codes
        BY <3>2
      <4>3. \A d : U(d) \subseteq Codes
        BY FindingTypes
      <4>4. (\E c \in Confirming(q) : Find(q, lost \cup U(c.deferred)))
              \/ Find(q, lost \cup U({}) \cup final)
        BY <2>6 DEF ReadConfirmation, Confirming
      <4> HIDE DEF lost, Find, U, final
      <4>5. ASSUME NEW c, Find(q, lost \cup U(c.deferred))
            PROVE  \E C \in SUBSET Codes : Find(q, C)
        <5>1. lost \cup U(c.deferred) \in SUBSET Codes
          BY <4>1, <4>3
        <5> QED  BY <4>5, <5>1
      <4>6. ASSUME Find(q, lost \cup U({}) \cup final)
            PROVE  \E C \in SUBSET Codes : Find(q, C)
        <5>1. lost \cup U({}) \cup final \in SUBSET Codes
          BY <4>1, <4>2, <4>3
        <5> QED  BY <4>6, <5>1
      <4> QED  BY <4>4, <4>5, <4>6
    <3> QED  BY <3>1, <3>3
  <2>7. CASE CheckStories(q)
    <3>1. UNCHANGED <<job, snap, result>> /\ Moves /\ Counts /\ Find(q, StoryIssues[sources])
      BY <1>8, <2>7 DEF CheckStories
    <3> QED  BY <1>1, <3>1, FindingTypes
  <2>8. CASE ReadSemantic(q)
    <3>1. UNCHANGED <<job, snap>> /\ Moves /\ (Ends \/ UNCHANGED result) /\ Counts
      BY <1>8, <2>8 DEF ReadSemantic
    <3>2. UNCHANGED found \/ \E s \in Semantics : Find(q, SemanticFindings(s, snap[q]))
      BY <2>8 DEF ReadSemantic
    <3> QED  BY <3>1, <3>2, FindingTypes
  <2>9. CASE Evaluate(q)
    BY <1>8, <2>9 DEF Evaluate, Judged
  <2>10. CASE WriteReport(q)
    BY <1>8, <2>10 DEF WriteReport, Unwritten, Judged
  <2>11. CASE Approve(q)
    BY <1>8, <2>11 DEF Approve
  <2>12. ASSUME NEW part \in Parts, WriteArtifact(q, part)
         PROVE  /\ UNCHANGED <<found, snap, job>> /\ (Moves \/ UNCHANGED pc)
                /\ (Ends \/ UNCHANGED result) /\ Counts
    BY <1>8, <2>12 DEF WriteArtifact, Continue, Parts
  <2> QED
    BY <2>1, <2>2, <2>3, <2>4, <2>5, <2>6, <2>7, <2>8, <2>9, <2>10, <2>11, <2>12 DEF Step, Work
<1>10. job' \in [Procs -> AllJobs \cup {None}] /\ snap' \in [Procs -> Fingerprints]
  BY <1>1, <1>2, <1>9
<1> QED  BY <1>4, <1>5, <1>6, <1>7, <1>9, <1>10

-----------------------------------------------------------------------------
(* The numbers of the reports.                                             *)

\* The numbers under which there are reports of a prefix.
NumbersIn(R, x) == {n \in Numbers : R[<<x, n>>] # None}

\* The numbers of a prefix, in this state and in the next.
LEMMA NumbersAre ==
  /\ \A x : NumbersOf(x) = NumbersIn(reports, x)
  /\ NumbersInv' <=>
       /\ \A x \in Prefixes : \E k \in 0..MaxReports : NumbersIn(reports', x) = 1..k
       /\ \A p \in Procs : \E h \in 0..MaxReports :
            listed'[p].numbers = 1..h /\ 1..h \subseteq NumbersIn(reports', PrefixOf[snap'[p]])
BY DEF NumbersInv, NumbersOf, NumbersIn, Numbers, Own

\* A report is written under the first free number.
LEMMA WriteMeaning ==
  ASSUME TypeOK, JobsInv, NumbersInv, ReportInv, NEW q \in Procs, WriteReport(q),
         reports' # reports
  PROVE  \E k \in 0..MaxReports :
           /\ k + 1 \in Numbers /\ NumbersIn(reports, Own(q)) = 1..k
           /\ reports' = [reports EXCEPT ![<<Own(q), k + 1>>] = report[q]]
           /\ report' = report /\ Own(q) \in Prefixes /\ <<Own(q), k + 1>> \in Prefixes \X Numbers
           /\ NumbersIn(reports', Own(q)) = 1..(k + 1)
           /\ \A x \in Prefixes : x # Own(q) => NumbersIn(reports', x) = NumbersIn(reports, x)
           /\ \A m \in listed[q].numbers : m < k + 1
           /\ Judged(q, report[q].outcome) /\ pc[q] = "write"
<1> DEFINE x == Own(q)
           free == Tried(q) \ NumbersIn(reports, x)
<1>1. x \in Prefixes /\ reports \in [Prefixes \X Numbers -> ReportType \cup {None}]
  BY ProcessAssumption DEF TypeOK, Own
<1>2. MaxAttempts \in Nat /\ MaxReports \in Nat
  BY BoundsAssumption
<1>3. PICK k \in 0..MaxReports : NumbersIn(reports, x) = 1..k
  BY <1>1, NumbersAre DEF NumbersInv
<1>4. PICK h \in 0..MaxReports : listed[q].numbers = 1..h /\ 1..h \subseteq NumbersIn(reports, x)
  BY NumbersAre DEF NumbersInv
<1>5. h <= k
  BY <1>2, <1>3, <1>4
<1>6. Tried(q) = (h + 1)..(h + MaxAttempts)
  BY <1>4, HighestOf DEF Tried
<1>7. PICK n \in free \cap Numbers : /\ \A m \in free : n <= m
                                     /\ reports' = [reports EXCEPT ![<<x, n>>] = report[q]]
                                     /\ report' = report /\ Judged(q, report[q].outcome)
                                     /\ pc[q] = "write"
  BY NumbersAre DEF WriteReport, Own, Numbers
<1>8. n = k + 1
  <2>1. n \in (h + 1)..(h + MaxAttempts) /\ n \notin 1..k
    BY <1>3, <1>6, <1>7
  <2>2. n > k
    BY <1>2, <2>1
  <2>3. k + 1 \in (h + 1)..(h + MaxAttempts) /\ k + 1 \notin 1..k
    BY <1>2, <1>5, <2>1, <2>2
  <2>4. k + 1 \in free
    BY <1>3, <1>6, <2>3
  <2>5. n <= k + 1
    BY <1>7, <2>4
  <2> QED  BY <1>2, <2>1, <2>2, <2>5
<1>9. k + 1 \in Numbers /\ <<x, k + 1>> \in Prefixes \X Numbers
  BY <1>1, <1>7, <1>8
<1>10. report[q] # None
  BY <1>7 DEF ReportInv
<1>11. \A s \in Prefixes \X Numbers :
         reports'[s] = IF s = <<x, k + 1>> THEN report[q] ELSE reports[s]
  BY <1>1, <1>7, <1>8, <1>9
<1> HIDE DEF x, free
<1>12. \A y \in Prefixes, m \in Numbers :
         reports'[<<y, m>>] = IF y = x /\ m = k + 1 THEN report[q] ELSE reports[<<y, m>>]
  BY <1>11
<1>13. NumbersIn(reports', x) = NumbersIn(reports, x) \cup {k + 1}
  <2>1. \A m \in Numbers : reports'[<<x, m>>] # None <=> (m = k + 1 \/ reports[<<x, m>>] # None)
    BY <1>1, <1>10, <1>12
  <2> QED  BY <1>9, <2>1 DEF NumbersIn
<1>14. (1..k) \cup {k + 1} = 1..(k + 1)
  BY <1>2
<1>15. \A y \in Prefixes : y # x => NumbersIn(reports', y) = NumbersIn(reports, y)
  BY <1>12 DEF NumbersIn
<1>16. \A m \in listed[q].numbers : m < k + 1
  BY <1>2, <1>4, <1>5
<1>17. /\ k + 1 \in Numbers /\ NumbersIn(reports, x) = 1..k
       /\ reports' = [reports EXCEPT ![<<x, k + 1>>] = report[q]]
       /\ report' = report /\ x \in Prefixes /\ <<x, k + 1>> \in Prefixes \X Numbers
       /\ NumbersIn(reports', x) = 1..(k + 1)
       /\ Judged(q, report[q].outcome) /\ pc[q] = "write"
  BY <1>1, <1>3, <1>7, <1>8, <1>9, <1>13, <1>14
<1> QED  BY <1>15, <1>16, <1>17 DEF x

\* What is stored stays.
LEMMA ReportsStay ==
  ASSUME TypeOK, JobsInv, NumbersInv, ReportInv, [Next]_vars
  PROVE  /\ \A x \in Prefixes : NumbersIn(reports, x) \subseteq NumbersIn(reports', x)
         /\ \A x \in Prefixes : \A n \in NumbersIn(reports, x) : reports'[<<x, n>>] = reports[<<x, n>>]
<1>1. CASE reports' = reports
  BY <1>1 DEF NumbersIn
<1>2. CASE reports' # reports
  <2>1. PICK q \in Procs : WriteReport(q)
    BY <1>2, NextCases, EnvironmentFrame, WrittenFrame
  <2>2. PICK k \in 0..MaxReports :
           /\ k + 1 \in Numbers /\ NumbersIn(reports, Own(q)) = 1..k
           /\ reports' = [reports EXCEPT ![<<Own(q), k + 1>>] = report[q]]
           /\ Own(q) \in Prefixes /\ <<Own(q), k + 1>> \in Prefixes \X Numbers
           /\ NumbersIn(reports', Own(q)) = 1..(k + 1)
           /\ \A x \in Prefixes : x # Own(q) => NumbersIn(reports', x) = NumbersIn(reports, x)
    BY <1>2, <2>1, WriteMeaning
  <2>3. 1..k \subseteq 1..(k + 1) /\ k + 1 \notin 1..k
    BY BoundsAssumption
  <2>4. \A x \in Prefixes : NumbersIn(reports, x) \subseteq NumbersIn(reports', x)
    BY <2>2, <2>3
  <2>5. ASSUME NEW x \in Prefixes, NEW n \in NumbersIn(reports, x)
        PROVE  reports'[<<x, n>>] = reports[<<x, n>>]
    <3>1. <<x, n>> # <<Own(q), k + 1>>
      BY <2>2, <2>3
    <3>2. <<x, n>> \in Prefixes \X Numbers
      BY DEF NumbersIn
    <3>3. \A s \in Prefixes \X Numbers : s # <<Own(q), k + 1>> => reports'[s] = reports[s]
      BY <2>2 DEF TypeOK
    <3> QED  BY <3>1, <3>2, <3>3
  <2> QED  BY <2>4, <2>5
<1> QED  BY <1>1, <1>2

\* The listing of a process changes once.
LEMMA ListedMoves ==
  ASSUME TypeOK, JobsInv, NumbersInv, NEW q \in Procs, Step(q)
  PROVE  \/ listed'[q] = listed[q] /\ snap'[q] = snap[q]
         \/ /\ ReadRecords(q) /\ snap'[q] = snap[q] /\ reports' = reports
            /\ listed'[q].numbers = NumbersIn(reports, Own(q))
         \/ Start(q) /\ listed'[q] = listed[q] /\ reports' = reports
<1>1. CASE ReadRecords(q)
  <2>1. UNCHANGED <<snap, reports>>
    BY <1>1 DEF ReadRecords, judgement, written
  <2>2. \/ UNCHANGED listed
        \/ \E S, A, b, l : ReadListed(q, NumbersIn(reports, Own(q)), S, A, b, l)
    BY <1>1, NumbersAre DEF ReadRecords, Own
  <2>3. listed' = listed \/ listed'[q].numbers = NumbersIn(reports, Own(q))
    <3> DEFINE N == NumbersIn(reports, Own(q))
               C == {x \in Prefixes : confirmed[x] # None}
    <3> HIDE DEF N
    <3>1. ASSUME NEW S, NEW A, NEW b, NEW l, ReadListed(q, N, S, A, b, l)
          PROVE  listed'[q].numbers = N
      <4>1. listed' = [listed EXCEPT ![q] =
               [numbers |-> N, sheets |-> S, responses |-> A, confirmations |-> C]]
        BY <3>1 DEF ReadListed
      <4>2. DOMAIN listed = Procs
        BY DEF TypeOK
      <4>3. listed'[q] = [numbers |-> N, sheets |-> S, responses |-> A, confirmations |-> C]
        BY <4>1, <4>2
      <4> QED  BY <4>3
    <3> QED  BY <2>2, <3>1 DEF N
  <2> QED  BY <1>1, <2>1, <2>3
<1>2. CASE Start(q)
  BY <1>2 DEF Start, written
<1>3. CASE ~Start(q) /\ ~ReadRecords(q)
  BY <1>3 DEF Step, Work, Observe, ReadHead, ReadStatus, ReadConfirmation, CheckStories,
     ReadSemantic, Evaluate, WriteReport, Approve, WriteArtifact, judgement
<1> QED  BY <1>1, <1>2, <1>3

-----------------------------------------------------------------------------
(* The types.                                                              *)

\* A process at a point of publication is executing one of the actions that write
\* a part of its plan.
LEMMA PlanParts ==
  ASSUME TypeOK, PublishInv, NEW q \in Procs, NEW part \in Parts, pc[q] = part
  PROVE  plan[q] \in PlanType /\ plan[q][part] \in Files /\ plan[q][part] # None
<1>1. pc[q] \in Publishing
  BY DEF Publishing, Parts
<1>2. plan[q] \in PlanType
  BY <1>1 DEF PublishInv, TypeOK
<1>3. CASE part = "declaration"
  <2>1. plan[q][part] \in Declared
    BY <1>2, <1>3 DEF PlanType
  <2> QED  BY <1>2, <2>1, NoneAssumption DEF Files
<1>4. CASE part = "manifest"
  <2>1. plan[q][part] \in ManifestType
    BY <1>2, <1>4 DEF PlanType
  <2> QED  BY <1>2, <2>1, NoneAssumption DEF Files
<1>5. CASE part = "coverage"
  <2>1. plan[q][part] \in CoverageType
    BY <1>2, <1>5 DEF PlanType
  <2> QED  BY <1>2, <2>1, NoneAssumption DEF Files
<1> QED  BY <1>3, <1>4, <1>5 DEF Parts

\* What the plan of an approved process will hold.
LEMMA ProjectionTyped ==
  ASSUME TypeOK, JobsInv, ReportInv, NEW q \in Procs, pc[q] = "approve", Approved(q)
  PROVE  /\ Projection(q) \in PlanType
         /\ Projection(q).declaration = NodesOf[snap[q]]
         /\ Projection(q).manifest = [of |-> snap[q], batch |-> ManifestOf[snap[q]]]
         /\ Projection(q).coverage.of = Projection(q).manifest
         /\ Projection(q).coverage.by = report[q].confirmation
<1> DEFINE m == [of |-> snap[q], batch |-> ManifestOf[snap[q]]]
           w == confirmed[PrefixOf[snap[q]]]
           c == [of |-> m, by |-> w, at |-> applies[q]]
<1>1. snap[q] \in Fingerprints /\ PrefixOf[snap[q]] \in Prefixes
  BY ProcessAssumption DEF TypeOK
<1>2. report[q] \in ReportType
  BY DEF ReportInv, TypeOK, Approving
<1>3. w = report[q].confirmation /\ w # None /\ ManifestOf[sources] = ManifestOf[snap[q]]
  BY DEF Approved
<1>4. w \in Confirmations /\ applies[q] \in Confirmations \cup {None}
  BY <1>1, <1>3 DEF TypeOK
<1>5. m \in ManifestType
  BY <1>1 DEF ManifestType
<1>6. c \in CoverageType
  BY <1>4, <1>5 DEF CoverageType
<1>7. NodesOf[snap[q]] \in Declared
  BY <1>1 DEF Declared
<1>8. Projection(q) = [declaration |-> NodesOf[snap[q]], manifest |-> m, coverage |-> c]
  BY <1>3 DEF Projection
<1> HIDE DEF m, c, w
<1>9. /\ Projection(q) \in PlanType /\ Projection(q).declaration = NodesOf[snap[q]]
      /\ Projection(q).manifest = m /\ Projection(q).coverage = c
  BY <1>5, <1>6, <1>7, <1>8 DEF PlanType
<1>10. c.of = m /\ c.by = w
  BY DEF c
<1> QED  BY <1>3, <1>9, <1>10 DEF m

\* What the world and the records hold.
LEMMA WorldTypes ==
  ASSUME TypeOK, [Next]_vars
  PROVE  /\ sources' \in Fingerprints /\ head' \in Fingerprints \cup {"no repository"}
         /\ imported' \subseteq Sheets /\ answered' \subseteq Responses
         /\ confirmed' \in [Prefixes -> Confirmations \cup {None}]
<1> USE DEF TypeOK
<1>1. ASSUME NEW q \in Procs, Step(q)
      PROVE  UNCHANGED <<sources, head, imported, answered, confirmed>>
  BY <1>1, WrittenFrame DEF world, records
<1>2. CASE EditSources
  BY <1>2 DEF EditSources, records
<1>3. CASE Commit
  BY <1>3 DEF Commit, records
<1>4. CASE Import
  BY <1>4 DEF Import, world
<1>5. CASE Answer
  BY <1>5 DEF Answer, world
<1>6. CASE Confirm
  <2>1. UNCHANGED <<sources, head, imported, answered>>
    BY <1>6 DEF Confirm, world
  <2>2. PICK x \in Prefixes, c \in Confirmations \cup {None} : confirmed' = [confirmed EXCEPT ![x] = c]
    BY <1>6 DEF Confirm
  <2>3. confirmed' \in [Prefixes -> Confirmations \cup {None}]
    BY <2>2
  <2> QED  BY <2>1, <2>3
<1>7. CASE UNCHANGED vars
  BY <1>7 DEF vars, world, records
<1> QED  BY <1>1, <1>2, <1>3, <1>4, <1>5, <1>6, <1>7, NextCases DEF Environment

\* What the executions have written.
LEMMA WrittenTypes ==
  ASSUME TypeOK, JobsInv, NumbersInv, ReportInv, PublishInv, NEW q \in Procs, Step(q)
  PROVE  /\ reports' \in [Prefixes \X Numbers -> ReportType \cup {None}]
         /\ artifacts' \in [Plans -> [Parts -> Files \cup {None}]]
         /\ observed' \subseteq Observations
<1>1. reports' \in [Prefixes \X Numbers -> ReportType \cup {None}]
  <2>1. CASE reports' = reports
    BY <2>1 DEF TypeOK
  <2>2. CASE reports' # reports
    <3>1. WriteReport(q)
      BY <2>2, WrittenFrame
    <3>2. PICK k \in 0..MaxReports :
            /\ reports' = [reports EXCEPT ![<<Own(q), k + 1>>] = report[q]]
      BY <2>2, <3>1, WriteMeaning
    <3>3. /\ reports \in [Prefixes \X Numbers -> ReportType \cup {None}]
          /\ report[q] \in ReportType \cup {None}
      BY DEF TypeOK
    <3> QED  BY <3>2, <3>3
  <2> QED  BY <2>1, <2>2
<1>2. artifacts' \in [Plans -> [Parts -> Files \cup {None}]]
  <2>1. ASSUME NEW part \in Parts, WriteArtifact(q, part)
        PROVE  artifacts' \in [Plans -> [Parts -> Files \cup {None}]]
    <3>1. pc[q] = part
      BY <2>1 DEF WriteArtifact
    <3>2. plan[q][part] \in Files
      BY <3>1, PlanParts
    <3>3. \/ artifacts' = artifacts
          \/ artifacts' = [artifacts EXCEPT ![PlanOf(q)][part] = plan[q][part]]
      BY <2>1 DEF WriteArtifact
    <3>4. artifacts \in [Plans -> [Parts -> Files \cup {None}]]
      BY DEF TypeOK
    <3> QED  BY <3>2, <3>3, <3>4
  <2>2. artifacts' = artifacts \/ \E part \in Parts : WriteArtifact(q, part)
    BY WrittenFrame
  <2> QED  BY <2>1, <2>2 DEF TypeOK
<1>3. observed' \subseteq Observations
  <2>1. observed \subseteq Observations
    BY DEF TypeOK
  <2>2. Observe(q) => \E o \in Observations : observed' \in {observed, observed \cup {o}}
    BY DEF Observe
  <2>3. observed' = observed \/ Observe(q)
    BY WrittenFrame
  <2> QED  BY <2>1, <2>2, <2>3
<1> QED  BY <1>1, <1>2, <1>3

\* What the executions know.
LEMMA KnownTypes ==
  ASSUME TypeOK, JobsInv, NumbersInv, ReportInv, PublishInv, NEW q \in Procs, Step(q)
  PROVE  /\ listed' \in [Procs -> [numbers : SUBSET Numbers, sheets : SUBSET Sheets,
                          responses : SUBSET Responses, confirmations : SUBSET Prefixes]]
         /\ applies' \in [Procs -> Confirmations \cup {None}]
         /\ report' \in [Procs -> ReportType \cup {None}]
         /\ plan' \in [Procs -> PlanType \cup {None}]
<1>1. listed' \in [Procs -> [numbers : SUBSET Numbers, sheets : SUBSET Sheets,
                          responses : SUBSET Responses, confirmations : SUBSET Prefixes]]
  <2> DEFINE L == [numbers : SUBSET Numbers, sheets : SUBSET Sheets,
                   responses : SUBSET Responses, confirmations : SUBSET Prefixes]
             N == NumbersIn(reports, PrefixOf[snap[q]])
  <2>1. listed \in [Procs -> L] /\ imported \subseteq Sheets /\ answered \subseteq Responses
    BY DEF TypeOK
  <2>2. N \subseteq Numbers
    BY DEF NumbersIn
  <2> HIDE DEF L, N
  <2>3. ASSUME ReadRecords(q)
        PROVE  listed' \in [Procs -> L]
    <3>1. \/ UNCHANGED listed
          \/ \E S \in SUBSET Sheets, A \in SUBSET Responses : \E b, l : ReadListed(q, N, S, A, b, l)
      <4>1. \/ UNCHANGED listed
            \/ \E b, l : ReadListed(q, N, imported, answered, b, l)
            \/ \E s \in imported : \E b, l : ReadListed(q, N, imported \ {s}, answered, b, l)
            \/ \E r \in answered : \E b, l : ReadListed(q, N, imported, answered \ {r}, b, l)
        BY <2>3, NumbersAre DEF ReadRecords, N
      <4> HIDE DEF ReadListed
      <4> QED  BY <2>1, <4>1
    <3>2. ASSUME NEW S \in SUBSET Sheets, NEW A \in SUBSET Responses, NEW b, NEW l,
                 ReadListed(q, N, S, A, b, l)
          PROVE  listed' \in [Procs -> L]
      <4>1. listed' = [listed EXCEPT ![q] =
              [numbers |-> N, sheets |-> S, responses |-> A,
               confirmations |-> {x \in Prefixes : confirmed[x] # None}]]
        BY <3>2 DEF ReadListed
      <4>2. [numbers |-> N, sheets |-> S, responses |-> A,
             confirmations |-> {x \in Prefixes : confirmed[x] # None}] \in L
        BY <2>2 DEF L
      <4> QED  BY <2>1, <4>1, <4>2
    <3> QED  BY <2>1, <3>1, <3>2
  <2>4. ASSUME ~ReadRecords(q)
        PROVE  listed' \in [Procs -> L]
    <3>1. UNCHANGED listed
      BY <2>4 DEF Step, Start, Work, Observe, ReadHead, ReadStatus, ReadConfirmation, CheckStories,
     ReadSemantic, Evaluate, WriteReport, Approve, WriteArtifact, judgement
    <3> QED  BY <2>1, <3>1
  <2> QED  BY <2>3, <2>4 DEF L
<1>2. applies' \in [Procs -> Confirmations \cup {None}]
  <2>1. CASE ReadConfirmation(q)
    <3>1. \/ UNCHANGED applies
          \/ \E c \in Confirming(q) : applies' = [applies EXCEPT ![q] = c]
      BY <2>1 DEF ReadConfirmation
    <3>2. Confirming(q) \subseteq Confirmations
      BY DEF Confirming, TypeOK
    <3> QED  BY <3>1, <3>2 DEF TypeOK
  <2>2. CASE ~ReadConfirmation(q)
    <3>1. UNCHANGED applies
      BY <2>2 DEF Step, Start, Work, Observe, ReadHead, ReadStatus, ReadRecords, CheckStories,
     ReadSemantic, Evaluate, WriteReport, Approve, WriteArtifact, judgement
    <3> QED  BY <3>1 DEF TypeOK
  <2> QED  BY <2>1, <2>2
<1>3. report' \in [Procs -> ReportType \cup {None}]
  <2>1. /\ report \in [Procs -> ReportType \cup {None}]
        /\ reports \in [Prefixes \X Numbers -> ReportType \cup {None}]
    BY DEF TypeOK
  <2>2. CASE ReadRecords(q)
    <3>1. Baseline(q, NumbersIn(reports, Own(q))) \in ReportType \cup {None}
      <4> DEFINE N == NumbersIn(reports, Own(q))
      <4>1. Own(q) \in Prefixes
        BY ProcessAssumption DEF Own, TypeOK
      <4>2. PICK k \in 0..MaxReports : N = 1..k
        BY <4>1, NumbersAre DEF NumbersInv
      <4>3. N = {} \/ Highest(N) \in Numbers
        BY <4>2, HighestOf, BoundsAssumption DEF Numbers
      <4> QED  BY <2>1, <4>1, <4>3 DEF Baseline, Own
    <3>2. \/ UNCHANGED report
          \/ \E b \in {Baseline(q, NumbersIn(reports, Own(q))), None} :
               report' = [report EXCEPT ![q] = b]
      BY <2>2, NumbersAre DEF ReadRecords, ReadListed, Own
    <3> QED  BY <2>1, <3>1, <3>2
  <2>3. CASE Evaluate(q)
    <3>1. pc[q] # "idle"
      BY <2>3 DEF Evaluate
    <3>2. (IF applies[q] = None THEN None ELSE confirmed[PrefixOf[snap[q]]])
             \in Confirmations \cup {None}
      BY ProcessAssumption DEF TypeOK
    <3>3. found[q] \in SUBSET Codes
      BY DEF TypeOK
    <3>4. PICK c \in Confirmations \cup {None} :
            report' = [report EXCEPT ![q] = Report(q, c, found[q])]
      BY <2>3, <3>2 DEF Evaluate
    <3>5. Report(q, c, found[q]) \in ReportType
      BY <3>1, <3>3, ReportTyped
    <3> QED  BY <2>1, <3>4, <3>5
  <2>4. CASE WriteReport(q)
    <3>1. pc[q] = "write"
      BY <2>4 DEF WriteReport
    <3>2. report[q] \in ReportType
      BY <3>1, <2>1 DEF ReportInv
    <3>3. report[q].confirmation \in Confirmations \cup {None}
      BY <3>2 DEF ReportType
    <3>4. found[q] \cup {"RECORD_WRITE_FAILED"} \in SUBSET Codes
      BY OutcomeTypes DEF TypeOK
    <3>5. Report(q, report[q].confirmation, found[q] \cup {"RECORD_WRITE_FAILED"}) \in ReportType
      BY <3>1, <3>3, <3>4, ReportTyped
    <3>6. UNCHANGED report \/ Unwritten(q)
      BY <2>4 DEF WriteReport
    <3> QED  BY <2>1, <3>5, <3>6 DEF Unwritten
  <2>5. CASE ~ReadRecords(q) /\ ~Evaluate(q) /\ ~WriteReport(q)
    <3>1. UNCHANGED report
      BY <2>5 DEF Step, Start, Work, Observe, ReadHead, ReadStatus, ReadConfirmation, CheckStories,
     ReadSemantic, Approve, WriteArtifact, judgement
    <3> QED  BY <2>1, <3>1
  <2> QED  BY <2>2, <2>3, <2>4, <2>5
<1>4. plan' \in [Procs -> PlanType \cup {None}]
  <2>1. plan \in [Procs -> PlanType \cup {None}]
    BY DEF TypeOK
  <2>2. CASE Approve(q)
    <3>1. UNCHANGED plan \/ (Approved(q) /\ plan' = [plan EXCEPT ![q] = Projection(q)])
      BY <2>2 DEF Approve
    <3>2. Approved(q) => Projection(q) \in PlanType
      BY <2>2, ProjectionTyped DEF Approve
    <3> QED  BY <2>1, <3>1, <3>2
  <2>3. CASE ~Approve(q)
    <3>1. UNCHANGED plan
      BY <2>3 DEF Step, Start, Work, Observe, ReadHead, ReadStatus, ReadRecords, ReadConfirmation,
         CheckStories, ReadSemantic, Evaluate, WriteReport, WriteArtifact, judgement
    <3> QED  BY <2>1, <3>1
  <2> QED  BY <2>2, <2>3
<1> QED  BY <1>1, <1>2, <1>3, <1>4

\* The types are preserved.
LEMMA TypeOKStep ==
  ASSUME TypeOK, JobsInv, NumbersInv, ReportInv, PublishInv, [Next]_vars
  PROVE  TypeOK'
<1>1. ASSUME NEW q \in Procs, Step(q)
      PROVE  TypeOK'
  BY <1>1, WorldTypes, WrittenTypes, KnownTypes, ProcessTypes DEF TypeOK
<1>2. CASE Environment \/ UNCHANGED vars
  <2>1. edits' \in 0..MaxEdits
    <3>1. Others \/ edits' = edits
      BY <1>2 DEF Environment, EditSources, Commit, Import, Answer, Confirm, vars, bounds
    <3>2. edits \in 0..MaxEdits
      BY DEF TypeOK
    <3> QED  BY <3>1, <3>2, BoundsAssumption DEF Others
  <2>2. UNCHANGED <<reports, artifacts, observed, pc, job, snap, found, listed, applies,
                    report, plan, result, faults>>
    BY <1>2, EnvironmentFrame
  <2>3. /\ sources' \in Fingerprints /\ head' \in Fingerprints \cup {"no repository"}
        /\ imported' \subseteq Sheets /\ answered' \subseteq Responses
        /\ confirmed' \in [Prefixes -> Confirmations \cup {None}]
    BY WorldTypes
  <2> QED  BY <2>1, <2>2, <2>3 DEF TypeOK
<1> QED  BY <1>1, <1>2, NextCases

\* The numbers stay without gaps, and a listing stays a stretch of them.
LEMMA NumbersInvStep ==
  ASSUME TypeOK, JobsInv, NumbersInv, BaselineInv, ReportInv, [Next]_vars
  PROVE  NumbersInv'
<1>1. \A x \in Prefixes : \E k \in 0..MaxReports : NumbersIn(reports', x) = 1..k
  <2>1. CASE reports' = reports
    BY <2>1, NumbersAre DEF NumbersInv
  <2>2. CASE reports' # reports
    <3>1. PICK q \in Procs : WriteReport(q)
      BY <2>2, NextCases, EnvironmentFrame, WrittenFrame
    <3>2. PICK k \in 0..MaxReports :
           /\ k + 1 \in Numbers
           /\ NumbersIn(reports', Own(q)) = 1..(k + 1)
           /\ \A x \in Prefixes : x # Own(q) => NumbersIn(reports', x) = NumbersIn(reports, x)
      BY <2>2, <3>1, WriteMeaning
    <3>3. k + 1 \in 0..MaxReports
      BY <3>2, BoundsAssumption DEF Numbers
    <3> QED  BY <3>2, <3>3, NumbersAre DEF NumbersInv
  <2> QED  BY <2>1, <2>2
<1>2. ASSUME NEW p \in Procs
      PROVE  \E h \in 0..MaxReports :
               listed'[p].numbers = 1..h /\ 1..h \subseteq NumbersIn(reports', PrefixOf[snap'[p]])
  <2>1. PICK h \in 0..MaxReports : listed[p].numbers = 1..h /\ 1..h \subseteq NumbersIn(reports, Own(p))
    BY NumbersAre DEF NumbersInv
  <2>2. Own(p) \in Prefixes
    BY ProcessAssumption DEF TypeOK, Own
  <2>3. NumbersIn(reports, Own(p)) \subseteq NumbersIn(reports', Own(p))
    BY <2>2, ReportsStay
  <2>4. CASE listed'[p] = listed[p] /\ snap'[p] = snap[p]
    BY <2>1, <2>3, <2>4 DEF Own
  <2>5. CASE ReadRecords(p) /\ snap'[p] = snap[p] /\ listed'[p].numbers = NumbersIn(reports, Own(p))
    BY <2>2, <2>3, <2>5, NumbersAre DEF Own, NumbersInv
  <2>6. CASE Start(p) /\ listed'[p] = listed[p]
    <3>1. listed[p].numbers = {}
      BY <2>6 DEF BaselineInv, Start, Opening
    <3>2. h = 0
      BY <2>1, <3>1, HighestOf
    <3>3. 1..h = {}
      BY <3>2
    <3> QED  BY <2>1, <2>6, <3>3
  <2>7. ASSUME NEW q \in Procs, Step(q)
        PROVE  \/ listed'[p] = listed[p] /\ snap'[p] = snap[p]
               \/ ReadRecords(p) /\ snap'[p] = snap[p] /\ listed'[p].numbers = NumbersIn(reports, Own(p))
               \/ Start(p) /\ listed'[p] = listed[p]
    <3>1. CASE p = q
      BY <2>7, <3>1, ListedMoves
    <3>2. CASE p # q
      BY <2>7, <3>2, OthersStay
    <3> QED  BY <3>1, <3>2
  <2>8. Environment \/ UNCHANGED vars => listed'[p] = listed[p] /\ snap'[p] = snap[p]
    BY EnvironmentFrame
  <2> QED  BY <2>4, <2>5, <2>6, <2>7, <2>8, NextCases
<1> QED  BY <1>1, <1>2, NumbersAre

-----------------------------------------------------------------------------
(* Where a step takes a process, and the report it makes.                  *)

\* A process either takes no part in a step or takes it.
LEMMA Takes ==
  ASSUME TypeOK, [Next]_vars, NEW p \in Procs
  PROVE  \/ Step(p)
         \/ /\ pc'[p] = pc[p] /\ snap'[p] = snap[p] /\ found'[p] = found[p] /\ job'[p] = job[p]
            /\ listed'[p] = listed[p] /\ applies'[p] = applies[p] /\ report'[p] = report[p]
            /\ plan'[p] = plan[p]
<1>1. ASSUME NEW q \in Procs, Step(q), p # q
      PROVE  /\ pc'[p] = pc[p] /\ snap'[p] = snap[p] /\ found'[p] = found[p] /\ job'[p] = job[p]
             /\ listed'[p] = listed[p] /\ applies'[p] = applies[p] /\ report'[p] = report[p]
             /\ plan'[p] = plan[p]
  BY <1>1, OthersStay
<1>2. CASE Environment \/ UNCHANGED vars
  BY <1>2, EnvironmentFrame
<1> QED  BY <1>1, <1>2, NextCases

\* Where an action takes the process.
LEMMA Moves ==
  ASSUME TypeOK, NEW p \in Procs
  PROVE  /\ (Start(p) => pc[p] = "idle" /\ pc'[p] \in Opening \cup {"done"})
         /\ (Observe(p) => pc'[p] = "done")
         /\ (ReadHead(p) \/ ReadStatus(p) => pc[p] \in Opening /\ pc'[p] \in Opening \cup {"done"})
         /\ (ReadRecords(p) => pc[p] = "records" /\ pc'[p] = "confirmation")
         /\ (ReadConfirmation(p) \/ CheckStories(p) \/ ReadSemantic(p)
             => pc[p] \in Gathering /\ pc'[p] \in Gathering \cup {"done"})
         /\ (Evaluate(p) => pc[p] = "evaluate" /\ pc'[p] \in {"write", "approve", "done"})
         /\ (WriteReport(p) => pc[p] = "write" /\ pc'[p] \in {"approve", "done"})
         /\ (Approve(p) => pc[p] = "approve" /\ pc'[p] \in {"declaration", "done"})
         /\ (WriteArtifact(p, "declaration") => pc[p] = "declaration" /\ pc'[p] \in {"manifest", "done"})
         /\ (WriteArtifact(p, "manifest") => pc[p] = "manifest" /\ pc'[p] \in {"coverage", "done"})
         /\ (WriteArtifact(p, "coverage") => pc[p] = "coverage" /\ pc'[p] = "done")
<1>1. \A point : Goto(p, point) => pc'[p] = point
  BY DEF Goto, TypeOK
<1>2. \A how : Finish(p, how) => pc'[p] = "done"
  BY <1>1 DEF Finish
<1>3. \A outcome : Judged(p, outcome) => pc'[p] \in {"approve", "done"}
  BY <1>1, <1>2 DEF Judged
<1>4. Start(p) => pc[p] = "idle" /\ pc'[p] \in Opening \cup {"done"}
  BY <1>1, <1>2 DEF Start, Opening
<1>5. Observe(p) => pc'[p] = "done"
  BY <1>2 DEF Observe
<1>6. ReadHead(p) \/ ReadStatus(p) => pc[p] \in Opening /\ pc'[p] \in Opening \cup {"done"}
  BY <1>1, <1>2 DEF ReadHead, ReadStatus, Opening
<1>7. ReadRecords(p) => pc[p] = "records" /\ pc'[p] = "confirmation"
  BY <1>1 DEF ReadRecords
<1>8. ReadConfirmation(p) \/ CheckStories(p) \/ ReadSemantic(p)
        => pc[p] \in Gathering /\ pc'[p] \in Gathering \cup {"done"}
  BY <1>1, <1>2 DEF ReadConfirmation, CheckStories, ReadSemantic, Gathering
<1>9. Evaluate(p) => pc[p] = "evaluate" /\ pc'[p] \in {"write", "approve", "done"}
  BY <1>1, <1>3 DEF Evaluate
<1>10. WriteReport(p) => pc[p] = "write" /\ pc'[p] \in {"approve", "done"}
  BY <1>2, <1>3 DEF WriteReport, Unwritten
<1>11. Approve(p) => pc[p] = "approve" /\ pc'[p] \in {"declaration", "done"}
  BY <1>1, <1>2 DEF Approve
<1>12. WriteArtifact(p, "declaration") => pc[p] = "declaration" /\ pc'[p] \in {"manifest", "done"}
  BY <1>1, <1>2 DEF WriteArtifact, Continue
<1>13. WriteArtifact(p, "manifest") => pc[p] = "manifest" /\ pc'[p] \in {"coverage", "done"}
  BY <1>1, <1>2 DEF WriteArtifact, Continue
<1>14. WriteArtifact(p, "coverage") => pc[p] = "coverage" /\ pc'[p] = "done"
  BY <1>1, <1>2 DEF WriteArtifact, Continue
<1> QED  BY <1>4, <1>5, <1>6, <1>7, <1>8, <1>9, <1>10, <1>11, <1>12, <1>13, <1>14

\* Where a step takes the process that takes it.
LEMMA Movement ==
  ASSUME TypeOK, NEW p \in Procs, Step(p)
  PROVE  \/ Start(p) /\ pc[p] = "idle" /\ pc'[p] \in Opening \cup {"done"}
         \/ Observe(p) /\ pc'[p] = "done"
         \/ (ReadHead(p) \/ ReadStatus(p)) /\ pc[p] \in Opening /\ pc'[p] \in Opening \cup {"done"}
         \/ ReadRecords(p) /\ pc[p] = "records" /\ pc'[p] = "confirmation"
         \/ /\ ReadConfirmation(p) \/ CheckStories(p) \/ ReadSemantic(p)
            /\ pc[p] \in Gathering /\ pc'[p] \in Gathering \cup {"done"}
         \/ Evaluate(p) /\ pc[p] = "evaluate" /\ pc'[p] \in {"write", "approve", "done"}
         \/ WriteReport(p) /\ pc[p] = "write" /\ pc'[p] \in {"approve", "done"}
         \/ Approve(p) /\ pc[p] = "approve" /\ pc'[p] \in {"declaration", "done"}
         \/ WriteArtifact(p, "declaration") /\ pc[p] = "declaration" /\ pc'[p] \in {"manifest", "done"}
         \/ WriteArtifact(p, "manifest") /\ pc[p] = "manifest" /\ pc'[p] \in {"coverage", "done"}
         \/ WriteArtifact(p, "coverage") /\ pc[p] = "coverage" /\ pc'[p] = "done"
BY Moves DEF Step, Work, Parts

\* What is made when the outcome is known.
LEMMA EvaluateMeaning ==
  ASSUME TypeOK, JobsInv, NEW p \in Procs, Evaluate(p)
  PROVE  /\ UNCHANGED <<snap, found, listed, reports, artifacts, plan>>
         /\ report'[p] \in ReportType /\ report'[p] # None
         /\ report'[p].fp = snap[p] /\ report'[p].found = found[p]
         /\ report'[p].outcome = Outcome(found[p])
         /\ pc'[p] = "write" => report'[p] # report[p]
         /\ pc'[p] = "approve" => report'[p] = report[p] /\ report'[p].outcome = "READY"
<1> DEFINE now == IF applies[p] = None THEN None ELSE confirmed[PrefixOf[snap[p]]]
           new == Report(p, now, found[p])
<1>1. pc[p] # "idle"
  BY DEF Evaluate
<1>2. now \in Confirmations \cup {None} /\ found[p] \in SUBSET Codes
  BY ProcessAssumption DEF TypeOK
<1>3. /\ new \in ReportType /\ new # None /\ new.fp = snap[p] /\ new.found = found[p]
      /\ new.outcome = Outcome(found[p])
  BY <1>1, <1>2, ReportTyped
<1>4. /\ UNCHANGED <<snap, found, listed, reports, artifacts, plan>>
      /\ report' = [report EXCEPT ![p] = new]
      /\ IF new = report[p] THEN Judged(p, new.outcome) ELSE Goto(p, "write")
  BY DEF Evaluate, written
<1> HIDE DEF new
<1>5. report'[p] = new
  BY <1>4 DEF TypeOK
<1>6. Goto(p, "write") => pc'[p] = "write"
  BY DEF Goto, TypeOK
<1>7. Judged(p, new.outcome) => pc'[p] = "done" \/ (pc'[p] = "approve" /\ new.outcome = "READY")
  BY DEF Judged, Finish, Goto, TypeOK
<1> QED  BY <1>3, <1>4, <1>5, <1>6, <1>7

\* A report is stored, or becomes one that is not READY.
LEMMA WriteReportMeaning ==
  ASSUME TypeOK, JobsInv, ReportInv, NEW p \in Procs, WriteReport(p)
  PROVE  /\ UNCHANGED <<snap, found, listed, artifacts, plan>>
         /\ report'[p] \in ReportType /\ report'[p] # None /\ report'[p].fp = snap[p]
         /\ pc'[p] = "approve" => /\ report'[p] = report[p] /\ report[p].outcome = "READY"
                                  /\ \E n \in Numbers : reports'[<<Own(p), n>>] = report[p]
<1>1. pc[p] = "write" /\ UNCHANGED <<snap, found, listed, artifacts, plan>>
  BY DEF WriteReport
<1>2. report[p] \in ReportType /\ report[p] # None /\ report[p].fp = snap[p]
  BY <1>1 DEF ReportInv, TypeOK
<1>3. \A o : Judged(p, o) => pc'[p] = "done" \/ (pc'[p] = "approve" /\ o = "READY")
  BY DEF Judged, Finish, Goto, TypeOK
<1>4. \A how : Finish(p, how) => pc'[p] = "done"
  BY DEF Finish, Goto, TypeOK
<1>5. CASE Unwritten(p)
  <2> DEFINE worse == Report(p, report[p].confirmation, found[p] \cup {"RECORD_WRITE_FAILED"})
  <2>1. report[p].confirmation \in Confirmations \cup {None}
    BY <1>2 DEF ReportType
  <2>2. /\ found[p] \cup {"RECORD_WRITE_FAILED"} \in SUBSET Codes
        /\ Outcome(found[p] \cup {"RECORD_WRITE_FAILED"}) # "READY"
    BY OutcomeTypes DEF TypeOK
  <2>3. worse \in ReportType /\ worse # None /\ worse.fp = snap[p] /\ worse.outcome # "READY"
    BY <1>1, <2>1, <2>2, ReportTyped
  <2>4. report' = [report EXCEPT ![p] = worse] /\ Judged(p, worse.outcome)
    BY <1>5 DEF Unwritten
  <2> HIDE DEF worse
  <2>5. report'[p] = worse
    BY <2>4 DEF TypeOK
  <2> QED  BY <1>1, <1>3, <2>3, <2>4, <2>5
<1>6. CASE ~Unwritten(p)
  <2>1. report' = report
    BY <1>6 DEF WriteReport
  <2>2. \/ \E n \in Numbers : /\ reports' = [reports EXCEPT ![<<Own(p), n>>] = report[p]]
                              /\ Judged(p, report[p].outcome)
        \/ \E how : Finish(p, how)
    BY <1>6 DEF WriteReport, Own, Numbers
  <2>3. Own(p) \in Prefixes
    BY ProcessAssumption DEF TypeOK, Own
  <2>4. ASSUME NEW n \in Numbers, reports' = [reports EXCEPT ![<<Own(p), n>>] = report[p]]
        PROVE  reports'[<<Own(p), n>>] = report[p]
    BY <2>3, <2>4 DEF TypeOK
  <2> QED  BY <1>1, <1>2, <1>3, <1>4, <2>1, <2>2, <2>4
<1> QED  BY <1>5, <1>6

\* The report that is made says what was found.
LEMMA ReportInvStep ==
  ASSUME TypeOK, JobsInv, ReportInv, [Next]_vars
  PROVE  ReportInv'
<1>1. ASSUME NEW p \in Procs
      PROVE  /\ pc'[p] \in {"write"} \cup Approving => report'[p] # None /\ report'[p].fp = snap'[p]
             /\ pc'[p] = "write" =>
                  report'[p].found = found'[p] /\ report'[p].outcome = Outcome(found'[p])
  <2>1. CASE ~Step(p)
    BY <2>1, Takes DEF ReportInv
  <2>2. CASE Evaluate(p)
    BY <2>2, EvaluateMeaning
  <2>3. CASE WriteReport(p)
    BY <2>3, WriteReportMeaning, Moves
  <2>4. CASE Approve(p) \/ \E part \in Parts : WriteArtifact(p, part)
    <3>1. UNCHANGED <<snap, report>>
      BY <2>4 DEF Approve, WriteArtifact, judgement
    <3>2. pc[p] \in Approving
      BY <2>4 DEF Approve, WriteArtifact, Parts, Approving, Publishing
    <3>3. pc'[p] # "write"
      BY <2>4, Moves DEF Parts
    <3> QED  BY <3>1, <3>2, <3>3 DEF ReportInv
  <2>5. CASE Step(p) /\ ~Evaluate(p) /\ ~WriteReport(p) /\ ~Approve(p)
               /\ ~(\E part \in Parts : WriteArtifact(p, part))
    <3>1. pc'[p] \in Opening \cup Gathering \cup {"done"}
      BY <2>5, Movement DEF Parts, Gathering
    <3> QED  BY <3>1 DEF Opening, Gathering, Approving, Publishing
  <2> QED  BY <2>1, <2>2, <2>3, <2>4, <2>5
<1> QED  BY <1>1 DEF ReportInv

-----------------------------------------------------------------------------
(* What a process compares with, and what it publishes.                    *)

\* What reading the records leaves to compare with.
LEMMA ReadRecordsMeaning ==
  ASSUME TypeOK, JobsInv, NumbersInv, BaselineInv, NEW p \in Procs, ReadRecords(p)
  PROVE  LET h == Highest(listed'[p].numbers) IN
           IF report'[p] = None
           THEN listed'[p].numbers = {} \/ "BASELINE_INVALID" \in found'[p]
           ELSE h \in listed'[p].numbers /\ report'[p] = reports[<<Own(p), h>>]
<1> DEFINE N == NumbersIn(reports, Own(p))
<1>1. pc[p] = "records"
  BY DEF ReadRecords
<1>2. report[p] = None /\ listed[p].numbers = {}
  BY <1>1 DEF BaselineInv, Opening
<1>3. Own(p) \in Prefixes
  BY ProcessAssumption DEF TypeOK, Own
<1>4. PICK k \in 0..MaxReports : N = 1..k
  BY <1>3, NumbersAre DEF NumbersInv
<1>5. N = {} \/ (Highest(N) \in N /\ reports[<<Own(p), Highest(N)>>] # None)
  <2>1. N = {} \/ Highest(N) \in N
    BY <1>4, HighestOf
  <2> QED  BY <2>1 DEF NumbersIn
<1>6. \/ UNCHANGED <<listed, report>>
      \/ \E S, A, l : ReadListed(p, N, S, A, Baseline(p, N), l)
      \/ \E S, A : ReadListed(p, N, S, A, None, {"BASELINE_INVALID"})
  BY NumbersAre DEF ReadRecords, Own
<1> HIDE DEF N
<1>7. ASSUME NEW S, NEW A, NEW b, NEW l, ReadListed(p, N, S, A, b, l)
      PROVE  listed'[p].numbers = N /\ report'[p] = b /\ l \subseteq found'[p]
  <2> DEFINE r == [numbers |-> N, sheets |-> S, responses |-> A,
                   confirmations |-> {x \in Prefixes : confirmed[x] # None}]
             C == RecordFindings(S, A, snap[p])
  <2>1. /\ listed' = [listed EXCEPT ![p] = r] /\ report' = [report EXCEPT ![p] = b]
        /\ found' = [found EXCEPT ![p] = @ \cup (l \cup C)]
    BY <1>7 DEF ReadListed, Find
  <2>2. DOMAIN listed = Procs /\ DOMAIN report = Procs /\ DOMAIN found = Procs
    BY DEF TypeOK
  <2>3. r.numbers = N
    OBVIOUS
  <2> HIDE DEF r, C
  <2> QED  BY <2>1, <2>2, <2>3
<1>8. ASSUME NEW S, NEW A, NEW l, ReadListed(p, N, S, A, Baseline(p, N), l)
      PROVE  IF report'[p] = None
             THEN listed'[p].numbers = {} \/ "BASELINE_INVALID" \in found'[p]
             ELSE /\ Highest(listed'[p].numbers) \in listed'[p].numbers
                  /\ report'[p] = reports[<<Own(p), Highest(listed'[p].numbers)>>]
  <2>1. listed'[p].numbers = N /\ report'[p] = Baseline(p, N)
    BY <1>7, <1>8
  <2>2. N # {} => Baseline(p, N) = reports[<<Own(p), Highest(N)>>]
    BY DEF Baseline, Own
  <2>3. N = {} => Baseline(p, N) = None
    BY DEF Baseline
  <2> QED  BY <1>5, <2>1, <2>2, <2>3
<1>9. ASSUME NEW S, NEW A, ReadListed(p, N, S, A, None, {"BASELINE_INVALID"})
      PROVE  report'[p] = None /\ "BASELINE_INVALID" \in found'[p]
  BY <1>7, <1>9
<1> QED  BY <1>2, <1>6, <1>8, <1>9

\* What is found is not forgotten.
LEMMA FoundGrows ==
  ASSUME TypeOK, NEW p \in Procs, Step(p)
  PROVE  found[p] \subseteq found'[p]
<1>1. \A C : Find(p, C) => found[p] \subseteq found'[p]
  BY DEF Find, TypeOK
<1>2. UNCHANGED found \/ \E C : Find(p, C)
  BY DEF Step, Work, Start, Observe, ReadHead, ReadStatus, ReadRecords, ReadListed,
         ReadConfirmation, CheckStories, ReadSemantic, Evaluate, WriteReport, Approve,
         WriteArtifact, judgement
<1> QED  BY <1>1, <1>2

\* What a process compares with stays the highest listed.
LEMMA BaselineInvStep ==
  ASSUME TypeOK, JobsInv, NumbersInv, BaselineInv, ReportInv, [Next]_vars
  PROVE  BaselineInv'
<1> SUFFICES ASSUME NEW p \in Procs
             PROVE  LET h == Highest(listed'[p].numbers) IN
               /\ pc'[p] \in Opening => report'[p] = None /\ listed'[p].numbers = {}
               /\ pc'[p] \in Gathering =>
                    IF report'[p] = None
                    THEN listed'[p].numbers = {} \/ "BASELINE_INVALID" \in found'[p]
                    ELSE h \in listed'[p].numbers
                         /\ report'[p] = reports'[<<PrefixOf[snap'[p]], h>>]
               /\ pc'[p] = "write" =>
                    \/ listed'[p].numbers = {} \/ "BASELINE_INVALID" \in found'[p]
                    \/ report'[p] # reports'[<<PrefixOf[snap'[p]], h>>]
  BY DEF BaselineInv, Own, Highest
<1> DEFINE h == Highest(listed[p].numbers)
<1>1. Own(p) \in Prefixes
  BY ProcessAssumption DEF TypeOK, Own
<1>2. listed[p].numbers \subseteq NumbersIn(reports, Own(p))
  BY NumbersAre DEF NumbersInv
<1>3. \A n \in listed[p].numbers : reports'[<<Own(p), n>>] = reports[<<Own(p), n>>]
  BY <1>1, <1>2, ReportsStay
<1>4. listed[p].numbers = {} \/ h \in listed[p].numbers
  <2>1. PICK k \in 0..MaxReports : listed[p].numbers = 1..k
    BY DEF NumbersInv
  <2> QED  BY <2>1, HighestOf
<1>5. /\ pc[p] \in Opening => report[p] = None /\ listed[p].numbers = {}
      /\ pc[p] \in Gathering =>
           IF report[p] = None
           THEN listed[p].numbers = {} \/ "BASELINE_INVALID" \in found[p]
           ELSE h \in listed[p].numbers /\ report[p] = reports[<<Own(p), h>>]
      /\ pc[p] = "write" =>
           \/ listed[p].numbers = {} \/ "BASELINE_INVALID" \in found[p]
           \/ report[p] # reports[<<Own(p), h>>]
  BY DEF BaselineInv
<1>6. "idle" \in Opening /\ "records" \in Opening /\ "evaluate" \in Gathering
  BY DEF Opening, Gathering
<1>7. /\ Opening \cap Gathering = {} /\ "write" \notin Opening \cup Gathering
      /\ {"done", "approve", "declaration", "manifest", "coverage"} \cap (Opening \cup Gathering) = {}
      /\ "confirmation" \in Gathering
  BY DEF Opening, Gathering
<1> HIDE DEF h
<1>8. CASE ~Step(p)
  <2>1. /\ pc'[p] = pc[p] /\ snap'[p] = snap[p] /\ found'[p] = found[p]
        /\ listed'[p] = listed[p] /\ report'[p] = report[p]
    BY <1>8, Takes
  <2> QED  BY <1>3, <1>4, <1>5, <2>1 DEF h, Own
<1>9. CASE Start(p) \/ Observe(p) \/ ReadHead(p) \/ ReadStatus(p)
  <2>1. listed' = listed /\ report' = report
    BY <1>9 DEF Start, Observe, ReadHead, ReadStatus
  <2>2. pc'[p] \in Opening => pc[p] \in Opening
    BY <1>6, <1>7, <1>9, Moves
  <2>3. pc'[p] \in Opening \cup {"done"}
    BY <1>9, Moves
  <2> QED  BY <1>5, <1>7, <2>1, <2>2, <2>3
<1>10. CASE ReadRecords(p)
  <2>1. pc'[p] = "confirmation" /\ snap' = snap /\ reports' = reports
    BY <1>10, Moves DEF ReadRecords, written
  <2> QED  BY <1>7, <1>10, <2>1, ReadRecordsMeaning DEF Own
<1>11. CASE ReadConfirmation(p) \/ CheckStories(p) \/ ReadSemantic(p)
  <2>1. /\ listed' = listed /\ report' = report /\ snap' = snap /\ reports' = reports
        /\ pc[p] \in Gathering /\ pc'[p] \in Gathering \cup {"done"}
    BY <1>11, Moves DEF ReadConfirmation, CheckStories, ReadSemantic, written
  <2>2. found[p] \subseteq found'[p]
    BY <1>11, FoundGrows DEF Step, Work
  <2> QED  BY <1>5, <1>7, <2>1, <2>2 DEF h, Own
<1>12. CASE Evaluate(p)
  <2>1. pc[p] = "evaluate" /\ pc'[p] \in {"write", "approve", "done"}
    BY <1>12, Moves
  <2>2. /\ UNCHANGED <<snap, found, listed, reports>>
        /\ pc'[p] = "write" => report'[p] # report[p]
        /\ report'[p] # None
    BY <1>12, EvaluateMeaning
  <2>3. CASE pc'[p] = "write"
    BY <1>5, <1>6, <1>7, <2>1, <2>2, <2>3 DEF h, Own
  <2>4. CASE pc'[p] # "write"
    BY <1>7, <2>1, <2>4
  <2> QED  BY <2>3, <2>4
<1>13. CASE WriteReport(p) \/ Approve(p) \/ \E part \in Parts : WriteArtifact(p, part)
  <2>1. pc'[p] \in {"done", "approve", "declaration", "manifest", "coverage"}
    BY <1>13, Moves DEF Parts
  <2> QED  BY <1>7, <2>1
<1> QED  BY <1>8, <1>9, <1>10, <1>11, <1>12, <1>13 DEF Step, Work

\* What is published goes back to a report that is stored.
LEMMA StoredInvStep ==
  ASSUME TypeOK, JobsInv, NumbersInv, BaselineInv, ReportInv, StoredInv, [Next]_vars
  PROVE  StoredInv'
<1> SUFFICES ASSUME NEW p \in Procs, pc'[p] \in Approving
             PROVE  /\ report'[p].outcome = "READY"
                    /\ \E n \in NumbersIn(reports', PrefixOf[snap'[p]]) :
                         reports'[<<PrefixOf[snap'[p]], n>>] = report'[p]
  BY DEF StoredInv, Own, NumbersOf, NumbersIn, Numbers
<1>1. Own(p) \in Prefixes
  BY ProcessAssumption DEF TypeOK, Own
<1>2. /\ \A n \in NumbersIn(reports, Own(p)) : /\ n \in NumbersIn(reports', Own(p))
                                              /\ reports'[<<Own(p), n>>] = reports[<<Own(p), n>>]
  BY <1>1, ReportsStay
<1>3. pc[p] \in Approving =>
        /\ report[p].outcome = "READY"
        /\ \E n \in NumbersIn(reports, Own(p)) : reports[<<Own(p), n>>] = report[p]
  BY NumbersAre DEF StoredInv
<1>4. CASE pc[p] \in Approving /\ report'[p] = report[p] /\ snap'[p] = snap[p]
  BY <1>2, <1>3, <1>4 DEF Own
<1>5. CASE Evaluate(p)
  <2>1. pc[p] = "evaluate" /\ pc'[p] = "approve"
    BY <1>5, Moves DEF Approving, Publishing
  <2>2. /\ snap' = snap /\ report'[p] = report[p] /\ report'[p].outcome = "READY"
        /\ report'[p] # None
    BY <1>5, <2>1, EvaluateMeaning
  <2>3. PICK n \in listed[p].numbers : report[p] = reports[<<Own(p), n>>]
    BY <2>1, <2>2 DEF BaselineInv, Gathering
  <2>4. n \in NumbersIn(reports, Own(p))
    BY NumbersAre DEF NumbersInv
  <2> QED  BY <1>2, <2>2, <2>3, <2>4 DEF Own
<1>6. CASE WriteReport(p)
  <2>1. pc[p] = "write" /\ pc'[p] = "approve"
    BY <1>6, Moves DEF Approving, Publishing
  <2>2. PICK n \in Numbers : reports'[<<Own(p), n>>] = report[p]
    BY <1>6, <2>1, WriteReportMeaning
  <2>3. snap' = snap /\ report'[p] = report[p] /\ report[p].outcome = "READY" /\ report'[p] # None
    BY <1>6, <2>1, WriteReportMeaning
  <2>4. n \in NumbersIn(reports', Own(p))
    BY <2>2, <2>3 DEF NumbersIn
  <2> QED  BY <2>2, <2>3, <2>4 DEF Own
<1>7. CASE ~Evaluate(p) /\ ~WriteReport(p)
  <2>1. CASE ~Step(p)
    BY <1>4, <2>1, Takes
  <2>2. CASE Step(p)
    <3>1. Approve(p) \/ \E part \in Parts : WriteArtifact(p, part)
      BY <1>7, <2>2, Moves DEF Step, Work, Approving, Publishing, Opening, Gathering
    <3>2. UNCHANGED <<snap, report>> /\ pc[p] \in Approving
      BY <3>1 DEF Approve, WriteArtifact, Parts, Approving, Publishing, judgement
    <3> QED  BY <1>4, <3>2
  <2> QED  BY <2>1, <2>2
<1> QED  BY <1>5, <1>6, <1>7

-----------------------------------------------------------------------------
(* The files of a plan.                                                    *)

\* A part is written whole, or is already what it would be.
LEMMA WriteMeansPart ==
  ASSUME TypeOK, JobsInv, PublishInv, NEW q \in Procs, NEW part \in Parts, WriteArtifact(q, part)
  PROVE  /\ pc[q] = part /\ pc[q] \in Publishing /\ PlanOf(q) \in Plans
         /\ PlanOf(q)' = PlanOf(q) /\ PlanOf(q)[1] = Own(q)
         /\ \A l \in Plans, d \in Parts :
              <<l, d>> # <<PlanOf(q), part>> => artifacts'[l][d] = artifacts[l][d]
         /\ \/ artifacts' = artifacts /\ pc'[q] = "done"
            \/ /\ artifacts'[PlanOf(q)][part] = plan[q][part]
               /\ artifacts[PlanOf(q)][part] \in {None, plan[q][part]}
<1>1. pc[q] = part /\ pc[q] \in Publishing
  BY DEF WriteArtifact, Publishing, Parts
<1>2. PlanOf(q) \in Plans /\ PlanOf(q)[1] = Own(q)
  BY <1>1, PlanTyped DEF Publishing
<1>3. UNCHANGED <<snap, job>>
  BY DEF WriteArtifact, judgement
<1>4. artifacts \in [Plans -> [Parts -> Files \cup {None}]]
  BY DEF TypeOK
<1>5. \A how : Finish(q, how) => pc'[q] = "done"
  BY DEF Finish, Goto, TypeOK
<1>6. \/ artifacts' = artifacts /\ pc'[q] = "done"
      \/ /\ artifacts' = [artifacts EXCEPT ![PlanOf(q)][part] = plan[q][part]]
         /\ artifacts[PlanOf(q)][part] \in {None, plan[q][part]}
  BY <1>5 DEF WriteArtifact, Existing
<1>7. PlanOf(q)' = PlanOf(q)
  BY <1>3 DEF PlanOf
<1> DEFINE l0 == PlanOf(q)
           v == plan[q][part]
<1>8. ASSUME artifacts' = [artifacts EXCEPT ![l0][part] = v]
      PROVE  /\ artifacts'[l0][part] = v
             /\ \A l \in Plans, d \in Parts :
                  <<l, d>> # <<l0, part>> => artifacts'[l][d] = artifacts[l][d]
  <2> HIDE DEF l0, v
  <2>1. l0 \in Plans
    BY <1>2 DEF l0
  <2> QED  BY <1>4, <1>8, <2>1
<1>9. CASE artifacts' = artifacts /\ pc'[q] = "done"
  BY <1>1, <1>2, <1>7, <1>9
<1>10. CASE /\ artifacts' = [artifacts EXCEPT ![PlanOf(q)][part] = plan[q][part]]
            /\ artifacts[PlanOf(q)][part] \in {None, plan[q][part]}
  <2>1. /\ artifacts'[PlanOf(q)][part] = plan[q][part]
        /\ \A l \in Plans, d \in Parts :
                  <<l, d>> # <<PlanOf(q), part>> => artifacts'[l][d] = artifacts[l][d]
    BY <1>8, <1>10
  <2> QED  BY <1>1, <1>2, <1>7, <1>10, <2>1
<1> QED  BY <1>6, <1>9, <1>10

\* What a file holds stays.
LEMMA ArtifactsStay ==
  ASSUME TypeOK, JobsInv, PublishInv, [Next]_vars, NEW l \in Plans, NEW d \in Parts,
         artifacts[l][d] # None
  PROVE  artifacts'[l][d] = artifacts[l][d]
<1>1. CASE artifacts' = artifacts
  BY <1>1
<1>2. CASE artifacts' # artifacts
  <2>1. PICK q \in Procs, part \in Parts : WriteArtifact(q, part)
    BY <1>2, NextCases, EnvironmentFrame, WrittenFrame
  <2>2. CASE <<l, d>> # <<PlanOf(q), part>>
    BY <2>1, <2>2, WriteMeansPart
  <2>3. CASE <<l, d>> = <<PlanOf(q), part>>
    <3>1. l = PlanOf(q) /\ d = part
      BY <2>3
    <3>2. /\ artifacts'[PlanOf(q)][part] = plan[q][part]
          /\ artifacts[PlanOf(q)][part] \in {None, plan[q][part]}
      BY <1>2, <2>1, WriteMeansPart
    <3> QED  BY <3>1, <3>2
  <2> QED  BY <2>2, <2>3
<1> QED  BY <1>1, <1>2

\* Each file holds what its name says.
LEMMA FilesInvStep ==
  ASSUME TypeOK, FilesInv, JobsInv, PublishInv, [Next]_vars
  PROVE  FilesInv'
<1>1. CASE artifacts' = artifacts
  BY <1>1 DEF FilesInv
<1>2. CASE artifacts' # artifacts
  <2>1. PICK q \in Procs, part \in Parts : WriteArtifact(q, part)
    BY <1>2, NextCases, EnvironmentFrame, WrittenFrame
  <2>2. /\ \A l \in Plans, d \in Parts :
              <<l, d>> # <<PlanOf(q), part>> => artifacts'[l][d] = artifacts[l][d]
        /\ artifacts'[PlanOf(q)][part] = plan[q][part]
        /\ pc[q] \in Publishing
    BY <1>2, <2>1, WriteMeansPart
  <2>3. plan[q] \in PlanType
    <3>1. plan[q] # None
      BY <2>2 DEF PublishInv
    <3>2. plan[q] \in PlanType \cup {None}
      BY DEF TypeOK
    <3> QED  BY <3>1, <3>2
  <2>4. /\ plan[q].declaration \in Declared /\ plan[q].manifest \in ManifestType
        /\ plan[q].coverage \in CoverageType
    BY <2>3 DEF PlanType
  <2>5. ASSUME NEW l \in Plans, NEW d \in Parts
        PROVE  artifacts'[l][d] = artifacts[l][d] \/ (d = part /\ artifacts'[l][d] = plan[q][part])
    BY <2>2
  <2>6. ASSUME NEW l \in Plans
        PROVE  /\ artifacts'[l].declaration \in Declared \cup {None}
               /\ artifacts'[l].manifest \in ManifestType \cup {None}
               /\ artifacts'[l].coverage \in CoverageType \cup {None}
    <3>1. {"declaration", "manifest", "coverage"} \subseteq Parts
      BY DEF Parts
    <3>2. /\ artifacts[l].declaration \in Declared \cup {None}
          /\ artifacts[l].manifest \in ManifestType \cup {None}
          /\ artifacts[l].coverage \in CoverageType \cup {None}
      BY DEF FilesInv
    <3>3. artifacts'[l]["declaration"] \in Declared \cup {None}
      BY <2>4, <2>5, <3>1, <3>2
    <3>4. artifacts'[l]["manifest"] \in ManifestType \cup {None}
      BY <2>4, <2>5, <3>1, <3>2
    <3>5. artifacts'[l]["coverage"] \in CoverageType \cup {None}
      BY <2>4, <2>5, <3>1, <3>2
    <3> QED  BY <3>3, <3>4, <3>5
  <2> QED  BY <2>6 DEF FilesInv
<1> QED  BY <1>1, <1>2

\* What is published follows from the sources indexed.
LEMMA PublishInvStep ==
  ASSUME TypeOK, JobsInv, ReportInv, PublishInv, [Next]_vars
  PROVE  PublishInv'
<1> SUFFICES ASSUME NEW p \in Procs, pc'[p] \in Publishing
             PROVE  /\ plan'[p] # None
                    /\ plan'[p].declaration = NodesOf[snap'[p]]
                    /\ plan'[p].manifest = [of |-> snap'[p], batch |-> ManifestOf[snap'[p]]]
                    /\ plan'[p].coverage.of = plan'[p].manifest
                    /\ plan'[p].coverage.by = report'[p].confirmation
                    /\ pc'[p] \in {"manifest", "coverage"} =>
                         artifacts'[PlanOf(p)'].declaration = plan'[p].declaration
                    /\ pc'[p] = "coverage" => artifacts'[PlanOf(p)'].manifest = plan'[p].manifest
  BY DEF PublishInv, Publishing
<1>1. pc[p] \in Publishing =>
         /\ plan[p] # None
         /\ plan[p].declaration = NodesOf[snap[p]]
         /\ plan[p].manifest = [of |-> snap[p], batch |-> ManifestOf[snap[p]]]
         /\ plan[p].coverage.of = plan[p].manifest
         /\ plan[p].coverage.by = report[p].confirmation
  BY DEF PublishInv
<1>2. /\ pc[p] \in {"manifest", "coverage"} =>
           artifacts[PlanOf(p)].declaration = plan[p].declaration
      /\ pc[p] = "coverage" => artifacts[PlanOf(p)].manifest = plan[p].manifest
  BY DEF PublishInv
<1>3. pc[p] \in Publishing =>
        /\ PlanOf(p) \in Plans
        /\ plan[p].declaration # None /\ plan[p].manifest # None
  <2>1. ASSUME pc[p] \in Publishing
        PROVE  PlanOf(p) \in Plans
    BY <2>1, PlanTyped DEF Publishing
  <2>2. ASSUME pc[p] \in Publishing
        PROVE  plan[p].declaration # None /\ plan[p].manifest # None
    <3>1. plan[p] \in PlanType
      BY <1>1, <2>2 DEF TypeOK
    <3>2. plan[p].declaration \in Declared /\ plan[p].manifest \in ManifestType
      BY <3>1 DEF PlanType
    <3> QED  BY <3>2, NoneAssumption
  <2> QED  BY <2>1, <2>2
<1>4. "declaration" \in Parts /\ "manifest" \in Parts
  BY DEF Parts
\* What was written before stays.
<1>5. /\ pc[p] \in {"manifest", "coverage"} =>
           artifacts'[PlanOf(p)].declaration = plan[p].declaration
      /\ pc[p] = "coverage" => artifacts'[PlanOf(p)].manifest = plan[p].manifest
  <2>1. ASSUME pc[p] \in {"manifest", "coverage"}
        PROVE  artifacts'[PlanOf(p)]["declaration"] = plan[p].declaration
    BY <1>2, <1>3, <1>4, <2>1, ArtifactsStay DEF Publishing
  <2>2. ASSUME pc[p] = "coverage"
        PROVE  artifacts'[PlanOf(p)]["manifest"] = plan[p].manifest
    BY <1>2, <1>3, <1>4, <2>2, ArtifactsStay DEF Publishing
  <2> QED  BY <2>1, <2>2
<1>6. CASE ~Step(p)
  <2>1. /\ pc'[p] = pc[p] /\ snap'[p] = snap[p] /\ job'[p] = job[p] /\ report'[p] = report[p]
        /\ plan'[p] = plan[p]
    BY <1>6, Takes
  <2>2. PlanOf(p)' = PlanOf(p)
    BY <2>1 DEF PlanOf
  <2> QED  BY <1>1, <1>5, <2>1, <2>2
<1>7. CASE Approve(p)
  <2>1. pc[p] = "approve" /\ pc'[p] = "declaration" /\ UNCHANGED <<snap, report>>
    BY <1>7, Moves DEF Approve, Publishing
  <2>2. Approved(p) /\ plan' = [plan EXCEPT ![p] = Projection(p)]
    BY <1>7, <2>1 DEF Approve, Finish, Goto, TypeOK
  <2>3. plan'[p] = Projection(p)
    BY <2>2 DEF TypeOK
  <2>4. /\ Projection(p) \in PlanType
        /\ Projection(p).declaration = NodesOf[snap[p]]
        /\ Projection(p).manifest = [of |-> snap[p], batch |-> ManifestOf[snap[p]]]
        /\ Projection(p).coverage.of = Projection(p).manifest
        /\ Projection(p).coverage.by = report[p].confirmation
    BY <2>1, <2>2, ProjectionTyped
  <2>5. Projection(p) # None
    BY <2>4, NoneAssumption
  <2> QED  BY <2>1, <2>3, <2>4, <2>5
<1>8. ASSUME NEW part \in Parts, WriteArtifact(p, part)
      PROVE  /\ plan'[p] # None
             /\ plan'[p].declaration = NodesOf[snap'[p]]
             /\ plan'[p].manifest = [of |-> snap'[p], batch |-> ManifestOf[snap'[p]]]
             /\ plan'[p].coverage.of = plan'[p].manifest
             /\ plan'[p].coverage.by = report'[p].confirmation
             /\ pc'[p] \in {"manifest", "coverage"} =>
                  artifacts'[PlanOf(p)'].declaration = plan'[p].declaration
             /\ pc'[p] = "coverage" => artifacts'[PlanOf(p)'].manifest = plan'[p].manifest
  <2>1. UNCHANGED <<snap, report, plan>>
    BY <1>8 DEF WriteArtifact, judgement
  <2>2. /\ pc[p] = part /\ pc[p] \in Publishing /\ PlanOf(p)' = PlanOf(p)
        /\ artifacts'[PlanOf(p)][part] = plan[p][part]
    BY <1>8, WriteMeansPart DEF Publishing
  <2>3. pc'[p] = "manifest" => part = "declaration"
    BY <1>8, <2>2, Moves DEF Parts
  <2>4. pc'[p] = "coverage" => part = "manifest"
    BY <1>8, <2>2, Moves DEF Parts
  <2>5. pc'[p] \in {"manifest", "coverage"} =>
           artifacts'[PlanOf(p)].declaration = plan[p].declaration
    BY <1>5, <2>2, <2>3, <2>4
  <2>6. pc'[p] = "coverage" => artifacts'[PlanOf(p)].manifest = plan[p].manifest
    BY <2>2, <2>4
  <2> QED  BY <1>1, <2>1, <2>2, <2>5, <2>6
<1>9. Step(p) => Approve(p) \/ \E part \in Parts : WriteArtifact(p, part)
  BY Moves DEF Step, Work, Publishing, Opening, Gathering
<1> QED  BY <1>6, <1>7, <1>8, <1>9

-----------------------------------------------------------------------------
(* What the files of a plan say.                                           *)

\* A stored report a review names stays.
LEMMA ReportedStays ==
  ASSUME TypeOK, JobsInv, NumbersInv, ReportInv, [Next]_vars, NEW l \in Plans, NEW c,
         Reported(l[1], c)
  PROVE  Reported(l[1], c)'
<1>1. l[1] \in Prefixes
  BY DEF Plans
<1>2. PICK n \in NumbersIn(reports, l[1]) :
         LET r == reports[<<l[1], n>>]
         IN  r.outcome = "READY" /\ r.fp = c.of.of /\ r.confirmation = c.by
  BY NumbersAre DEF Reported
<1>3. n \in NumbersIn(reports', l[1]) /\ reports'[<<l[1], n>>] = reports[<<l[1], n>>]
  BY <1>1, ReportsStay
<1> QED  BY <1>2, <1>3 DEF Reported, NumbersOf, NumbersIn, Numbers

\* A review says "approved" only of what a stored report found READY.
LEMMA CoverageStep ==
  ASSUME TypeOK, JobsInv, NumbersInv, ReportInv, StoredInv, PublishInv, CoverageIsReported,
         [Next]_vars
  PROVE  CoverageIsReported'
<1> SUFFICES ASSUME NEW l \in Plans, artifacts'[l].coverage # None
             PROVE  \E n \in NumbersIn(reports', l[1]) :
                      LET r == reports'[<<l[1], n>>]
                      IN  /\ r.outcome = "READY" /\ r.fp = artifacts'[l].coverage.of.of
                          /\ r.confirmation = artifacts'[l].coverage.by
  BY DEF CoverageIsReported, Reported, NumbersOf, NumbersIn, Numbers
<1>1. l[1] \in Prefixes
  BY DEF Plans
<1>2. \A n \in NumbersIn(reports, l[1]) :
         n \in NumbersIn(reports', l[1]) /\ reports'[<<l[1], n>>] = reports[<<l[1], n>>]
  BY <1>1, ReportsStay
<1>3. CASE artifacts'[l].coverage = artifacts[l].coverage
  <2>1. PICK n \in NumbersIn(reports, l[1]) :
           LET r == reports[<<l[1], n>>]
           IN  /\ r.outcome = "READY" /\ r.fp = artifacts[l].coverage.of.of
               /\ r.confirmation = artifacts[l].coverage.by
    BY <1>3, NumbersAre DEF CoverageIsReported, Reported
  <2> QED  BY <1>2, <1>3, <2>1
<1>4. CASE artifacts'[l].coverage # artifacts[l].coverage
  <2>1. PICK q \in Procs, part \in Parts : WriteArtifact(q, part)
    <3>1. artifacts' # artifacts
      BY <1>4
    <3> QED  BY <3>1, NextCases, EnvironmentFrame, WrittenFrame
  <2>2. /\ \A k \in Plans, d \in Parts :
              <<k, d>> # <<PlanOf(q), part>> => artifacts'[k][d] = artifacts[k][d]
        /\ artifacts'[PlanOf(q)][part] = plan[q][part]
        /\ pc[q] = part /\ pc[q] \in Publishing /\ PlanOf(q)[1] = Own(q)
    <3>1. artifacts' # artifacts
      BY <1>4
    <3> QED  BY <2>1, <3>1, WriteMeansPart
  <2>3. l = PlanOf(q) /\ part = "coverage"
    <3>1. "coverage" \in Parts /\ artifacts'[l]["coverage"] # artifacts[l]["coverage"]
      BY <1>4 DEF Parts
    <3>2. <<l, "coverage">> = <<PlanOf(q), part>>
      BY <2>2, <3>1
    <3> QED  BY <3>2
  <2>4. /\ artifacts'[l].coverage = plan[q].coverage /\ l[1] = Own(q)
        /\ plan[q].manifest.of = snap[q]
        /\ plan[q].coverage.of = plan[q].manifest
        /\ plan[q].coverage.by = report[q].confirmation
    <3>1. plan[q].manifest = [of |-> snap[q], batch |-> ManifestOf[snap[q]]]
      BY <2>2 DEF PublishInv
    <3>2. plan[q].coverage.of = plan[q].manifest /\ plan[q].coverage.by = report[q].confirmation
      BY <2>2 DEF PublishInv
    <3>3. plan[q].manifest.of = snap[q]
      BY <3>1
    <3>4. artifacts'[l]["coverage"] = plan[q]["coverage"] /\ l[1] = Own(q)
      BY <2>2, <2>3
    <3> QED  BY <3>2, <3>3, <3>4
  <2>5. pc[q] \in Approving
    BY <2>2 DEF Approving
  <2>6. report[q].outcome = "READY" /\ report[q].fp = snap[q]
    BY <2>5 DEF StoredInv, ReportInv
  <2>7. PICK n \in NumbersIn(reports, Own(q)) : reports[<<Own(q), n>>] = report[q]
    BY <2>5, NumbersAre DEF StoredInv
  <2> QED  BY <1>2, <2>4, <2>6, <2>7
<1> QED  BY <1>3, <1>4

\* The files of a plan belong together.
LEMMA PlansStep ==
  ASSUME TypeOK, FilesInv, JobsInv, PublishInv, PlansBelongTogether, [Next]_vars
  PROVE  PlansBelongTogether'
<1>1. ASSUME NEW l \in Plans
      PROVE  /\ artifacts'[l].coverage # None => artifacts'[l].coverage.of = artifacts'[l].manifest
             /\ artifacts'[l].manifest # None =>
                  /\ artifacts'[l].declaration = NodesOf[artifacts'[l].manifest.of]
                  /\ artifacts'[l].manifest.batch = ManifestOf[artifacts'[l].manifest.of]
  <2>1. /\ artifacts[l].coverage # None => artifacts[l].coverage.of = artifacts[l].manifest
        /\ artifacts[l].manifest # None =>
             /\ artifacts[l].declaration = NodesOf[artifacts[l].manifest.of]
             /\ artifacts[l].manifest.batch = ManifestOf[artifacts[l].manifest.of]
    BY DEF PlansBelongTogether
  \* A review is of a manifest and a manifest of sources, so that neither stands alone.
  <2>2. /\ artifacts[l].coverage # None => artifacts[l].manifest # None
        /\ artifacts[l].manifest # None => artifacts[l].declaration # None
    <3>1. /\ artifacts[l].manifest \in ManifestType \cup {None}
          /\ artifacts[l].coverage \in CoverageType \cup {None}
      BY DEF FilesInv
    <3>2. artifacts[l].coverage # None => artifacts[l].coverage.of \in ManifestType
      BY <3>1 DEF CoverageType
    <3>3. artifacts[l].manifest # None => NodesOf[artifacts[l].manifest.of] \in Declared
      BY <3>1 DEF ManifestType, Declared
    <3> QED  BY <2>1, <3>2, <3>3, NoneAssumption
  <2>3. CASE artifacts'[l] = artifacts[l]
    BY <2>1, <2>3
  <2>4. CASE artifacts'[l] # artifacts[l]
    <3>1. artifacts' # artifacts
      BY <2>4
    <3>2. PICK q \in Procs, part \in Parts : WriteArtifact(q, part)
      BY <3>1, NextCases, EnvironmentFrame, WrittenFrame
    <3>3. /\ artifacts' = [artifacts EXCEPT ![PlanOf(q)][part] = plan[q][part]]
          /\ artifacts[PlanOf(q)][part] \in {None, plan[q][part]}
      BY <3>1, <3>2 DEF WriteArtifact, Existing
    <3>4. pc[q] = part /\ pc[q] \in Publishing /\ PlanOf(q) \in Plans
      BY <3>2, WriteMeansPart
    <3>5. l = PlanOf(q)
      BY <2>4, <3>3 DEF TypeOK
    <3>6. /\ \A d \in Parts : d # part => artifacts'[l][d] = artifacts[l][d]
          /\ artifacts'[l][part] = plan[q][part]
      BY <3>1, <3>2, <3>4, <3>5, WriteMeansPart
    <3>7. artifacts[l][part] = None
      <4>1. CASE artifacts[l][part] = plan[q][part]
        <5>1. artifacts' = artifacts
          BY <3>3, <3>4, <3>5, <4>1 DEF TypeOK
        <5> QED  BY <3>1, <5>1
      <4> QED  BY <3>3, <3>5, <4>1
    <3>8. /\ plan[q].declaration = NodesOf[snap[q]]
          /\ plan[q].manifest.of = snap[q] /\ plan[q].manifest.batch = ManifestOf[snap[q]]
          /\ plan[q].coverage.of = plan[q].manifest
      <4>1. plan[q].manifest = [of |-> snap[q], batch |-> ManifestOf[snap[q]]]
        BY <3>4 DEF PublishInv
      <4>2. plan[q].declaration = NodesOf[snap[q]] /\ plan[q].coverage.of = plan[q].manifest
        BY <3>4 DEF PublishInv
      <4>3. plan[q].manifest.of = snap[q] /\ plan[q].manifest.batch = ManifestOf[snap[q]]
        BY <4>1
      <4> QED  BY <4>2, <4>3
    <3>9. /\ pc[q] \in {"manifest", "coverage"} => artifacts[l].declaration = plan[q].declaration
          /\ pc[q] = "coverage" => artifacts[l].manifest = plan[q].manifest
      BY <3>5 DEF PublishInv
    <3>10. {"declaration", "manifest", "coverage"} = Parts
      BY DEF Parts
    <3>11. CASE part = "declaration"
      <4>1. /\ artifacts'[l]["manifest"] = artifacts[l]["manifest"]
            /\ artifacts'[l]["coverage"] = artifacts[l]["coverage"]
        BY <3>6, <3>10, <3>11
      <4>2. artifacts[l].manifest = None /\ artifacts[l].coverage = None
        BY <2>2, <3>7, <3>11
      <4> QED  BY <4>1, <4>2
    <3>12. CASE part = "manifest"
      <4>1. /\ artifacts'[l]["declaration"] = artifacts[l]["declaration"]
            /\ artifacts'[l]["coverage"] = artifacts[l]["coverage"]
            /\ artifacts'[l]["manifest"] = plan[q]["manifest"]
        BY <3>6, <3>10, <3>12
      <4>2. artifacts[l].coverage = None
        BY <2>2, <3>7, <3>12
      <4> QED  BY <3>4, <3>8, <3>9, <3>12, <4>1, <4>2
    <3>13. CASE part = "coverage"
      <4>1. /\ artifacts'[l]["declaration"] = artifacts[l]["declaration"]
            /\ artifacts'[l]["coverage"] = plan[q]["coverage"]
            /\ artifacts'[l]["manifest"] = artifacts[l]["manifest"]
        BY <3>6, <3>10, <3>13
      <4> QED  BY <2>1, <3>4, <3>8, <3>9, <3>13, <4>1
    <3> QED  BY <3>10, <3>11, <3>12, <3>13
  <2> QED  BY <2>3, <2>4
<1>2. ASSUME NEW o \in observed'
      PROVE  artifacts'[o.plan].manifest # None /\ artifacts'[o.plan].manifest.of = o.manifest
  <2>1. artifacts[o.plan].manifest # None /\ artifacts[o.plan].manifest.of = o.manifest
        /\ o \in Observations
    <3>1. CASE o \in observed
      BY <3>1 DEF PlansBelongTogether, TypeOK
    <3>2. CASE o \notin observed
      <4>1. PICK q \in Procs : Observe(q)
        BY <3>2, NextCases, EnvironmentFrame, WrittenFrame
      <4>2. PICK b \in Observations : observed' = observed \/ (Bound(b) /\ observed' = observed \cup {b})
        BY <4>1 DEF Observe
      <4>3. Bound(o) /\ o \in Observations
        BY <3>2, <4>2
      <4> QED  BY <4>3 DEF Bound
    <3> QED  BY <3>1, <3>2
  <2>2. o.plan \in Plans /\ "manifest" \in Parts
    BY <2>1, FilesAssumption DEF Parts
  <2>3. artifacts'[o.plan]["manifest"] = artifacts[o.plan]["manifest"]
    BY <2>1, <2>2, ArtifactsStay
  <2> QED  BY <2>1, <2>3
<1> QED  BY <1>1, <1>2 DEF PlansBelongTogether

-----------------------------------------------------------------------------
(* The writers of the reports, and the theorems.                           *)

\* Who wrote a report still has it.
LEMMA WriterStays ==
  ASSUME TypeOK, JobsInv, NumbersInv, ReportInv, [Next]_vars,
         NEW p \in Procs, NEW x \in Prefixes, NEW n \in NumbersIn(reports, x), WroteIt(p, x, n)
  PROVE  /\ pc'[p] \in Approving \cup {"done"}
         /\ PrefixOf[snap'[p]] = x /\ report'[p] = reports'[<<x, n>>]
         /\ \A m \in listed'[p].numbers : m < n
         /\ n - 1 \in listed'[p].numbers =>
              "BASELINE_INVALID" \in reports'[<<x, n>>].found \/ reports'[<<x, n>>] # reports'[<<x, n - 1>>]
<1>1. /\ pc[p] \in Approving \cup {"done"} /\ Own(p) = x /\ report[p] = reports[<<x, n>>]
      /\ \A m \in listed[p].numbers : m < n
      /\ n - 1 \in listed[p].numbers =>
           "BASELINE_INVALID" \in reports[<<x, n>>].found \/ reports[<<x, n>>] # reports[<<x, n - 1>>]
  BY DEF WroteIt
<1>2. /\ pc'[p] \in Approving \cup {"done"} /\ snap'[p] = snap[p] /\ report'[p] = report[p]
      /\ listed'[p] = listed[p]
  <2>1. CASE ~Step(p)
    BY <1>1, <2>1, Takes
  <2>2. CASE Step(p)
    <3>1. Approve(p) \/ \E part \in Parts : WriteArtifact(p, part)
      <4>1. pc[p] \notin Opening \cup Gathering \cup {"idle", "write"}
        BY <1>1 DEF Opening, Gathering, Approving, Publishing
      <4> QED  BY <2>2, <4>1, Moves DEF Step, Work, Gathering, Opening, Observe
    <3>2. UNCHANGED <<snap, report, listed>>
      BY <3>1 DEF Approve, WriteArtifact, judgement
    <3>3. pc'[p] \in {"declaration", "manifest", "coverage", "done"}
      BY <3>1, Moves DEF Parts
    <3> QED  BY <3>2, <3>3 DEF Approving, Publishing
  <2> QED  BY <2>1, <2>2
<1>3. reports'[<<x, n>>] = reports[<<x, n>>]
  BY ReportsStay
<1>4. n - 1 \in listed[p].numbers => reports'[<<x, n - 1>>] = reports[<<x, n - 1>>]
  <2>1. listed[p].numbers \subseteq NumbersIn(reports, x)
    BY <1>1, NumbersAre DEF NumbersInv
  <2> QED  BY <2>1, ReportsStay
<1> QED  BY <1>1, <1>2, <1>3, <1>4 DEF Own

\* Who writes a report knows it to be news.
LEMMA NewWriter ==
  ASSUME TypeOK, JobsInv, NumbersInv, BaselineInv, ReportInv, NEW q \in Procs, WriteReport(q),
         reports' # reports, NEW k \in 0..MaxReports, NumbersIn(reports, Own(q)) = 1..k,
         reports' = [reports EXCEPT ![<<Own(q), k + 1>>] = report[q]], report' = report,
         <<Own(q), k + 1>> \in Prefixes \X Numbers
  PROVE  /\ pc'[q] \in Approving \cup {"done"} /\ snap'[q] = snap[q]
         /\ report'[q] = reports'[<<Own(q), k + 1>>]
         /\ \A m \in listed'[q].numbers : m < k + 1
         /\ k \in listed'[q].numbers =>
              \/ "BASELINE_INVALID" \in reports'[<<Own(q), k + 1>>].found
              \/ reports'[<<Own(q), k + 1>>] # reports'[<<Own(q), k>>]
<1>1. pc[q] = "write" /\ pc'[q] \in Approving \cup {"done"}
  BY Moves DEF Approving
<1>2. UNCHANGED <<snap, listed>>
  BY DEF WriteReport
<1>3. reports'[<<Own(q), k + 1>>] = report[q]
  BY DEF TypeOK
<1>4. PICK h \in 0..MaxReports : listed[q].numbers = 1..h /\ 1..h \subseteq 1..k
  BY NumbersAre DEF NumbersInv
<1>5. k \in Nat /\ h \in Nat
  BY BoundsAssumption
<1>6. \A m \in listed[q].numbers : m < k + 1
  BY <1>4, <1>5
<1>7. ASSUME k \in listed[q].numbers
      PROVE  \/ "BASELINE_INVALID" \in report[q].found
             \/ report[q] # reports'[<<Own(q), k>>]
  <2>1. k = h /\ h # 0
    BY <1>4, <1>5, <1>7
  <2>2. Highest(listed[q].numbers) = k /\ listed[q].numbers # {}
    BY <1>4, <1>5, <2>1, HighestOf
  <2>3. report[q].found = found[q]
    BY <1>1 DEF ReportInv
  <2>4. "BASELINE_INVALID" \in found[q] \/ report[q] # reports[<<Own(q), k>>]
    BY <1>1, <2>2 DEF BaselineInv
  <2>5. reports'[<<Own(q), k>>] = reports[<<Own(q), k>>]
    <3>1. k # k + 1 /\ k \in Numbers
      BY <1>4, <1>5, <1>7 DEF Numbers
    <3>2. <<Own(q), k>> \in Prefixes \X Numbers /\ <<Own(q), k>> # <<Own(q), k + 1>>
      BY <3>1
    <3> QED  BY <3>2 DEF TypeOK
  <2> QED  BY <2>3, <2>4, <2>5
<1> QED  BY <1>1, <1>2, <1>3, <1>6, <1>7

\* Every stored report keeps a writer of its own.
LEMMA WritersInvStep ==
  ASSUME TypeOK, JobsInv, NumbersInv, BaselineInv, ReportInv, WritersInv, [Next]_vars
  PROVE  WritersInv'
<1> DEFINE Held(R) == {s \in Prefixes \X Numbers : R[s] # None}
           Has(p, x, n) ==
             /\ pc'[p] \in Approving \cup {"done"}
             /\ PrefixOf[snap'[p]] = x /\ report'[p] = reports'[<<x, n>>]
             /\ \A m \in listed'[p].numbers : m < n
             /\ n - 1 \in listed'[p].numbers =>
                  "BASELINE_INVALID" \in reports'[<<x, n>>].found
                    \/ reports'[<<x, n>>] # reports'[<<x, n - 1>>]
<1> SUFFICES \E writer \in [Held(reports') -> Procs] :
               /\ \A s \in Held(reports') : Has(writer[s], s[1], s[2])
               /\ \A s, t \in Held(reports') : writer[s] = writer[t] => s = t
  BY DEF WritersInv, WroteIt, Stored, Own
<1>1. PICK writer \in [Held(reports) -> Procs] :
         /\ \A s \in Held(reports) : WroteIt(writer[s], s[1], s[2])
         /\ \A s, t \in Held(reports) : writer[s] = writer[t] => s = t
  BY DEF WritersInv, Stored
<1>2. ASSUME NEW s \in Held(reports)
      PROVE  Has(writer[s], s[1], s[2])
  <2>1. writer[s] \in Procs /\ s[1] \in Prefixes /\ s[2] \in NumbersIn(reports, s[1])
    <3>1. PICK x \in Prefixes, n \in Numbers : s = <<x, n>>
      OBVIOUS
    <3>2. n \in NumbersIn(reports, x)
      BY <3>1 DEF NumbersIn
    <3> QED  BY <1>1, <3>1, <3>2
  <2>2. WroteIt(writer[s], s[1], s[2])
    BY <1>1
  <2> QED  BY <2>1, <2>2, WriterStays
<1> HIDE DEF Has
<1>3. CASE reports' = reports
  <2>1. Held(reports') = Held(reports)
    BY <1>3
  <2> HIDE DEF Held
  <2> QED  BY <1>1, <1>2, <2>1
<1>4. CASE reports' # reports
  <2>1. PICK q \in Procs : WriteReport(q)
    BY <1>4, NextCases, EnvironmentFrame, WrittenFrame
  <2>2. PICK k \in 0..MaxReports :
           /\ NumbersIn(reports, Own(q)) = 1..k
           /\ reports' = [reports EXCEPT ![<<Own(q), k + 1>>] = report[q]]
           /\ report' = report /\ <<Own(q), k + 1>> \in Prefixes \X Numbers
    BY <1>4, <2>1, WriteMeaning
  <2> DEFINE new == <<Own(q), k + 1>>
             wider == [s \in Held(reports') |-> IF s = new THEN q ELSE writer[s]]
  <2>3. Has(q, new[1], new[2])
    <3>1. /\ pc'[q] \in Approving \cup {"done"} /\ snap'[q] = snap[q]
          /\ report'[q] = reports'[<<Own(q), k + 1>>]
          /\ \A m \in listed'[q].numbers : m < k + 1
          /\ k \in listed'[q].numbers =>
              \/ "BASELINE_INVALID" \in reports'[<<Own(q), k + 1>>].found
              \/ reports'[<<Own(q), k + 1>>] # reports'[<<Own(q), k>>]
      BY <1>4, <2>1, <2>2, NewWriter
    <3>2. (k + 1) - 1 = k
      BY BoundsAssumption
    <3>3. new[1] = Own(q) /\ new[2] = k + 1
      OBVIOUS
    <3> HIDE DEF new
    <3>4. k \in listed'[q].numbers <=> new[2] - 1 \in listed'[q].numbers
      BY <3>2, <3>3
    <3>5. <<new[1], new[2]>> = <<Own(q), k + 1>> /\ <<new[1], new[2] - 1>> = <<Own(q), k>>
      BY <3>2, <3>3
    <3>6. \A m \in listed'[q].numbers : m < new[2]
      BY <3>1, <3>3
    <3>7. PrefixOf[snap'[q]] = new[1]
      BY <3>1, <3>3 DEF Own
    <3> QED  BY <3>1, <3>4, <3>5, <3>6, <3>7 DEF Has
  <2>4. Held(reports') \subseteq Held(reports) \cup {new}
    <3>1. \A s \in Prefixes \X Numbers : s # new => reports'[s] = reports[s]
      BY <2>2 DEF TypeOK
    <3> QED  BY <3>1
  <2>5. \A s \in Held(reports) : writer[s] # q
    <3>1. pc[q] = "write"
      BY <2>1 DEF WriteReport
    <3>2. \A s \in Held(reports) : pc[writer[s]] \in Approving \cup {"done"}
      BY <1>1 DEF WroteIt
    <3> QED  BY <3>1, <3>2 DEF Approving, Publishing
  <2> HIDE DEF new, Held
  <2>6. wider \in [Held(reports') -> Procs]
    BY <1>1, <2>4
  <2>7. \A s \in Held(reports') : Has(wider[s], s[1], s[2])
    BY <1>2, <2>3, <2>4
  <2>8. \A s, t \in Held(reports') : wider[s] = wider[t] => s = t
    BY <1>1, <2>4, <2>5
  <2> HIDE DEF wider
  <2> QED  BY <2>6, <2>7, <2>8
<1> QED  BY <1>3, <1>4

\* Nothing is written or published at first.
LEMMA InitInvariant ==
  Init => IInv
<1> SUFFICES ASSUME Init
             PROVE  IInv
  OBVIOUS
<1>1. TypeOK
  <2>1. sources \in Fingerprints /\ head \in Fingerprints \cup {"no repository"}
    BY BatchAssumption DEF Init
  <2>2. confirmed \in [Prefixes -> Confirmations \cup {None}]
    BY DEF Init
  <2>3. /\ imported \subseteq Sheets /\ answered \subseteq Responses /\ observed \subseteq Observations
        /\ reports \in [Prefixes \X Numbers -> ReportType \cup {None}]
        /\ artifacts \in [Plans -> [Parts -> Files \cup {None}]]
    BY DEF Init, Numbers
  <2>4. /\ job \in [Procs -> AllJobs \cup {None}] /\ snap \in [Procs -> Fingerprints]
        /\ found \in [Procs -> SUBSET Codes] /\ applies \in [Procs -> Confirmations \cup {None}]
        /\ report \in [Procs -> ReportType \cup {None}] /\ plan \in [Procs -> PlanType \cup {None}]
    BY <2>1 DEF Init
  <2>5. pc \in [Procs -> Points] /\ result \in [Procs -> Results]
    BY DEF Init, Points, Results
  <2>6. listed \in [Procs -> [numbers : SUBSET Numbers, sheets : SUBSET Sheets,
                          responses : SUBSET Responses, confirmations : SUBSET Prefixes]]
    BY DEF Init, Nothing
  <2>7. faults \in 0..MaxFaults /\ edits \in 0..MaxEdits
    BY BoundsAssumption DEF Init
  <2> QED  BY <2>1, <2>2, <2>3, <2>4, <2>5, <2>6, <2>7 DEF TypeOK
<1>2. \A l \in Plans : /\ artifacts[l].declaration = None /\ artifacts[l].manifest = None
                       /\ artifacts[l].coverage = None
  BY DEF Init, Parts
<1>3. FilesInv /\ CoverageIsReported /\ PlansBelongTogether
  BY <1>2 DEF FilesInv, CoverageIsReported, PlansBelongTogether, Init
<1>4. \A p \in Procs : /\ pc[p] = "idle" /\ report[p] = None /\ listed[p].numbers = {}
  BY DEF Init, Nothing
<1>5. JobsInv /\ ReportInv /\ StoredInv /\ PublishInv
  BY <1>4 DEF JobsInv, ReportInv, StoredInv, PublishInv, Approving, Publishing
<1>6. BaselineInv
  BY <1>4 DEF BaselineInv, Gathering
<1>7. \A s \in Prefixes \X Numbers : reports[s] = None
  BY DEF Init, Numbers
<1>8. NumbersInv
  <2>1. \A x \in Prefixes : NumbersIn(reports, x) = {}
    BY <1>7 DEF NumbersIn
  <2>2. 0 \in 0..MaxReports /\ 1..0 = {}
    BY BoundsAssumption
  <2>3. \A x \in Prefixes : \E k \in 0..MaxReports : NumbersOf(x) = 1..k
    BY <2>1, <2>2, NumbersAre
  <2>4. \A p \in Procs : listed[p].numbers = 1..0 /\ 1..0 \subseteq NumbersOf(Own(p))
    BY <1>4, <2>2
  <2> QED  BY <2>2, <2>3, <2>4 DEF NumbersInv
<1>9. WritersInv
  <2>1. Stored = {}
    BY <1>7 DEF Stored
  <2>2. [s \in {} |-> None] \in [Stored -> Procs]
    BY <2>1
  <2> QED  BY <2>1, <2>2 DEF WritersInv
<1> QED  BY <1>1, <1>3, <1>5, <1>6, <1>8, <1>9 DEF IInv

\* Every step preserves the invariant.
LEMMA StepInvariant ==
  IInv /\ [Next]_vars => IInv'
<1> SUFFICES ASSUME IInv, [Next]_vars
             PROVE  IInv'
  OBVIOUS
<1>1. /\ TypeOK /\ FilesInv /\ JobsInv /\ NumbersInv /\ BaselineInv /\ ReportInv /\ StoredInv
      /\ PublishInv /\ WritersInv /\ CoverageIsReported /\ PlansBelongTogether
  BY DEF IInv
<1>2. TypeOK' /\ FilesInv' /\ JobsInv'
  BY <1>1, TypeOKStep, FilesInvStep, JobsInvStep
<1>3. NumbersInv' /\ BaselineInv' /\ ReportInv' /\ StoredInv'
  BY <1>1, NumbersInvStep, BaselineInvStep, ReportInvStep, StoredInvStep
<1>4. PublishInv' /\ WritersInv'
  BY <1>1, PublishInvStep, WritersInvStep
<1>5. CoverageIsReported' /\ PlansBelongTogether'
  BY <1>1, CoverageStep, PlansStep
<1> QED  BY <1>2, <1>3, <1>4, <1>5 DEF IInv

\* A repeated report has two writers neither of which had listed either of the two.
LEMMA NewsFollows ==
  IInv => ReportsAreNews
<1> SUFFICES ASSUME IInv, NEW x \in Prefixes, NEW n \in NumbersOf(x),
                    n > 1, reports[<<x, n>>] = reports[<<x, n - 1>>],
                    "BASELINE_INVALID" \notin reports[<<x, n>>].found
             PROVE  \E p, q \in Procs :
                      /\ p # q
                      /\ \A w \in {p, q} : /\ report[w] = reports[<<x, n>>]
                                          /\ {n - 1, n} \cap listed[w].numbers = {}
  BY DEF ReportsAreNews
<1>1. PICK k \in 0..MaxReports : NumbersOf(x) = 1..k
  BY DEF IInv, NumbersInv
<1>2. n - 1 \in NumbersOf(x) /\ n \in Nat
  BY <1>1, BoundsAssumption
<1> DEFINE s == <<x, n>>
           t == <<x, n - 1>>
<1>3. s \in Stored /\ t \in Stored /\ s # t
  <2>1. n \in Numbers /\ n - 1 \in Numbers /\ n # n - 1
    BY <1>2 DEF NumbersOf, Numbers
  <2>2. reports[<<x, n>>] # None /\ reports[<<x, n - 1>>] # None
    BY <1>2 DEF NumbersOf
  <2> QED  BY <2>1, <2>2 DEF Stored
<1>4. PICK writer \in [Stored -> Procs] :
         /\ \A u \in Stored : WroteIt(writer[u], u[1], u[2])
         /\ \A u, v \in Stored : writer[u] = writer[v] => u = v
  BY DEF IInv, WritersInv
<1>5. WroteIt(writer[s], x, n) /\ WroteIt(writer[t], x, n - 1)
  <2>1. s[1] = x /\ s[2] = n /\ t[1] = x /\ t[2] = n - 1
    OBVIOUS
  <2>2. WroteIt(writer[s], s[1], s[2]) /\ WroteIt(writer[t], t[1], t[2])
    BY <1>3, <1>4
  <2> QED  BY <2>1, <2>2
<1>6. writer[s] \in Procs /\ writer[t] \in Procs /\ writer[s] # writer[t]
  BY <1>3, <1>4
<1> HIDE DEF s, t
<1>7. /\ report[writer[s]] = reports[<<x, n>>] /\ report[writer[t]] = reports[<<x, n>>]
      /\ \A m \in listed[writer[s]].numbers : m < n
      /\ n - 1 \notin listed[writer[s]].numbers
      /\ \A m \in listed[writer[t]].numbers : m < n - 1
  BY <1>5 DEF WroteIt
<1>8. /\ {n - 1, n} \cap listed[writer[s]].numbers = {}
      /\ {n - 1, n} \cap listed[writer[t]].numbers = {}
  BY <1>2, <1>7
<1> QED  BY <1>6, <1>7, <1>8

\* The invariant holds of every reachable state.
THEOREM GoalPlanInvariance == Spec => []IInv
<1>1. Init => IInv
  BY InitInvariant
<1>2. IInv /\ [Next]_vars => IInv'
  BY StepInvariant
<1> QED  BY <1>1, <1>2, PTL DEF Spec

\* A Coverage Review says "approved" only of a manifest that a stored report found
\* REVIEW_READY, with the confirmation that report names.
THEOREM CoverageIsReportedAlways == Spec => []CoverageIsReported
<1>1. IInv => CoverageIsReported
  BY DEF IInv
<1> QED  BY <1>1, GoalPlanInvariance, PTL

\* The files of a plan belong together, whoever wrote them and whatever failed.
THEOREM PlansBelongTogetherAlways == Spec => []PlansBelongTogether
<1>1. IInv => PlansBelongTogether
  BY DEF IInv
<1> QED  BY <1>1, GoalPlanInvariance, PTL

\* A report repeats the one before it only if it could not read it or neither of their
\* writers had listed either.
THEOREM ReportsAreNewsAlways == Spec => []ReportsAreNews
<1> QED  BY NewsFollows, GoalPlanInvariance, PTL
=============================================================================
