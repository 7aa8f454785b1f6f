------------------------------- MODULE GoalPlan -------------------------------
(***************************************************************************)
(* `review preflight`, `review goal-plan` and `review observe`              *)
(* (packages/cli/src/review-preflight.ts, review-goal-plan.ts,              *)
(* review-observe.ts).                                                      *)
(*                                                                         *)
(* A process is one execution of one of them.  It reads the sources, the      *)
(* records, the confirmation, the Stories and the semantic report one after   *)
(* the other while other processes do the same and people edit, answer,       *)
(* confirm and commit.  A fingerprint stands for the sources that have it;     *)
(* an execution that is killed is one that takes no further step.             *)
(*                                                                         *)
(* createNewRecord, whose steps ReviewRecords has one by one, is one step     *)
(* here: records are whole from the moment they are linked, and no name it    *)
(* has found taken becomes free.  Operators marked "mistaken" are as in       *)
(* InitPlan.                                                                *)
(***************************************************************************)
EXTENDS PreflightRules

CONSTANTS
  Procs,          \* executions of a command
  Jobs,           \* process |-> the commands it may be an execution of
  None,           \* where there is nothing
  PrefixOf,       \* fingerprint |-> its first 12 digits
  Diagnostics,    \* fingerprint |-> what `review index` and the Sidecars show
  StoryIssues,    \* fingerprint |-> what `story check --ready` says
  WithSidecars,   \* fingerprints of batches all of whose Stories have a Sidecar
  ManifestOf,     \* fingerprint |-> the bytes of batch.json
  NodesOf,        \* fingerprint |-> the Story ids and their dependencies
  Sheets,         \* revision sheets that may be imported
  Responses,      \* responses that may be stored
  Confirmations,  \* confirmations people may give: [fp, deferred, bytes]
  Starts,         \* what the sources may be to begin with
  Heads,          \* what may be committed to begin with
  Semantics,      \* what the file of the semantic report may hold: [fp, says] or None
  Observations,   \* what may be observed: [plan, manifest]
  MaxAttempts,    \* bound: the names tried for a report (16 in the code)
  MaxReports,     \* bound: the numbers of reports
  FaultKinds,     \* the operations that may fail
  MaxFaults,      \* bound: failing operations
  MaxEdits        \* bound: things other people and commands do

AllFaults == {"index", "git", "list", "read", "semantic path", "record", "records path",
              "directory", "directory path", "artifact", "artifact path"}

Commands == {"preflight", "goal-plan", "observe"}
Parts    == {"declaration", "manifest", "coverage"}

\* A command with its --expect-fingerprint, --expect-revision and --attempt.
JobType == [command : Commands, fp : Fingerprints \cup {None},
            rev : Fingerprints \cup {None}, attempt : Nat]

AllJobs  == UNION {Jobs[p] : p \in Procs}
Plans    == Prefixes \X {j.attempt : j \in AllJobs}

ASSUME ProcessAssumption ==
  /\ Jobs \in [Procs -> SUBSET JobType]
  /\ PrefixOf \in [Fingerprints -> Prefixes]
  /\ \A j \in AllJobs : j.command # "preflight" => {j.fp, j.rev} = {None}
ASSUME BatchAssumption ==
  /\ Diagnostics \in [Fingerprints -> SUBSET Codes]
  /\ StoryIssues \in [Fingerprints -> SUBSET StoryCodes]
  /\ WithSidecars \subseteq Fingerprints
  /\ Starts \subseteq Fingerprints
  /\ Heads \subseteq Fingerprints \cup {"no repository"}
ASSUME BoundsAssumption ==
  /\ {MaxAttempts, MaxReports} \subseteq Nat \ {0}
  /\ {MaxFaults, MaxEdits} \subseteq Nat
  /\ FaultKinds \subseteq AllFaults
ASSUME FilesAssumption ==
  /\ Semantics \subseteq [fp : Fingerprints, says : SUBSET Codes] \cup {None}
  /\ Observations \subseteq [plan : Plans, manifest : Fingerprints]

\* The contents of the files written: a report, a manifest, a Coverage Review.
Marks        == Fingerprints \cup {None}
ReportType   == [fp : Fingerprints, outcome : PreflightOutcomes, found : SUBSET Codes,
                 confirmation : Confirmations \cup {None}, expect : Marks \X Marks]
Declared     == {NodesOf[f] : f \in Fingerprints}
ManifestType == [of : Fingerprints, batch : {ManifestOf[f] : f \in Fingerprints}]
CoverageType == [of : ManifestType, by : Confirmations, at : Confirmations \cup {None}]
PlanType     == [declaration : Declared, manifest : ManifestType, coverage : CoverageType]

ASSUME NoneAssumption ==
  None \notin Fingerprints \cup Confirmations \cup AllJobs \cup ReportType
              \cup Declared \cup ManifestType \cup CoverageType \cup PlanType

VARIABLES
  sources,    \* the fingerprint of the sources as they are
  head,       \* the sources as the last commit has them
  imported,   \* the revision sheets in records/
  answered,   \* the responses in records/
  confirmed,  \* prefix |-> the confirmation in records/
  reports,    \* prefix, number |-> the preflight report in records/
  artifacts,  \* plan |-> part |-> what the file holds
  observed,   \* the observations in records/
  job,        \* process |-> the command it executes
  pc,         \* process |-> what it does next
  snap,       \* process |-> the fingerprint it indexed
  found,      \* process |-> the codes found so far
  listed,     \* process |-> what it has listed in records/
  applies,    \* process |-> the confirmation it goes by
  report,     \* process |-> the report it compares with, then its own
  plan,       \* process |-> what the files of its plan will hold
  result,     \* process |-> how it ends
  faults, edits

world     == <<sources, head>>
records   == <<imported, answered, confirmed>>
written   == <<reports, artifacts, observed>>
judgement == <<job, snap, found, listed, applies, report, plan>>
bounds    == <<faults, edits>>
vars == <<world, records, written, pc, judgement, result, bounds>>

-----------------------------------------------------------------------------
\* What a preflight report says, but for the time it was made at.
Report(p, confirmation, codes) ==
  [fp |-> snap[p], outcome |-> Outcome(codes), found |-> codes,
   confirmation |-> confirmation, expect |-> <<job[p].fp, job[p].rev>>]

PlanOf(p) == <<PrefixOf[snap[p]], job[p].attempt>>

NumbersOf(x) == {n \in 1..MaxReports : reports[<<x, n>>] # None}
Highest(N)   == IF N = {} THEN 0 ELSE CHOOSE n \in N : \A m \in N : m <= n

Points == {"idle", "git", "status", "records", "confirmation", "stories",
           "semantic", "evaluate", "write", "approve", "declaration",
           "manifest", "coverage", "done"}
Results == {"none", "refused", "error", "unsafe", "judged", "conflict", "published",
            "observed"}

Nothing == [numbers |-> {}, sheets |-> {}, responses |-> {}, confirmations |-> {}]

\* What `review confirm` records: nothing unresolved blocks, and everything
\* else unresolved is deferred.
Grantable(c, S, A) ==
  LET open == Unresolved(RevisionsIn(S), A, c.fp)
  IN  (\A r \in open : ~r.blocking) /\ c.deferred = IdsOf(open)

Init ==
  /\ sources \in Starts
  /\ head \in Heads
  /\ imported \in SUBSET Sheets
  /\ answered  = {}
  /\ \E c \in Confirmations \cup {None} :
       /\ c # None => Grantable(c, imported, {})
       /\ confirmed = [x \in Prefixes |->
                         IF c # None /\ x = PrefixOf[c.fp] THEN c ELSE None]
  /\ reports   = [r \in Prefixes \X (1..MaxReports) |-> None]
  /\ artifacts = [l \in Plans |-> [d \in Parts |-> None]]
  /\ observed  = {}
  /\ job     = [p \in Procs |-> None]
  /\ pc      = [p \in Procs |-> "idle"]
  /\ snap    = [p \in Procs |-> sources]
  /\ found   = [p \in Procs |-> {}]
  /\ listed  = [p \in Procs |-> Nothing]
  /\ applies = [p \in Procs |-> None]
  /\ report  = [p \in Procs |-> None]
  /\ plan    = [p \in Procs |-> None]
  /\ result  = [p \in Procs |-> "none"]
  /\ faults = 0 /\ edits = 0

Goto(p, point) == pc' = [pc EXCEPT ![p] = point]
Finish(p, how) == Goto(p, "done") /\ result' = [result EXCEPT ![p] = how]
Find(p, codes) == found' = [found EXCEPT ![p] = @ \cup codes]

Fault(k) ==
  /\ k \in FaultKinds
  /\ faults < MaxFaults
  /\ faults' = faults + 1
  /\ UNCHANGED edits

-----------------------------------------------------------------------------
(* gatherReviewPreflightEvaluation                                          *)

\* The sources are indexed.  What the index and the Sidecars show is settled
\* from here on, for `review goal-plan` also that a Sidecar is missing.
Start(p) ==
  /\ pc[p] = "idle"
  /\ \E j \in Jobs[p] :
       /\ j.command # "observe"
       /\ job' = [job EXCEPT ![p] = j]
       /\ snap' = [snap EXCEPT ![p] = sources]
       /\ \/ /\ Find(p, Diagnostics[sources]
                     \cup If(j.command = "goal-plan" /\ sources \notin WithSidecars,
                             {"READINESS_MISSING"})
                     \cup If(j.fp \notin {None, sources}, {"PACKET_FINGERPRINT_MISMATCH"}))
             /\ Goto(p, IF j.rev # None THEN "git" ELSE "records")
             /\ UNCHANGED <<result, bounds>>
          \/ Fault("index") /\ Finish(p, "refused") /\ UNCHANGED found
  /\ UNCHANGED <<world, records, written, listed, applies, report, plan>>

\* git is asked for the commit, and then for the changes since whatever the
\* commit is by now.
ReadHead(p) ==
  /\ pc[p] = "git"
  /\ \/ /\ Find(p, HeadFindings(head, job[p].rev))
        /\ Goto(p, IF head = "no repository" THEN "records" ELSE "status")
        /\ UNCHANGED <<result, bounds>>
     \/ /\ Fault("git")
        /\ Finish(p, "error")
        /\ UNCHANGED found
  /\ UNCHANGED <<world, records, written, job, snap, listed, applies, report, plan>>

ReadStatus(p) ==
  /\ pc[p] = "status"
  /\ \/ /\ Find(p, If(head # sources, {"SOURCES_UNCOMMITTED"}))
        /\ Goto(p, "records")
        /\ UNCHANGED <<result, bounds>>
     \/ /\ Fault("git")
        /\ Finish(p, "error")
        /\ UNCHANGED found
  /\ UNCHANGED <<world, records, written, job, snap, listed, applies, report, plan>>

\* The report to compare with is the highest listed.
Baseline(p, N) ==
  IF N = {} THEN None ELSE reports[<<PrefixOf[snap[p]], Highest(N)>>]

\* The names in records/ are listed once, and the baseline and the revision
\* and response records read.  Nothing listed changes afterwards, so this is
\* one step.  A record that cannot be read is as if it were not there.
ReadListed(p, N, S, A, baseline, lost) ==
  /\ listed' = [listed EXCEPT ![p] =
        [numbers |-> N, sheets |-> S, responses |-> A,
         confirmations |-> {x \in Prefixes : confirmed[x] # None}]]
  /\ report' = [report EXCEPT ![p] = baseline]
  /\ Find(p, lost \cup RecordFindings(S, A, snap[p]))

ReadRecords(p) ==
  LET N == NumbersOf(PrefixOf[snap[p]])
  IN  /\ pc[p] = "records"
      /\ Goto(p, "confirmation")
      /\ \/ /\ ReadListed(p, N, imported, answered, Baseline(p, N), {})
            /\ UNCHANGED bounds
         \/ /\ Fault("read")
            /\ \/ \E s \in imported :
                    ReadListed(p, N, imported \ {s}, answered, Baseline(p, N), {"RECORD_INVALID"})
               \/ \E r \in answered :
                    ReadListed(p, N, imported, answered \ {r}, Baseline(p, N), {"RECORD_INVALID"})
               \/ N # {} /\ ReadListed(p, N, imported, answered, None, {"BASELINE_INVALID"})
         \/ /\ Fault("list")
            /\ Find(p, {"RECORD_INVALID"})
            /\ UNCHANGED <<listed, report>>
      /\ UNCHANGED <<world, records, written, job, snap, applies, plan, result>>

\* The listed confirmations are read: one for these sources applies, else any
\* other makes them stale.  One that is gone by now is invalid.
Confirming(p) == {confirmed[x] : x \in listed[p].confirmations} \ {None}

ReadConfirmation(p) ==
  LET valid == Confirming(p)
      mine  == {c \in valid : c.fp = snap[p]}
      lost  == If(\E x \in listed[p].confirmations : confirmed[x] = None,
                  {"RECORD_INVALID"})
      R     == RevisionsIn(listed[p].sheets)
      Requests(deferred) ==
        UnresolvedFindings(R, listed[p].responses, snap[p], deferred)
  IN  /\ pc[p] = "confirmation"
      /\ Goto(p, "stories")
      /\ \/ \E c \in mine :
              /\ applies' = [applies EXCEPT ![p] = c]
              /\ Find(p, lost \cup Requests(c.deferred))
         \/ /\ mine = {}
            /\ UNCHANGED applies
            /\ Find(p, lost \cup Requests({})
                 \cup {IF valid = {} THEN "CONFIRMATION_MISSING" ELSE "CONFIRMATION_STALE"})
      /\ UNCHANGED <<world, records, written, job, snap, listed, report, plan, result, bounds>>

\* Each Story is read again, as it is now.
CheckStories(p) ==
  /\ pc[p] = "stories"
  /\ Find(p, StoryIssues[sources])
  /\ Goto(p, "semantic")
  /\ UNCHANGED <<world, records, written, job, snap, listed, applies, report, plan, result, bounds>>

SemanticFindings(s, fp) ==
  CASE s = None              -> {"SEMANTIC_MISSING"}
    [] s # None /\ s.fp # fp -> {"SEMANTIC_STALE"}
    [] s # None /\ s.fp = fp -> s.says

\* The semantic report is a file of the caller's choice: what it holds when it
\* is read, and whether it is there at all, is open.
ReadSemantic(p) ==
  /\ pc[p] = "semantic"
  /\ \/ /\ \E s \in Semantics : Find(p, SemanticFindings(s, snap[p]))
        /\ Goto(p, "evaluate")
        /\ UNCHANGED <<result, bounds>>
     \/ /\ Fault("semantic path")
        /\ Finish(p, "unsafe")
        /\ UNCHANGED found
  /\ UNCHANGED <<world, records, written, job, snap, listed, applies, report, plan>>

\* The outcome is known and in a report: `review goal-plan` goes on if it is
\* REVIEW_READY.
Judged(p, outcome) ==
  IF job[p].command = "goal-plan" /\ outcome = "READY"
  THEN Goto(p, "approve") /\ UNCHANGED result
  ELSE Finish(p, "judged")

\* mistaken: the time is compared as well
EvaluateWithTime(p) ==
  LET now == IF applies[p] = None THEN None ELSE confirmed[PrefixOf[snap[p]]]
  IN  /\ pc[p] = "evaluate"
      /\ report' = [report EXCEPT ![p] = Report(p, now, found[p])]
      /\ Goto(p, "write")
      /\ UNCHANGED <<world, records, written, job, snap, found, listed, applies, plan,
                     result, bounds>>

\* The report is made.  The confirmation that applies is read once more for
\* its hash; where it is gone, the report names none.  A report that says the
\* same as the one compared with is not written.
Evaluate(p) ==
  LET now == IF applies[p] = None THEN None ELSE confirmed[PrefixOf[snap[p]]]
      new == Report(p, now, found[p])
  IN  /\ pc[p] = "evaluate"
      /\ report' = [report EXCEPT ![p] = new]
      /\ IF new = report[p] THEN Judged(p, new.outcome)
         ELSE Goto(p, "write") /\ UNCHANGED result
      /\ UNCHANGED <<world, records, written, job, snap, found, listed, applies, plan, bounds>>

\* The numbers tried, from the one after the highest listed.
Tried(p) == LET h == Highest(listed[p].numbers) IN (h + 1)..(h + MaxAttempts)

Unwritten(p) ==
  LET worse == Report(p, report[p].confirmation, found[p] \cup {"RECORD_WRITE_FAILED"})
  IN  report' = [report EXCEPT ![p] = worse] /\ Judged(p, worse.outcome)

WriteReport(p) ==
  LET x    == PrefixOf[snap[p]]
      free == Tried(p) \ NumbersOf(x)
  IN  /\ pc[p] = "write"
      /\ \/ \E n \in free \cap 1..MaxReports :
              /\ \A m \in free : n <= m
              /\ reports' = [reports EXCEPT ![<<x, n>>] = report[p]]
              /\ Judged(p, report[p].outcome)
              /\ UNCHANGED <<report, bounds>>
         \/ /\ IF free = {} THEN UNCHANGED bounds ELSE Fault("record")
            /\ Unwritten(p)
            /\ UNCHANGED reports
         \/ /\ Fault("records path")
            /\ Finish(p, "unsafe")
            /\ UNCHANGED <<reports, report>>
      /\ UNCHANGED <<world, records, artifacts, observed, job, snap, found, listed, applies, plan>>

-----------------------------------------------------------------------------
(* runReviewGoalPlan after REVIEW_READY                                     *)

\* mistaken: what is read again is not compared with what was judged
ApprovedAnyway(p) == confirmed[PrefixOf[snap[p]]] # None

\* The confirmation and batch.json are read again and have to be the ones
\* the report is about.
Approved(p) ==
  /\ report[p].confirmation # None
  /\ confirmed[PrefixOf[snap[p]]] = report[p].confirmation
  /\ ManifestOf[sources] = ManifestOf[snap[p]]

\* What the three files will hold.  The review is of the manifest, by the
\* confirmation as it is now, at the time of the one read before.
Projection(p) ==
  LET manifest == [of |-> snap[p], batch |-> ManifestOf[sources]]
  IN  [declaration |-> NodesOf[snap[p]],
       manifest    |-> manifest,
       coverage    |-> [of |-> manifest, by |-> confirmed[PrefixOf[snap[p]]],
                        at |-> applies[p]]]

Approve(p) ==
  /\ pc[p] = "approve"
  /\ \/ /\ Approved(p)
        /\ plan' = [plan EXCEPT ![p] = Projection(p)]
        /\ Goto(p, "declaration")
        /\ UNCHANGED <<result, bounds>>
     \/ /\ ~Approved(p)
        /\ Finish(p, "error")
        /\ UNCHANGED <<plan, bounds>>
     \/ \* the directory of the plan
        /\ Approved(p)
        /\ \/ Fault("directory") /\ Finish(p, "error")
           \/ Fault("directory path") /\ Finish(p, "unsafe")
        /\ UNCHANGED plan
  /\ UNCHANGED <<world, records, written, job, snap, found, listed, applies, report>>

Continue(p, part) ==
  CASE part = "declaration" -> Goto(p, "manifest") /\ UNCHANGED result
    [] part = "manifest"    -> Goto(p, "coverage") /\ UNCHANGED result
    [] part = "coverage"    -> Finish(p, "published")

Existing(p, part) == artifacts[PlanOf(p)][part]

\* A file is created whole or, where one is there, has to be the same.  The
\* first that cannot be written ends the execution; those written stay.
WriteArtifact(p, part) ==
  /\ pc[p] = part
  /\ \/ /\ Existing(p, part) \in {None, plan[p][part]}
        /\ artifacts' = [artifacts EXCEPT ![PlanOf(p)][part] = plan[p][part]]
        /\ Continue(p, part)
        /\ UNCHANGED bounds
     \/ /\ Existing(p, part) \notin {None, plan[p][part]}
        /\ Finish(p, "conflict")
        /\ UNCHANGED <<artifacts, bounds>>
     \/ /\ \/ Fault("artifact") /\ Finish(p, "error")
           \/ Fault("artifact path") /\ Finish(p, "unsafe")
        /\ UNCHANGED artifacts
  /\ UNCHANGED <<world, records, reports, observed, judgement>>

-----------------------------------------------------------------------------
(* runReviewObserve                                                         *)

\* mistaken: any manifest in that place will do
BoundLoosely(o) == artifacts[o.plan].manifest # None

\* The manifest the observation names is read and has to be the one it says.
Bound(o) ==
  /\ artifacts[o.plan].manifest # None
  /\ artifacts[o.plan].manifest.of = o.manifest

\* The batch is indexed only for its id.  Nothing that the check reads is ever
\* replaced, so that reading, checking and writing are one step.
Observe(p) ==
  /\ pc[p] = "idle"
  /\ \E j \in Jobs[p] : j.command = "observe" /\ job' = [job EXCEPT ![p] = j]
  /\ \E o \in Observations :
       \/ /\ Bound(o)
          /\ observed' = observed \cup {o}
          /\ Finish(p, "observed")
          /\ UNCHANGED bounds
       \/ /\ \/ ~Bound(o) /\ UNCHANGED bounds
             \/ Fault("index")
          /\ Finish(p, "refused")
          /\ UNCHANGED observed
       \/ /\ Bound(o)
          /\ \/ Fault("record") /\ Finish(p, "error")
             \/ Fault("records path") /\ Finish(p, "unsafe")
          /\ UNCHANGED observed
  /\ UNCHANGED <<world, records, reports, artifacts, snap, found, listed, applies, report, plan>>

-----------------------------------------------------------------------------
(* What others do meanwhile.                                                *)

Others ==
  /\ edits < MaxEdits
  /\ edits' = edits + 1
  /\ UNCHANGED <<written, pc, judgement, result, faults>>

EditSources ==
  /\ Others
  /\ \E f \in Fingerprints \ {sources} : sources' = f
  /\ UNCHANGED <<head, records>>

Commit ==
  /\ Others
  /\ head \notin {"no repository", sources}
  /\ head' = sources
  /\ UNCHANGED <<sources, records>>

Import ==
  /\ Others
  /\ \E s \in Sheets \ imported : imported' = imported \cup {s}
  /\ UNCHANGED <<world, answered, confirmed>>

Answer ==
  /\ Others
  /\ \E r \in Responses \ answered :
       /\ r.sheets \subseteq imported /\ r.to = sources
       /\ answered' = answered \cup {r}
  /\ UNCHANGED <<world, imported, confirmed>>

\* Somebody confirms, or removes a confirmation and may confirm again.
Confirm ==
  /\ Others
  /\ \E x \in Prefixes, c \in Confirmations \cup {None} :
       /\ c # None => c.fp = sources /\ PrefixOf[c.fp] = x /\ Grantable(c, imported, answered)
       /\ confirmed[x] # c
       /\ confirmed' = [confirmed EXCEPT ![x] = c]
  /\ UNCHANGED <<world, imported, answered>>

Work(p) ==
  \/ ReadHead(p) \/ ReadStatus(p) \/ ReadRecords(p)
  \/ ReadConfirmation(p) \/ CheckStories(p) \/ ReadSemantic(p)
  \/ Evaluate(p) \/ WriteReport(p)
  \/ Approve(p) \/ \E part \in Parts : WriteArtifact(p, part)

Next ==
  \/ \E p \in Procs : Start(p) \/ Observe(p) \/ Work(p)
  \/ EditSources \/ Commit
  \/ Import \/ Answer \/ Confirm

Spec == Init /\ [][Next]_vars

-----------------------------------------------------------------------------

\* A Coverage Review says "approved" only of a manifest that a stored report
\* found REVIEW_READY, and names the confirmation that report names, whatever
\* was confirmed or edited again in between (review-goal-plan.ts:448).
Reported(x, c) ==
  \E n \in NumbersOf(x) :
    LET r == reports[<<x, n>>]
    IN  r.outcome = "READY" /\ r.fp = c.of.of /\ r.confirmation = c.by

CoverageIsReported ==
  \A l \in Plans :
    LET c == artifacts[l].coverage IN c # None => Reported(l[1], c)

\* The files of a plan belong together: a review is of the manifest beside it,
\* a manifest has the nodes of the declaration beside it and the batch.json
\* of its own sources, and an observed plan is the one on disk; although two
\* executions may write into one directory and any of them may fail half way.
PlansBelongTogether ==
  /\ \A l \in Plans :
       LET set == artifacts[l]
       IN  /\ set.coverage # None => set.coverage.of = set.manifest
           /\ set.manifest # None => /\ set.declaration = NodesOf[set.manifest.of]
                                   /\ set.manifest.batch = ManifestOf[set.manifest.of]
  /\ \A o \in observed :
       artifacts[o.plan].manifest # None /\ artifacts[o.plan].manifest.of = o.manifest

\* A report is written only if it says something the one before it does not,
\* unless it says that the one before could not be read, or the two were made
\* at the same time, neither of the two executions having listed either of them
\* (review-preflight.ts:869).
ReportsAreNews ==
  \A x \in Prefixes : \A n \in NumbersOf(x) :
    n > 1 /\ reports[<<x, n>>] = reports[<<x, n - 1>>] =>
      \/ "BASELINE_INVALID" \in reports[<<x, n>>].found
      \/ \E p, q \in Procs :
           /\ p # q
           /\ \A w \in {p, q} : /\ report[w] = reports[<<x, n>>]
                               /\ {n - 1, n} \cap listed[w].numbers = {}

=============================================================================
