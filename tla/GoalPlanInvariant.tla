--------------------------- MODULE GoalPlanInvariant ---------------------------
(***************************************************************************)
(* The inductive invariant of GoalPlan: the numbers of the reports have no    *)
(* gaps, an execution knows a stretch of them, what it compares with and      *)
(* makes of it is stored or about to be, and every stored report has its own  *)
(* writer.                                                                  *)
(***************************************************************************)
EXTENDS GoalPlan

\* The points before, while and after a report is made.
Opening   == {"idle", "git", "status", "records"}
Gathering == {"confirmation", "stories", "semantic", "evaluate"}
Publishing == {"declaration", "manifest", "coverage"}
Approving == {"approve"} \cup Publishing

Numbers  == 1..MaxReports
Files    == Declared \cup ManifestType \cup CoverageType

\* The prefix of the reports a process is concerned with.
Own(p) == PrefixOf[snap[p]]

\* The types of the variables.
TypeOK ==
  /\ sources \in Fingerprints /\ head \in Fingerprints \cup {"no repository"}
  /\ imported \subseteq Sheets /\ answered \subseteq Responses
  /\ confirmed \in [Prefixes -> Confirmations \cup {None}]
  /\ reports \in [Prefixes \X Numbers -> ReportType \cup {None}]
  /\ artifacts \in [Plans -> [Parts -> Files \cup {None}]]
  /\ observed \subseteq Observations
  /\ job \in [Procs -> AllJobs \cup {None}]
  /\ pc \in [Procs -> Points]
  /\ snap \in [Procs -> Fingerprints]
  /\ found \in [Procs -> SUBSET Codes]
  /\ listed \in [Procs -> [numbers : SUBSET Numbers, sheets : SUBSET Sheets,
                          responses : SUBSET Responses, confirmations : SUBSET Prefixes]]
  /\ applies \in [Procs -> Confirmations \cup {None}]
  /\ report \in [Procs -> ReportType \cup {None}]
  /\ plan \in [Procs -> PlanType \cup {None}]
  /\ result \in [Procs -> Results]
  /\ faults \in 0..MaxFaults /\ edits \in 0..MaxEdits

\* Each file holds what its name says.
FilesInv ==
  \A l \in Plans :
    /\ artifacts[l].declaration \in Declared \cup {None}
    /\ artifacts[l].manifest \in ManifestType \cup {None}
    /\ artifacts[l].coverage \in CoverageType \cup {None}

\* A process that has begun has its command.
JobsInv == \A p \in Procs : pc[p] # "idle" => job[p] \in AllJobs

\* Reports are numbered without gaps, and listed from the first on.
NumbersInv ==
  /\ \A x \in Prefixes : \E k \in 0..MaxReports : NumbersOf(x) = 1..k
  /\ \A p \in Procs : \E h \in 0..MaxReports :
       listed[p].numbers = 1..h /\ 1..h \subseteq NumbersOf(Own(p))

\* The report to compare with is the highest listed, unless it was invalid.
BaselineInv ==
  \A p \in Procs : LET h == Highest(listed[p].numbers) IN
    /\ pc[p] \in Opening => report[p] = None /\ listed[p].numbers = {}
    /\ pc[p] \in Gathering =>
         IF report[p] = None
         THEN listed[p].numbers = {} \/ "BASELINE_INVALID" \in found[p]
         ELSE h \in listed[p].numbers /\ report[p] = reports[<<Own(p), h>>]
    /\ pc[p] = "write" =>
         \/ listed[p].numbers = {} \/ "BASELINE_INVALID" \in found[p]
         \/ report[p] # reports[<<Own(p), h>>]

\* The report that is made says what was found in the sources indexed.
ReportInv ==
  \A p \in Procs :
    /\ pc[p] \in {"write"} \cup Approving => report[p] # None /\ report[p].fp = snap[p]
    /\ pc[p] = "write" =>
         report[p].found = found[p] /\ report[p].outcome = Outcome(found[p])

\* What is published was found READY by a report that is stored.
StoredInv ==
  \A p \in Procs : pc[p] \in Approving =>
    /\ report[p].outcome = "READY"
    /\ \E n \in NumbersOf(Own(p)) : reports[<<Own(p), n>>] = report[p]

\* What is published follows from the sources indexed and from that report, and
\* its parts are written in order.
PublishInv ==
  \A p \in Procs :
    /\ pc[p] \in Publishing =>
         /\ plan[p] # None
         /\ plan[p].declaration = NodesOf[snap[p]]
         /\ plan[p].manifest = [of |-> snap[p], batch |-> ManifestOf[snap[p]]]
         /\ plan[p].coverage.of = plan[p].manifest
         /\ plan[p].coverage.by = report[p].confirmation
    /\ pc[p] \in {"manifest", "coverage"} =>
         artifacts[PlanOf(p)].declaration = plan[p].declaration
    /\ pc[p] = "coverage" => artifacts[PlanOf(p)].manifest = plan[p].manifest

\* Every stored report has a writer of its own, which had listed only lower numbers,
\* and if the one before it then knew it to be different or invalid.
Stored == {s \in Prefixes \X Numbers : reports[s] # None}
WroteIt(p, x, n) ==
  /\ pc[p] \in Approving \cup {"done"}
  /\ Own(p) = x /\ report[p] = reports[<<x, n>>]
  /\ \A m \in listed[p].numbers : m < n
  /\ n - 1 \in listed[p].numbers =>
       "BASELINE_INVALID" \in reports[<<x, n>>].found \/ reports[<<x, n>>] # reports[<<x, n - 1>>]
WritersInv ==
  \E writer \in [Stored -> Procs] :
    /\ \A s \in Stored : WroteIt(writer[s], s[1], s[2])
    /\ \A s, t \in Stored : writer[s] = writer[t] => s = t

IInv ==
  /\ TypeOK /\ FilesInv /\ JobsInv /\ NumbersInv /\ BaselineInv /\ ReportInv /\ StoredInv
  /\ PublishInv /\ WritersInv /\ CoverageIsReported /\ PlansBelongTogether
=============================================================================
