------------------------------ MODULE MCGoalPlan ------------------------------
(***************************************************************************)
(* Three contents of a batch for GoalPlan.  ready and twin have the same     *)
(* first twelve digits and the same Stories, but different Specs; the        *)
(* Stories of rough have not passed.                                        *)
(***************************************************************************)
EXTENDS GoalPlan, TLC

CONSTANTS g1, g2, o1, ready, twin, rough, x1, x2, a, b, text, bytes,
          nodes, batch1, batch2

Revision(id, blocks) ==
  [id |-> id, blocking |-> blocks, supersedes |-> NoId, body |-> text]

Sheet1  == [fp |-> rough, prefix |-> x1, revisions |-> {Revision(a, TRUE), Revision(b, FALSE)}]
Answered(to) ==
  [sheets |-> {Sheet1}, from |-> rough, to |-> to,
   answers |-> {[id |-> a, outcome |-> "incorporated", located |-> TRUE],
                [id |-> b, outcome |-> "not-incorporated", located |-> TRUE]}]

MCSheets        == {Sheet1}
MCResponses     == {Answered(ready)}
MCConfirmations ==
  {[fp |-> ready, deferred |-> D, bytes |-> bytes] : D \in {{}, {b}}}
    \cup {[fp |-> twin, deferred |-> {}, bytes |-> bytes]}
Good(f)         == [fp |-> f, says |-> {}]
MCSemantics     == {Good(ready), Good(twin), None}

MCPrefixOf     == [f \in Fingerprints |-> IF f = rough THEN x2 ELSE x1]
MCDiagnostics  == [f \in Fingerprints |-> {}]
MCStoryIssues  == [f \in Fingerprints |-> IF f = rough THEN {"STORY_NOT_READY"} ELSE {}]
MCManifestOf   == [f \in Fingerprints |-> IF f = rough THEN batch2 ELSE batch1]
MCNodesOf      == [f \in Fingerprints |-> nodes]
Job(command, fp, rev) == [command |-> command, fp |-> fp, rev |-> rev, attempt |-> 0]
MCJobs         ==
  [p \in Procs |-> IF p = o1 THEN {Job("observe", None, None)}
                   ELSE {Job("goal-plan", None, None), Job("preflight", ready, ready)}]
MCObservations == {[plan |-> <<x1, 0>>, manifest |-> f] : f \in {ready, twin}}
MCSymmetry     == Permutations({g1, g2})
=============================================================================
