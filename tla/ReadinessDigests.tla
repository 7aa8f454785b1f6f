--------------------------- MODULE ReadinessDigests ---------------------------
(***************************************************************************)
(* `praxisbound review readiness-digests`                                   *)
(* (packages/cli/src/review-readiness-digests.ts): runs that rewrite the     *)
(* digests of the readiness sidecars of a batch, one action per operation    *)
(* they await, while other runs and other people work on the same files.     *)
(*                                                                         *)
(* A definition is the bytes of a Story's story.md and acceptance.md.  A     *)
(* sidecar is its readiness.json: the definition its two digests stand for   *)
(* and a body, which is everything else in it.  A symbolic link in the place *)
(* of a sidecar is described by the sidecar that it leads to.               *)
(* Operators marked "mistaken" are as in InitPlan.                          *)
(***************************************************************************)
EXTENDS Naturals, Sequences, FiniteSets, SequencesExt

CONSTANTS
  Runs,          \* executions of the command, in parallel or one after another
  StoryOrder,    \* the Stories of the batch, in the order of the manifest
  Versions,      \* contents a definition can have
  None,          \* the definition, or the digest of one, that is not there
  Bodies,        \* contents a sidecar can have apart from its digests
  MaxFaults,     \* bound: failing operations, and runs that are killed
  MaxEdits,      \* bound: changes by somebody else
  MaxTogether,   \* bound: the two together
  CanCrash       \* whether a run may be killed

Stories == Range(StoryOrder)

\* A manifest names at least one Story, and none of them twice.
ASSUME StoryOrderAssumption ==
  /\ StoryOrder \in Seq(Range(StoryOrder))
  /\ StoryOrder # <<>>
  /\ \A i, j \in 1..Len(StoryOrder) : StoryOrder[i] = StoryOrder[j] => i = j
ASSUME NoneAssumption ==
  /\ None \notin Versions
  /\ None \notin Bodies
ASSUME ReadinessBounds ==
  /\ MaxFaults \in Nat
  /\ MaxEdits \in Nat
  /\ MaxTogether \in Nat
  /\ CanCrash \in BOOLEAN

VARIABLES
  definition,  \* Story |-> its definition
  sidecar,     \* Story |-> its sidecar
  temps,       \* run |-> the Stories it has a temporary file next to
  pc,          \* run |-> what it does next
  cursor,      \* run |-> the index of its loop
  observed,    \* run |-> the definitions and sidecars it has read
  planned,     \* run |-> the Stories whose sidecar it rewrites, in order
  updated,     \* run |-> the Stories whose sidecar it has renamed into place
  cleaning,    \* run |-> the temporary files it still has to delete
  verdict,     \* run |-> how it ends
  faults, edits,
  theirs,      \* history: Story |-> the sidecar somebody else wrote last
  exposed,     \* history: Stories changed after a run looked for the last time
  disturbed    \* history: run |-> Stories changed by others since it began

files    == <<definition, sidecar>>
progress == <<observed, planned, updated>>
bounds   == <<faults, edits>>
history  == <<theirs, exposed, disturbed>>
vars == <<files, temps, pc, cursor, progress, cleaning, verdict, bounds, history>>

Definitions == Versions \cup {None}
Sidecars ==
  [kind : {"valid"}, digest : Definitions, body : Bodies]
    \cup [kind : {"link"}, digest : {None}, body : Bodies]
    \cup [kind : {"invalid", "missing"}, digest : {None}, body : {None}]

Terminal == {"done", "crashed"}
Points   == {"start", "read definitions", "read sidecars", "validate", "plan",
             "check paths", "stage", "recheck", "rename", "clean", "reindex"}
              \cup Terminal
Verdicts == {"none", "success", "unsafe", "invalid", "index failed",
             "stage failed", "changed", "rename failed", "ERROR"}

\* Sidecar a has what b says, or what b leads to, the digests apart.
SameContent(a, b) == a.body = b.body /\ (a.kind = b.kind \/ b.kind = "link")

-----------------------------------------------------------------------------
Init ==
  /\ definition \in [Stories -> Definitions]
  /\ sidecar \in [Stories -> Sidecars]
  /\ temps = [r \in Runs |-> {}]
  /\ pc = [r \in Runs |-> "start"]
  /\ cursor = [r \in Runs |-> 1]
  /\ observed = [r \in Runs |-> [definition |-> definition, sidecar |-> sidecar]]
  /\ planned = [r \in Runs |-> <<>>]
  /\ updated = [r \in Runs |-> <<>>]
  /\ cleaning = [r \in Runs |-> <<>>]
  /\ verdict = [r \in Runs |-> "none"]
  /\ faults = 0 /\ edits = 0
  /\ theirs = sidecar
  /\ exposed = {}
  /\ disturbed = [r \in Runs |-> {}]

-----------------------------------------------------------------------------
(* Helpers of the steps of one run.                                        *)

Goto(r, label) == pc' = [pc EXCEPT ![r] = label]
From(r, index) == cursor' = [cursor EXCEPT ![r] = index]
Advance(r) == From(r, cursor[r] + 1)

Ends(r, how) ==
  /\ verdict' = [verdict EXCEPT ![r] = how]
  /\ Goto(r, "done")

\* A failure that first deletes the given temporary files.
EndsAfterCleaning(r, how, items) ==
  /\ verdict' = [verdict EXCEPT ![r] = how]
  /\ cleaning' = [cleaning EXCEPT ![r] = items]
  /\ Goto(r, "clean")

Fails ==
  /\ faults < MaxFaults
  /\ faults + edits < MaxTogether
  /\ faults' = faults + 1
Works == UNCHANGED faults

Item(r) == planned[r][cursor[r]]

-----------------------------------------------------------------------------
(* runReviewIndexUnsafe: every path is checked for links, then the           *)
(* definitions and after them the sidecars are read, one file at a time.     *)

Start(r) ==
  /\ pc[r] = "start"
  /\ \/ /\ \A s \in Stories : sidecar[s].kind # "link"
        /\ Goto(r, "read definitions")
        /\ disturbed' = [disturbed EXCEPT ![r] = {}]
        /\ Works /\ UNCHANGED verdict
     \/ /\ \E s \in Stories : sidecar[s].kind = "link"
        /\ Ends(r, "unsafe")
        /\ Works /\ UNCHANGED disturbed
     \/ /\ Fails
        /\ Ends(r, "index failed")
        /\ UNCHANGED disturbed
  /\ UNCHANGED <<files, temps, cursor, progress, cleaning, edits, theirs, exposed>>

ReadDefinition(r) ==
  /\ pc[r] = "read definitions"
  /\ LET s == StoryOrder[cursor[r]] IN
       observed' = [observed EXCEPT ![r].definition[s] = definition[s]]
  /\ IF cursor[r] < Len(StoryOrder)
     THEN Advance(r) /\ UNCHANGED pc
     ELSE Goto(r, "read sidecars") /\ From(r, 1)
  /\ UNCHANGED <<files, temps, planned, updated, cleaning, verdict, bounds, history>>

ReadSidecar(r) ==
  /\ pc[r] = "read sidecars"
  /\ LET s == StoryOrder[cursor[r]] IN
       observed' = [observed EXCEPT ![r].sidecar[s] = sidecar[s]]
  /\ IF cursor[r] < Len(StoryOrder)
     THEN Advance(r) /\ UNCHANGED pc
     ELSE Goto(r, "validate") /\ From(r, 1)
  /\ UNCHANGED <<files, temps, planned, updated, cleaning, verdict, bounds, history>>

-----------------------------------------------------------------------------
(* The plan: only what was read counts.                                     *)

Unparsed(r) == {s \in Stories : observed[r].sidecar[s].kind = "invalid"}

StaleIfAbsent(r, s) == \* mistaken
  /\ observed[r].sidecar[s].kind = "valid"
  /\ observed[r].definition[s] # None
  /\ observed[r].sidecar[s].digest = None
Parsed(r, s) == \* mistaken
  /\ observed[r].sidecar[s].kind = "valid"
  /\ observed[r].definition[s] # None
Stale(r, s) ==
  /\ observed[r].sidecar[s].kind = "valid"
  /\ observed[r].definition[s] # None
  /\ observed[r].sidecar[s].digest # observed[r].definition[s]

Validate(r) ==
  /\ pc[r] = "validate"
  /\ IF \E s \in Stories : observed[r].sidecar[s].kind = "link"
     THEN Ends(r, "unsafe")
     ELSE IF Unparsed(r) # {}
     THEN Ends(r, "invalid")
     ELSE Goto(r, "plan") /\ UNCHANGED verdict
  /\ UNCHANGED <<files, temps, cursor, progress, cleaning, bounds, history>>

PlanStory(r) ==
  /\ pc[r] = "plan"
  /\ LET s == StoryOrder[cursor[r]]
         rewrites == IF Stale(r, s) THEN Append(planned[r], s) ELSE planned[r]
     IN
       /\ planned' = [planned EXCEPT ![r] = rewrites]
       /\ IF cursor[r] < Len(StoryOrder)
          THEN Advance(r) /\ UNCHANGED <<pc, verdict>>
          ELSE /\ From(r, 1)
               /\ IF rewrites = <<>>
                  THEN Ends(r, "success")
                  ELSE Goto(r, "check paths") /\ UNCHANGED verdict
  /\ UNCHANGED <<files, temps, observed, updated, cleaning, bounds, history>>

\* Every path is checked for links again before the first file is staged.
CheckPath(r) ==
  /\ pc[r] = "check paths"
  /\ IF sidecar[Item(r)].kind = "link"
     THEN Ends(r, "unsafe") /\ UNCHANGED cursor
     ELSE /\ IF cursor[r] < Len(planned[r])
             THEN Advance(r) /\ UNCHANGED pc
             ELSE Goto(r, "stage") /\ From(r, 1)
          /\ UNCHANGED verdict
  /\ UNCHANGED <<files, temps, progress, cleaning, bounds, history>>

-----------------------------------------------------------------------------
(* Staging: an exclusive open, a write and a chmod for every rewrite.        *)

\* The files staged so far do not include the one that is being staged.
StagedBefore(r) == SubSeq(planned[r], 1, cursor[r] - 1)

Stage(r) ==
  /\ pc[r] = "stage"
  /\ \/ /\ Works
        /\ temps' = [temps EXCEPT ![r] = @ \cup {Item(r)}]
        /\ IF cursor[r] < Len(planned[r])
           THEN Advance(r) /\ UNCHANGED pc
           ELSE Goto(r, "recheck") /\ From(r, 1)
        /\ UNCHANGED <<cleaning, verdict>>
     \/ /\ Fails
        /\ \/ UNCHANGED temps
           \/ temps' = [temps EXCEPT ![r] = @ \cup {Item(r)}]
        /\ EndsAfterCleaning(r, "stage failed", StagedBefore(r))
        /\ UNCHANGED cursor
  /\ UNCHANGED <<files, progress, edits, history>>

(* The last look at every sidecar before the first one is replaced.         *)
UnchangedDigest(r, s) == \* mistaken
  sidecar[s].kind = "valid" /\ sidecar[s].digest = observed[r].sidecar[s].digest
\* readFile follows a link, and so sees only what the link leads to.
UnchangedBytes(r, s) ==
  /\ sidecar[s].kind \in {"valid", "link"}
  /\ sidecar[s].digest = observed[r].sidecar[s].digest
  /\ sidecar[s].body = observed[r].sidecar[s].body

Recheck(r) ==
  /\ pc[r] = "recheck"
  /\ \/ /\ Works
        /\ UnchangedBytes(r, Item(r))
        /\ IF cursor[r] < Len(planned[r])
           THEN Advance(r) /\ UNCHANGED pc
           ELSE Goto(r, "rename") /\ From(r, 1)
        /\ UNCHANGED <<cleaning, verdict>>
     \/ /\ \/ Fails
           \/ Works /\ ~UnchangedBytes(r, Item(r))
        /\ EndsAfterCleaning(r, "changed", planned[r])
        /\ UNCHANGED cursor
  /\ UNCHANGED <<files, temps, progress, edits, history>>

-----------------------------------------------------------------------------
(* The renames.                                                            *)

Reconstructed(r, s) == \* mistaken
  [kind |-> "valid", digest |-> observed[r].definition[s], body |-> None]
Rewritten(r, s) == [observed[r].sidecar[s] EXCEPT !.digest = observed[r].definition[s]]

NotReached(r) == SubSeq(planned[r], cursor[r] + 1, Len(planned[r]))

Rename(r) ==
  /\ pc[r] = "rename"
  /\ LET s == Item(r) IN
       \/ /\ Works
          /\ sidecar' = [sidecar EXCEPT ![s] = Rewritten(r, s)]
          /\ temps' = [temps EXCEPT ![r] = @ \ {s}]
          /\ updated' = [updated EXCEPT ![r] = Append(@, s)]
          /\ disturbed' = [q \in Runs |-> IF q = r THEN disturbed[q]
                                                   ELSE disturbed[q] \cup {s}]
          /\ IF cursor[r] < Len(planned[r])
             THEN Advance(r) /\ UNCHANGED pc
             ELSE Goto(r, "reindex") /\ UNCHANGED cursor
          /\ UNCHANGED <<cleaning, verdict>>
       \/ /\ Fails
          /\ EndsAfterCleaning(r, "rename failed", NotReached(r))
          /\ UNCHANGED <<sidecar, temps, updated, disturbed, cursor>>
  /\ UNCHANGED <<definition, observed, planned, edits, theirs, exposed>>

\* One unlink of cleanupStaged; a failing one is ignored.
Clean(r) ==
  /\ pc[r] = "clean"
  /\ IF cleaning[r] = <<>>
     THEN /\ Goto(r, "done")
          /\ UNCHANGED <<temps, cleaning, faults>>
     ELSE /\ cleaning' = [cleaning EXCEPT ![r] = Tail(@)]
          /\ \/ Works /\ temps' = [temps EXCEPT ![r] = @ \ {Head(cleaning[r])}]
             \/ Fails /\ UNCHANGED temps
          /\ UNCHANGED pc
  /\ UNCHANGED <<files, cursor, progress, verdict, edits, history>>

\* The batch is read once more for the fingerprint of the response.
Reindex(r) ==
  /\ pc[r] = "reindex"
  /\ \/ /\ Works
        /\ Ends(r, IF \E s \in Stories : sidecar[s].kind = "link"
                   THEN "ERROR" ELSE "success")
     \/ Fails /\ Ends(r, "ERROR")
  /\ UNCHANGED <<files, temps, cursor, progress, cleaning, edits, history>>

-----------------------------------------------------------------------------
(* The environment.                                                        *)

Crash(r) ==
  /\ CanCrash
  /\ pc[r] \notin Terminal \cup {"start"}
  /\ Fails
  /\ Goto(r, "crashed")
  /\ UNCHANGED <<files, temps, cursor, progress, cleaning, verdict, edits, history>>

Edit(s) ==
  /\ edits < MaxEdits
  /\ faults + edits < MaxTogether
  /\ edits' = edits + 1
  /\ disturbed' = [r \in Runs |-> disturbed[r] \cup {s}]
  /\ UNCHANGED <<temps, pc, cursor, progress, cleaning, verdict, faults>>

EditDefinition(s, v) ==
  /\ Edit(s)
  /\ v # definition[s]
  /\ definition' = [definition EXCEPT ![s] = v]
  /\ UNCHANGED <<sidecar, theirs, exposed>>

\* The sidecars a run has looked at for the last time and not replaced yet.
Vulnerable(r) ==
  CASE pc[r] = "recheck" -> {planned[r][i] : i \in 1..(cursor[r] - 1)}
    [] pc[r] = "rename"  -> {planned[r][i] : i \in cursor[r]..Len(planned[r])}
    [] OTHER -> {}

EditSidecar(s, c) ==
  /\ Edit(s)
  /\ c # sidecar[s]
  /\ sidecar' = [sidecar EXCEPT ![s] = c]
  /\ theirs' = [theirs EXCEPT ![s] = c]
  /\ exposed' = IF \E r \in Runs : s \in Vulnerable(r)
                THEN exposed \cup {s} ELSE exposed \ {s}
  /\ UNCHANGED definition

-----------------------------------------------------------------------------
Step(r) ==
  \/ Start(r) \/ ReadDefinition(r) \/ ReadSidecar(r) \/ Validate(r)
  \/ PlanStory(r) \/ CheckPath(r) \/ Stage(r) \/ Recheck(r) \/ Rename(r) \/ Clean(r) \/ Reindex(r)

Next ==
  \/ \E r \in Runs : Step(r) \/ Crash(r)
  \/ \E s \in Stories : \/ \E v \in Definitions : EditDefinition(s, v)
                        \/ \E c \in Sidecars : EditSidecar(s, c)

Spec == Init /\ [][Next]_vars

-----------------------------------------------------------------------------
(* Properties.                                                             *)

\* Every variable has a value the runs can give it.
TypeOK ==
  /\ definition \in [Stories -> Definitions]
  /\ sidecar \in [Stories -> Sidecars]
  /\ temps \in [Runs -> SUBSET Stories]
  /\ pc \in [Runs -> Points]
  /\ cursor \in [Runs -> Nat]
  /\ observed \in [Runs -> [definition : [Stories -> Definitions],
                            sidecar : [Stories -> Sidecars]]]
  /\ planned \in [Runs -> Seq(Stories)]
  /\ updated \in [Runs -> Seq(Stories)]
  /\ cleaning \in [Runs -> Seq(Stories)]
  /\ verdict \in [Runs -> Verdicts]
  /\ faults \in Nat /\ edits \in Nat
  /\ theirs \in [Stories -> Sidecars]
  /\ exposed \subseteq Stories
  /\ disturbed \in [Runs -> SUBSET Stories]

(* What somebody else wrote into a sidecar is still there, the digests        *)
(* apart, unless they wrote it after some run had looked at that sidecar for  *)
(* the last time: no order of runs and edits rewrites from a stale reading.   *)
EditsSurvive ==
  \A s \in Stories \ exposed : SameContent(sidecar[s], theirs[s])

(* A run that succeeds leaves fresh digests in every sidecar that nobody else *)
(* changed while it ran.                                                    *)
SuccessMeansFresh ==
  \A r \in Runs : verdict[r] = "success" =>
    \A s \in Stories \ disturbed[r] :
      (sidecar[s].kind = "valid" /\ definition[s] # None) =>
        sidecar[s].digest = definition[s]

(* When a rename fails, the response names every sidecar that was replaced    *)
(* and no other: what it names is a proper prefix of the plan, fresh for what *)
(* the run had read unless somebody changed it since.                        *)
PartialRewriteIsNamed ==
  \A r \in Runs : verdict[r] = "rename failed" =>
    /\ updated[r] # planned[r] /\ IsPrefix(updated[r], planned[r])
    /\ \A s \in Range(planned[r]) \ disturbed[r] :
         s \in Range(updated[r]) <=> sidecar[s].digest = definition[s]

-----------------------------------------------------------------------------
(* A documented claim that the code does not keep.                          *)

(* review-readiness-digests.ts:308 and docs/typescript-tooling/                *)
(* cli-contract.md:852: a run whose staging or renaming failed deletes the     *)
(* temporary files that it has created and not renamed.                      *)
FailureLeavesNoTemp ==
  \A r \in Runs : (pc[r] = "done" /\ verdict[r] \in {"stage failed", "rename failed"}) =>
    temps[r] = {}
=============================================================================
