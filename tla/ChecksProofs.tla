----------------------------- MODULE ChecksProofs -----------------------------
(***************************************************************************)
(* Doctor's verdict is about one tree, a clean verdict means the contracts  *)
(* hold, and the outcome of make verify is the child's own: for every tree, *)
(* every number of exchanged directories and every amount of output.  And   *)
(* what the checks conclude from the documents they read is right, for all  *)
(* documents of any length: a passing verification is proven by them, and   *)
(* the two readers of a Story agree.                                        *)
(***************************************************************************)
EXTENDS ChecksInvariant, ContractProofs

-----------------------------------------------------------------------------
(* Sequences and the order of the names.                                    *)

LEMMA NamesFacts ==
  /\ Names \in Seq(STRING)
  /\ Len(Names) \in Nat
  /\ ToSet(Names) = {Names[i] : i \in 1..Len(Names)}
  BY CasesAssumption DEF ToSet

LEMMA PositionType ==
  ASSUME NEW name \in ToSet(Names)
  PROVE  Position(name) \in Nat
<1>1. \E i \in 1..Len(Names) : Names[i] = name
  BY NamesFacts
<1>2. Position(name) \in 1..Len(Names)
  BY <1>1 DEF Position
<1> QED  BY <1>2, NamesFacts

\* The current name is one of those that were listed.
LEMMA CurrentListed ==
  ASSUME walk.listed \subseteq ToSet(Names), walk.listed # {}
  PROVE  Current \in walk.listed
<1> DEFINE I == {Position(n) : n \in walk.listed}
<1>1. I \in SUBSET Nat /\ I # {}
  BY PositionType
<1>2. PICK i \in I : \A j \in I : i <= j
  <2> HIDE DEF I
  <2> QED  BY <1>1, SmallestOfSet
<1>3. PICK n \in walk.listed : i = Position(n)
  BY <1>2
<1>4. \A m \in walk.listed : Position(n) <= Position(m)
  BY <1>2, <1>3
<1> QED  BY <1>3, <1>4 DEF Current

LEMMA ConcatEmpty ==
  ASSUME NEW S, NEW s \in Seq(S), NEW t \in Seq(S), s \o t = <<>>
  PROVE  s = <<>> /\ t = <<>>
<1>1. Len(s \o t) = Len(s) + Len(t) /\ Len(s \o t) = 0
  OBVIOUS
<1>2. Len(s) = 0 /\ Len(t) = 0
  BY <1>1
<1> QED  BY <1>2

\* Appending keeps what a list holds.
LEMMA Appended ==
  ASSUME NEW list, list \in Seq(ToSet(list)), NEW e
  PROVE  /\ Append(list, e) \in Seq(ToSet(Append(list, e)))
         /\ Len(Append(list, e)) = Len(list) + 1 /\ Len(list) \in Nat
         /\ \A i \in 1..Len(list) : Append(list, e)[i] = list[i]
         /\ Append(list, e)[Len(list) + 1] = e
<1> DEFINE S == ToSet(list) \cup {e}
           longer == Append(list, e)
<1>1. list \in Seq(S)
  <2>1. Len(list) \in Nat /\ \A i \in 1..Len(list) : list[i] \in ToSet(list)
    OBVIOUS
  <2>2. \A i \in 1..Len(list) : list[i] \in S
    BY <2>1
  <2>3. list = [i \in 1..Len(list) |-> list[i]]
    OBVIOUS
  <2> HIDE DEF S
  <2> QED  BY <2>1, <2>2, <2>3
<1>2. /\ longer \in Seq(S) /\ Len(longer) = Len(list) + 1 /\ Len(list) \in Nat
      /\ \A i \in 1..Len(list) : longer[i] = list[i]
      /\ longer[Len(list) + 1] = e
  <2> HIDE DEF S
  <2>1. e \in S
    BY DEF S
  <2> QED  BY <1>1, <2>1
<1>3. \A i \in 1..Len(longer) : longer[i] \in ToSet(longer)
  <2> HIDE DEF longer
  <2>1. DOMAIN longer = 1..Len(longer)
    BY <1>2
  <2> QED  BY <2>1 DEF ToSet
<1>4. longer \in Seq(ToSet(longer))
  <2>1. longer = [i \in 1..Len(longer) |-> longer[i]] /\ Len(longer) \in Nat
    <3> HIDE DEF longer, S
    <3> QED  BY <1>2
  <2> HIDE DEF longer
  <2> QED  BY <1>3, <2>1
<1> QED  BY <1>2, <1>4

-----------------------------------------------------------------------------
(* What an evaluation of the repository means.                              *)

IssueCodes ==
  {"REPOSITORY_PATH_SYMLINK", "REPOSITORY_PATH_UNCONFIRMABLE", "REPOSITORY_REQUIRED_MISSING",
   "REPOSITORY_REQUIRED_TYPE", "REPOSITORY_REQUIRED_UNREADABLE", "REPOSITORY_REQUIRED_BLANK",
   "REPOSITORY_MARKER_UNCONFIRMABLE", "REPOSITORY_MARKER_VERSION", "REPOSITORY_MARKER_AMBIGUOUS",
   "REPOSITORY_LEGACY_MARKER_UNCONFIRMABLE", "REPOSITORY_LEGACY_MARKER_INVALID",
   "REPOSITORY_COMPOSED_UNCONFIRMABLE", "REPOSITORY_GUIDANCE_UNCONFIRMABLE"}

LEMMA OneElement ==
  ASSUME NEW S, NEW e \in S
  PROVE  <<e>> \in Seq(S) /\ <<>> \in Seq(S)
  OBVIOUS

LEMMA IssueLists ==
  /\ <<>> \in Seq(IssueCodes)
  /\ \A code \in IssueCodes : <<code>> \in Seq(IssueCodes)
<1>1. "REPOSITORY_PATH_SYMLINK" \in IssueCodes
  BY DEF IssueCodes
<1> QED  BY <1>1, OneElement

LEMMA RequiredTypes ==
  /\ \A o : RequiredFile(o) \in Seq(IssueCodes)
  /\ \A o, r : RequiredDirectory(o, r) \in Seq(IssueCodes)
<1>2. \A o : PathError(o) \in Seq(IssueCodes)
  BY IssueLists DEF IssueCodes, PathError
<1>3. \A o : RequiredFile(o) \in Seq(IssueCodes)
  BY IssueLists, <1>2 DEF IssueCodes, RequiredFile
<1>4. \A o, r : RequiredDirectory(o, r) \in Seq(IssueCodes)
  BY IssueLists, <1>2 DEF IssueCodes, RequiredDirectory
<1> QED  BY <1>3, <1>4

LEMMA LaterTypes ==
  /\ \A m : MarkerIssues(m) \in Seq(IssueCodes)
  /\ \A m, l : LegacyIssues(m, l) \in Seq(IssueCodes)
  /\ \A o : ComposedIssues(o) \in Seq(IssueCodes)
<1>2. \A m : MarkerIssues(m) \in Seq(IssueCodes)
  BY IssueLists DEF IssueCodes, MarkerIssues
<1>3. \A m, l : LegacyIssues(m, l) \in Seq(IssueCodes)
  BY IssueLists DEF IssueCodes, LegacyIssues
<1>4. \A o : ComposedIssues(o) \in Seq(IssueCodes)
  BY IssueLists DEF IssueCodes, ComposedIssues
<1> QED  BY <1>2, <1>3, <1>4

LEMMA VersionIsFirst ==
  ASSUME NEW text, VersionOf(text) # ""
  PROVE  VersionOf(text) = text[1]
<1>1. text # <<>>
  BY DEF VersionOf
<1> QED  BY <1>1, Zenon DEF VersionOf

Outcomes == {"ERROR", "STRUCTURE_INCOMPLETE", "CONTRACT_DRIFT", "STRUCTURE_OK"}
SoundOutcomes == {"STRUCTURE_OK", "CONTRACT_DRIFT"}

\* With the structure in place the contracts that were inspected without an error
\* make the verdict, and a clean one has none that is incomplete or of another version.
LEMMA EvaluationMeans ==
  ASSUME NEW s
  PROVE  LET e == EvaluateRepositoryDoctor(s)
         IN  /\ e.outcome \in Outcomes
             /\ e.outcome \in SoundOutcomes =>
                  Confirmed(e.required) /\ s.story # "error" /\ s.handoff # "error"
             /\ e.outcome = "STRUCTURE_OK" =>
                  /\ s.story # "incomplete" /\ s.handoff # "incomplete"
                  /\ s.marker.kind # "missing" => s.marker.text[1] = CheckoutVersion
                  /\ s.legacy.kind = "missing"
<1> DEFINE agents == RequiredFile(s.agents)
           specs == RequiredDirectory(s.specs, FALSE)
           stories == IF specs = <<>> THEN RequiredDirectory(s.stories, TRUE) ELSE specs
           makefile == RequiredFile(s.makefile)
           required == agents \o stories \o makefile
           Word(issues) == IF issues = <<>> THEN "OK" ELSE "INCOMPLETE"
           guidance == Guidance(s.guidance, s.guidanceEntry)
           unconfirmed == IF guidance = "ERROR" THEN <<"REPOSITORY_GUIDANCE_UNCONFIRMABLE">>
                          ELSE <<>>
           later == MarkerIssues(s.marker)
                      \o LegacyIssues(s.marker, s.legacy)
                      \o ComposedIssues(s.story) \o ComposedIssues(s.handoff)
                      \o unconfirmed
           drift == \/ /\ Acquired(s.marker)
                       /\ VersionOf(s.marker.text) \notin {"", CheckoutVersion}
                    \/ LegacyMigrates(s.marker, s.legacy)
                    \/ "incomplete" \in {s.story, s.handoff}
                    \/ guidance = "GUIDANCE_CONTRACT_INCOMPLETE"
           clue == IF Acquired(s.makefile) THEN ScanMakefile(s.makefile.text)
                   ELSE [clue |-> "UNCONFIRMED", limited |-> FALSE]
           confirmed == [agents |-> Word(agents), stories |-> Word(stories),
                         makefile |-> Word(makefile), verifyRule |-> clue.clue,
                         limited |-> clue.limited]
           lacking == [outcome |-> IF ToSet(required) \cap Unsafe # {} THEN "ERROR"
                                   ELSE "STRUCTURE_INCOMPLETE",
                       required |-> confirmed, issues |-> required,
                       adopted |-> "UNKNOWN", story |-> "NOT_CHECKED",
                       handoff |-> "NOT_CHECKED", guidance |-> "NOT_CHECKED",
                       skills |-> "NOT_CHECKED", ci |-> "NOT_CHECKED", migration |-> FALSE]
           judged == [outcome |-> IF later # <<>> THEN "ERROR"
                                  ELSE IF drift THEN "CONTRACT_DRIFT" ELSE "STRUCTURE_OK",
                      required |-> confirmed, issues |-> later,
                      adopted |-> Adopted(s.marker),
                      story |-> Composed(s.story, "STORY"),
                      handoff |-> Composed(s.handoff, "HANDOFF"),
                      guidance |-> guidance,
                      skills |-> Detected({s.skills, s.agentSkills}),
                      ci |-> Detected({s.github}),
                      migration |-> LegacyMigrates(s.marker, s.legacy)]
           e == EvaluateRepositoryDoctor(s)
<1>1. e = IF required # <<>> THEN lacking ELSE judged
  BY Zenon DEF EvaluateRepositoryDoctor
<1>2. lacking.outcome \in {"ERROR", "STRUCTURE_INCOMPLETE"} /\ lacking.required = confirmed
  <2> HIDE DEF required, confirmed
  <2> QED  OBVIOUS
<1>3. /\ judged.outcome = IF later # <<>> THEN "ERROR"
                          ELSE IF drift THEN "CONTRACT_DRIFT" ELSE "STRUCTURE_OK"
      /\ judged.required = confirmed
  <2> HIDE DEF later, drift, confirmed, guidance
  <2> QED  OBVIOUS
<1>4. required = <<>> => Confirmed(confirmed)
  <2> SUFFICES ASSUME required = <<>>
               PROVE  Confirmed(confirmed)
    OBVIOUS
  <2>1. agents \in Seq(IssueCodes) /\ stories \in Seq(IssueCodes) /\ makefile \in Seq(IssueCodes)
    BY RequiredTypes
  <2>2. agents = <<>> /\ stories = <<>> /\ makefile = <<>>
    <3> HIDE DEF agents, stories, makefile
    <3>1. agents \o stories \in Seq(IssueCodes) /\ (agents \o stories) \o makefile = <<>>
      BY <2>1
    <3>2. agents \o stories = <<>> /\ makefile = <<>>
      BY <3>1, <2>1, ConcatEmpty
    <3> QED  BY <2>1, <3>2, ConcatEmpty
  <2> HIDE DEF agents, stories, makefile, clue
  <2> QED  BY <2>2 DEF Confirmed
<1>5. later = <<>> =>
        /\ MarkerIssues(s.marker) = <<>> /\ LegacyIssues(s.marker, s.legacy) = <<>>
        /\ ComposedIssues(s.story) = <<>> /\ ComposedIssues(s.handoff) = <<>>
  <2> SUFFICES ASSUME later = <<>>
               PROVE  /\ MarkerIssues(s.marker) = <<>> /\ LegacyIssues(s.marker, s.legacy) = <<>>
                      /\ ComposedIssues(s.story) = <<>> /\ ComposedIssues(s.handoff) = <<>>
    OBVIOUS
  <2> DEFINE a == MarkerIssues(s.marker)
             b == LegacyIssues(s.marker, s.legacy)
             c == ComposedIssues(s.story)
             d == ComposedIssues(s.handoff)
  <2>1. /\ a \in Seq(IssueCodes) /\ b \in Seq(IssueCodes) /\ c \in Seq(IssueCodes) /\ d \in Seq(IssueCodes)
        /\ unconfirmed \in Seq(IssueCodes)
    <3>1. unconfirmed \in Seq(IssueCodes)
      <4> HIDE DEF guidance
      <4> QED  BY IssueLists DEF IssueCodes
    <3> QED  BY <3>1, LaterTypes
  <2>2. (((a \o b) \o c) \o d) \o unconfirmed = <<>>
    OBVIOUS
  <2> HIDE DEF a, b, c, d, unconfirmed, later
  <2>3. ((a \o b) \o c) \o d = <<>>
    BY <2>1, <2>2, ConcatEmpty
  <2>4. (a \o b) \o c = <<>> /\ d = <<>>
    BY <2>1, <2>3, ConcatEmpty
  <2>5. a \o b = <<>> /\ c = <<>>
    BY <2>1, <2>4, ConcatEmpty
  <2>6. a = <<>> /\ b = <<>>
    BY <2>1, <2>5, ConcatEmpty
  <2> QED  BY <2>4, <2>5, <2>6 DEF a, b, c, d
<1>6. \A o : ComposedIssues(o) = <<>> => o # "error"
  BY DEF ComposedIssues
<1>7. ASSUME MarkerIssues(s.marker) = <<>>, s.marker.kind # "missing",
             ~(/\ Acquired(s.marker) /\ VersionOf(s.marker.text) \notin {"", CheckoutVersion})
      PROVE  s.marker.text[1] = CheckoutVersion
  <2>1. Acquired(s.marker) /\ VersionOf(s.marker.text) # ""
    BY <1>7 DEF MarkerIssues
  <2>2. VersionOf(s.marker.text) = CheckoutVersion
    BY <1>7, <2>1
  <2> QED  BY <2>1, <2>2, VersionIsFirst
<1>8. LegacyIssues(s.marker, s.legacy) = <<>> /\ ~LegacyMigrates(s.marker, s.legacy)
        => s.legacy.kind = "missing"
  BY DEF LegacyIssues
<1>9. /\ ~drift => /\ s.story # "incomplete" /\ s.handoff # "incomplete"
                   /\ ~LegacyMigrates(s.marker, s.legacy)
                   /\ ~(/\ Acquired(s.marker)
                        /\ VersionOf(s.marker.text) \notin {"", CheckoutVersion})
  OBVIOUS
<1> HIDE DEF e, required, lacking, judged, confirmed, later, drift
<1>10. e.outcome \in Outcomes
  BY <1>1, <1>2, <1>3 DEF Outcomes
<1>11. e.outcome \in SoundOutcomes => required = <<>> /\ e = judged /\ later = <<>>
  BY <1>1, <1>2, <1>3 DEF SoundOutcomes
<1>12. e.outcome = "STRUCTURE_OK" => required = <<>> /\ e = judged /\ later = <<>> /\ ~drift
  BY <1>1, <1>2, <1>3
<1>13. e.outcome \in SoundOutcomes =>
         Confirmed(e.required) /\ s.story # "error" /\ s.handoff # "error"
  BY <1>3, <1>4, <1>5, <1>6, <1>11
<1>14. e.outcome = "STRUCTURE_OK" =>
         /\ s.story # "incomplete" /\ s.handoff # "incomplete"
         /\ s.marker.kind # "missing" => s.marker.text[1] = CheckoutVersion
         /\ s.legacy.kind = "missing"
  BY <1>5, <1>7, <1>8, <1>9, <1>12
<1> QED  BY <1>10, <1>13, <1>14 DEF e

-----------------------------------------------------------------------------
(* The child: what it writes is passed on, held or in a pipe.               *)

ChildActions == \/ Spawn \/ Exits \/ ErrorEvent \/ CloseEvent
                \/ \E s \in Streams : Writes(s) \/ ReadChunk(s) \/ StreamEnds(s)

\* Whole characters are passed on and a half is held: no byte is lost.
LEMMA HalvesHeld ==
  ASSUME NEW held \in 0..1, NEW piped \in Nat, NEW k \in 1..piped, NEW passed \in Nat,
         NEW written \in Nat, written = passed + held + piped
  PROVE  /\ (held + k) % 2 \in 0..1 /\ (passed + 2 * ((held + k) \div 2)) \in Nat
         /\ piped - k \in Nat
         /\ written = (passed + 2 * ((held + k) \div 2)) + ((held + k) % 2) + (piped - k)
<1>1. held + k \in Nat
  OBVIOUS
<1>2. /\ held + k = 2 * ((held + k) \div 2) + ((held + k) % 2)
      /\ (held + k) % 2 \in 0..1 /\ (held + k) \div 2 \in Nat
  BY <1>1
<1> QED  BY <1>2

LEMMA WritesFields ==
  ASSUME TypeOK, ChildInv, NEW s \in Streams, Writes(s)
  PROVE  /\ child'.left = [child.left EXCEPT ![s] = @ - 1]
         /\ child'.written = [child.written EXCEPT ![s] = @ + 1]
         /\ child'.piped = [child.piped EXCEPT ![s] = @ + 1]
         /\ child'.held = child.held /\ child'.forwarded = child.forwarded
         /\ child'.pc = child.pc /\ child'.started = child.started /\ child'.open = child.open
         /\ child'.settled = child.settled /\ child'.status = child.status
         /\ child'.signal = child.signal
         /\ DOMAIN child' = ChildFields
<1>1. DOMAIN child = ChildFields
  BY DEF TypeOK
<1>2. child' = [child EXCEPT !.left[s] = @ - 1, !.written[s] = @ + 1, !.piped[s] = @ + 1]
  BY DEF Writes
<1> QED  BY <1>1, <1>2 DEF ChildFields

LEMMA ReadFields ==
  ASSUME TypeOK, ChildInv, NEW s \in Streams, NEW k \in 1..child.piped[s],
         child' = [child EXCEPT !.piped[s] = @ - k,
                       !.held[s] = (@ + k) % 2,
                       !.forwarded[s] = @ + 2 * ((child.held[s] + k) \div 2)]
  PROVE  /\ child'.left = child.left /\ child'.written = child.written
         /\ child'.piped = [child.piped EXCEPT ![s] = @ - k]
         /\ child'.held = [child.held EXCEPT ![s] = (@ + k) % 2]
         /\ child'.forwarded = [child.forwarded EXCEPT
                                   ![s] = @ + 2 * ((child.held[s] + k) \div 2)]
         /\ child'.pc = child.pc /\ child'.started = child.started /\ child'.open = child.open
         /\ child'.settled = child.settled /\ child'.status = child.status
         /\ child'.signal = child.signal
         /\ DOMAIN child' = ChildFields
<1>1. DOMAIN child = ChildFields
  BY DEF TypeOK
<1> QED  BY <1>1 DEF ChildFields

LEMMA EndsFields ==
  ASSUME TypeOK, ChildInv, NEW s \in Streams, StreamEnds(s)
  PROVE  /\ child'.left = child.left /\ child'.written = child.written
         /\ child'.piped = child.piped
         /\ child'.held = [child.held EXCEPT ![s] = 0]
         /\ child'.forwarded = [child.forwarded EXCEPT ![s] = @ + child.held[s]]
         /\ child'.pc = child.pc /\ child'.started = child.started
         /\ child'.open = child.open \ {s}
         /\ child'.settled = child.settled /\ child'.status = child.status
         /\ child'.signal = child.signal
         /\ DOMAIN child' = ChildFields
<1>1. DOMAIN child = ChildFields
  BY DEF TypeOK
<1>2. child' = [child EXCEPT !.open = @ \ {s}, !.forwarded[s] = @ + child.held[s], !.held[s] = 0]
  BY DEF StreamEnds
<1> QED  BY <1>1, <1>2 DEF ChildFields

LEMMA ExitsFields ==
  ASSUME TypeOK, ChildInv, Exits
  PROVE  /\ child.pc = "running" /\ child'.pc = "exited"
         /\ child'.left \in {child.left, NoChild.left}
         /\ child'.written = child.written /\ child'.piped = child.piped
         /\ child'.held = child.held /\ child'.forwarded = child.forwarded
         /\ child'.started = child.started /\ child'.open = child.open
         /\ child'.settled = child.settled
         /\ DOMAIN child' = ChildFields
<1>1. DOMAIN child = ChildFields
  BY DEF TypeOK
<1>2. PICK status \in {0, 2}, signal \in BOOLEAN, left \in {child.left, NoChild.left} :
        child' = [child EXCEPT !.pc = "exited", !.status = status, !.signal = signal,
                               !.left = left]
  BY DEF Exits
<1>3. child.pc = "running"
  BY DEF Exits
<1> HIDE DEF NoChild
<1> QED  BY <1>1, <1>2, <1>3 DEF ChildFields

\* Before it is started, nothing is open or written.
LEMMA NoChildFacts ==
  /\ DOMAIN NoChild = ChildFields
  /\ NoChild.pc = "none" /\ NoChild.started = 0 /\ NoChild.settled = FALSE /\ NoChild.open = {}
  /\ DOMAIN NoChild.left = Streams /\ DOMAIN NoChild.written = Streams
  /\ DOMAIN NoChild.piped = Streams /\ DOMAIN NoChild.held = Streams
  /\ DOMAIN NoChild.forwarded = Streams
  /\ \A s \in Streams : /\ NoChild.left[s] = 0 /\ NoChild.written[s] = 0
                        /\ NoChild.piped[s] = 0 /\ NoChild.held[s] = 0
                        /\ NoChild.forwarded[s] = 0
  BY DEF NoChild, ChildFields

LEMMA SpawnFields ==
  ASSUME TypeOK, PhaseInv, Spawn
  PROVE  /\ child = NoChild
         /\ child'.written = NoChild.written /\ child'.piped = NoChild.piped
         /\ child'.held = NoChild.held /\ child'.forwarded = NoChild.forwarded
         /\ DOMAIN child' = ChildFields
         /\ \/ /\ child'.pc = "closed" /\ child'.settled = TRUE /\ child'.started = 0
               /\ child'.left = NoChild.left /\ child'.open = {}
               /\ phase' = "done" /\ verdict' = Outcome("ERROR")
            \/ /\ child'.pc = "failed" /\ child'.settled = FALSE /\ child'.started = 1
               /\ child'.left = NoChild.left /\ child'.open = {}
               /\ phase' = "await" /\ UNCHANGED verdict
            \/ /\ child'.pc = "running" /\ child'.settled = FALSE /\ child'.started = 1
               /\ child'.left \in [Streams -> Nat] /\ child'.open = Streams
               /\ phase' = "await" /\ UNCHANGED verdict
<1>1. child = NoChild
  BY DEF Spawn, PhaseInv
<1>2. CASE child' = [child EXCEPT !.settled = TRUE, !.pc = "closed"] /\ Finish("ERROR")
  <2> HIDE DEF NoChild
  <2> QED  BY <1>1, <1>2, NoChildFacts DEF Finish, ChildFields
<1>3. CASE /\ child' = [child EXCEPT !.pc = "failed", !.started = @ + 1]
           /\ phase' = "await" /\ UNCHANGED verdict
  <2> HIDE DEF NoChild
  <2> QED  BY <1>1, <1>3, NoChildFacts DEF ChildFields
<1>4. CASE /\ \E output \in [Streams -> 0..MaxOutput] :
                child' = [child EXCEPT !.pc = "running", !.started = @ + 1,
                                       !.left = output, !.open = Streams]
           /\ phase' = "await" /\ UNCHANGED verdict
  <2>1. PICK output \in [Streams -> 0..MaxOutput] :
          child' = [child EXCEPT !.pc = "running", !.started = @ + 1,
                                 !.left = output, !.open = Streams]
    BY <1>4
  <2>2. output \in [Streams -> Nat]
    BY CasesAssumption
  <2> HIDE DEF NoChild, Streams
  <2> QED  BY <1>1, <1>4, <2>1, <2>2, NoChildFacts DEF ChildFields
<1> QED  BY <1>2, <1>3, <1>4 DEF Spawn

LEMMA EventFields ==
  ASSUME TypeOK, ErrorEvent \/ CloseEvent
  PROVE  /\ child'.left = child.left /\ child'.written = child.written
         /\ child'.piped = child.piped /\ child'.held = child.held
         /\ child'.forwarded = child.forwarded
         /\ child'.started = child.started /\ child'.open = child.open
         /\ child'.status = child.status /\ child'.signal = child.signal
         /\ child'.settled = TRUE
         /\ DOMAIN child' = ChildFields
         /\ ErrorEvent => child'.pc = "refused"
         /\ CloseEvent => child'.pc = "closed"
<1>1. DOMAIN child = ChildFields
  BY DEF TypeOK
<1>2. \/ ErrorEvent /\ child' = [child EXCEPT !.pc = "refused", !.settled = TRUE]
                    /\ child.pc = "failed"
      \/ CloseEvent /\ child' = [child EXCEPT !.pc = "closed", !.settled = TRUE]
                    /\ child.pc \in {"exited", "refused"}
  BY DEF ErrorEvent, CloseEvent
<1>3. ~(ErrorEvent /\ CloseEvent)
  BY DEF ErrorEvent, CloseEvent
<1> QED  BY <1>1, <1>2, <1>3 DEF ChildFields

LEMMA BalancedFields ==
  ASSUME NEW c, NEW d, NEW t, Balanced(d, t),
         c.left[t] = d.left[t], c.written[t] = d.written[t], c.piped[t] = d.piped[t],
         c.held[t] = d.held[t], c.forwarded[t] = d.forwarded[t], t \in c.open <=> t \in d.open
  PROVE  Balanced(c, t)
  BY DEF Balanced

LEMMA BalancedNumbers ==
  ASSUME NEW c, NEW t, NEW l \in Nat, NEW w \in Nat, NEW p \in Nat, NEW h \in 0..1, NEW f \in Nat,
         c.left[t] = l, c.written[t] = w, c.piped[t] = p, c.held[t] = h, c.forwarded[t] = f,
         w = f + h + p, t \notin c.open => l = 0 /\ h = 0 /\ p = 0
  PROVE  Balanced(c, t)
  BY DEF Balanced

LEMMA ChildStep ==
  ASSUME TypeOK, PhaseInv, ChildInv, ChildActions
  PROVE  ChildInv' /\ DOMAIN child' = ChildFields
<1>1. CASE Spawn
  <2>1. \A t \in Streams : Balanced(child', t)
    <3> TAKE t \in Streams
    <3>1. /\ NoChild.left[t] = 0 /\ NoChild.written[t] = 0 /\ NoChild.piped[t] = 0
          /\ NoChild.held[t] = 0 /\ NoChild.forwarded[t] = 0
      BY NoChildFacts
    <3> HIDE DEF NoChild
    <3>2. /\ child'.written[t] = 0 /\ child'.piped[t] = 0
          /\ child'.held[t] = 0 /\ child'.forwarded[t] = 0
      <4>1. /\ child'.written = NoChild.written /\ child'.piped = NoChild.piped
            /\ child'.held = NoChild.held /\ child'.forwarded = NoChild.forwarded
        BY <1>1, SpawnFields
      <4> QED  BY <3>1, <4>1
    <3>3. child'.left[t] \in Nat /\ (t \notin child'.open => child'.left[t] = 0)
      <4>1. \/ child'.left = NoChild.left
            \/ child'.left \in [Streams -> Nat] /\ child'.open = Streams
        BY <1>1, SpawnFields
      <4>2. CASE child'.left = NoChild.left
        BY <3>1, <4>2
      <4>3. CASE child'.left \in [Streams -> Nat] /\ child'.open = Streams
        BY <4>3
      <4> QED  BY <4>1, <4>2, <4>3
    <3> QED  BY <3>2, <3>3 DEF Balanced
  <2> HIDE DEF NoChild
  <2> QED  BY <1>1, <2>1, SpawnFields, NoChildFacts DEF ChildInv
<1>2. CASE Exits
  <2>1. \A t \in Streams : Balanced(child', t)
    <3> HIDE DEF NoChild
    <3> QED  BY <1>2, ExitsFields, NoChildFacts DEF Balanced, ChildInv
  <2> HIDE DEF NoChild
  <2> QED  BY <1>2, <2>1, ExitsFields, NoChildFacts DEF ChildInv
<1>3. CASE ErrorEvent \/ CloseEvent
  <2>1. \A t \in Streams : Balanced(child', t)
    <3> TAKE t \in Streams
    <3>1. Balanced(child, t)
      BY DEF ChildInv
    <3> QED  BY <1>3, <3>1, EventFields, BalancedFields
  <2>2. child.open = {} /\ child.started = 1
    BY <1>3 DEF ErrorEvent, CloseEvent, ChildInv
  <2>3. ErrorEvent => \A s \in Streams : child.written[s] = 0
    BY DEF ErrorEvent, ChildInv
  <2> QED  BY <1>3, <2>1, <2>2, <2>3, EventFields DEF ChildInv
<1>4. ASSUME NEW s \in Streams, Writes(s)
      PROVE  ChildInv' /\ DOMAIN child' = ChildFields
  <2>1. s \in child.open /\ child.left[s] > 0
    BY <1>4 DEF Writes
  <2>2. \A t \in Streams : Balanced(child', t)
    <3> TAKE t \in Streams
    <3>1. Balanced(child, t)
      BY DEF ChildInv
    <3>2. DOMAIN child.left = Streams /\ DOMAIN child.written = Streams
          /\ DOMAIN child.piped = Streams
      BY DEF ChildInv
    <3>3. CASE t # s
      <4>1. /\ child'.left[t] = child.left[t] /\ child'.written[t] = child.written[t]
            /\ child'.piped[t] = child.piped[t] /\ child'.held[t] = child.held[t]
            /\ child'.forwarded[t] = child.forwarded[t] /\ child'.open = child.open
        BY <1>4, <3>2, <3>3, WritesFields
      <4> QED  BY <3>1, <4>1, BalancedFields
    <3>4. CASE t = s
      <4>1. /\ child'.left[t] = child.left[t] - 1 /\ child'.written[t] = child.written[t] + 1
            /\ child'.piped[t] = child.piped[t] + 1 /\ child'.held[t] = child.held[t]
            /\ child'.forwarded[t] = child.forwarded[t] /\ child'.open = child.open
        BY <1>4, <3>2, <3>4, WritesFields
      <4>2. /\ child.left[t] - 1 \in Nat /\ child.written[t] + 1 \in Nat
            /\ child.piped[t] + 1 \in Nat /\ child.held[t] \in 0..1 /\ child.forwarded[t] \in Nat
            /\ child.written[t] + 1 = child.forwarded[t] + child.held[t] + (child.piped[t] + 1)
            /\ t \in child.open
        BY <2>1, <3>1, <3>4 DEF Balanced
      <4> QED  BY <4>1, <4>2, BalancedNumbers
    <3> QED  BY <3>3, <3>4
  <2> QED  BY <1>4, <2>1, <2>2, WritesFields DEF ChildInv
<1>5. ASSUME NEW s \in Streams, ReadChunk(s)
      PROVE  ChildInv' /\ DOMAIN child' = ChildFields
  <2>1. PICK k \in 1..child.piped[s] :
          child' = [child EXCEPT !.piped[s] = @ - k,
                       !.held[s] = (@ + k) % 2,
                       !.forwarded[s] = @ + 2 * ((child.held[s] + k) \div 2)]
    BY <1>5 DEF ReadChunk
  <2>2. Balanced(child, s) /\ child.piped[s] > 0
    BY <1>5 DEF ChildInv, ReadChunk
  <2>3. /\ (child.held[s] + k) % 2 \in 0..1
        /\ (child.forwarded[s] + 2 * ((child.held[s] + k) \div 2)) \in Nat
        /\ child.piped[s] - k \in Nat
        /\ child.written[s] = (child.forwarded[s] + 2 * ((child.held[s] + k) \div 2))
                                + ((child.held[s] + k) % 2) + (child.piped[s] - k)
    BY <2>2, HalvesHeld DEF Balanced
  <2>4. /\ DOMAIN child.left = Streams /\ DOMAIN child.written = Streams
        /\ DOMAIN child.piped = Streams /\ DOMAIN child.held = Streams
        /\ DOMAIN child.forwarded = Streams
    BY DEF ChildInv
  <2> DEFINE half == (child.held[s] + k) % 2
             whole == child.forwarded[s] + 2 * ((child.held[s] + k) \div 2)
  <2>5. /\ child'.left = child.left /\ child'.written = child.written
        /\ child'.piped = [child.piped EXCEPT ![s] = @ - k]
        /\ child'.held = [child.held EXCEPT ![s] = half]
        /\ child'.forwarded = [child.forwarded EXCEPT ![s] = whole]
        /\ child'.open = child.open
    BY <2>1, ReadFields
  <2>6. half \in 0..1 /\ whole \in Nat /\ child.written[s] = whole + half + (child.piped[s] - k)
    BY <2>3
  <2> HIDE DEF half, whole
  <2>7. s \in child.open
    BY <2>2 DEF Balanced
  <2>8. \A t \in Streams : Balanced(child', t)
    <3> TAKE t \in Streams
    <3>1. Balanced(child, t)
      BY DEF ChildInv
    <3>2. CASE t # s
      <4>1. /\ child'.left[t] = child.left[t] /\ child'.written[t] = child.written[t]
            /\ child'.piped[t] = child.piped[t] /\ child'.held[t] = child.held[t]
            /\ child'.forwarded[t] = child.forwarded[t] /\ child'.open = child.open
        BY <2>4, <2>5, <3>2
      <4> QED  BY <3>1, <4>1, BalancedFields
    <3>3. CASE t = s
      <4>1. /\ child'.left[t] = child.left[t] /\ child'.written[t] = child.written[t]
            /\ child'.piped[t] = child.piped[t] - k /\ child'.held[t] = half
            /\ child'.forwarded[t] = whole /\ t \in child'.open
        BY <2>4, <2>5, <2>7, <3>3
      <4>2. child.left[t] \in Nat /\ child.written[t] \in Nat
        BY <3>1 DEF Balanced
      <4>3. /\ child.piped[t] - k \in Nat
            /\ child.written[t] = whole + half + (child.piped[t] - k)
        BY <2>3, <2>6, <3>3
      <4> QED  BY <2>6, <4>1, <4>2, <4>3, BalancedNumbers
    <3> QED  BY <3>2, <3>3
  <2>9. /\ child'.pc = child.pc /\ child'.started = child.started /\ child'.open = child.open
        /\ child'.settled = child.settled /\ child'.written = child.written
        /\ DOMAIN child' = ChildFields
    BY <2>1, ReadFields
  <2>10. /\ DOMAIN child'.left = Streams /\ DOMAIN child'.written = Streams
         /\ DOMAIN child'.piped = Streams /\ DOMAIN child'.held = Streams
         /\ DOMAIN child'.forwarded = Streams
    BY <2>4, <2>5
  <2> QED  BY <2>8, <2>9, <2>10 DEF ChildInv
<1>6. ASSUME NEW s \in Streams, StreamEnds(s)
      PROVE  ChildInv' /\ DOMAIN child' = ChildFields
  <2>1. child.left[s] = 0 /\ child.piped[s] = 0 /\ s \in child.open
    BY <1>6 DEF StreamEnds
  <2>2. \A t \in Streams : Balanced(child', t)
    <3> TAKE t \in Streams
    <3>1. Balanced(child, t)
      BY DEF ChildInv
    <3>2. DOMAIN child.held = Streams /\ DOMAIN child.forwarded = Streams
      BY DEF ChildInv
    <3>3. CASE t # s
      <4>1. /\ child'.left[t] = child.left[t] /\ child'.written[t] = child.written[t]
            /\ child'.piped[t] = child.piped[t] /\ child'.held[t] = child.held[t]
            /\ child'.forwarded[t] = child.forwarded[t]
            /\ (t \in child'.open <=> t \in child.open)
        BY <1>6, <3>2, <3>3, EndsFields
      <4> QED  BY <3>1, <4>1, BalancedFields
    <3>4. CASE t = s
      <4>1. /\ child'.left[t] = 0 /\ child'.written[t] = child.written[t]
            /\ child'.piped[t] = 0 /\ child'.held[t] = 0
            /\ child'.forwarded[t] = child.forwarded[t] + child.held[t]
        BY <1>6, <2>1, <3>2, <3>4, EndsFields
      <4>2. /\ child.written[t] \in Nat /\ child.forwarded[t] + child.held[t] \in Nat
            /\ child.written[t] = (child.forwarded[t] + child.held[t]) + 0 + 0
        BY <2>1, <3>1, <3>4 DEF Balanced
      <4> QED  BY <4>1, <4>2, BalancedNumbers
    <3> QED  BY <3>3, <3>4
  <2> QED  BY <1>6, <2>1, <2>2, EndsFields DEF ChildInv
<1> QED  BY <1>1, <1>2, <1>3, <1>4, <1>5, <1>6 DEF ChildActions

-----------------------------------------------------------------------------
(* The outcome of make verify.                                              *)

Verified == {"VERIFIED_LOCAL", "VERIFICATION_FAILED"}

\* When the child acts at all.
LEMMA ChildActsWhen ==
  ASSUME PhaseInv, ChildInv, ChildActions
  PROVE  /\ \/ Spawn /\ phase = "spawn" /\ child.pc = "none"
            \/ ~Spawn /\ phase = "await" /\ child.pc \in {"failed", "running", "exited"}
            \/ CloseEvent /\ phase = "done" /\ child.pc = "refused"
         /\ UNCHANGED OfChild
<1>1. UNCHANGED OfChild
  BY Zenon DEF ChildActions, Spawn, Exits, ErrorEvent, CloseEvent, Writes, ReadChunk, StreamEnds
<1>2. CASE Spawn
  BY <1>2, NoChildFacts, Zenon DEF Spawn, PhaseInv
<1>3. ~Spawn /\ child.pc \in {"failed", "running", "exited"} => phase = "await"
  BY DEF PhaseInv
<1>4. CASE Exits \/ ErrorEvent
  BY <1>3, <1>4, Zenon DEF Exits, ErrorEvent, PhaseInv, Spawn
<1>5. CASE CloseEvent
  <2>1. CASE child.pc = "exited"
    BY <1>1, <1>5, <2>1 DEF PhaseInv, Spawn
  <2>2. CASE child.pc = "refused"
    <3>1. child # NoChild /\ phase # "await"
      BY <2>2, NoChildFacts DEF PhaseInv
    <3>2. phase = "done"
      BY <3>1 DEF PhaseInv
    <3> QED  BY <1>1, <1>5, <2>2, <3>2
  <2> QED  BY <1>1, <1>5, <2>1, <2>2 DEF CloseEvent
<1>6. ASSUME NEW s \in Streams, Writes(s) \/ ReadChunk(s) \/ StreamEnds(s)
      PROVE  ~Spawn /\ phase = "await" /\ child.pc \in {"failed", "running", "exited"}
  <2>1. Balanced(child, s)
    BY DEF ChildInv
  <2>2. s \in child.open
    <3>1. CASE Writes(s) \/ StreamEnds(s)
      BY <3>1 DEF Writes, StreamEnds
    <3>2. CASE ReadChunk(s)
      <4>1. child.piped[s] > 0
        BY <3>2 DEF ReadChunk
      <4> QED  BY <2>1, <4>1 DEF Balanced
    <3> QED  BY <1>6, <3>1, <3>2
  <2>3. child.pc \in {"running", "exited"}
    BY <2>2 DEF ChildInv
  <2> QED  BY <2>3 DEF PhaseInv, Spawn
<1> QED  BY <1>1, <1>2, <1>3, <1>4, <1>5, <1>6, Zenon DEF ChildActions

\* What a step of the child makes of the outcome.
LEMMA ChildOutcome ==
  ASSUME TypeOK, PhaseInv, ChildInv, ChildActions
  PROVE  /\ DOMAIN verdict' = VerdictFields
         /\ verdict'.required = verdict.required
         /\ \/ verdict'.outcome = verdict.outcome /\ phase' = phase
               /\ ~Spawn /\ ~ErrorEvent /\ ~(CloseEvent /\ phase = "await")
            \/ verdict'.outcome = verdict.outcome /\ phase' = "await" /\ Spawn
               /\ child'.pc \in {"failed", "running"}
            \/ verdict'.outcome = "ERROR" /\ phase' = "done" /\ Spawn /\ child'.pc = "closed"
            \/ verdict'.outcome = "ERROR" /\ phase' = "done" /\ ErrorEvent /\ phase = "await"
            \/ /\ CloseEvent /\ child.pc = "exited" /\ phase' = "done" /\ phase = "await"
               /\ verdict'.outcome = IF child.status = 0 /\ ~child.signal
                                     THEN "VERIFIED_LOCAL" ELSE "VERIFICATION_FAILED"
<1>1. DOMAIN verdict = VerdictFields
  BY DEF TypeOK
<1>2. \A name : LET v == Outcome(name)
                IN  DOMAIN v = VerdictFields /\ v.outcome = name /\ v.required = verdict.required
  BY <1>1 DEF Outcome, VerdictFields
<1>3. CASE Spawn
  <2>1. ~CloseEvent /\ ~ErrorEvent /\ child.pc = "none"
    BY <1>3, SpawnFields, NoChildFacts DEF CloseEvent, ErrorEvent
  <2> QED  BY <1>1, <1>2, <1>3, <2>1, SpawnFields, Zenon
<1>4. CASE ErrorEvent
  <2>1. child.pc = "failed" /\ phase = "await" /\ ~child.settled /\ ~Spawn
    BY <1>4 DEF ErrorEvent, ChildInv, PhaseInv, Spawn
  <2>2. phase' = "done" /\ verdict' = Outcome("ERROR")
    BY <1>4, <2>1 DEF ErrorEvent, Finish
  <2> QED  BY <1>2, <1>4, <2>1, <2>2
<1>5. CASE CloseEvent /\ child.pc = "exited"
  <2>1. phase = "await" /\ ~child.settled
    BY <1>5 DEF ChildInv, PhaseInv
  <2>2. phase' = "done" /\ verdict' = Outcome(IF child.status = 0 /\ ~child.signal
                                              THEN "VERIFIED_LOCAL" ELSE "VERIFICATION_FAILED")
    BY <1>5, <2>1 DEF CloseEvent, Finish
  <2> QED  BY <1>2, <1>5, <2>1, <2>2
<1>6. CASE CloseEvent /\ child.pc # "exited"
  <2>1. child.pc = "refused" /\ child.settled
    BY <1>6 DEF CloseEvent, ChildInv
  <2>2. phase' = phase /\ verdict' = verdict
    BY <1>6, <2>1 DEF CloseEvent, Finish
  <2>3. ~Spawn /\ ~ErrorEvent /\ phase # "await"
    BY <2>1, NoChildFacts DEF Spawn, ErrorEvent, PhaseInv
  <2> QED  BY <1>1, <2>2, <2>3
<1>7. CASE ~Spawn /\ ~ErrorEvent /\ ~CloseEvent
  <2>1. phase' = phase /\ verdict' = verdict
    BY <1>7, Zenon DEF ChildActions, Exits, Writes, ReadChunk, StreamEnds
  <2> QED  BY <1>1, <1>7, <2>1, Zenon
<1> QED  BY <1>3, <1>4, <1>5, <1>6, <1>7

Busy == {"failed", "running", "exited"}

\* Between starting and closing, the command waits.
LEMMA ChildWaits ==
  ASSUME TypeOK, PhaseInv, ChildInv, ChildActions
  PROVE  phase' \in {"await", "done"} /\ (phase' = "await" <=> child'.pc \in Busy)
<1>1. CASE Spawn
  BY <1>1, SpawnFields DEF Busy
<1>2. CASE Exits
  <2>1. child.pc = "running" /\ child'.pc = "exited" /\ phase' = phase
    BY <1>2, ExitsFields DEF Exits
  <2> QED  BY <2>1 DEF Busy, PhaseInv
<1>3. CASE ErrorEvent
  <2>1. phase' = "done" \/ phase' = phase
    BY <1>3 DEF ErrorEvent, Finish
  <2>2. child.pc = "failed" /\ ~child.settled
    BY <1>3 DEF ErrorEvent, ChildInv
  <2>3. phase' = "done"
    BY <1>3, <2>2 DEF ErrorEvent, Finish
  <2> QED  BY <1>3, <2>3, EventFields DEF Busy
<1>4. CASE CloseEvent
  <2>1. child'.pc = "closed"
    BY <1>4, EventFields
  <2>2. phase' = "done"
    <3>1. CASE child.pc = "exited"
      <4>1. ~child.settled
        BY <3>1 DEF ChildInv
      <4> QED  BY <1>4, <4>1 DEF CloseEvent, Finish
    <3>2. CASE child.pc # "exited"
      <4>1. child.settled /\ child.pc = "refused"
        BY <1>4, <3>2 DEF ChildInv, CloseEvent
      <4>2. phase = "done"
        BY <1>4, <4>1, ChildActsWhen, NoChildFacts DEF Spawn, PhaseInv
      <4> QED  BY <1>4, <4>1, <4>2 DEF CloseEvent, Finish
    <3> QED  BY <3>1, <3>2
  <2> QED  BY <2>1, <2>2 DEF Busy
<1>5. ASSUME NEW s \in Streams, Writes(s) \/ ReadChunk(s) \/ StreamEnds(s)
      PROVE  phase' = phase /\ child'.pc = child.pc
  <2>1. phase' = phase
    BY <1>5 DEF Writes, ReadChunk, StreamEnds
  <2>2. CASE Writes(s)
    BY <2>1, <2>2, WritesFields
  <2>3. CASE ReadChunk(s)
    <3>1. PICK k \in 1..child.piped[s] :
            child' = [child EXCEPT !.piped[s] = @ - k,
                         !.held[s] = (@ + k) % 2,
                         !.forwarded[s] = @ + 2 * ((child.held[s] + k) \div 2)]
      BY <2>3 DEF ReadChunk
    <3>2. child'.pc = child.pc
      BY <3>1, ReadFields
    <3> QED  BY <2>1, <3>2
  <2>4. CASE StreamEnds(s)
    BY <2>1, <2>4, EndsFields
  <2> QED  BY <1>5, <2>2, <2>3, <2>4
<1>6. CASE ~(Spawn \/ Exits \/ ErrorEvent \/ CloseEvent)
  <2>1. phase' = phase /\ child'.pc = child.pc
    BY <1>5, <1>6 DEF ChildActions
  <2>2. phase = "await"
    BY <1>6, ChildActsWhen
  <2> QED  BY <2>1, <2>2 DEF PhaseInv, Busy
<1> QED  BY <1>1, <1>2, <1>3, <1>4, <1>6

\* What is passed on when both streams have ended is all that was written.
LEMMA AllPassedOn ==
  ASSUME ChildInv, child.open = {}, NEW s \in Streams
  PROVE  child.left[s] = 0 /\ child.forwarded[s] = child.written[s]
<1>1. Balanced(child, s) /\ s \notin child.open
  BY DEF ChildInv
<1> QED  BY <1>1 DEF Balanced

LEMMA ChildOutcomeIsTheChilds ==
  ASSUME IInv, ChildActions
  PROVE  /\ OutcomeIsTheChilds'
         /\ verdict'.outcome \in Verified => child'.pc = "closed"
<1> USE DEF IInv
<1>0. child.pc # "closed"
  BY ChildActsWhen DEF PhaseInv
<1>1. verdict.outcome \notin Verified
  BY <1>0 DEF VerdictInv, Verified
<1>2. CASE verdict'.outcome = verdict.outcome /\ ~ErrorEvent /\ ~(CloseEvent /\ phase = "await")
  <2>1. verdict'.outcome \notin Verified
    BY <1>1, <1>2
  <2>0. ASSUME CloseEvent
        PROVE  child.pc = "refused"
    <3>1. child.pc \in {"exited", "refused"}
      BY <2>0 DEF CloseEvent
    <3>2. phase # "await"
      BY <1>2, <2>0
    <3>3. child.pc # "exited"
      BY <3>2 DEF PhaseInv
    <3> QED  BY <3>1, <3>3
  <2>2. child'.settled => \/ CloseEvent /\ child.pc = "refused"
                          \/ Spawn /\ child'.pc = "closed"
    <3>1. CASE Spawn
      BY <3>1, SpawnFields, ChildStep DEF ChildInv
    <3>2. CASE CloseEvent
      BY <2>0, <3>2
    <3>3. CASE ~Spawn /\ ~CloseEvent
      <4>1. child.pc \in Busy /\ phase = "await"
        BY <3>3, ChildActsWhen DEF Busy
      <4>2. phase' = "await"
        BY <1>2, <3>3, <4>1, ChildOutcome
      <4>3. child'.pc \in Busy
        BY <4>2, ChildWaits
      <4> QED  BY <4>3, ChildStep DEF ChildInv, Busy
    <3> QED  BY <3>1, <3>2, <3>3
  <2>3. child'.settled => /\ child'.pc \in {"refused", "closed"}
                          /\ \A s \in Streams : child'.written[s] = 0
    <3>1. CASE CloseEvent /\ child.pc = "refused"
      BY <3>1, EventFields DEF ChildInv
    <3>2. CASE Spawn /\ child'.pc = "closed"
      BY <3>2, SpawnFields, NoChildFacts
    <3> QED  BY <2>2, <3>1, <3>2
  <2> QED  BY <2>1, <2>3 DEF OutcomeIsTheChilds, Verified
<1>3. CASE verdict'.outcome = "ERROR" /\ (Spawn \/ ErrorEvent)
  <2>1. CASE Spawn
    <3>1. \A s \in Streams : child'.written[s] = 0
      BY <2>1, SpawnFields, NoChildFacts
    <3>2. child'.settled => child'.pc \in {"refused", "closed"}
      BY ChildStep DEF ChildInv
    <3> QED  BY <1>3, <3>1, <3>2 DEF OutcomeIsTheChilds, Verified
  <2>2. CASE ErrorEvent
    <3>1. \A s \in Streams : child'.written[s] = 0
      BY <2>2, EventFields DEF ErrorEvent, ChildInv
    <3>2. child'.settled => child'.pc \in {"refused", "closed"}
      BY ChildStep DEF ChildInv
    <3> QED  BY <1>3, <3>1, <3>2 DEF OutcomeIsTheChilds, Verified
  <2> QED  BY <1>3, <2>1, <2>2
<1>4. CASE /\ CloseEvent /\ child.pc = "exited" /\ phase = "await"
           /\ verdict'.outcome = IF child.status = 0 /\ ~child.signal
                                 THEN "VERIFIED_LOCAL" ELSE "VERIFICATION_FAILED"
  <2>1. child.open = {} /\ child.started = 1
    BY <1>4 DEF CloseEvent, ChildInv
  <2>2. /\ child'.pc = "closed" /\ child'.started = 1
        /\ child'.status = child.status /\ child'.signal = child.signal
        /\ child'.left = child.left /\ child'.forwarded = child.forwarded
        /\ child'.written = child.written
    BY <1>4, <2>1, EventFields
  <2>3. Confirmed(verdict'.required)
    BY <1>4, ChildOutcome DEF PhaseInv
  <2>4. \A s \in Streams : child'.left[s] = 0 /\ child'.forwarded[s] = child'.written[s]
    BY <2>1, <2>2, AllPassedOn
  <2>5. verdict'.outcome = "VERIFIED_LOCAL" => child'.status = 0 /\ ~child'.signal
    BY <1>4, <2>2
  <2>6. verdict'.outcome = "VERIFICATION_FAILED" => ~(child'.status = 0 /\ ~child'.signal)
    BY <1>4, <2>2
  <2>7. verdict'.outcome # "ERROR"
    BY <1>4
  <2> QED  BY <2>2, <2>3, <2>4, <2>5, <2>6, <2>7 DEF OutcomeIsTheChilds
<1>5. \/ verdict'.outcome = verdict.outcome /\ ~ErrorEvent /\ ~(CloseEvent /\ phase = "await")
      \/ verdict'.outcome = "ERROR" /\ (Spawn \/ ErrorEvent)
      \/ /\ CloseEvent /\ child.pc = "exited" /\ phase = "await"
         /\ verdict'.outcome = IF child.status = 0 /\ ~child.signal
                               THEN "VERIFIED_LOCAL" ELSE "VERIFICATION_FAILED"
  <2>1. Spawn => ~ErrorEvent /\ ~(CloseEvent /\ phase = "await")
    BY DEF Spawn, ErrorEvent, CloseEvent, PhaseInv
  <2> QED  BY <2>1, ChildOutcome
<1> QED  BY <1>2, <1>3, <1>4, <1>5 DEF Verified

-----------------------------------------------------------------------------
(* What is read through the directories that are held.                      *)

LEMMA GuardedGrows ==
  ASSUME NEW seen, NEW more, NEW left, NEW dir, NEW now, NEW held,
         Guarded(seen, left, dir, now, held), \A r \in more : r.dir = dir => r.ino = now
  PROVE  Guarded(seen \cup more, left, dir, now, held)
  BY DEF Guarded, Only

LEMMA GuardedHeld ==
  ASSUME NEW seen, NEW left, NEW dir, NEW held, Guarded(seen, left, dir, held, held)
  PROVE  OneInode(seen, dir)
  BY DEF Guarded, Only, OneInode

LEMMA UnreadGuarded ==
  ASSUME NEW seen, NEW left, NEW dir, NEW now, NEW held, Unread(seen, dir), Old(left, held)
  PROVE  Guarded(seen, left, dir, now, held)
  BY DEF Guarded, Only, Unread

LEMMA UnreadOne ==
  ASSUME NEW seen, NEW dir, Unread(seen, dir)
  PROVE  OneInode(seen, dir)
  BY DEF OneInode, Unread

\* What is read elsewhere changes nothing.
LEMMA ReadElsewhere ==
  ASSUME NEW seen, NEW more, NEW dir, \A r \in more : r.dir # dir
  PROVE  /\ Unread(seen, dir) => Unread(seen \cup more, dir)
         /\ OneInode(seen, dir) => OneInode(seen \cup more, dir)
         /\ \A left, now, held : Guarded(seen, left, dir, now, held)
                                   => Guarded(seen \cup more, left, dir, now, held)
  BY DEF OneInode, Unread, Guarded, Only

\* An inode that is used up stays so, and a fresh one is never held.
LEMMA OldStays ==
  ASSUME NEW left \in Nat, left > 0, NEW ino, Old(left, ino)
  PROVE  Old(left - 1, ino) /\ ino # HighestFound + left
  BY DEF Old, HighestFound

LEMMA FreshIsOld ==
  ASSUME NEW left \in Nat, left > 0
  PROVE  Old(left - 1, HighestFound + left) /\ HighestFound + left > HighestFound
  BY DEF Old, HighestFound

LEMMA GuardedAfterExchange ==
  ASSUME NEW left \in Nat, left > 0, NEW seen, NEW dir, NEW now, NEW held,
         NEW later \in {now, HighestFound + left}, Guarded(seen, left, dir, now, held)
  PROVE  Guarded(seen, left - 1, dir, later, held)
<1>1. Old(left, held)
  BY DEF Guarded
<1>2. Old(left - 1, held) /\ held # HighestFound + left
  BY <1>1, OldStays
<1> QED  BY <1>2 DEF Guarded

LEMMA Labels ==
  /\ SpecsLabel # StoriesLabel
  /\ \A n : /\ SpecsLabel # StoryLabel(n) /\ SpecsLabel # DecisionsLabel(n)
            /\ StoriesLabel # StoryLabel(n) /\ StoriesLabel # DecisionsLabel(n)
  /\ \A n, m : /\ StoryLabel(n) # DecisionsLabel(m)
               /\ StoryLabel(n) = StoryLabel(m) => n = m
               /\ DecisionsLabel(n) = DecisionsLabel(m) => n = m
<1>1. SpecsLabel # StoriesLabel
  BY DEF SpecsLabel, StoriesLabel
<1>2. \A n : /\ SpecsLabel # StoryLabel(n) /\ SpecsLabel # DecisionsLabel(n)
            /\ StoriesLabel # StoryLabel(n) /\ StoriesLabel # DecisionsLabel(n)
  BY DEF SpecsLabel, StoriesLabel, StoryLabel, DecisionsLabel
<1>3. \A n, m : /\ StoryLabel(n) # DecisionsLabel(m)
                /\ StoryLabel(n) = StoryLabel(m) => n = m
                /\ DecisionsLabel(n) = DecisionsLabel(m) => n = m
  BY DEF StoryLabel, DecisionsLabel
<1> QED  BY <1>1, <1>2, <1>3

\* What a read goes through.
LEMMA GoesThrough ==
  /\ \A r \in ThroughSpecs : r.dir = SpecsLabel /\ r.ino = Specs.ino
  /\ \A r \in ThroughStories : \/ r.dir = SpecsLabel /\ r.ino = Specs.ino
                               \/ r.dir = StoriesLabel /\ r.ino = Stories.ino
  /\ \A n : \A r \in ThroughDir(n) :
        \/ r.dir = SpecsLabel /\ r.ino = Specs.ino
        \/ r.dir = StoriesLabel /\ r.ino = Stories.ino
        \/ r.dir = StoryLabel(n) /\ r.ino = DirOf(n).ino
  /\ \A n : \A r \in ThroughDecisions(n) :
        \/ r.dir = SpecsLabel /\ r.ino = Specs.ino
        \/ r.dir = DecisionsLabel(n) /\ r.ino = Decisions.ino
<1>1. \A d, i : \A r \in Through(d, i) : r.dir = d /\ r.ino = i
  BY DEF Through
<1>2. /\ ThroughSpecs = Through(SpecsLabel, Specs.ino)
      /\ ThroughStories = ThroughSpecs \cup Through(StoriesLabel, Stories.ino)
      /\ \A n : ThroughDir(n) = ThroughStories \cup Through(StoryLabel(n), DirOf(n).ino)
      /\ \A n : ThroughDecisions(n) = ThroughSpecs \cup Through(DecisionsLabel(n), Decisions.ino)
  BY DEF ThroughSpecs, ThroughStories, ThroughDir, ThroughDecisions, SpecsLabel, StoriesLabel,
     StoryLabel, DecisionsLabel
<1> QED  BY <1>1, <1>2

\* Nothing has been concluded.
LEMMA NothingConcluded ==
  ASSUME verdict'.outcome = "none"
  PROVE  VerdictInv'
  BY DEF VerdictInv, DoctorReadsOneTree, CleanMeansContracts, OutcomeIsTheChilds

\* What the walk relies on is of the tree, the walk and what was read alone.
LEMMA WalkFrame ==
  ASSUME OldInv, LabelInv, StoriesInv, NamesInv, CurrentInv, WalkInv, JudgedInv,
         UNCHANGED <<disk, swaps, walk, entries, reads>>
  PROVE  OldInv' /\ LabelInv' /\ StoriesInv' /\ NamesInv' /\ CurrentInv' /\ WalkInv' /\ JudgedInv'
<1>1. Current' = Current
  BY DEF Current
<1>2. OldInv' /\ LabelInv'
  BY DEF OldInv, LabelInv, Specs, Stories, Decisions, DirOf
<1>3. StoriesInv' /\ NamesInv'
  BY <1>1 DEF StoriesInv, NamesInv, Specs, Stories, Decisions, DirOf
<1>4. CurrentInv'
  BY <1>1 DEF CurrentInv, Specs, Stories, Decisions, DirOf
<1>5. WalkInv' /\ JudgedInv'
  BY DEF WalkInv, JudgedInv, DirOf
<1> QED  BY <1>2, <1>3, <1>4, <1>5

LEMMA ChildKeeps ==
  ASSUME IInv, ChildActions
  PROVE  IInv'
<1>0. /\ TypeOK /\ PhaseInv /\ OldInv /\ LabelInv /\ SpecsInv /\ StoriesInv /\ NamesInv /\ CurrentInv
      /\ WalkInv /\ JudgedInv /\ HandoffInv /\ ChildInv /\ VerdictInv
  BY DEF IInv
<1>1. UNCHANGED <<command, disk, swaps, snapshot, walk, entries, handoff, reads>>
  BY <1>0, ChildActsWhen DEF OfChild
<1>2. phase' \in {"await", "done"} /\ (phase' = "await" <=> child'.pc \in Busy)
  BY <1>0, ChildWaits
<1>3. ChildInv' /\ DOMAIN child' = ChildFields
  BY <1>0, ChildStep
<1>4. DOMAIN verdict' = VerdictFields /\ verdict'.required = verdict.required
  BY <1>0, ChildOutcome
<1>5. TypeOK'
  BY <1>0, <1>1, <1>3, <1>4 DEF TypeOK
<1>6. OldInv' /\ LabelInv' /\ StoriesInv' /\ NamesInv' /\ CurrentInv' /\ WalkInv' /\ JudgedInv'
  BY <1>0, <1>1, WalkFrame
<1>7. HandoffInv' /\ SpecsInv'
  BY <1>0, <1>1, <1>2 DEF HandoffInv, SpecsInv
<1>8. phase' = "await" => Confirmed(verdict.required)
  <2>1. phase' = "await" => phase \in {"spawn", "await"}
    BY <1>0, ChildOutcome DEF Spawn
  <2> QED  BY <1>0, <2>1 DEF PhaseInv
<1>9. PhaseInv'
  BY <1>2, <1>4, <1>8 DEF PhaseInv, Early, CheckPhases, Busy
<1>10. verdict'.outcome \in SoundOutcomes => verdict'.outcome = verdict.outcome
  BY <1>0, ChildOutcome DEF SoundOutcomes
<1>11. DoctorReadsOneTree'
  BY <1>0, <1>1, <1>10 DEF DoctorReadsOneTree, SoundOutcomes, VerdictInv
<1>12. CleanMeansContracts'
  BY <1>0, <1>1, <1>4, <1>10 DEF CleanMeansContracts, SoundOutcomes, VerdictInv, DirOf
<1>13. VerdictInv'
  BY <1>2, <1>11, <1>12, ChildOutcomeIsTheChilds DEF VerdictInv, Verified
<1> QED  BY <1>3, <1>5, <1>6, <1>7, <1>9, <1>13 DEF IInv

-----------------------------------------------------------------------------
(* The other process.                                                       *)

LEMMA SwapKinds == {"directory", "symlink", "missing"} \subseteq Kinds
  BY DEF Kinds

\* A fresh directory is of the type of the one it takes the place of.
LEMMA FreshDirectory ==
  ASSUME NEW kind \in Kinds, Fresh \in Nat
  PROVE  /\ \A d \in DirType : Replaced(d, kind) \in DirType /\ Replaced(d, kind).ino = Fresh
         /\ \A d \in StoriesType :
              /\ Replaced(d, kind) \in StoriesType /\ Replaced(d, kind).ino = Fresh
              /\ Replaced(d, kind).dirs = d.dirs
         /\ \A d \in DecisionsType :
              Replaced(d, kind) \in DecisionsType /\ Replaced(d, kind).ino = Fresh
         /\ \A d \in SpecsType :
              /\ Replaced(d, kind) \in SpecsType /\ Replaced(d, kind).ino = Fresh
              /\ Replaced(d, kind).stories = d.stories
              /\ Replaced(d, kind).decisions = d.decisions
<1>1. \A d \in DirType : Replaced(d, kind) \in DirType /\ Replaced(d, kind).ino = Fresh
  BY DEF Replaced, DirType
<1>2. \A d \in StoriesType :
        /\ Replaced(d, kind) \in StoriesType /\ Replaced(d, kind).ino = Fresh
        /\ Replaced(d, kind).dirs = d.dirs
  BY DEF Replaced, StoriesType
<1>3. \A d \in DecisionsType : Replaced(d, kind) \in DecisionsType /\ Replaced(d, kind).ino = Fresh
  BY DEF Replaced, DecisionsType
<1>4. \A d \in SpecsType :
        /\ Replaced(d, kind) \in SpecsType /\ Replaced(d, kind).ino = Fresh
        /\ Replaced(d, kind).stories = d.stories
        /\ Replaced(d, kind).decisions = d.decisions
  BY Zenon DEF Replaced, SpecsType
<1> QED  BY <1>1, <1>2, <1>3, <1>4

\* What an exchange leaves of the directories: each is as it was, or fresh.
Exchanged(before, after) ==
  /\ after.ino \in {before.ino, Fresh}
  /\ after.stories.ino \in {before.stories.ino, Fresh}
  /\ after.decisions.ino \in {before.decisions.ino, Fresh}
  /\ \A n \in ToSet(Names) : \/ after.stories.dirs[n] = before.stories.dirs[n]
                             \/ after.stories.dirs[n].ino = Fresh

LEMMA SwapExchanges ==
  ASSUME TypeOK, Swap
  PROVE  /\ swaps \in Nat /\ swaps > 0 /\ swaps' = swaps - 1 /\ phase # "done"
         /\ UNCHANGED <<command, phase, snapshot, walk, entries, handoff, child, verdict, reads>>
         /\ disk' \in DiskType
         /\ Exchanged(disk.specs, disk'.specs)
<1> DEFINE specs == disk.specs
           stories == disk.specs.stories
           dirs == disk.specs.stories.dirs
<1>1. /\ swaps \in Nat /\ swaps > 0 /\ swaps' = swaps - 1 /\ phase # "done"
      /\ UNCHANGED <<command, phase, snapshot, walk, entries, handoff, child, verdict, reads>>
  BY DEF Swap, TypeOK
<1>2. Fresh \in Nat
  BY <1>1 DEF Fresh, HighestFound
<1>3. disk \in DiskType /\ specs \in SpecsType /\ stories \in StoriesType
      /\ specs.decisions \in DecisionsType /\ dirs \in [ToSet(Names) -> DirType]
  <2>1. disk \in DiskType /\ specs \in SpecsType
    BY DEF TypeOK, DiskType
  <2>2. stories \in StoriesType /\ specs.decisions \in DecisionsType
    BY <2>1 DEF SpecsType
  <2> QED  BY <2>1, <2>2 DEF StoriesType
<1>4. ASSUME NEW new \in SpecsType, disk' = [disk EXCEPT !.specs = new]
      PROVE  disk' \in DiskType /\ disk'.specs = new
  BY <1>3, <1>4 DEF DiskType
<1>5. ASSUME NEW new \in StoriesType, disk' = [disk EXCEPT !.specs.stories = new]
      PROVE  /\ disk' \in DiskType /\ disk'.specs.stories = new
             /\ disk'.specs.ino = specs.ino /\ disk'.specs.decisions = specs.decisions
  <2> DEFINE other == [specs EXCEPT !.stories = new]
  <2>1. other \in SpecsType /\ other.stories = new /\ other.ino = specs.ino
        /\ other.decisions = specs.decisions
    BY <1>3 DEF SpecsType
  <2>2. disk' = [disk EXCEPT !.specs = other]
    BY <1>5
  <2> HIDE DEF other
  <2>3. disk' \in DiskType /\ disk'.specs = other
    BY <1>4, <2>1, <2>2
  <2> QED  BY <2>1, <2>3
<1>6. ASSUME NEW new \in DecisionsType, disk' = [disk EXCEPT !.specs.decisions = new]
      PROVE  /\ disk' \in DiskType /\ disk'.specs.stories = specs.stories
             /\ disk'.specs.ino = specs.ino /\ disk'.specs.decisions = new
  <2> DEFINE other == [specs EXCEPT !.decisions = new]
  <2>1. other \in SpecsType /\ other.stories = specs.stories /\ other.ino = specs.ino
        /\ other.decisions = new
    BY <1>3 DEF SpecsType
  <2>2. disk' = [disk EXCEPT !.specs = other]
    BY <1>6
  <2> HIDE DEF other
  <2>3. disk' \in DiskType /\ disk'.specs = other
    BY <1>4, <2>1, <2>2
  <2> QED  BY <2>1, <2>3
<1>7. ASSUME NEW new \in DirType, new.ino = Fresh, NEW name \in ToSet(Names),
             disk' = [disk EXCEPT !.specs.stories.dirs[name] = new]
      PROVE  disk' \in DiskType /\ Exchanged(specs, disk'.specs)
  <2> DEFINE others == [dirs EXCEPT ![name] = new]
             other == [stories EXCEPT !.dirs = others]
  <2>1. others \in [ToSet(Names) -> DirType] /\ others[name] = new
        /\ \A n \in ToSet(Names) : n # name => others[n] = dirs[n]
    BY <1>3
  <2>2. disk' = [disk EXCEPT !.specs.stories = other]
    BY <1>7
  <2> HIDE DEF others
  <2>3. other \in StoriesType /\ other.dirs = others /\ other.ino = stories.ino
    BY <1>3, <2>1 DEF StoriesType
  <2> HIDE DEF other
  <2>4. /\ disk' \in DiskType /\ disk'.specs.stories = other
        /\ disk'.specs.ino = specs.ino /\ disk'.specs.decisions = specs.decisions
    BY <1>5, <2>2, <2>3
  <2> QED  BY <1>7, <2>1, <2>3, <2>4 DEF Exchanged
<1>8. CASE \E kind \in {"directory", "symlink", "missing"} :
             \/ disk' = [disk EXCEPT !.specs = Replaced(@, kind)]
             \/ disk' = [disk EXCEPT !.specs.stories = Replaced(@, kind)]
             \/ disk' = [disk EXCEPT !.specs.decisions = Replaced(@, kind)]
             \/ \E name \in ToSet(Names) :
                  disk' = [disk EXCEPT !.specs.stories.dirs[name] = Replaced(@, kind)]
  <2>1. PICK kind \in {"directory", "symlink", "missing"} :
          \/ disk' = [disk EXCEPT !.specs = Replaced(@, kind)]
          \/ disk' = [disk EXCEPT !.specs.stories = Replaced(@, kind)]
          \/ disk' = [disk EXCEPT !.specs.decisions = Replaced(@, kind)]
          \/ \E name \in ToSet(Names) :
               disk' = [disk EXCEPT !.specs.stories.dirs[name] = Replaced(@, kind)]
    BY <1>8
  <2>2. kind \in Kinds
    BY SwapKinds
  <2>3. CASE disk' = [disk EXCEPT !.specs = Replaced(@, kind)]
    <3> DEFINE new == Replaced(specs, kind)
    <3>1. new \in SpecsType /\ new.ino = Fresh /\ new.stories = specs.stories
          /\ new.decisions = specs.decisions
      BY <1>2, <1>3, <2>2, FreshDirectory
    <3>2. disk' = [disk EXCEPT !.specs = new]
      BY <2>3
    <3> HIDE DEF new
    <3>3. disk' \in DiskType /\ disk'.specs = new
      BY <1>4, <3>1, <3>2
    <3> QED  BY <1>1, <3>1, <3>3 DEF Exchanged
  <2>4. CASE disk' = [disk EXCEPT !.specs.stories = Replaced(@, kind)]
    <3> DEFINE new == Replaced(stories, kind)
    <3>1. new \in StoriesType /\ new.ino = Fresh /\ new.dirs = dirs
      BY <1>2, <1>3, <2>2, FreshDirectory
    <3>2. disk' = [disk EXCEPT !.specs.stories = new]
      BY <2>4
    <3> HIDE DEF new
    <3>3. /\ disk' \in DiskType /\ disk'.specs.stories = new
          /\ disk'.specs.ino = specs.ino /\ disk'.specs.decisions = specs.decisions
      BY <1>5, <3>1, <3>2
    <3> QED  BY <1>1, <3>1, <3>3 DEF Exchanged
  <2>5. CASE disk' = [disk EXCEPT !.specs.decisions = Replaced(@, kind)]
    <3> DEFINE new == Replaced(specs.decisions, kind)
    <3>1. new \in DecisionsType /\ new.ino = Fresh
      BY <1>2, <1>3, <2>2, FreshDirectory
    <3>2. disk' = [disk EXCEPT !.specs.decisions = new]
      BY <2>5
    <3> HIDE DEF new
    <3>3. /\ disk' \in DiskType /\ disk'.specs.stories = specs.stories
          /\ disk'.specs.ino = specs.ino /\ disk'.specs.decisions = new
      BY <1>6, <3>1, <3>2
    <3> QED  BY <1>1, <3>1, <3>3 DEF Exchanged
  <2>6. CASE \E name \in ToSet(Names) :
               disk' = [disk EXCEPT !.specs.stories.dirs[name] = Replaced(@, kind)]
    <3>1. PICK name \in ToSet(Names) :
            disk' = [disk EXCEPT !.specs.stories.dirs[name] = Replaced(@, kind)]
      BY <2>6
    <3> DEFINE new == Replaced(dirs[name], kind)
    <3>2. dirs[name] \in DirType
      BY <1>3
    <3>3. new \in DirType /\ new.ino = Fresh
      BY <1>2, <2>2, <3>2, FreshDirectory
    <3>4. disk' = [disk EXCEPT !.specs.stories.dirs[name] = new]
      BY <3>1
    <3> HIDE DEF new
    <3> QED  BY <1>1, <1>7, <3>3, <3>4
  <2> QED  BY <2>1, <2>3, <2>4, <2>5, <2>6
<1>9. CASE \E other \in Others, name \in ToSet(Names) :
             disk' = [disk EXCEPT !.specs.stories.dirs[name] = Replaced(other, "directory")]
  <2>1. PICK other \in Others, name \in ToSet(Names) :
          disk' = [disk EXCEPT !.specs.stories.dirs[name] = Replaced(other, "directory")]
    BY <1>9
  <2> DEFINE new == Replaced(other, "directory")
  <2>2. other \in DirType /\ "directory" \in Kinds
    BY SwapKinds, CasesAssumption
  <2>3. new \in DirType /\ new.ino = Fresh
    BY <1>2, <2>2, FreshDirectory
  <2>4. disk' = [disk EXCEPT !.specs.stories.dirs[name] = new]
    BY <2>1
  <2> HIDE DEF new
  <2> QED  BY <1>1, <1>7, <2>3, <2>4
<1> QED  BY <1>8, <1>9, Zenon DEF Swap

LEMMA SwapKeeps ==
  ASSUME IInv, Swap
  PROVE  IInv'
<1>0. /\ TypeOK /\ PhaseInv /\ OldInv /\ LabelInv /\ SpecsInv /\ StoriesInv /\ NamesInv /\ CurrentInv
      /\ WalkInv /\ JudgedInv /\ HandoffInv /\ ChildInv /\ VerdictInv
  BY DEF IInv
<1>1. /\ swaps \in Nat /\ swaps > 0 /\ swaps' = swaps - 1 /\ phase # "done"
      /\ UNCHANGED <<command, phase, snapshot, walk, entries, handoff, child, verdict, reads>>
      /\ disk' \in DiskType
      /\ Exchanged(disk.specs, disk'.specs)
  BY <1>0, SwapExchanges
<1>2. TypeOK'
  BY <1>0, <1>1 DEF TypeOK
<1>3. PhaseInv' /\ LabelInv' /\ WalkInv' /\ HandoffInv' /\ ChildInv'
  BY <1>0, <1>1 DEF PhaseInv, LabelInv, WalkInv, HandoffInv, ChildInv
<1>4. Fresh = HighestFound + swaps /\ Old(swaps - 1, Fresh) /\ Fresh > HighestFound
  BY <1>1, FreshIsOld DEF Fresh
<1>5. /\ Specs'.ino \in {Specs.ino, Fresh}
      /\ Stories'.ino \in {Stories.ino, Fresh} /\ Decisions'.ino \in {Decisions.ino, Fresh}
      /\ \A n \in ToSet(Names) : \/ disk'.specs.stories.dirs[n] = DirOf(n)
                                 \/ disk'.specs.stories.dirs[n].ino = Fresh
  BY <1>1 DEF Exchanged, Specs, Stories, Decisions, DirOf
<1>6. \A n \in ToSet(Names) : disk'.specs.stories.dirs[n].ino \in {DirOf(n).ino, Fresh}
  BY <1>5
<1>7. \A ino : Old(swaps, ino) => Old(swaps - 1, ino)
  BY <1>1, OldStays
<1>8. OldInv'
  <2>1. Old(swaps', Specs'.ino) /\ Old(swaps', Stories'.ino) /\ Old(swaps', Decisions'.ino)
    BY <1>0, <1>1, <1>4, <1>5, <1>7 DEF OldInv
  <2>2. \A n \in ToSet(Names) : Old(swaps', disk'.specs.stories.dirs[n].ino)
    BY <1>0, <1>1, <1>4, <1>6, <1>7 DEF OldInv
  <2> QED  BY <2>1, <2>2 DEF OldInv, DirOf
<1>9. ASSUME NEW dir, NEW now, NEW held, NEW later \in {now, Fresh},
             Guarded(reads, swaps, dir, now, held)
      PROVE  Guarded(reads, swaps - 1, dir, later, held)
  BY <1>1, <1>4, <1>9, GuardedAfterExchange
<1>10. SpecsInv'
  <2>1. phase \in {"under", "guidance", "contracts"} =>
          Guarded(reads, swaps - 1, SpecsLabel, Specs'.ino, snapshot.held)
    BY <1>0, <1>5, <1>9 DEF SpecsInv
  <2> QED  BY <1>0, <1>1, <2>1 DEF SpecsInv
<1>11. StoriesInv'
  <2>1. walk.pc \in Walking => Guarded(reads, swaps - 1, StoriesLabel, Stories'.ino, walk.held)
    BY <1>0, <1>5, <1>9 DEF StoriesInv
  <2>2. walk.pc = "list" => Old(swaps - 1, walk.held)
    BY <1>0, <1>7 DEF StoriesInv
  <2> QED  BY <1>0, <1>1, <2>1, <2>2 DEF StoriesInv
<1>12. Current' = Current
  BY <1>1 DEF Current
<1>13. NamesInv'
  BY <1>0, <1>1, <1>12 DEF NamesInv
<1>14. CurrentInv'
  <2>1. CASE walk.pc \in Reading
    <3>1. Current \in ToSet(Names)
      <4>1. walk.listed # {} /\ walk.listed \subseteq ToSet(Names)
        BY <1>0, <2>1 DEF CurrentInv, TypeOK
      <4> QED  BY <4>1, CurrentListed
    <3>2. Guarded(reads, swaps - 1, StoryLabel(Current), disk'.specs.stories.dirs[Current].ino,
                  walk.dir)
      BY <1>0, <1>6, <1>9, <2>1, <3>1 DEF CurrentInv
    <3>3. walk.pc = "decide" =>
            Guarded(reads, swaps - 1, DecisionsLabel(Current), Decisions'.ino, walk.decisions)
      BY <1>0, <1>5, <1>9, <2>1 DEF CurrentInv
    <3> QED  BY <1>0, <1>1, <1>12, <2>1, <3>2, <3>3 DEF CurrentInv, DirOf
  <2>2. CASE walk.pc \notin Reading
    BY <1>0, <1>1, <2>2 DEF CurrentInv
  <2> QED  BY <2>1, <2>2
<1>15. ASSUME NEW n \in ToSet(Names), disk'.specs.stories.dirs[n].ino <= HighestFound
       PROVE  disk'.specs.stories.dirs[n] = DirOf(n)
  <2>1. Fresh \in Nat /\ HighestFound \in Nat
    BY <1>1, <1>4 DEF HighestFound
  <2> QED  BY <1>4, <1>5, <1>15, <2>1
<1>16. JudgedInv'
  BY <1>0, <1>1, <1>15 DEF JudgedInv, DirOf
<1>17. VerdictInv'
  <2>1. DoctorReadsOneTree' /\ OutcomeIsTheChilds'
    BY <1>0, <1>1 DEF VerdictInv, DoctorReadsOneTree, OutcomeIsTheChilds
  <2>2. CleanMeansContracts'
    BY <1>0, <1>1, <1>15 DEF VerdictInv, CleanMeansContracts, DirOf
  <2> QED  BY <1>0, <1>1, <2>1, <2>2 DEF VerdictInv
<1> QED  BY <1>2, <1>3, <1>8, <1>10, <1>11, <1>13, <1>14, <1>16, <1>17 DEF IInv

-----------------------------------------------------------------------------
(* Doctor before it looks at the contracts.                                 *)

\* A verdict that is neither sound nor the child's says nothing yet.
LEMMA NothingClaimed ==
  ASSUME verdict'.outcome \notin SoundOutcomes \cup Verified, ~child'.settled
  PROVE  VerdictInv'
  BY DEF VerdictInv, DoctorReadsOneTree, CleanMeansContracts, OutcomeIsTheChilds, SoundOutcomes,
     Verified

LEMMA NotHeldIsOld ==
  ASSUME NEW left
  PROVE  Old(left, NotHeld)
  BY DEF Old, NotHeld, HighestFound

\* Reading something in specs/ itself.
LEMMA SpecsRead ==
  ASSUME OldInv, LabelInv, StoriesInv, NamesInv, CurrentInv, WalkInv, JudgedInv,
         UNCHANGED <<disk, swaps, walk, entries>>,
         reads' = reads \/ reads' = reads \cup ThroughSpecs
  PROVE  OldInv' /\ LabelInv' /\ StoriesInv' /\ NamesInv' /\ CurrentInv' /\ WalkInv' /\ JudgedInv'
<1>0. CASE reads' = reads
  BY <1>0, WalkFrame
<1>1. CASE reads' = reads \cup ThroughSpecs
  <2>1. \A r \in ThroughSpecs : r.dir = SpecsLabel /\ r.ino = Specs.ino
    BY GoesThrough
  <2>2. Current' = Current
    BY DEF Current
  <2>3. OldInv' /\ WalkInv' /\ JudgedInv'
    BY DEF OldInv, WalkInv, JudgedInv, Specs, Stories, Decisions, DirOf
  <2>4. LabelInv'
    BY <1>1, <2>1 DEF LabelInv
  <2>5. \A dir : dir # SpecsLabel =>
          /\ Unread(reads, dir) => Unread(reads', dir)
          /\ OneInode(reads, dir) => OneInode(reads', dir)
          /\ \A left, now, held : Guarded(reads, left, dir, now, held)
                                    => Guarded(reads', left, dir, now, held)
    <3> TAKE dir
    <3> HAVE dir # SpecsLabel
    <3>1. \A r \in ThroughSpecs : r.dir # dir
      BY <2>1
    <3> QED  BY <1>1, <3>1, ReadElsewhere
  <2>6. StoriesInv'
    BY <1>1, <2>1, <2>5, Labels DEF StoriesInv, Stories
  <2>7. NamesInv'
    BY <2>2, <2>5, Labels DEF NamesInv
  <2>8. CurrentInv'
    <3>1. CASE walk.pc \in Reading
      <4>1. /\ Guarded(reads', swaps, StoryLabel(Current), DirOf(Current).ino, walk.dir)
            /\ walk.pc \in {"read", "root"} => Unread(reads', DecisionsLabel(Current))
            /\ walk.pc = "decide" => Guarded(reads', swaps, DecisionsLabel(Current),
                                             Decisions.ino, walk.decisions)
            /\ walk.pc = "settle" => OneInode(reads', DecisionsLabel(Current))
        BY <2>5, <3>1, Labels DEF CurrentInv
      <4> QED  BY <2>2, <3>1, <4>1 DEF CurrentInv, DirOf, Decisions
    <3>2. CASE walk.pc \notin Reading
      BY <3>2 DEF CurrentInv
    <3> QED  BY <3>1, <3>2
  <2> QED  BY <2>3, <2>4, <2>6, <2>7, <2>8
<1> QED  BY <1>0, <1>1

EarlyDoctor == ResolveRoot \/ ObserveTop \/ HoldSpecs \/ ObserveUnder \/ JudgeStructure

\* Until the structure is judged nothing was walked, started or concluded.
LEMMA EarlyFacts ==
  ASSUME IInv, EarlyDoctor
  PROVE  /\ phase \in Early /\ walk.pc = "idle" /\ handoff = NoHandoff /\ child = NoChild
         /\ verdict.outcome = "none" /\ entries = <<>> /\ walk.result = "not-checked"
         /\ UNCHANGED <<command, disk, swaps, entries, child>>
         /\ ~child.settled /\ child.pc = "none"
<1>1. phase \in Early
  BY DEF EarlyDoctor, ResolveRoot, ObserveTop, HoldSpecs, ObserveUnder, JudgeStructure, Early
<1>2. UNCHANGED <<command, disk, swaps, entries, child>>
  BY DEF EarlyDoctor, ResolveRoot, ObserveTop, HoldSpecs, ObserveUnder, JudgeStructure
<1>3. /\ walk.pc = "idle" /\ handoff = NoHandoff /\ child = NoChild
      /\ verdict.outcome = "none" /\ entries = <<>> /\ walk.result = "not-checked"
  BY <1>1 DEF IInv, PhaseInv
<1> QED  BY <1>1, <1>2, <1>3, NoChildFacts

LEMMA ResolveRootKeeps ==
  ASSUME IInv, ResolveRoot
  PROVE  IInv'
<1>0. /\ TypeOK /\ PhaseInv /\ OldInv /\ LabelInv /\ SpecsInv /\ StoriesInv /\ NamesInv /\ CurrentInv
      /\ WalkInv /\ JudgedInv /\ HandoffInv /\ ChildInv /\ VerdictInv
  BY DEF IInv
<1>1. /\ phase \in Early /\ walk.pc = "idle" /\ handoff = NoHandoff /\ child = NoChild
      /\ verdict.outcome = "none" /\ entries = <<>> /\ walk.result = "not-checked"
      /\ UNCHANGED <<command, disk, swaps, entries, child>>
      /\ ~child.settled /\ child.pc = "none"
  BY EarlyFacts DEF EarlyDoctor
<1>2. /\ phase = "start" /\ UNCHANGED <<snapshot, walk, handoff, reads>>
      /\ \/ phase' = "observe" /\ verdict' = verdict
         \/ /\ phase' = "done"
            /\ verdict' = [NoVerdict EXCEPT !.outcome = "ERROR",
                                            !.issues = <<"REPOSITORY_ROOT_INVALID">>]
  BY DEF ResolveRoot, Report
<1>3. /\ DOMAIN verdict' = VerdictFields
      /\ \/ phase' = "observe" /\ verdict'.outcome = "none"
         \/ phase' = "done" /\ verdict'.outcome = "ERROR"
  <2>1. CASE phase' = "observe" /\ verdict' = verdict
    BY <1>0, <1>1, <2>1 DEF TypeOK
  <2>2. CASE /\ phase' = "done"
             /\ verdict' = [NoVerdict EXCEPT !.outcome = "ERROR",
                                             !.issues = <<"REPOSITORY_ROOT_INVALID">>]
    BY <2>2 DEF NoVerdict, VerdictFields
  <2> QED  BY <1>2, <2>1, <2>2
<1>4. TypeOK' /\ ChildInv' /\ HandoffInv'
  BY <1>0, <1>1, <1>2, <1>3 DEF TypeOK, ChildInv, HandoffInv
<1>5. PhaseInv'
  BY <1>0, <1>1, <1>2, <1>3 DEF PhaseInv, Early, CheckPhases
<1>6. OldInv' /\ LabelInv' /\ StoriesInv' /\ NamesInv' /\ CurrentInv' /\ WalkInv' /\ JudgedInv'
  BY <1>0, <1>1, <1>2, WalkFrame
<1>7. SpecsInv'
  BY <1>0, <1>2, <1>3 DEF SpecsInv
<1>8. VerdictInv'
  BY <1>1, <1>3, NothingClaimed DEF SoundOutcomes, Verified
<1> QED  BY <1>4, <1>5, <1>6, <1>7, <1>8 DEF IInv

\* Observing and holding: the tree, the walk and the verdict stay as they are.
LEMMA ObservingKeeps ==
  ASSUME IInv, ObserveTop \/ HoldSpecs \/ ObserveUnder
  PROVE  IInv'
<1>0. /\ TypeOK /\ PhaseInv /\ OldInv /\ LabelInv /\ SpecsInv /\ StoriesInv /\ NamesInv /\ CurrentInv
      /\ WalkInv /\ JudgedInv /\ HandoffInv /\ ChildInv /\ VerdictInv
  BY DEF IInv
<1>1. /\ phase \in Early /\ walk.pc = "idle" /\ handoff = NoHandoff /\ child = NoChild
      /\ verdict.outcome = "none" /\ entries = <<>> /\ walk.result = "not-checked"
      /\ UNCHANGED <<command, disk, swaps, entries, child>>
      /\ ~child.settled /\ child.pc = "none"
  BY EarlyFacts DEF EarlyDoctor
<1>2. UNCHANGED <<walk, handoff, verdict>>
  BY DEF ObserveTop, HoldSpecs, ObserveUnder
<1>3. DOMAIN snapshot = SnapshotFields
  BY <1>0 DEF TypeOK
<1>4. reads' = reads \/ reads' = reads \cup ThroughSpecs
  BY DEF ObserveTop, HoldSpecs, ObserveUnder
<1>5. OldInv' /\ LabelInv' /\ StoriesInv' /\ NamesInv' /\ CurrentInv' /\ WalkInv' /\ JudgedInv'
  BY <1>0, <1>1, <1>2, <1>4, SpecsRead
<1>6. /\ DOMAIN snapshot' = SnapshotFields /\ phase' \in {"hold", "under", "guidance"}
      /\ SpecsInv'
  <2>1. CASE ObserveTop
    <3>1. /\ DOMAIN snapshot' = SnapshotFields /\ snapshot'.held = snapshot.held
          /\ phase' \in {"hold", "guidance"} /\ reads' = reads /\ phase = "observe"
      BY <1>3, <2>1 DEF ObserveTop, SnapshotFields
    <3>2. reads' = {} /\ snapshot'.held = NotHeld
      BY <1>0, <3>1 DEF SpecsInv
    <3>3. Unread(reads', SpecsLabel)
      BY <3>2 DEF Unread
    <3>4. Guarded(reads', swaps', SpecsLabel, Specs'.ino, snapshot'.held)
      BY <3>2, <3>3, NotHeldIsOld, UnreadGuarded
    <3> QED  BY <3>1, <3>2, <3>4 DEF SpecsInv
  <2>2. CASE HoldSpecs
    <3>1. /\ DOMAIN snapshot' = SnapshotFields
          /\ snapshot'.held \in {Specs.ino, NotHeld}
          /\ phase' = "under" /\ reads' = reads /\ phase = "hold"
      BY <1>3, <2>2 DEF HoldSpecs, SnapshotFields
    <3>2. reads' = {}
      BY <1>0, <3>1 DEF SpecsInv
    <3>3. Unread(reads', SpecsLabel)
      BY <3>2 DEF Unread
    <3>4. Old(swaps', snapshot'.held)
      BY <1>0, <1>1, <3>1, NotHeldIsOld DEF OldInv
    <3>5. Guarded(reads', swaps', SpecsLabel, Specs'.ino, snapshot'.held)
      BY <3>3, <3>4, UnreadGuarded
    <3> QED  BY <3>1, <3>5 DEF SpecsInv
  <2>3. CASE ObserveUnder
    <3>1. /\ DOMAIN snapshot' = SnapshotFields /\ snapshot'.held = snapshot.held
          /\ phase' = "guidance" /\ phase = "under"
      <4>1. \/ snapshot' = snapshot
            \/ snapshot' = [snapshot EXCEPT !.stories = ObserveDirectory(Stories),
                              !.marker = Specs.marker, !.legacy = Specs.legacy]
        BY <2>3 DEF ObserveUnder
      <4>2. phase' = "guidance" /\ phase = "under"
        BY <2>3 DEF ObserveUnder
      <4> QED  BY <1>3, <4>1, <4>2 DEF SnapshotFields
    <3>2. Guarded(reads, swaps, SpecsLabel, Specs.ino, snapshot.held)
      BY <1>0, <3>1 DEF SpecsInv
    <3>3. \A r \in ThroughSpecs : r.ino = Specs.ino
      BY GoesThrough
    <3>4. Guarded(reads', swaps, SpecsLabel, Specs.ino, snapshot.held)
      <4>1. Guarded(reads \cup ThroughSpecs, swaps, SpecsLabel, Specs.ino, snapshot.held)
        BY <3>2, <3>3, GuardedGrows
      <4> QED  BY <1>4, <3>2, <4>1
    <3>5. Specs' = Specs
      BY <1>1 DEF Specs
    <3> QED  BY <1>1, <3>1, <3>4, <3>5 DEF SpecsInv
  <2> QED  BY <2>1, <2>2, <2>3
<1>7. TypeOK' /\ ChildInv' /\ HandoffInv'
  BY <1>0, <1>1, <1>2, <1>6 DEF TypeOK, ChildInv, HandoffInv
<1>8. PhaseInv'
  BY <1>0, <1>1, <1>2, <1>6 DEF PhaseInv, Early, CheckPhases
<1>9. VerdictInv'
  BY <1>1, <1>2, NothingConcluded
<1> QED  BY <1>5, <1>6, <1>7, <1>8, <1>9 DEF IInv

\* Of a step that ends in a verdict about the structure alone, and of one that goes
\* on to inspect the contracts.
LEMMA JudgeStructureFields ==
  ASSUME IInv, JudgeStructure
  PROVE  /\ DOMAIN snapshot' = SnapshotFields /\ snapshot'.held = snapshot.held
         /\ UNCHANGED reads /\ DOMAIN verdict' = VerdictFields
         /\ \/ /\ UNCHANGED <<walk, handoff>>
               /\ verdict'.outcome \notin SoundOutcomes \cup Verified
               /\ phase' \in {"spawn", "done"}
               /\ phase' = "spawn" => Confirmed(verdict'.required)
            \/ /\ phase' = "contracts" /\ UNCHANGED verdict
               /\ DOMAIN walk' = WalkFields /\ walk'.pc = "hold" /\ walk'.listed = walk.listed
               /\ walk'.result = walk.result
               /\ DOMAIN handoff' = HandoffFields /\ handoff'.pc = "hold"
<1> DEFINE s == IF snapshot.guidance.kind = "directory" /\ snapshot.guidance.searchable
                  THEN [snapshot EXCEPT !.guidanceEntry = disk.top.guidanceEntry] ELSE snapshot
           e == Preliminary(s)
<1>1. TypeOK /\ handoff = NoHandoff
  BY EarlyFacts DEF IInv, EarlyDoctor
<1>2. /\ snapshot' = s /\ UNCHANGED reads
      /\ \/ /\ e.outcome \in {"ERROR", "STRUCTURE_INCOMPLETE"}
            /\ Conclude(e) /\ UNCHANGED <<walk, handoff>>
         \/ /\ phase' = "contracts"
            /\ walk' = [walk EXCEPT !.pc = "hold"]
            /\ handoff' = [handoff EXCEPT !.pc = "hold"]
            /\ UNCHANGED verdict
  BY Zenon DEF JudgeStructure
<1>3. DOMAIN s = SnapshotFields /\ s.held = snapshot.held
  BY <1>1 DEF TypeOK, SnapshotFields
<1> HIDE DEF s, e
<1>4. CASE /\ e.outcome \in {"ERROR", "STRUCTURE_INCOMPLETE"}
           /\ Conclude(e) /\ UNCHANGED <<walk, handoff>>
  <2>1. /\ verdict' = [outcome |-> e.outcome, issues |-> e.issues, required |-> e.required]
        /\ phase' = IF command.name = "run-verify" /\ Confirmed(e.required) THEN "spawn" ELSE "done"
    BY <1>4 DEF Conclude
  <2>2. DOMAIN verdict' = VerdictFields /\ verdict'.outcome = e.outcome
        /\ verdict'.required = e.required
    BY <2>1 DEF VerdictFields
  <2>3. verdict'.outcome \notin SoundOutcomes \cup Verified
    BY <1>4, <2>2 DEF SoundOutcomes, Verified
  <2> QED  BY <1>2, <1>3, <1>4, <2>1, <2>2, <2>3
<1>5. CASE /\ phase' = "contracts"
           /\ walk' = [walk EXCEPT !.pc = "hold"]
           /\ handoff' = [handoff EXCEPT !.pc = "hold"]
           /\ UNCHANGED verdict
  <2>1. DOMAIN walk' = WalkFields /\ walk'.pc = "hold" /\ walk'.listed = walk.listed
        /\ walk'.result = walk.result
    BY <1>1, <1>5 DEF TypeOK, WalkFields
  <2>2. DOMAIN handoff' = HandoffFields /\ handoff'.pc = "hold"
    BY <1>1, <1>5 DEF TypeOK, HandoffFields
  <2>3. DOMAIN verdict' = VerdictFields
    BY <1>1, <1>5 DEF TypeOK
  <2> QED  BY <1>2, <1>3, <1>5, <2>1, <2>2, <2>3
<1> QED  BY <1>2, <1>4, <1>5

LEMMA JudgeStructureKeeps ==
  ASSUME IInv, JudgeStructure
  PROVE  IInv'
<1>0. /\ TypeOK /\ PhaseInv /\ OldInv /\ LabelInv /\ SpecsInv /\ StoriesInv /\ NamesInv /\ CurrentInv
      /\ WalkInv /\ JudgedInv /\ HandoffInv /\ ChildInv /\ VerdictInv
  BY DEF IInv
<1>1. /\ phase \in Early /\ walk.pc = "idle" /\ handoff = NoHandoff /\ child = NoChild
      /\ verdict.outcome = "none" /\ entries = <<>> /\ walk.result = "not-checked"
      /\ UNCHANGED <<command, disk, swaps, entries, child>>
      /\ ~child.settled /\ child.pc = "none"
  BY EarlyFacts DEF EarlyDoctor
<1>2. phase = "guidance"
  BY DEF JudgeStructure
<1>3. /\ DOMAIN snapshot' = SnapshotFields /\ snapshot'.held = snapshot.held
      /\ UNCHANGED reads /\ DOMAIN verdict' = VerdictFields
  BY JudgeStructureFields
<1>4. CASE /\ UNCHANGED <<walk, handoff>>
           /\ verdict'.outcome \notin SoundOutcomes \cup Verified
           /\ phase' \in {"spawn", "done"}
           /\ phase' = "spawn" => Confirmed(verdict'.required)
  <2>1. TypeOK' /\ ChildInv' /\ HandoffInv'
    BY <1>0, <1>1, <1>3, <1>4 DEF TypeOK, ChildInv, HandoffInv
  <2>2. PhaseInv'
    BY <1>0, <1>1, <1>4 DEF PhaseInv, Early, CheckPhases
  <2>3. OldInv' /\ LabelInv' /\ StoriesInv' /\ NamesInv' /\ CurrentInv' /\ WalkInv' /\ JudgedInv'
    BY <1>0, <1>1, <1>3, <1>4, WalkFrame
  <2>4. SpecsInv'
    BY <1>4 DEF SpecsInv
  <2>5. VerdictInv'
    BY <1>1, <1>4, NothingClaimed
  <2> QED  BY <2>1, <2>2, <2>3, <2>4, <2>5 DEF IInv
<1>5. CASE /\ phase' = "contracts" /\ UNCHANGED verdict
           /\ DOMAIN walk' = WalkFields /\ walk'.pc = "hold" /\ walk'.listed = walk.listed
           /\ walk'.result = walk.result
           /\ DOMAIN handoff' = HandoffFields /\ handoff'.pc = "hold"
  <2>1. TypeOK' /\ ChildInv' /\ HandoffInv'
    BY <1>0, <1>1, <1>3, <1>5 DEF TypeOK, ChildInv, HandoffInv
  <2>2. PhaseInv'
    BY <1>0, <1>1, <1>5 DEF PhaseInv, Early, CheckPhases
  <2>3. OldInv' /\ LabelInv'
    BY <1>0, <1>1, <1>3 DEF OldInv, LabelInv, Specs, Stories, Decisions, DirOf
  <2>4. StoriesInv'
    BY <1>0, <1>1, <1>3, <1>5 DEF StoriesInv, Walking, Reading
  <2>5. NamesInv' /\ CurrentInv' /\ WalkInv' /\ JudgedInv'
    BY <1>1, <1>5 DEF NamesInv, CurrentInv, WalkInv, JudgedInv, Walking, Reading
  <2>6. SpecsInv'
    BY <1>0, <1>1, <1>2, <1>3, <1>5 DEF SpecsInv, Specs
  <2>7. VerdictInv'
    BY <1>1, <1>5, NothingConcluded
  <2> QED  BY <2>1, <2>2, <2>3, <2>4, <2>5, <2>6, <2>7 DEF IInv
<1> QED  BY <1>4, <1>5, JudgeStructureFields

-----------------------------------------------------------------------------
(* Doctor's walk through the Stories.                                       *)

LEMMA EndFields ==
  ASSUME NEW result, Ends(result)
  PROVE  /\ DOMAIN walk' = WalkFields /\ walk'.pc = "end" /\ walk'.result = result
         /\ walk'.listed = {}
  BY DEF Ends, NoWalk, WalkFields

\* What a step of the walk leaves alone.
LEMMA WalkingFrame ==
  ASSUME IInv, phase = "contracts", UNCHANGED OfStories,
         DOMAIN walk' = WalkFields, walk'.listed \subseteq ToSet(Names),
         entries' \in Seq(ToSet(entries'))
  PROVE  TypeOK' /\ PhaseInv' /\ OldInv' /\ HandoffInv' /\ ChildInv' /\ VerdictInv'
<1>0. TypeOK /\ PhaseInv /\ OldInv /\ HandoffInv /\ ChildInv
  BY DEF IInv
<1>1. UNCHANGED <<command, disk, swaps, phase, snapshot, handoff, child, verdict>>
  BY DEF OfStories
<1>2. TypeOK'
  BY <1>0, <1>1 DEF TypeOK
<1>3. PhaseInv'
  BY <1>0, <1>1 DEF PhaseInv, Early, CheckPhases
<1>4. OldInv' /\ HandoffInv' /\ ChildInv'
  BY <1>0, <1>1 DEF OldInv, HandoffInv, ChildInv, Specs, Stories, Decisions, DirOf
<1>5. verdict'.outcome = "none"
  BY <1>0, <1>1 DEF PhaseInv
<1> QED  BY <1>2, <1>3, <1>4, <1>5, NothingConcluded

\* Reading a name of the collection through the directories as they are.
LEMMA WalkReads ==
  ASSUME IInv, phase = "contracts", UNCHANGED OfStories, NEW more, NEW name \in ToSet(Names),
         reads' = reads \/ reads' = reads \cup more,
         \A r \in more : /\ r.dir \in {SpecsLabel, StoriesLabel, StoryLabel(name),
                                       DecisionsLabel(name)}
                         /\ r.dir = SpecsLabel => r.ino = Specs.ino
  PROVE  LabelInv' /\ SpecsInv'
<1>1. UNCHANGED <<command, disk, swaps, phase, snapshot, handoff, child, verdict>>
  BY DEF OfStories
<1>2. LabelInv'
  BY DEF IInv, LabelInv
<1>3. Guarded(reads, swaps, SpecsLabel, Specs.ino, snapshot.held)
  BY DEF IInv, SpecsInv
<1>4. Guarded(reads', swaps, SpecsLabel, Specs.ino, snapshot.held)
  <2>1. Guarded(reads \cup more, swaps, SpecsLabel, Specs.ino, snapshot.held)
    BY <1>3, GuardedGrows
  <2> QED  BY <1>3, <2>1
<1> QED  BY <1>1, <1>2, <1>4 DEF SpecsInv, Specs

\* The same where nothing is read.
LEMMA WalkReadsNothing ==
  ASSUME IInv, phase = "contracts", UNCHANGED OfStories, UNCHANGED reads
  PROVE  LabelInv' /\ SpecsInv'
<1>1. UNCHANGED <<command, disk, swaps, phase, snapshot, handoff, child, verdict>>
  BY DEF OfStories
<1> QED  BY <1>1 DEF IInv, LabelInv, SpecsInv, Specs

\* An error ends the walk, and nothing is said of what was read.
LEMMA EndsInError ==
  ASSUME IInv, phase = "contracts", UNCHANGED <<entries, reads, OfStories>>, Ends("error")
  PROVE  IInv'
<1>1. /\ DOMAIN walk' = WalkFields /\ walk'.pc = "end" /\ walk'.result = "error"
      /\ walk'.listed = {}
  BY EndFields
<1>2. entries' \in Seq(ToSet(entries'))
  BY DEF IInv, TypeOK
<1>3. TypeOK' /\ PhaseInv' /\ OldInv' /\ HandoffInv' /\ ChildInv' /\ VerdictInv'
  BY <1>1, <1>2, WalkingFrame
<1>4. LabelInv' /\ SpecsInv'
  BY WalkReadsNothing
<1>5. StoriesInv' /\ NamesInv' /\ CurrentInv' /\ WalkInv' /\ JudgedInv'
  BY <1>1 DEF StoriesInv, NamesInv, CurrentInv, WalkInv, JudgedInv, Walking, Reading
<1> QED  BY <1>3, <1>4, <1>5 DEF IInv

LEMMA HoldStoriesKeeps ==
  ASSUME IInv, HoldStories
  PROVE  IInv'
<1>0. phase = "contracts" /\ walk.pc = "hold" /\ UNCHANGED <<entries, reads, OfStories>>
  BY DEF HoldStories, Inspecting
<1>1. CASE Ends("error")
  BY <1>0, <1>1, EndsInError
<1>2. CASE walk' = [walk EXCEPT !.held = Stories.ino, !.pc = "list"]
  <2>0. DOMAIN walk = WalkFields /\ walk.listed \subseteq ToSet(Names)
    BY DEF IInv, TypeOK
  <2>1. /\ DOMAIN walk' = WalkFields /\ walk'.pc = "list" /\ walk'.held = Stories.ino
        /\ walk'.listed = walk.listed /\ walk'.result = walk.result
    BY <1>2, <2>0 DEF WalkFields
  <2>2. entries' \in Seq(ToSet(entries'))
    BY <1>0 DEF IInv, TypeOK
  <2>3. TypeOK' /\ PhaseInv' /\ OldInv' /\ HandoffInv' /\ ChildInv' /\ VerdictInv'
    BY <1>0, <2>0, <2>1, <2>2, WalkingFrame
  <2>4. LabelInv' /\ SpecsInv'
    BY <1>0, WalkReadsNothing
  <2>5. Old(swaps', walk'.held)
    BY <1>0, <2>1 DEF IInv, OldInv, OfStories
  <2>6. StoriesInv'
    BY <1>0, <2>1, <2>5 DEF IInv, StoriesInv, Walking, Reading
  <2>7. NamesInv' /\ CurrentInv' /\ WalkInv' /\ JudgedInv'
    BY <1>0, <2>1 DEF IInv, NamesInv, CurrentInv, WalkInv, JudgedInv, Walking, Reading
  <2> QED  BY <2>3, <2>4, <2>6, <2>7 DEF IInv
<1> QED  BY <1>1, <1>2 DEF HoldStories

LEMMA ListStoriesKeeps ==
  ASSUME IInv, ListStories
  PROVE  IInv'
<1>0. phase = "contracts" /\ walk.pc = "list" /\ UNCHANGED <<entries, OfStories>>
  BY DEF ListStories, Inspecting
<1>1. CASE Ends("error") /\ UNCHANGED reads
  BY <1>0, <1>1, EndsInError
<1>2. CASE /\ walk' = [walk EXCEPT !.pc = "next",
                         !.listed = {n \in ToSet(Names) : DirOf(n).kind # "missing"}]
           /\ reads' = reads \cup ThroughStories
  <2> DEFINE there == {n \in ToSet(Names) : DirOf(n).kind # "missing"}
  <2>0. DOMAIN walk = WalkFields /\ there \subseteq ToSet(Names)
    BY DEF IInv, TypeOK
  <2>01. walk' = [walk EXCEPT !.pc = "next", !.listed = there]
    BY <1>2
  <2>02. \A n \in ToSet(Names) : DirOf(n).kind = "directory" => n \in there
    OBVIOUS
  <2> HIDE DEF there
  <2>1. /\ DOMAIN walk' = WalkFields /\ walk'.pc = "next" /\ walk'.held = walk.held
        /\ walk'.listed = there /\ walk'.result = walk.result
    BY <2>0, <2>01 DEF WalkFields
  <2>2. entries' \in Seq(ToSet(entries'))
    BY <1>0 DEF IInv, TypeOK
  <2>3. TypeOK' /\ PhaseInv' /\ OldInv' /\ HandoffInv' /\ ChildInv' /\ VerdictInv'
    BY <1>0, <2>0, <2>1, <2>2, WalkingFrame
  <2>4. \A r \in ThroughStories : \/ r.dir = SpecsLabel /\ r.ino = Specs.ino
                                  \/ r.dir = StoriesLabel /\ r.ino = Stories.ino
    BY GoesThrough
  <2>5. LabelInv'
    BY <1>2, <2>4 DEF IInv, LabelInv
  <2>6. SpecsInv'
    <3>1. Guarded(reads, swaps, SpecsLabel, Specs.ino, snapshot.held)
      BY <1>0 DEF IInv, SpecsInv
    <3>2. \A r \in ThroughStories : r.dir = SpecsLabel => r.ino = Specs.ino
      BY <2>4, Labels
    <3>3. Guarded(reads', swaps, SpecsLabel, Specs.ino, snapshot.held)
      BY <1>2, <3>1, <3>2, GuardedGrows
    <3> QED  BY <1>0, <3>3 DEF SpecsInv, Specs, OfStories
  <2>7. \A r \in reads : r.dir = SpecsLabel
    BY <1>0 DEF IInv, StoriesInv
  <2>8. StoriesInv'
    <3>1. Unread(reads, StoriesLabel) /\ Old(swaps, walk.held)
      BY <1>0, <2>7, Labels DEF IInv, StoriesInv, Unread
    <3>2. Guarded(reads, swaps, StoriesLabel, Stories.ino, walk.held)
      BY <3>1, UnreadGuarded
    <3>3. \A r \in ThroughStories : r.dir = StoriesLabel => r.ino = Stories.ino
      BY <2>4, Labels
    <3>4. Guarded(reads', swaps, StoriesLabel, Stories.ino, walk.held)
      BY <1>2, <3>2, <3>3, GuardedGrows
    <3> QED  BY <1>0, <2>1, <3>4 DEF StoriesInv, Stories, OfStories, Walking, Reading
  <2>9. \A name : Unread(reads', StoryLabel(name)) /\ Unread(reads', DecisionsLabel(name))
    BY <1>2, <2>4, <2>7, Labels DEF Unread
  <2>10. NamesInv'
    BY <2>9, UnreadOne DEF NamesInv
  <2>11. walk.result = "not-checked"
    BY <1>0 DEF IInv, WalkInv
  <2>12. CurrentInv' /\ WalkInv'
    BY <2>1, <2>11 DEF CurrentInv, WalkInv, Walking, Reading
  <2>13. JudgedInv'
    BY <1>0, <2>1, <2>02 DEF JudgedInv, DirOf, OfStories
  <2> QED  BY <2>3, <2>5, <2>6, <2>8, <2>10, <2>12, <2>13 DEF IInv
<1> QED  BY <1>1, <1>2 DEF ListStories

\* What holds of a walk that is under way.
LEMMA UnderWay ==
  ASSUME IInv, walk.pc \in Walking
  PROVE  /\ DOMAIN walk = WalkFields /\ walk.listed \subseteq ToSet(Names)
         /\ walk.result = "not-checked" /\ entries \in Seq(ToSet(entries))
         /\ Guarded(reads, swaps, StoriesLabel, Stories.ino, walk.held)
         /\ walk.listed # {} => Current \in walk.listed /\ Current \in ToSet(Names)
         /\ \A name \in walk.listed :
               ~(walk.pc \in Reading /\ name = Current) =>
                  Unread(reads, StoryLabel(name)) /\ Unread(reads, DecisionsLabel(name))
         /\ \A name \in ToSet(Names) \ walk.listed :
               OneInode(reads, StoryLabel(name)) /\ OneInode(reads, DecisionsLabel(name))
         /\ \A name \in ToSet(Names) :
               DirOf(name).kind = "directory" /\ DirOf(name).ino <= HighestFound =>
                  name \in walk.listed \/ Judged(entries, name)
<1>1. /\ DOMAIN walk = WalkFields /\ walk.listed \subseteq ToSet(Names)
      /\ entries \in Seq(ToSet(entries))
  BY DEF IInv, TypeOK
<1>2. walk.result = "not-checked"
  BY DEF IInv, WalkInv, Walking, Reading
<1>3. Guarded(reads, swaps, StoriesLabel, Stories.ino, walk.held)
  BY DEF IInv, StoriesInv
<1>4. walk.listed # {} => Current \in walk.listed /\ Current \in ToSet(Names)
  BY <1>1, CurrentListed
<1>5. /\ \A name \in walk.listed :
            ~(walk.pc \in Reading /\ name = Current) =>
               Unread(reads, StoryLabel(name)) /\ Unread(reads, DecisionsLabel(name))
      /\ \A name \in ToSet(Names) \ walk.listed :
            OneInode(reads, StoryLabel(name)) /\ OneInode(reads, DecisionsLabel(name))
  BY <1>1, <1>2 DEF IInv, NamesInv
<1>6. \A name \in ToSet(Names) :
        DirOf(name).kind = "directory" /\ DirOf(name).ino <= HighestFound =>
           name \in walk.listed \/ Judged(entries, name)
  BY <1>2 DEF IInv, JudgedInv
<1> QED  BY <1>1, <1>2, <1>3, <1>4, <1>5, <1>6

LEMMA LookAtStoryKeeps ==
  ASSUME IInv, LookAtStory
  PROVE  IInv'
<1>0. /\ phase = "contracts" /\ walk.pc = "next" /\ UNCHANGED <<entries, reads, OfStories>>
      /\ walk.listed # {}
  BY DEF LookAtStory, Inspecting
<1>1. CASE Ends("error")
  BY <1>0, <1>1, EndsInError
<1>2. UNCHANGED <<disk, swaps, entries, reads>>
  BY <1>0 DEF OfStories
<1>3. /\ DOMAIN walk = WalkFields /\ walk.listed \subseteq ToSet(Names)
      /\ walk.result = "not-checked" /\ entries \in Seq(ToSet(entries))
      /\ Guarded(reads, swaps, StoriesLabel, Stories.ino, walk.held)
      /\ Current \in walk.listed /\ Current \in ToSet(Names)
      /\ \A name \in walk.listed :
           Unread(reads, StoryLabel(name)) /\ Unread(reads, DecisionsLabel(name))
      /\ \A name \in ToSet(Names) \ walk.listed :
            OneInode(reads, StoryLabel(name)) /\ OneInode(reads, DecisionsLabel(name))
      /\ \A name \in ToSet(Names) :
            DirOf(name).kind = "directory" /\ DirOf(name).ino <= HighestFound =>
               name \in walk.listed \/ Judged(entries, name)
  BY <1>0, UnderWay DEF Walking, Reading
<1>4. CASE /\ DirOf(Current).kind = "other"
           /\ walk' = [walk EXCEPT !.listed = @ \ {Current}]
  <2>1. /\ DOMAIN walk' = WalkFields /\ walk'.pc = "next" /\ walk'.held = walk.held
        /\ walk'.listed = walk.listed \ {Current} /\ walk'.result = walk.result
    BY <1>0, <1>3, <1>4 DEF WalkFields
  <2>2. TypeOK' /\ PhaseInv' /\ OldInv' /\ HandoffInv' /\ ChildInv' /\ VerdictInv'
    BY <1>0, <1>3, <2>1, WalkingFrame
  <2>3. LabelInv' /\ SpecsInv'
    BY <1>0, WalkReadsNothing
  <2>4. StoriesInv'
    BY <1>2, <1>3, <2>1 DEF StoriesInv, Stories, Walking, Reading
  <2>5. NamesInv'
    BY <1>2, <1>3, <2>1, UnreadOne DEF NamesInv, Reading
  <2>6. CurrentInv' /\ WalkInv'
    BY <1>3, <2>1 DEF CurrentInv, WalkInv, Walking, Reading
  <2>7. JudgedInv'
    BY <1>2, <1>3, <1>4, <2>1 DEF JudgedInv, DirOf
  <2> QED  BY <2>2, <2>3, <2>4, <2>5, <2>6, <2>7 DEF IInv
<1>5. CASE walk' = [walk EXCEPT !.pc = "keep"]
  <2>1. /\ DOMAIN walk' = WalkFields /\ walk'.pc = "keep" /\ walk'.held = walk.held
        /\ walk'.listed = walk.listed /\ walk'.result = walk.result
    BY <1>0, <1>3, <1>5 DEF WalkFields
  <2>2. TypeOK' /\ PhaseInv' /\ OldInv' /\ HandoffInv' /\ ChildInv' /\ VerdictInv'
    BY <1>0, <1>3, <2>1, WalkingFrame
  <2>3. LabelInv' /\ SpecsInv'
    BY <1>0, WalkReadsNothing
  <2>4. StoriesInv'
    BY <1>2, <1>3, <2>1 DEF StoriesInv, Stories, Walking, Reading
  <2>5. NamesInv'
    BY <1>2, <1>3, <2>1 DEF NamesInv, Reading
  <2>6. CurrentInv' /\ WalkInv'
    BY <1>0, <1>3, <2>1 DEF CurrentInv, WalkInv, Walking, Reading
  <2>7. JudgedInv'
    BY <1>2, <1>3, <2>1 DEF JudgedInv, DirOf
  <2> QED  BY <2>2, <2>3, <2>4, <2>5, <2>6, <2>7 DEF IInv
<1> QED  BY <1>1, <1>4, <1>5 DEF LookAtStory

\* The directory is held: nothing has been read through it yet.
LEMMA HoldStoryKeeps ==
  ASSUME IInv, HoldStory
  PROVE  IInv'
<1>0. /\ phase = "contracts" /\ walk.pc = "keep" /\ UNCHANGED <<entries, reads, OfStories>>
  BY DEF HoldStory, Inspecting
<1>1. CASE Ends("error")
  BY <1>0, <1>1, EndsInError
<1>2. UNCHANGED <<disk, swaps, entries, reads>>
  BY <1>0 DEF OfStories
<1>3. /\ DOMAIN walk = WalkFields /\ walk.listed \subseteq ToSet(Names)
      /\ walk.result = "not-checked" /\ entries \in Seq(ToSet(entries))
      /\ Guarded(reads, swaps, StoriesLabel, Stories.ino, walk.held)
      /\ walk.listed # {} => Current \in walk.listed /\ Current \in ToSet(Names)
      /\ \A name \in walk.listed :
           Unread(reads, StoryLabel(name)) /\ Unread(reads, DecisionsLabel(name))
      /\ \A name \in ToSet(Names) \ walk.listed :
            OneInode(reads, StoryLabel(name)) /\ OneInode(reads, DecisionsLabel(name))
      /\ \A name \in ToSet(Names) :
            DirOf(name).kind = "directory" /\ DirOf(name).ino <= HighestFound =>
               name \in walk.listed \/ Judged(entries, name)
  BY <1>0, UnderWay DEF Walking, Reading
<1>4. walk.listed # {}
  BY <1>0 DEF IInv, CurrentInv
<1>5. CASE walk' = [walk EXCEPT !.pc = "read", !.dir = DirOf(Current).ino,
                       !.story = 0, !.acceptance = 0, !.decided = NoDecisions, !.wanted = {}]
  <2>1. /\ DOMAIN walk' = WalkFields /\ walk'.pc = "read" /\ walk'.held = walk.held
        /\ walk'.listed = walk.listed /\ walk'.result = walk.result
        /\ walk'.dir = DirOf(Current).ino
    BY <1>0, <1>3, <1>5 DEF WalkFields
  <2>2. TypeOK' /\ PhaseInv' /\ OldInv' /\ HandoffInv' /\ ChildInv' /\ VerdictInv'
    BY <1>0, <1>3, <2>1, WalkingFrame
  <2>3. LabelInv' /\ SpecsInv'
    BY <1>0, WalkReadsNothing
  <2>4. StoriesInv'
    BY <1>2, <1>3, <2>1 DEF StoriesInv, Stories, Walking, Reading
  <2>5. Current' = Current
    BY <2>1 DEF Current
  <2>6. NamesInv'
    BY <1>2, <1>3, <2>1 DEF NamesInv, Reading
  <2>7. CurrentInv'
    <3>1. Old(swaps, DirOf(Current).ino)
      BY <1>3, <1>4 DEF IInv, OldInv
    <3>2. Guarded(reads, swaps, StoryLabel(Current), DirOf(Current).ino, walk'.dir)
      BY <1>3, <1>4, <2>1, <3>1, UnreadGuarded
    <3>3. Unread(reads, DecisionsLabel(Current))
      BY <1>3, <1>4
    <3> QED  BY <1>2, <1>4, <2>1, <2>5, <3>2, <3>3 DEF CurrentInv, DirOf, Reading
  <2>8. WalkInv'
    BY <1>3, <2>1 DEF WalkInv, Walking, Reading
  <2>9. JudgedInv'
    BY <1>2, <1>3, <2>1 DEF JudgedInv, DirOf
  <2> QED  BY <2>2, <2>3, <2>4, <2>6, <2>7, <2>8, <2>9 DEF IInv
<1> QED  BY <1>1, <1>5 DEF HoldStory

\* A step in the middle of a Story: what is read goes through the directories as they
\* are, and the decisions are accounted for by the step itself.
LEMMA ReadingKeeps ==
  ASSUME IInv, phase = "contracts", walk.pc \in Reading, UNCHANGED <<entries, OfStories>>,
         DOMAIN walk' = WalkFields, walk'.pc \in Reading, walk'.held = walk.held,
         walk'.listed = walk.listed, walk'.result = walk.result, walk'.dir = walk.dir,
         reads \subseteq reads',
         \A r \in reads' \ reads :
                         \/ r.dir = SpecsLabel /\ r.ino = Specs.ino
                         \/ r.dir = StoriesLabel /\ r.ino = Stories.ino
                         \/ r.dir = StoryLabel(Current) /\ r.ino = DirOf(Current).ino
                         \/ r.dir = DecisionsLabel(Current) /\ r.ino = Decisions.ino,
         walk'.pc \in {"read", "root"} => Unread(reads', DecisionsLabel(Current)),
         walk'.pc = "decide" => Guarded(reads', swaps, DecisionsLabel(Current), Decisions.ino,
                                        walk'.decisions),
         walk'.pc = "settle" => OneInode(reads', DecisionsLabel(Current))
  PROVE  IInv'
<1> DEFINE more == reads' \ reads
<1>1. /\ reads' = reads \cup more
      /\ \A r \in more : \/ r.dir = SpecsLabel /\ r.ino = Specs.ino
                         \/ r.dir = StoriesLabel /\ r.ino = Stories.ino
                         \/ r.dir = StoryLabel(Current) /\ r.ino = DirOf(Current).ino
                         \/ r.dir = DecisionsLabel(Current) /\ r.ino = Decisions.ino
  OBVIOUS
<1> HIDE DEF more
<1>2. UNCHANGED <<disk, swaps, entries>>
  BY DEF OfStories
<1>3. /\ DOMAIN walk = WalkFields /\ walk.listed \subseteq ToSet(Names)
      /\ walk.result = "not-checked" /\ entries \in Seq(ToSet(entries))
      /\ Guarded(reads, swaps, StoriesLabel, Stories.ino, walk.held)
      /\ walk.listed # {} => Current \in walk.listed /\ Current \in ToSet(Names)
      /\ \A name \in walk.listed : name # Current =>
           Unread(reads, StoryLabel(name)) /\ Unread(reads, DecisionsLabel(name))
      /\ \A name \in ToSet(Names) \ walk.listed :
            OneInode(reads, StoryLabel(name)) /\ OneInode(reads, DecisionsLabel(name))
      /\ \A name \in ToSet(Names) :
            DirOf(name).kind = "directory" /\ DirOf(name).ino <= HighestFound =>
               name \in walk.listed \/ Judged(entries, name)
  BY UnderWay DEF Walking
<1>4. walk.listed # {} /\ Current \in walk.listed /\ Current \in ToSet(Names)
  BY <1>3 DEF IInv, CurrentInv
<1>5. Current' = Current
  BY DEF Current
<1>6. TypeOK' /\ PhaseInv' /\ OldInv' /\ HandoffInv' /\ ChildInv' /\ VerdictInv'
  BY <1>2, <1>3, WalkingFrame
<1>7. LabelInv' /\ SpecsInv'
  <2>1. \A r \in more : /\ r.dir \in {SpecsLabel, StoriesLabel, StoryLabel(Current),
                                      DecisionsLabel(Current)}
                        /\ r.dir = SpecsLabel => r.ino = Specs.ino
    BY <1>1, Labels
  <2> QED  BY <1>1, <1>4, <2>1, WalkReads
<1>8. StoriesInv'
  <2>1. \A r \in more : r.dir = StoriesLabel => r.ino = Stories.ino
    BY <1>1, Labels
  <2>2. Guarded(reads \cup more, swaps, StoriesLabel, Stories.ino, walk.held)
    BY <1>3, <2>1, GuardedGrows
  <2>3. Guarded(reads', swaps, StoriesLabel, Stories.ino, walk.held)
    BY <1>1, <2>2
  <2> QED  BY <1>2, <2>3 DEF StoriesInv, Stories, Reading
<1>9. \A name : name # Current =>
        /\ Unread(reads, StoryLabel(name)) => Unread(reads', StoryLabel(name))
        /\ Unread(reads, DecisionsLabel(name)) => Unread(reads', DecisionsLabel(name))
        /\ OneInode(reads, StoryLabel(name)) => OneInode(reads', StoryLabel(name))
        /\ OneInode(reads, DecisionsLabel(name)) => OneInode(reads', DecisionsLabel(name))
  <2> TAKE name
  <2> HAVE name # Current
  <2>1. \A r \in more : r.dir # StoryLabel(name) /\ r.dir # DecisionsLabel(name)
    BY <1>1, Labels
  <2>2. /\ Unread(reads, StoryLabel(name)) => Unread(reads \cup more, StoryLabel(name))
        /\ OneInode(reads, StoryLabel(name)) => OneInode(reads \cup more, StoryLabel(name))
    BY <2>1, ReadElsewhere
  <2>3. /\ Unread(reads, DecisionsLabel(name)) => Unread(reads \cup more, DecisionsLabel(name))
        /\ OneInode(reads, DecisionsLabel(name)) => OneInode(reads \cup more, DecisionsLabel(name))
    BY <2>1, ReadElsewhere
  <2> QED  BY <1>1, <2>2, <2>3
<1>10. NamesInv'
  <2>1. \A name \in ToSet(Names) :
          /\ name \in walk.listed /\ name # Current =>
                Unread(reads', StoryLabel(name)) /\ Unread(reads', DecisionsLabel(name))
          /\ name \notin walk.listed =>
                OneInode(reads', StoryLabel(name)) /\ OneInode(reads', DecisionsLabel(name))
    BY <1>3, <1>4, <1>9
  <2> QED  BY <1>5, <2>1 DEF NamesInv
<1>11. CurrentInv'
  <2>1. Guarded(reads, swaps, StoryLabel(Current), DirOf(Current).ino, walk.dir)
    BY DEF IInv, CurrentInv
  <2>2. \A r \in more : r.dir = StoryLabel(Current) => r.ino = DirOf(Current).ino
    BY <1>1, Labels
  <2>3. Guarded(reads \cup more, swaps, StoryLabel(Current), DirOf(Current).ino, walk.dir)
    BY <2>1, <2>2, GuardedGrows
  <2>4. Guarded(reads', swaps, StoryLabel(Current), DirOf(Current).ino, walk.dir)
    BY <1>1, <2>3
  <2> QED  BY <1>2, <1>4, <1>5, <2>4 DEF CurrentInv, DirOf, Decisions
<1>12. WalkInv'
  BY <1>3 DEF WalkInv, Walking, Reading
<1>13. JudgedInv'
  BY <1>2, <1>3 DEF JudgedInv, DirOf
<1> QED  BY <1>6, <1>7, <1>8, <1>10, <1>11, <1>12, <1>13 DEF IInv

LEMMA ReadStorySourceKeeps ==
  ASSUME IInv, ReadStorySource
  PROVE  IInv'
<1>0. /\ phase = "contracts" /\ walk.pc = "read" /\ UNCHANGED <<entries, OfStories>>
  BY DEF ReadStorySource, Inspecting, ReadEither
<1>1. CASE Ends("error") /\ UNCHANGED reads
  BY <1>0, <1>1, EndsInError
<1>2. CASE \E field \in {"story", "acceptance"} : \E doc :
             /\ walk' = [walk EXCEPT ![field] = doc]
             /\ reads' = reads \cup ThroughDir(Current)
  <2>1. PICK field \in {"story", "acceptance"} :
          \E doc : /\ walk' = [walk EXCEPT ![field] = doc]
                   /\ reads' = reads \cup ThroughDir(Current)
    BY <1>2
  <2>2. reads' = reads \cup ThroughDir(Current)
    BY <2>1
  <2>3. DOMAIN walk = WalkFields
    BY DEF IInv, TypeOK
  <2>4. /\ DOMAIN walk' = WalkFields /\ walk'.pc = walk.pc /\ walk'.held = walk.held
        /\ walk'.listed = walk.listed /\ walk'.result = walk.result /\ walk'.dir = walk.dir
    BY <2>1, <2>3 DEF WalkFields
  <2>5. Unread(reads, DecisionsLabel(Current))
    BY <1>0 DEF IInv, CurrentInv, Reading
  <2>6. \A r \in ThroughDir(Current) : r.dir # DecisionsLabel(Current)
    BY GoesThrough, Labels
  <2>7. Unread(reads', DecisionsLabel(Current))
    BY <2>2, <2>5, <2>6, ReadElsewhere
  <2>8. \A r \in ThroughDir(Current) :
          \/ r.dir = SpecsLabel /\ r.ino = Specs.ino
          \/ r.dir = StoriesLabel /\ r.ino = Stories.ino
          \/ r.dir = StoryLabel(Current) /\ r.ino = DirOf(Current).ino
          \/ r.dir = DecisionsLabel(Current) /\ r.ino = Decisions.ino
    BY GoesThrough
  <2>9. walk.pc \in Reading /\ walk'.pc \in Reading /\ walk'.pc = "read"
    BY <1>0, <2>4 DEF Reading
  <2> QED  BY <1>0, <2>2, <2>4, <2>7, <2>8, <2>9, ReadingKeeps
<1>3. \E field \in {"story", "acceptance"} :
        \/ /\ walk' = [walk EXCEPT ![field] = DirOf(Current)[field].doc]
           /\ reads' = reads \cup ThroughDir(Current)
        \/ Ends("error") /\ UNCHANGED reads
  BY DEF ReadStorySource, ReadEither
<1> QED  BY <1>1, <1>2, <1>3

LEMMA WantDecisionsKeeps ==
  ASSUME IInv, WantDecisions
  PROVE  IInv'
<1>0. /\ phase = "contracts" /\ walk.pc = "read" /\ UNCHANGED <<entries, reads, OfStories>>
  BY DEF WantDecisions, Inspecting
<1>1. \E wanted, pc : /\ walk' = [walk EXCEPT !.wanted = wanted, !.pc = pc]
                      /\ pc \in {"settle", "root"}
  BY DEF WantDecisions
<1>2. DOMAIN walk = WalkFields
  BY DEF IInv, TypeOK
<1>3. /\ DOMAIN walk' = WalkFields /\ walk'.pc \in {"settle", "root"} /\ walk'.held = walk.held
      /\ walk'.listed = walk.listed /\ walk'.result = walk.result /\ walk'.dir = walk.dir
  BY <1>1, <1>2 DEF WalkFields
<1>4. Unread(reads, DecisionsLabel(Current))
  BY <1>0 DEF IInv, CurrentInv, Reading
<1>5. walk.pc \in Reading /\ walk'.pc \in Reading /\ walk'.pc # "decide"
  BY <1>0, <1>3 DEF Reading
<1>6. Unread(reads', DecisionsLabel(Current)) /\ OneInode(reads', DecisionsLabel(Current))
  BY <1>0, <1>4, UnreadOne
<1>7. reads' = reads
  BY <1>0
<1> QED  BY <1>0, <1>3, <1>5, <1>6, <1>7, ReadingKeeps

LEMMA HoldDecisionsKeeps ==
  ASSUME IInv, HoldDecisions
  PROVE  IInv'
<1>0. /\ phase = "contracts" /\ walk.pc = "root" /\ UNCHANGED <<entries, reads, OfStories>>
  BY DEF HoldDecisions, Inspecting
<1>1. CASE Ends("error")
  BY <1>0, <1>1, EndsInError
<1>2. CASE walk' = [walk EXCEPT !.pc = "decide", !.decisions = Decisions.ino]
  <2>2. DOMAIN walk = WalkFields
    BY DEF IInv, TypeOK
  <2>3. /\ DOMAIN walk' = WalkFields /\ walk'.pc = "decide" /\ walk'.held = walk.held
        /\ walk'.listed = walk.listed /\ walk'.result = walk.result /\ walk'.dir = walk.dir
        /\ walk'.decisions = Decisions.ino
    BY <1>2, <2>2 DEF WalkFields
  <2>4. Unread(reads, DecisionsLabel(Current)) /\ Old(swaps, Decisions.ino)
    BY <1>0 DEF IInv, CurrentInv, OldInv, Reading
  <2>5. Guarded(reads', swaps, DecisionsLabel(Current), Decisions.ino, walk'.decisions)
    BY <1>0, <2>3, <2>4, UnreadGuarded
  <2>6. walk.pc \in Reading /\ walk'.pc \in Reading
    BY <1>0, <2>3 DEF Reading
  <2>7. reads' = reads
    BY <1>0
  <2> QED  BY <1>0, <2>3, <2>5, <2>6, <2>7, ReadingKeeps
<1> QED  BY <1>1, <1>2 DEF HoldDecisions

LEMMA ReadOneDecisionKeeps ==
  ASSUME IInv, ReadOneDecision
  PROVE  IInv'
<1>0. /\ phase = "contracts" /\ walk.pc = "decide" /\ UNCHANGED <<entries, OfStories>>
      /\ reads' \in {reads, reads \cup ThroughDecisions(Current)}
  BY DEF ReadOneDecision, Inspecting
<1>1. \E decided : walk' = [walk EXCEPT !.decided = decided]
  BY DEF ReadOneDecision
<1>2. DOMAIN walk = WalkFields
  BY DEF IInv, TypeOK
<1>3. /\ DOMAIN walk' = WalkFields /\ walk'.pc = "decide" /\ walk'.held = walk.held
      /\ walk'.listed = walk.listed /\ walk'.result = walk.result /\ walk'.dir = walk.dir
      /\ walk'.decisions = walk.decisions
  BY <1>0, <1>1, <1>2 DEF WalkFields
<1>4. Guarded(reads, swaps, DecisionsLabel(Current), Decisions.ino, walk.decisions)
  BY <1>0 DEF IInv, CurrentInv, Reading
<1>5. \A r \in ThroughDecisions(Current) :
         r.dir = DecisionsLabel(Current) => r.ino = Decisions.ino
  BY GoesThrough, Labels
<1>6. Guarded(reads', swaps, DecisionsLabel(Current), Decisions.ino, walk'.decisions)
  <2>1. Guarded(reads \cup ThroughDecisions(Current), swaps, DecisionsLabel(Current),
                Decisions.ino, walk.decisions)
    BY <1>4, <1>5, GuardedGrows
  <2> QED  BY <1>0, <1>3, <1>4, <2>1
<1>7. walk.pc \in Reading /\ walk'.pc \in Reading
  BY <1>0, <1>3 DEF Reading
<1>8. \A r \in ThroughDecisions(Current) :
         \/ r.dir = SpecsLabel /\ r.ino = Specs.ino
         \/ r.dir = StoriesLabel /\ r.ino = Stories.ino
         \/ r.dir = StoryLabel(Current) /\ r.ino = DirOf(Current).ino
         \/ r.dir = DecisionsLabel(Current) /\ r.ino = Decisions.ino
  BY GoesThrough
<1> QED  BY <1>0, <1>3, <1>6, <1>7, <1>8, ReadingKeeps

\* The decisions count only while their directory is the one that was held.
LEMMA DecisionsRemainKeeps ==
  ASSUME IInv, DecisionsRemain
  PROVE  IInv'
<1>0. /\ phase = "contracts" /\ walk.pc = "decide" /\ UNCHANGED <<entries, reads, OfStories>>
  BY DEF DecisionsRemain, Inspecting
<1>1. CASE Ends("error")
  BY <1>0, <1>1, EndsInError
<1>2. CASE RemainsStable(Decisions, walk.decisions) /\ walk' = [walk EXCEPT !.pc = "settle"]
  <2>2. DOMAIN walk = WalkFields
    BY DEF IInv, TypeOK
  <2>3. /\ DOMAIN walk' = WalkFields /\ walk'.pc = "settle" /\ walk'.held = walk.held
        /\ walk'.listed = walk.listed /\ walk'.result = walk.result /\ walk'.dir = walk.dir
    BY <1>2, <2>2 DEF WalkFields
  <2>4. Guarded(reads, swaps, DecisionsLabel(Current), Decisions.ino, walk.decisions)
    BY <1>0 DEF IInv, CurrentInv, Reading
  <2>5. Decisions.ino = walk.decisions
    BY <1>2 DEF RemainsStable, Holds
  <2>6. OneInode(reads', DecisionsLabel(Current))
    BY <1>0, <2>4, <2>5, GuardedHeld
  <2>7. walk.pc \in Reading /\ walk'.pc \in Reading
    BY <1>0, <2>3 DEF Reading
  <2>8. reads' = reads
    BY <1>0
  <2> QED  BY <1>0, <2>3, <2>6, <2>7, <2>8, ReadingKeeps
<1> QED  BY <1>1, <1>2 DEF DecisionsRemain

LEMMA JudgedGrows ==
  ASSUME NEW list, list \in Seq(ToSet(list)), NEW e
  PROVE  /\ Judged(Append(list, e), e.name)
         /\ \A name : Judged(list, name) => Judged(Append(list, e), name)
<1> DEFINE longer == Append(list, e)
<1>1. /\ Len(longer) = Len(list) + 1 /\ Len(list) \in Nat
      /\ \A i \in 1..Len(list) : longer[i] = list[i]
      /\ longer[Len(list) + 1] = e
  BY Appended
<1> HIDE DEF longer
<1>2. 1..Len(list) \subseteq 1..Len(longer) /\ Len(list) + 1 \in 1..Len(longer)
  BY <1>1
<1>3. Judged(longer, e.name)
  BY <1>1, <1>2 DEF Judged
<1>4. \A name : Judged(list, name) => Judged(longer, name)
  BY <1>1, <1>2 DEF Judged
<1> QED  BY <1>3, <1>4 DEF longer

\* A Story is judged by what was read through one directory of it.
LEMMA SettleStoryKeeps ==
  ASSUME IInv, SettleStory
  PROVE  IInv'
<1>0. phase = "contracts" /\ walk.pc = "settle" /\ UNCHANGED <<reads, OfStories>>
  BY DEF SettleStory, Inspecting
<1>1. CASE Ends("error") /\ UNCHANGED entries
  BY <1>0, <1>1, EndsInError
<1>2. UNCHANGED <<disk, swaps, reads>>
  BY <1>0 DEF OfStories
<1>3. /\ DOMAIN walk = WalkFields /\ walk.listed \subseteq ToSet(Names)
      /\ walk.result = "not-checked" /\ entries \in Seq(ToSet(entries))
      /\ Guarded(reads, swaps, StoriesLabel, Stories.ino, walk.held)
      /\ walk.listed # {} => Current \in walk.listed /\ Current \in ToSet(Names)
      /\ \A name \in walk.listed : name # Current =>
           Unread(reads, StoryLabel(name)) /\ Unread(reads, DecisionsLabel(name))
      /\ \A name \in ToSet(Names) \ walk.listed :
            OneInode(reads, StoryLabel(name)) /\ OneInode(reads, DecisionsLabel(name))
      /\ \A name \in ToSet(Names) :
            DirOf(name).kind = "directory" /\ DirOf(name).ino <= HighestFound =>
               name \in walk.listed \/ Judged(entries, name)
  BY <1>0, UnderWay DEF Walking, Reading
<1>4. walk.listed # {} /\ Current \in walk.listed /\ Current \in ToSet(Names)
  BY <1>0, <1>3 DEF IInv, CurrentInv, Reading
<1>5. CASE /\ RemainsStable(DirOf(Current), walk.dir)
           /\ entries' = Append(entries, Entry_("story", Current, "", walk.story,
                                                walk.acceptance, 0, walk.decided))
           /\ walk' = [NoWalk EXCEPT !.pc = "next", !.held = walk.held,
                                     !.listed = walk.listed \ {Current}]
  <2> DEFINE e == Entry_("story", Current, "", walk.story, walk.acceptance, 0, walk.decided)
  <2>1. /\ DOMAIN walk' = WalkFields /\ walk'.pc = "next" /\ walk'.held = walk.held
        /\ walk'.listed = walk.listed \ {Current} /\ walk'.result = "not-checked"
    BY <1>5 DEF NoWalk, WalkFields
  <2>2. e.name = Current
    BY DEF Entry_
  <2>3. entries' = Append(entries, e)
    BY <1>5
  <2> HIDE DEF e
  <2>4. /\ entries' \in Seq(ToSet(entries'))
        /\ Judged(entries', Current)
        /\ \A name : Judged(entries, name) => Judged(entries', name)
    <3>1. Append(entries, e) \in Seq(ToSet(Append(entries, e)))
      BY <1>3, Appended
    <3>2. /\ Judged(Append(entries, e), e.name)
          /\ \A name : Judged(entries, name) => Judged(Append(entries, e), name)
      BY <1>3, JudgedGrows
    <3> QED  BY <2>2, <2>3, <3>1, <3>2
  <2>5. TypeOK' /\ PhaseInv' /\ OldInv' /\ HandoffInv' /\ ChildInv' /\ VerdictInv'
    BY <1>0, <1>3, <2>1, <2>4, WalkingFrame
  <2>6. LabelInv' /\ SpecsInv'
    BY <1>0, WalkReadsNothing
  <2>7. StoriesInv'
    BY <1>2, <1>3, <2>1 DEF StoriesInv, Stories, Walking, Reading
  <2>8. OneInode(reads, StoryLabel(Current)) /\ OneInode(reads, DecisionsLabel(Current))
    <3>1. Guarded(reads, swaps, StoryLabel(Current), DirOf(Current).ino, walk.dir)
      BY <1>0 DEF IInv, CurrentInv, Reading
    <3>2. DirOf(Current).ino = walk.dir
      BY <1>5 DEF RemainsStable, Holds
    <3>3. OneInode(reads, StoryLabel(Current))
      BY <3>1, <3>2, GuardedHeld
    <3> QED  BY <1>0, <3>3 DEF IInv, CurrentInv, Reading
  <2>9. NamesInv'
    BY <1>2, <1>3, <2>1, <2>8 DEF NamesInv, Reading
  <2>10. CurrentInv' /\ WalkInv'
    BY <2>1 DEF CurrentInv, WalkInv, Walking, Reading
  <2>11. JudgedInv'
    BY <1>2, <1>3, <2>1, <2>4 DEF JudgedInv, DirOf
  <2> QED  BY <2>5, <2>6, <2>7, <2>9, <2>10, <2>11 DEF IInv
<1> QED  BY <1>1, <1>5 DEF SettleStory

\* The walk as a whole counts while the collection is the one that was held.
LEMMA SettleStoriesKeeps ==
  ASSUME IInv, SettleStories
  PROVE  IInv'
<1> DEFINE result == IF ~(Leads(Specs) /\ RemainsStable(Stories, walk.held)) THEN "error"
                     ELSE IF entries = <<>> THEN "no-stories"
                     ELSE IF \E i \in 1..Len(entries) : ~ContractHolds(entries[i]) THEN "incomplete"
                     ELSE "ok"
<1>0. /\ phase = "contracts" /\ walk.pc = "next" /\ walk.listed = {}
      /\ UNCHANGED <<entries, reads, OfStories>> /\ Ends(result)
  BY Zenon DEF SettleStories, Inspecting
<1>1. UNCHANGED <<disk, swaps, entries, reads>>
  BY <1>0 DEF OfStories
<1>2. /\ DOMAIN walk = WalkFields /\ entries \in Seq(ToSet(entries))
      /\ Guarded(reads, swaps, StoriesLabel, Stories.ino, walk.held)
      /\ \A name \in ToSet(Names) :
            OneInode(reads, StoryLabel(name)) /\ OneInode(reads, DecisionsLabel(name))
      /\ \A name \in ToSet(Names) :
            DirOf(name).kind = "directory" /\ DirOf(name).ino <= HighestFound =>
               Judged(entries, name)
  BY <1>0, UnderWay DEF Walking
<1>3. /\ result \in {"error", "no-stories", "incomplete", "ok"}
      /\ result # "error" => RemainsStable(Stories, walk.held)
      /\ result = "no-stories" => entries = <<>>
      /\ result = "ok" => \A i \in 1..Len(entries) : ContractHolds(entries[i])
  OBVIOUS
<1> HIDE DEF result
<1>4. /\ DOMAIN walk' = WalkFields /\ walk'.pc = "end" /\ walk'.result = result
      /\ walk'.listed = {}
  BY <1>0, EndFields
<1>5. TypeOK' /\ PhaseInv' /\ OldInv' /\ HandoffInv' /\ ChildInv' /\ VerdictInv'
  BY <1>0, <1>1, <1>2, <1>4, WalkingFrame
<1>6. LabelInv' /\ SpecsInv'
  BY <1>0, WalkReadsNothing
<1>7. StoriesInv'
  <2>1. result # "error" => OneInode(reads, StoriesLabel)
    <3> SUFFICES ASSUME result # "error"
                 PROVE  OneInode(reads, StoriesLabel)
      OBVIOUS
    <3>1. Stories.ino = walk.held
      BY <1>3 DEF RemainsStable, Holds
    <3> QED  BY <1>2, <3>1, GuardedHeld
  <2> QED  BY <1>1, <1>4, <2>1 DEF StoriesInv, Walking, Reading
<1>8. NamesInv'
  BY <1>1, <1>2, <1>4 DEF NamesInv
<1>9. CurrentInv'
  BY <1>4 DEF CurrentInv, Reading
<1>10. WalkInv'
  <2>1. result \in {"no-stories", "ok"} => \A i \in 1..Len(entries) : ContractHolds(entries[i])
    <3>1. entries = <<>> => 1..Len(entries) = {}
      OBVIOUS
    <3> QED  BY <1>3, <3>1
  <2> QED  BY <1>1, <1>3, <1>4, <2>1 DEF WalkInv
<1>11. JudgedInv'
  BY <1>1, <1>2, <1>4 DEF JudgedInv, DirOf
<1> QED  BY <1>5, <1>6, <1>7, <1>8, <1>9, <1>10, <1>11 DEF IInv

-----------------------------------------------------------------------------
(* The handoff, and the whole.                                              *)

\* What a step of the handoff's inspection leaves alone.
LEMMA HandoffFrame ==
  ASSUME IInv, phase = "contracts", UNCHANGED OfHandoff,
         reads' \in {reads, reads \cup ThroughSpecs},
         DOMAIN handoff' = HandoffFields, HandoffInv'
  PROVE  IInv'
<1>0. /\ TypeOK /\ PhaseInv /\ OldInv /\ LabelInv /\ SpecsInv /\ StoriesInv /\ NamesInv /\ CurrentInv
      /\ WalkInv /\ JudgedInv /\ ChildInv
  BY DEF IInv
<1>1. UNCHANGED <<command, disk, swaps, phase, snapshot, walk, entries, child, verdict>>
  BY DEF OfHandoff
<1>2. TypeOK' /\ ChildInv'
  BY <1>0, <1>1 DEF TypeOK, ChildInv
<1>3. PhaseInv'
  BY <1>0, <1>1 DEF PhaseInv, Early, CheckPhases
<1>4. OldInv' /\ LabelInv' /\ StoriesInv' /\ NamesInv' /\ CurrentInv' /\ WalkInv' /\ JudgedInv'
  BY <1>0, <1>1, SpecsRead
<1>5. SpecsInv'
  <2>1. Guarded(reads, swaps, SpecsLabel, Specs.ino, snapshot.held)
    BY <1>0 DEF SpecsInv
  <2>2. \A r \in ThroughSpecs : r.dir = SpecsLabel => r.ino = Specs.ino
    BY GoesThrough
  <2>3. Guarded(reads \cup ThroughSpecs, swaps, SpecsLabel, Specs.ino, snapshot.held)
    BY <2>1, <2>2, GuardedGrows
  <2>4. Guarded(reads', swaps, SpecsLabel, Specs.ino, snapshot.held)
    BY <2>1, <2>3
  <2> QED  BY <1>1, <2>4 DEF SpecsInv, Specs
<1>6. VerdictInv'
  <2>1. verdict'.outcome = "none"
    BY <1>0, <1>1 DEF PhaseInv
  <2> QED  BY <2>1, NothingConcluded
<1> QED  BY <1>2, <1>3, <1>4, <1>5, <1>6 DEF IInv

LEMMA HandoffKeeps ==
  ASSUME IInv, HoldForHandoff \/ ReadHandoff \/ SettleHandoff
  PROVE  IInv'
<1>0. DOMAIN handoff = HandoffFields
  BY DEF IInv, TypeOK
<1>1. CASE HoldForHandoff
  <2>1. /\ phase = "contracts" /\ UNCHANGED <<reads, OfHandoff>>
        /\ \/ handoff' = [handoff EXCEPT !.pc = "read", !.held = Specs.ino]
           \/ handoff' = [handoff EXCEPT !.pc = "end", !.result = "error"]
    BY <1>1 DEF HoldForHandoff
  <2>2. DOMAIN handoff' = HandoffFields
        /\ (handoff'.pc = "read" \/ handoff'.result = "error")
    BY <1>0, <2>1 DEF HandoffFields
  <2>3. HandoffInv'
    BY <2>2 DEF HandoffInv
  <2> QED  BY <2>1, <2>2, <2>3, HandoffFrame
<1>2. CASE ReadHandoff
  <2> DEFINE file == IF Leads(Specs) THEN Specs.handoff ELSE Absent
  <2>1. /\ phase = "contracts" /\ UNCHANGED OfHandoff
        /\ handoff' = [handoff EXCEPT !.pc = "settle", !.file = file]
        /\ reads' \in {reads, reads \cup ThroughSpecs}
    BY <1>2 DEF ReadHandoff
  <2> HIDE DEF file
  <2>2. DOMAIN handoff' = HandoffFields /\ handoff'.pc = "settle"
    BY <1>0, <2>1 DEF HandoffFields
  <2>3. HandoffInv'
    BY <2>2 DEF HandoffInv
  <2> QED  BY <2>1, <2>2, <2>3, HandoffFrame
<1>3. CASE SettleHandoff
  <2> DEFINE stable == RemainsStable(Specs, handoff.held)
             result == CASE ~stable -> "error"
                         [] stable /\ handoff.file.kind = "missing" -> "not-present"
                         [] stable /\ ReadsAsText(handoff.file) ->
                              IF HandoffHolds(handoff.file.doc) THEN "ok" ELSE "incomplete"
                         [] OTHER -> "error"
  <2>1. /\ phase = "contracts" /\ UNCHANGED <<reads, OfHandoff>>
        /\ handoff' = [handoff EXCEPT !.pc = "end", !.result = result]
    BY <1>3, Zenon DEF SettleHandoff
  <2>2. /\ result \in {"error", "not-present", "incomplete", "ok"}
        /\ result = "not-present" => handoff.file.kind = "missing"
        /\ result = "ok" => ReadsAsText(handoff.file) /\ HandoffHolds(handoff.file.doc)
    <3> HIDE DEF stable
    <3>1. ReadsAsText(handoff.file) => handoff.file.kind # "missing"
      BY DEF ReadsAsText
    <3> QED  BY <3>1
  <2> HIDE DEF stable, result
  <2>3. /\ DOMAIN handoff' = HandoffFields /\ handoff'.pc = "end" /\ handoff'.result = result
        /\ handoff'.file = handoff.file
    BY <1>0, <2>1 DEF HandoffFields
  <2>4. HandoffInv'
    BY <2>2, <2>3 DEF HandoffInv, ReadsAsText, Readable
  <2> QED  BY <2>1, <2>3, <2>4, HandoffFrame
<1> QED  BY <1>1, <1>2, <1>3

\* The snapshot that is judged, and the verdict on it.
LEMMA SettleFields ==
  ASSUME IInv, Settle
  PROVE  /\ phase = "contracts" /\ walk.pc = "end" /\ handoff.pc = "end"
         /\ UNCHANGED <<command, disk, swaps, walk, entries, handoff, child, reads>>
         /\ DOMAIN snapshot' = SnapshotFields
         /\ snapshot'.marker = snapshot.marker /\ snapshot'.legacy = snapshot.legacy
         /\ \/ Specs.ino = snapshot.held
               /\ snapshot'.story = walk.result /\ snapshot'.handoff = handoff.result
            \/ snapshot'.story = "error"
         /\ DOMAIN verdict' = VerdictFields
         /\ verdict'.outcome = EvaluateRepositoryDoctor(snapshot').outcome
         /\ verdict'.required = EvaluateRepositoryDoctor(snapshot').required
         /\ phase' \in {"spawn", "done"}
         /\ phase' = "spawn" => Confirmed(verdict'.required)
<1> DEFINE stable == snapshot.held # NotHeld /\ RemainsStable(Specs, snapshot.held)
           e == EvaluateRepositoryDoctor(snapshot')
<1>1. /\ phase = "contracts" /\ walk.pc = "end" /\ handoff.pc = "end"
      /\ UNCHANGED <<command, disk, swaps, walk, entries, handoff, child, reads>>
      /\ snapshot' = [snapshot EXCEPT !.story = IF stable THEN walk.result ELSE "error",
                                      !.handoff = IF stable THEN handoff.result ELSE "error"]
      /\ Conclude(e)
  BY DEF Settle
<1>2. stable => Specs.ino = snapshot.held
  BY DEF RemainsStable, Holds
<1>3. DOMAIN snapshot = SnapshotFields
  BY DEF IInv, TypeOK
<1> HIDE DEF stable, e
<1>4. /\ DOMAIN snapshot' = SnapshotFields
      /\ snapshot'.marker = snapshot.marker /\ snapshot'.legacy = snapshot.legacy
      /\ snapshot'.story = IF stable THEN walk.result ELSE "error"
      /\ snapshot'.handoff = IF stable THEN handoff.result ELSE "error"
  BY <1>1, <1>3 DEF SnapshotFields
<1>5. /\ verdict' = [outcome |-> e.outcome, issues |-> e.issues, required |-> e.required]
      /\ phase' = IF command.name = "run-verify" /\ Confirmed(e.required) THEN "spawn" ELSE "done"
  BY <1>1 DEF Conclude
<1>6. DOMAIN verdict' = VerdictFields /\ verdict'.outcome = e.outcome
      /\ verdict'.required = e.required
  BY <1>5 DEF VerdictFields
<1> QED  BY <1>1, <1>2, <1>4, <1>5, <1>6 DEF e

\* All that was read below specs/ was read from one tree, if both inspections ended
\* without an error and specs/ is still the one that was held.
LEMMA OneTreeWasRead ==
  ASSUME IInv, phase = "contracts", walk.pc = "end", walk.result # "error",
         Specs.ino = snapshot.held
  PROVE  \A r, q \in reads : r.dir = q.dir => r.ino = q.ino
<1>1. OneInode(reads, SpecsLabel)
  <2>1. Guarded(reads, swaps, SpecsLabel, Specs.ino, snapshot.held)
    BY DEF IInv, SpecsInv
  <2> QED  BY <2>1, GuardedHeld
<1>2. OneInode(reads, StoriesLabel)
  BY DEF IInv, StoriesInv
<1>3. walk.listed = {}
  BY DEF IInv, WalkInv
<1>4. \A name \in ToSet(Names) :
        OneInode(reads, StoryLabel(name)) /\ OneInode(reads, DecisionsLabel(name))
  BY <1>3 DEF IInv, NamesInv
<1>5. TAKE r, q \in reads
<1>6. HAVE r.dir = q.dir
<1>7. OneInode(reads, r.dir)
  BY <1>1, <1>2, <1>4 DEF IInv, LabelInv
<1> QED  BY <1>6, <1>7 DEF OneInode

LEMMA SettleKeeps ==
  ASSUME IInv, Settle
  PROVE  IInv'
<1>0. /\ TypeOK /\ PhaseInv /\ OldInv /\ LabelInv /\ SpecsInv /\ StoriesInv /\ NamesInv /\ CurrentInv
      /\ WalkInv /\ JudgedInv /\ HandoffInv /\ ChildInv
  BY DEF IInv
<1> DEFINE e == EvaluateRepositoryDoctor(snapshot')
<1>1. /\ phase = "contracts" /\ walk.pc = "end" /\ handoff.pc = "end"
      /\ UNCHANGED <<command, disk, swaps, walk, entries, handoff, child, reads>>
      /\ DOMAIN snapshot' = SnapshotFields
      /\ snapshot'.marker = snapshot.marker /\ snapshot'.legacy = snapshot.legacy
      /\ \/ Specs.ino = snapshot.held
            /\ snapshot'.story = walk.result /\ snapshot'.handoff = handoff.result
         \/ snapshot'.story = "error"
      /\ DOMAIN verdict' = VerdictFields
      /\ verdict'.outcome = e.outcome
      /\ verdict'.required = e.required
      /\ phase' \in {"spawn", "done"}
      /\ phase' = "spawn" => Confirmed(verdict'.required)
  BY SettleFields
<1>2. /\ e.outcome \in Outcomes
      /\ e.outcome \in SoundOutcomes =>
           Confirmed(e.required) /\ snapshot'.story # "error" /\ snapshot'.handoff # "error"
      /\ e.outcome = "STRUCTURE_OK" =>
           /\ snapshot'.story # "incomplete" /\ snapshot'.handoff # "incomplete"
           /\ snapshot'.marker.kind # "missing" => snapshot'.marker.text[1] = CheckoutVersion
           /\ snapshot'.legacy.kind = "missing"
  BY EvaluationMeans
<1> HIDE DEF e
<1>3. child = NoChild /\ ~child.settled /\ child.pc = "none"
  BY <1>0, <1>1, NoChildFacts DEF PhaseInv
<1>4. TypeOK' /\ ChildInv' /\ HandoffInv'
  BY <1>0, <1>1 DEF TypeOK, ChildInv, HandoffInv
<1>5. PhaseInv'
  BY <1>0, <1>1, <1>3 DEF PhaseInv, Early, CheckPhases
<1>6. OldInv' /\ LabelInv' /\ StoriesInv' /\ NamesInv' /\ CurrentInv' /\ WalkInv' /\ JudgedInv'
  BY <1>0, <1>1, WalkFrame
<1>7. SpecsInv'
  BY <1>1 DEF SpecsInv
<1>8. e.outcome \in SoundOutcomes =>
        /\ Specs.ino = snapshot.held /\ walk.result # "error" /\ handoff.result # "error"
        /\ snapshot'.story = walk.result /\ snapshot'.handoff = handoff.result
  BY <1>1, <1>2
<1>9. DoctorReadsOneTree'
  <2>1. e.outcome \in SoundOutcomes => \A r, q \in reads : r.dir = q.dir => r.ino = q.ino
    BY <1>1, <1>8, OneTreeWasRead
  <2> QED  BY <1>1, <2>1 DEF DoctorReadsOneTree, SoundOutcomes
<1>10. CleanMeansContracts'
  <2> SUFFICES ASSUME e.outcome = "STRUCTURE_OK"
               PROVE  CleanMeansContracts'
    BY <1>1 DEF CleanMeansContracts
  <2>1. e.outcome \in SoundOutcomes
    BY DEF SoundOutcomes
  <2>2. walk.result \in {"no-stories", "ok"} /\ walk.listed = {}
    BY <1>0, <1>1, <1>2, <1>8, <2>1 DEF WalkInv
  <2>3. handoff.result \in {"not-present", "ok"}
    BY <1>0, <1>1, <1>2, <1>8, <2>1 DEF HandoffInv
  <2>4. \A i \in 1..Len(entries) : ContractHolds(entries[i])
    BY <1>0, <1>1, <2>2 DEF WalkInv
  <2>5. \A name \in ToSet(Names) :
          DirOf(name).kind = "directory" /\ DirOf(name).ino <= HighestFound =>
             \E i \in 1..Len(entries) : entries[i].name = name
    BY <1>0, <1>1, <2>2 DEF JudgedInv, Judged
  <2>6. handoff.file.kind # "missing" => Readable(handoff.file) /\ HandoffHolds(handoff.file.doc)
    BY <1>0, <1>1, <2>3 DEF HandoffInv
  <2>7. Confirmed(verdict'.required)
    BY <1>1, <1>2, <2>1
  <2>8. /\ snapshot'.marker.kind # "missing" => snapshot'.marker.text[1] = CheckoutVersion
        /\ snapshot'.legacy.kind = "missing"
    BY <1>2
  <2> QED  BY <1>1, <2>4, <2>5, <2>6, <2>7, <2>8 DEF CleanMeansContracts, DirOf
<1>11. OutcomeIsTheChilds'
  BY <1>1, <1>2, <1>3 DEF OutcomeIsTheChilds, Outcomes
<1>12. VerdictInv'
  BY <1>1, <1>2, <1>9, <1>10, <1>11 DEF VerdictInv, Outcomes
<1> QED  BY <1>4, <1>5, <1>6, <1>7, <1>12 DEF IInv

-----------------------------------------------------------------------------
(* The check commands: they conclude nothing about one tree or make verify. *)

NotOfDoctor == phase = "start" \/ phase \in CheckPhases

LEMMA ChecksWhen ==
  ASSUME Contracts
  PROVE  NotOfDoctor /\ UNCHANGED OfCheck
  BY DEF Contracts, NotOfDoctor, CheckPhases, BeginCheck, NextSubject, ReadStoryFile,
     ReadAcceptanceFile, ReadDecisions, ReadRecord, EndCheck, CheckHandoff, Checking

\* A walk that is not one of Doctor's.
AtRest(w) == /\ DOMAIN w = WalkFields /\ w.pc = "idle" /\ w.result = "not-checked"
             /\ w.listed \subseteq ToSet(Names)

LEMMA NoWalkRests ==
  /\ AtRest(NoWalk)
  /\ \A todo : AtRest([NoWalk EXCEPT !.todo = todo])
<1>1. DOMAIN NoWalk = WalkFields
  BY DEF NoWalk, WalkFields
<1>2. NoWalk.pc = "idle" /\ NoWalk.result = "not-checked" /\ NoWalk.listed = {}
  BY DEF NoWalk
<1>3. AtRest(NoWalk)
  BY <1>1, <1>2 DEF AtRest
<1>4. ASSUME NEW todo
      PROVE  AtRest([NoWalk EXCEPT !.todo = todo])
  <2> DEFINE w == [NoWalk EXCEPT !.todo = todo]
  <2>1. DOMAIN w = DOMAIN NoWalk /\ \A f \in DOMAIN NoWalk \ {"todo"} : w[f] = NoWalk[f]
    OBVIOUS
  <2>2. {"pc", "result", "listed"} \subseteq WalkFields \ {"todo"}
    BY DEF WalkFields
  <2> HIDE DEF w
  <2>3. w.pc = NoWalk.pc /\ w.result = NoWalk.result /\ w.listed = NoWalk.listed
    BY <1>1, <2>1, <2>2
  <2>4. AtRest(w)
    BY <1>1, <1>2, <2>1, <2>3 DEF AtRest
  <2> QED  BY <2>4 DEF w
<1> QED  BY <1>3, <1>4

LEMMA StillRests ==
  ASSUME NEW w, AtRest(w), NEW field \in {"todo", "story", "acceptance", "decided"}, NEW value
  PROVE  AtRest([w EXCEPT ![field] = value])
<1> DEFINE v == [w EXCEPT ![field] = value]
<1>1. DOMAIN v = DOMAIN w /\ \A f \in DOMAIN w \ {field} : v[f] = w[f]
  OBVIOUS
<1>2. {"pc", "result", "listed"} \subseteq WalkFields \ {field}
  BY DEF WalkFields
<1> HIDE DEF v
<1>3. v.pc = w.pc /\ v.result = w.result /\ v.listed = w.listed
  BY <1>1, <1>2 DEF AtRest
<1>4. AtRest(v)
  BY <1>1, <1>3 DEF AtRest
<1> QED  BY <1>4 DEF v

\* What a check of its own concludes is neither sound nor the child's.
LEMMA CheckOutcomes ==
  /\ "ERROR" \notin SoundOutcomes \cup Verified
  /\ \A list, ready : StoryOutcome(list, ready) \notin SoundOutcomes \cup Verified
  /\ \A list : PlanOutcome(list) \notin SoundOutcomes \cup Verified
  /\ \A list : RecordOutcome(list) \notin SoundOutcomes \cup Verified
  /\ \A file : HandoffOutcome(file) \notin SoundOutcomes \cup Verified
<1>1. "ERROR" \notin SoundOutcomes \cup Verified
  BY DEF SoundOutcomes, Verified
<1>2. ASSUME NEW list, NEW ready
      PROVE  StoryOutcome(list, ready) \notin SoundOutcomes \cup Verified
  <2> DEFINE incomplete == \E i \in 1..Len(list) : StoryDiagnostics(list[i], ready) # <<>>
             failed == HasError(list) \/ list = <<>>
  <2>1. StoryOutcome(list, ready) =
          CASE failed -> "ERROR"
            [] ~HasError(list) /\ list # <<>> /\ incomplete ->
                 IF ready THEN "STORY_READINESS_INCOMPLETE" ELSE "STORY_CONTRACT_INCOMPLETE"
            [] OTHER -> IF ready THEN "STORY_READINESS_OK" ELSE "STORY_CONTRACT_OK"
    BY DEF StoryOutcome
  <2> HIDE DEF incomplete
  <2> QED  BY <2>1 DEF SoundOutcomes, Verified
<1>3. ASSUME NEW list
      PROVE  PlanOutcome(list) \notin SoundOutcomes \cup Verified
  BY Zenon DEF PlanOutcome, SoundOutcomes, Verified
<1>4. ASSUME NEW list
      PROVE  RecordOutcome(list) \notin SoundOutcomes \cup Verified
  <2> DEFINE results == {ResultOf(list[i]) : i \in 1..Len(list)}
             bad == \E r \in results : r.planIssues # <<>> \/ r.incomplete
             fails == \E r \in results : r.status = "fail"
             part == \E r \in results : r.status = "partial"
  <2>1. RecordOutcome(list) =
          IF HasError(list) \/ list = <<>> THEN "ERROR"
          ELSE IF bad THEN "VERIFICATION_RESULT_INCOMPLETE"
          ELSE IF fails THEN "VERIFICATION_FAIL"
          ELSE IF part THEN "VERIFICATION_PARTIAL"
          ELSE "VERIFICATION_PASS"
    BY DEF RecordOutcome, WorstOf
  <2> HIDE DEF results, bad, fails, part
  <2> QED  BY <2>1 DEF SoundOutcomes, Verified
<1>5. ASSUME NEW file
      PROVE  HandoffOutcome(file) \notin SoundOutcomes \cup Verified
  BY DEF HandoffOutcome, SoundOutcomes, Verified
<1> QED  BY <1>1, <1>2, <1>3, <1>4, <1>5

\* One more entry, and the next subject.
LEMMA AddFields ==
  ASSUME NEW entry, Add(entry), entries \in Seq(ToSet(entries))
  PROVE  entries' \in Seq(ToSet(entries')) /\ AtRest(walk') /\ phase' = "subjects"
<1>1. entries' = Append(entries, entry) /\ phase' = "subjects"
      /\ walk' = [NoWalk EXCEPT !.todo = Tail(walk.todo)]
  BY DEF Add
<1>2. AtRest(walk')
  BY <1>1, NoWalkRests
<1> QED  BY <1>1, <1>2, Appended

LEMMA ReportFields ==
  ASSUME NEW name, Report(Outcome(name)), DOMAIN verdict = VerdictFields,
         name \notin SoundOutcomes \cup Verified
  PROVE  /\ phase' = "done" /\ DOMAIN verdict' = VerdictFields
         /\ verdict'.outcome \notin SoundOutcomes \cup Verified
<1>1. phase' = "done" /\ verdict' = [verdict EXCEPT !.outcome = name]
  BY DEF Report, Outcome
<1>2. DOMAIN verdict' = VerdictFields /\ verdict'.outcome = name
  BY <1>1 DEF VerdictFields
<1> QED  BY <1>1, <1>2

\* What every step of a check leaves behind.
Concluded == /\ DOMAIN verdict' = VerdictFields
             /\ verdict'.outcome \notin SoundOutcomes \cup Verified
             /\ phase' = "done"
GoesOn == UNCHANGED verdict /\ phase' \in CheckPhases

LEMMA CheckFields ==
  ASSUME IInv, Contracts
  PROVE  /\ entries' \in Seq(ToSet(entries')) /\ AtRest(walk')
         /\ Concluded \/ GoesOn
<1>0. /\ NotOfDoctor /\ entries \in Seq(ToSet(entries)) /\ DOMAIN verdict = VerdictFields
      /\ AtRest(walk)
  BY ChecksWhen DEF IInv, TypeOK, PhaseInv, AtRest, NotOfDoctor, Early
<1>1. \A e : Add(e) /\ UNCHANGED verdict =>
        /\ entries' \in Seq(ToSet(entries')) /\ AtRest(walk') /\ GoesOn
  BY <1>0, AddFields DEF GoesOn, CheckPhases
<1>2. \A name : name \notin SoundOutcomes \cup Verified /\ Report(Outcome(name)) => Concluded
  BY <1>0, ReportFields DEF Concluded
<1>3. CASE BeginCheck
  <2>1. UNCHANGED entries
    BY <1>3 DEF BeginCheck
  <2>2. \/ \E todo : /\ walk' = [walk EXCEPT !.todo = todo] /\ phase' = "subjects"
                     /\ UNCHANGED verdict
        \/ Report(Outcome("ERROR")) /\ UNCHANGED walk
    BY <1>3, Zenon DEF BeginCheck
  <2>3. CASE \E todo : /\ walk' = [walk EXCEPT !.todo = todo] /\ phase' = "subjects"
                       /\ UNCHANGED verdict
    <3>1. PICK todo : walk' = [walk EXCEPT !.todo = todo]
      BY <2>3
    <3>2. AtRest([walk EXCEPT !["todo"] = todo])
      BY <1>0, StillRests
    <3> QED  BY <1>0, <2>1, <2>3, <3>1, <3>2 DEF GoesOn, CheckPhases
  <2>4. CASE Report(Outcome("ERROR")) /\ UNCHANGED walk
    BY <1>0, <1>2, <2>1, <2>4, CheckOutcomes
  <2> QED  BY <2>2, <2>3, <2>4
<1>4. CASE NextSubject
  <2>1. UNCHANGED verdict
    BY <1>4 DEF NextSubject
  <2>2. \/ phase' = "story" /\ UNCHANGED <<walk, entries>>
        \/ Add(ErrorEntry(Head(walk.todo), "missing"))
    BY <1>4, Zenon DEF NextSubject
  <2> QED  BY <1>0, <1>1, <2>1, <2>2 DEF GoesOn, CheckPhases
<1>5. ASSUME NEW field \in {"story", "acceptance"},
             NEW next \in {"acceptance", "decisions", "record"},
             ReadRequired(field, next), UNCHANGED verdict
      PROVE  /\ entries' \in Seq(ToSet(entries')) /\ AtRest(walk')
             /\ Concluded \/ GoesOn
  <2>1. \/ \E doc : walk' = [walk EXCEPT ![field] = doc] /\ phase' = next /\ UNCHANGED entries
        \/ \E e : Add(e)
    BY <1>5, Zenon DEF ReadRequired
  <2>2. CASE \E doc : walk' = [walk EXCEPT ![field] = doc] /\ phase' = next /\ UNCHANGED entries
    <3>0. PICK doc : walk' = [walk EXCEPT ![field] = doc]
      BY <2>2
    <3>2. AtRest([walk EXCEPT ![field] = doc])
      BY <1>0, StillRests
    <3>1. AtRest(walk')
      BY <3>0, <3>2
    <3> QED  BY <1>0, <1>5, <2>2, <3>1 DEF GoesOn, CheckPhases
  <2>3. CASE \E e : Add(e)
    BY <1>1, <1>5, <2>3
  <2> QED  BY <2>1, <2>2, <2>3
<1>6. CASE ReadStoryFile
  BY <1>5, <1>6 DEF ReadStoryFile
<1>7. CASE ReadAcceptanceFile
  BY <1>5, <1>7 DEF ReadAcceptanceFile
<1>8. CASE ReadDecisions
  <2>1. UNCHANGED verdict /\ phase = "decisions"
    BY <1>8 DEF ReadDecisions, Checking
  <2>2. \/ \E e : Add(e)
        \/ \E decided : /\ walk' = [walk EXCEPT !.decided = decided]
                        /\ UNCHANGED <<entries, phase>>
    BY <1>8, Zenon DEF ReadDecisions
  <2>3. CASE \E e : Add(e)
    BY <1>1, <2>1, <2>3
  <2>4. CASE \E decided : /\ walk' = [walk EXCEPT !.decided = decided]
                          /\ UNCHANGED <<entries, phase>>
    <3>0. PICK decided : walk' = [walk EXCEPT !.decided = decided]
      BY <2>4
    <3>2. AtRest([walk EXCEPT !["decided"] = decided])
      BY <1>0, StillRests
    <3>1. AtRest(walk')
      BY <3>0, <3>2
    <3> QED  BY <1>0, <2>1, <2>4, <3>1 DEF GoesOn, CheckPhases
  <2> QED  BY <2>2, <2>3, <2>4
<1>9. CASE ReadRecord
  <2>1. UNCHANGED verdict
    BY <1>9 DEF ReadRecord
  <2>2. \E e : Add(e)
    <3> DEFINE file == SourceOf("record")
               Of(kind, doc) == Entry_(kind, Head(walk.todo), "", walk.story, walk.acceptance,
                                       doc, NoDecisions)
               last == IF Readable(file) THEN file.doc ELSE 0
    <3>1. (CASE ~command.record -> Add(Of("plan", 0))
             [] command.record /\ file.kind = "symlink" -> Add(Of("record-error", 0))
             [] command.record /\ file.kind # "symlink" -> Add(Of("record", last)))
      BY <1>9 DEF ReadRecord
    <3>2. Add(Of("plan", 0)) \/ Add(Of("record-error", 0)) \/ Add(Of("record", last))
      <4> HIDE DEF file, last, Of
      <4> QED  BY <3>1
    <3> QED  BY <3>2
  <2> QED  BY <1>1, <2>1, <2>2
<1>10. CASE EndCheck
  <2>1. UNCHANGED <<walk, entries>>
    BY <1>10 DEF EndCheck
  <2> DEFINE name == CASE command.name = "story" -> StoryOutcome(entries, command.ready)
                       [] command.name = "verification" /\ command.record ->
                            RecordOutcome(entries)
                       [] OTHER -> PlanOutcome(entries)
  <2>2. Report(Outcome(name))
    BY <1>10 DEF EndCheck
  <2>3. \/ name = StoryOutcome(entries, command.ready)
        \/ name = RecordOutcome(entries) \/ name = PlanOutcome(entries)
    OBVIOUS
  <2> HIDE DEF name
  <2> QED  BY <1>0, <1>2, <2>1, <2>2, <2>3, CheckOutcomes
<1>11. CASE CheckHandoff
  <2>1. UNCHANGED <<walk, entries>>
    BY <1>11 DEF CheckHandoff
  <2>2. \E file : Report(Outcome(HandoffOutcome(file)))
    BY <1>11, Zenon DEF CheckHandoff
  <2> QED  BY <1>0, <1>2, <2>1, <2>2, CheckOutcomes
<1> QED  BY <1>3, <1>4, <1>6, <1>7, <1>8, <1>9, <1>10, <1>11 DEF Contracts

LEMMA ChecksKeep ==
  ASSUME IInv, Contracts
  PROVE  IInv'
<1>0. /\ TypeOK /\ PhaseInv /\ OldInv /\ LabelInv /\ SpecsInv /\ StoriesInv /\ NamesInv /\ CurrentInv
      /\ WalkInv /\ JudgedInv /\ HandoffInv /\ ChildInv /\ VerdictInv
  BY DEF IInv
<1>1. NotOfDoctor /\ UNCHANGED <<command, disk, swaps, snapshot, handoff, child, reads>>
  BY ChecksWhen DEF OfCheck
<1>2. /\ walk.pc = "idle" /\ handoff = NoHandoff /\ child = NoChild
      /\ verdict.outcome = "none"
  BY <1>0, <1>1 DEF PhaseInv, NotOfDoctor, Early
<1>3. /\ entries' \in Seq(ToSet(entries')) /\ AtRest(walk')
      /\ Concluded \/ GoesOn
  BY CheckFields
<1>4. DOMAIN verdict' = VerdictFields
  BY <1>0, <1>3 DEF Concluded, GoesOn, TypeOK
<1>5. TypeOK' /\ ChildInv' /\ HandoffInv'
  BY <1>0, <1>1, <1>3, <1>4 DEF TypeOK, ChildInv, HandoffInv, AtRest
<1>6. PhaseInv'
  BY <1>1, <1>2, <1>3, NoChildFacts DEF PhaseInv, Early, CheckPhases, Concluded, GoesOn, AtRest
<1>7. OldInv' /\ LabelInv'
  BY <1>0, <1>1 DEF OldInv, LabelInv, Specs, Stories, Decisions, DirOf
<1>8. SpecsInv'
  BY <1>3 DEF SpecsInv, CheckPhases, Concluded, GoesOn
<1>9. StoriesInv'
  BY <1>0, <1>1, <1>2, <1>3 DEF StoriesInv, AtRest, Walking, Reading
<1>10. NamesInv' /\ CurrentInv' /\ WalkInv' /\ JudgedInv'
  BY <1>3 DEF NamesInv, CurrentInv, WalkInv, JudgedInv, AtRest, Walking, Reading
<1>11. VerdictInv'
  <2>1. ~child'.settled
    BY <1>1, <1>2, NoChildFacts
  <2>2. CASE Concluded
    BY <2>1, <2>2, NothingClaimed DEF Concluded
  <2>3. CASE GoesOn
    BY <1>2, <2>3, NothingConcluded DEF GoesOn
  <2> QED  BY <1>3, <2>2, <2>3
<1> QED  BY <1>5, <1>6, <1>7, <1>8, <1>9, <1>10, <1>11 DEF IInv

-----------------------------------------------------------------------------
(* The invariant                                                            *)

\* All that a command finds was there before anything was exchanged.
LEMMA FoundIsOld ==
  ASSUME NEW tree, NEW left, FoundInodes(tree) \subseteq 0..HighestFound
  PROVE  /\ Old(left, tree.specs.ino) /\ Old(left, tree.specs.stories.ino)
         /\ Old(left, tree.specs.decisions.ino)
         /\ \A name \in ToSet(Names) : Old(left, tree.specs.stories.dirs[name].ino)
<1>1. \A ino \in 0..HighestFound : Old(left, ino)
  BY DEF Old, HighestFound
<1> QED  BY <1>1 DEF FoundInodes

LEMMA InitialWalk ==
  /\ DOMAIN NoWalk = WalkFields /\ NoWalk.pc = "idle" /\ NoWalk.result = "not-checked"
  /\ NoWalk.listed \subseteq ToSet(Names)
  BY NoWalkRests DEF AtRest

LEMMA InitialRecords ==
  /\ DOMAIN NoHandoff = HandoffFields /\ NoHandoff.pc = "idle"
  /\ DOMAIN NoSnapshot = SnapshotFields /\ NoSnapshot.held = NotHeld
  /\ DOMAIN NoVerdict = VerdictFields /\ NoVerdict.outcome = "none"
<1>1. DOMAIN NoHandoff = HandoffFields /\ NoHandoff.pc = "idle"
  BY DEF NoHandoff, HandoffFields
<1>2. DOMAIN NoSnapshot = SnapshotFields /\ NoSnapshot.held = NotHeld
  BY DEF NoSnapshot, SnapshotFields
<1>3. DOMAIN NoVerdict = VerdictFields /\ NoVerdict.outcome = "none"
  BY DEF NoVerdict, VerdictFields
<1> QED  BY <1>1, <1>2, <1>3

LEMMA InitInvariant ==
  ASSUME Init
  PROVE  IInv
<1>1. PICK case \in Cases : disk = case.disk /\ swaps = case.swaps
  BY DEF Init
<1>2. /\ phase = "start" /\ snapshot = NoSnapshot /\ walk = NoWalk /\ handoff = NoHandoff
      /\ child = NoChild /\ entries = <<>> /\ verdict = NoVerdict /\ reads = {}
  BY DEF Init
<1>3. disk \in DiskType /\ swaps \in Nat /\ FoundInodes(disk) \subseteq 0..HighestFound
  BY <1>1, CasesAssumption
<1>4. entries \in Seq(ToSet(entries))
  BY <1>2
<1>5. /\ walk.pc = "idle" /\ walk.result = "not-checked" /\ verdict.outcome = "none"
      /\ snapshot.held = NotHeld /\ handoff.pc = "idle"
  BY <1>2, InitialWalk, InitialRecords
<1>6. TypeOK
  BY <1>2, <1>3, <1>4, InitialWalk, InitialRecords, NoChildFacts DEF TypeOK
<1>7. PhaseInv
  BY <1>2, <1>5, NoChildFacts DEF PhaseInv, Early, CheckPhases
<1>8. OldInv
  BY <1>3, FoundIsOld DEF OldInv, Specs, Stories, Decisions, DirOf
<1>9. LabelInv /\ SpecsInv /\ StoriesInv
  BY <1>2, <1>5 DEF LabelInv, SpecsInv, StoriesInv, Walking, Reading
<1>10. NamesInv /\ CurrentInv /\ WalkInv /\ JudgedInv /\ HandoffInv
  BY <1>5 DEF NamesInv, CurrentInv, WalkInv, JudgedInv, HandoffInv, Walking, Reading
<1>11. \A s \in Streams : Balanced(child, s)
  <2> SUFFICES ASSUME NEW s \in Streams
               PROVE  Balanced(child, s)
    OBVIOUS
  <2>1. /\ child.left[s] = 0 /\ child.written[s] = 0 /\ child.piped[s] = 0
        /\ child.held[s] = 0 /\ child.forwarded[s] = 0
    BY <1>2, NoChildFacts
  <2> QED  BY <2>1 DEF Balanced
<1>12. ChildInv
  BY <1>2, <1>11, NoChildFacts DEF ChildInv
<1>13. VerdictInv
  BY <1>5 DEF VerdictInv, DoctorReadsOneTree, CleanMeansContracts, OutcomeIsTheChilds
<1> QED  BY <1>6, <1>7, <1>8, <1>9, <1>10, <1>12, <1>13 DEF IInv

LEMMA DoctorKeeps ==
  ASSUME IInv, Doctor
  PROVE  IInv'
<1>1. CASE ResolveRoot
  BY <1>1, ResolveRootKeeps
<1>2. CASE ObserveTop \/ HoldSpecs \/ ObserveUnder
  BY <1>2, ObservingKeeps
<1>3. CASE JudgeStructure
  BY <1>3, JudgeStructureKeeps
<1>4. CASE HoldStories
  BY <1>4, HoldStoriesKeeps
<1>5. CASE ListStories
  BY <1>5, ListStoriesKeeps
<1>6. CASE LookAtStory
  BY <1>6, LookAtStoryKeeps
<1>7. CASE HoldStory
  BY <1>7, HoldStoryKeeps
<1>8. CASE ReadStorySource
  BY <1>8, ReadStorySourceKeeps
<1>9. CASE WantDecisions
  BY <1>9, WantDecisionsKeeps
<1>10. CASE HoldDecisions
  BY <1>10, HoldDecisionsKeeps
<1>11. CASE ReadOneDecision
  BY <1>11, ReadOneDecisionKeeps
<1>12. CASE DecisionsRemain
  BY <1>12, DecisionsRemainKeeps
<1>13. CASE SettleStory
  BY <1>13, SettleStoryKeeps
<1>14. CASE SettleStories
  BY <1>14, SettleStoriesKeeps
<1>15. CASE HoldForHandoff \/ ReadHandoff \/ SettleHandoff
  BY <1>15, HandoffKeeps
<1>16. CASE Settle
  BY <1>16, SettleKeeps
<1> QED
  BY <1>1, <1>2, <1>3, <1>4, <1>5, <1>6, <1>7, <1>8, <1>9, <1>10, <1>11, <1>12, <1>13, <1>14,
     <1>15, <1>16 DEF Doctor

LEMMA StutterKeeps ==
  ASSUME IInv, UNCHANGED vars
  PROVE  IInv'
<1>0. /\ TypeOK /\ PhaseInv /\ OldInv /\ LabelInv /\ SpecsInv /\ StoriesInv /\ NamesInv /\ CurrentInv
      /\ WalkInv /\ JudgedInv /\ HandoffInv /\ ChildInv /\ VerdictInv
  BY DEF IInv
<1>1. UNCHANGED <<command, disk, swaps, phase, snapshot, walk, entries, handoff, child, verdict,
                  reads>>
  BY DEF vars
<1>2. TypeOK' /\ PhaseInv' /\ ChildInv' /\ HandoffInv'
  BY <1>0, <1>1 DEF TypeOK, PhaseInv, ChildInv, HandoffInv
<1>3. OldInv' /\ LabelInv' /\ StoriesInv' /\ NamesInv' /\ CurrentInv' /\ WalkInv' /\ JudgedInv'
  BY <1>0, <1>1, WalkFrame
<1>4. SpecsInv'
  BY <1>0, <1>1 DEF SpecsInv, Specs
<1>5. VerdictInv'
  BY <1>0, <1>1 DEF VerdictInv, DoctorReadsOneTree, CleanMeansContracts, OutcomeIsTheChilds, DirOf
<1> QED  BY <1>2, <1>3, <1>4, <1>5 DEF IInv

LEMMA InvariantStep ==
  ASSUME IInv, [Next]_vars
  PROVE  IInv'
<1>1. CASE Swap
  BY <1>1, SwapKeeps
<1>2. CASE Doctor
  BY <1>2, DoctorKeeps
<1>3. CASE MakeVerify
  BY <1>3, ChildKeeps DEF MakeVerify, ChildActions
<1>4. CASE Contracts
  BY <1>4, ChecksKeep
<1>5. CASE Done
  BY <1>5, StutterKeeps DEF Done
<1>6. CASE UNCHANGED vars
  BY <1>6, StutterKeeps
<1> QED  BY <1>1, <1>2, <1>3, <1>4, <1>5, <1>6 DEF Next

\* The inductive invariant holds of every execution.
THEOREM ChecksInvariance == Spec => []IInv
<1>1. Init => IInv
  BY InitInvariant
<1>2. IInv /\ [Next]_vars => IInv'
  BY InvariantStep
<1> QED  BY <1>1, <1>2, PTL DEF Spec

\* Whatever is exchanged below specs/ and whenever, what Doctor reports as sound or
\* as drifted was read from one tree (doctor.ts:169-203, 245-333, 422).
THEOREM DoctorReadsOneTreeAlways == Spec => []DoctorReadsOneTree
<1>1. IInv => DoctorReadsOneTree
  BY DEF IInv, VerdictInv
<1> QED  BY <1>1, ChecksInvariance, PTL

\* STRUCTURE_OK means that every Story directory that stayed in place was judged and
\* holds its contract, and so does the handoff, however many Stories there are.
THEOREM CleanMeansContractsAlways == Spec => []CleanMeansContracts
<1>1. IInv => CleanMeansContracts
  BY DEF IInv, VerdictInv
<1> QED  BY <1>1, ChecksInvariance, PTL

\* However much the child writes and whatever the pipes hold, the outcome of make
\* verify is the child's own (canonical-verification.ts:37-93, 161-183).
THEOREM OutcomeIsTheChildsAlways == Spec => []OutcomeIsTheChilds
<1>1. IInv => OutcomeIsTheChilds
  BY DEF IInv, VerdictInv
<1> QED  BY <1>1, ChecksInvariance, PTL

-----------------------------------------------------------------------------
(* What the contracts and records of the entries say.                       *)

\* The documents of an entry are documents.
LEMMA DocsAre ==
    ASSUME NEW entry, Documented(entry), entry.kind # "error"
    PROVE  /\ StoryDocs[entry.story] \in DocType
           /\ AcceptanceDocs[entry.acceptance] \in DocType
           /\ entry.record > 0 => RecordDocs[entry.record] \in DocType
<1>1. /\ entry.story \in 1..Len(StoryDocs) /\ entry.acceptance \in 1..Len(AcceptanceDocs)
      /\ entry.record \in 0..Len(RecordDocs)
  BY DEF Documented
<1>2. StoryDocs \in Seq(DocType) /\ AcceptanceDocs \in Seq(DocType) /\ RecordDocs \in Seq(DocType)
  BY DocsAssumption
<1>3. StoryDocs[entry.story] \in DocType /\ AcceptanceDocs[entry.acceptance] \in DocType
  BY <1>1, <1>2
<1>4. entry.record > 0 => RecordDocs[entry.record] \in DocType
  <2> SUFFICES ASSUME entry.record > 0 PROVE RecordDocs[entry.record] \in DocType
    OBVIOUS
  <2>1. entry.record \in 1..Len(RecordDocs)
    BY <1>1
  <2> QED BY <1>2, <2>1
<1> QED BY <1>3, <1>4

\* The decisions its Story refers to were resolved.
LEMMA EntrySettled ==
    ASSUME NEW entry, Documented(entry), entry.kind = "story"
    PROVE  Settled(StoryDocs[entry.story], Resolved(entry.decided))
<1>1. Usable(entry.decided)
  BY DEF Documented
<1>2. Decided(entry.story, entry.decided)
  BY DEF Documented
<1>3. \A id \in DOMAIN entry.decided : Resolved(entry.decided)[id].kind = entry.decided[id].kind
  BY DEF Resolved
<1>4. \A id \in DOMAIN entry.decided :
         entry.decided[id].kind \in {"missing", "ambiguous", "unreadable", "retired", "found"}
  BY <1>1 DEF Usable
<1>5. ToSet(ReferencedWords(Section(StoryDocs[entry.story], "## Architecture").entries))
        \subseteq DOMAIN entry.decided
  BY <1>2 DEF Decided, ReadStoryDecisions
<1> QED BY <1>3, <1>4, <1>5 DEF Settled

\* Its default contract is the same with readiness and without.
LEMMA EntryStructure ==
    ASSUME NEW entry, Documented(entry), entry.kind = "story"
    PROVE  /\ StructureOf(StoryDiagnostics(entry, TRUE)) = StoryDiagnostics(entry, FALSE)
           /\ ContractHolds(entry) =>
                 Governance(StoryDocs[entry.story], Resolved(entry.decided)) = <<>>
<1>1. StoryDocs[entry.story] \in DocType /\ AcceptanceDocs[entry.acceptance] \in DocType
  BY DocsAre
<1>2. Settled(StoryDocs[entry.story], Resolved(entry.decided))
  BY EntrySettled
<1> DEFINE story == StoryDocs[entry.story]
           acceptance == AcceptanceDocs[entry.acceptance]
           decision == Resolved(entry.decided)
           full == EvaluateStory(entry.name, story, acceptance, decision, TRUE)
           plain == EvaluateStory(entry.name, story, acceptance, decision, FALSE)
<1>3. StoryDiagnostics(entry, TRUE) = full /\ StoryDiagnostics(entry, FALSE) = plain
  BY DEF StoryDiagnostics
<1>4. /\ Structured(full, plain) /\ Structured(plain, plain)
      /\ plain = <<>> => Governance(story, decision) = <<>>
  <2> HIDE DEF story, acceptance, decision
  <2> QED BY <1>1, <1>2, StoryStructure DEF story, acceptance, decision
<1> HIDE DEF full, plain
<1> QED BY <1>3, <1>4 DEF Structured, ContractHolds

\* That is what ReadinessKeepsStructure says of every entry.
LEMMA StructureKept ==
    ASSUME EntriesInv
    PROVE  ReadinessKeepsStructure
<1> SUFFICES ASSUME NEW i \in 1..Len(entries), entries[i].kind = "story"
             PROVE  StructureOf(StoryDiagnostics(entries[i], TRUE))
                      = StoryDiagnostics(entries[i], FALSE)
  BY DEF ReadinessKeepsStructure
<1>1. Documented(entries[i])
  BY DEF EntriesInv
<1> QED BY <1>1, EntryStructure

\* That is what ContractImpliesPlan says of every entry.
LEMMA ContractHasPlan ==
    ASSUME EntriesInv
    PROVE  ContractImpliesPlan
<1> SUFFICES ASSUME NEW i \in 1..Len(entries), entries[i].kind = "story",
                    ContractHolds(entries[i])
             PROVE  LET story == StoryDocs[entries[i].story]
                        plan == ResolvePlan(story)
                    IN  /\ PlanIssues(story) = <<>>
                        /\ plan.taskMode = ReadTaskMode(story)
                        /\ plan.authority = ReadAuthority(story, ReadTaskMode(story))
                        /\ plan.riskLevel = ReadRiskLevel(story)
                        /\ plan.architectureImpact
                             = ReadLevel(Values(Section(story, "## Architecture").entries, "Impact"))
  BY DEF ContractImpliesPlan
<1> DEFINE story == StoryDocs[entries[i].story]
           decision == Resolved(entries[i].decided)
<1>1. Documented(entries[i])
  BY DEF EntriesInv
<1>2. story \in DocType
  BY <1>1, DocsAre
<1>3. Governance(story, decision) = <<>>
  BY <1>1, EntryStructure
<1>4. Settled(story, decision)
  BY <1>1, EntrySettled
<1> HIDE DEF story, decision
<1>5. /\ TaskModeIssues(story) = <<>>
      /\ ReadAuthorityIssues(story, ReadTaskMode(story)) = <<>>
      /\ ReadArchitectureIssues(story) = <<>>
      /\ ReadRiskIssues(story) = <<>>
  BY <1>2, <1>3, <1>4, GovernanceSeq
<1>6. PlanIssues(story) = <<>>
  BY <1>2, <1>5, PlanClear
<1> QED BY <1>2, <1>6, PlanIsRead DEF story

\* So is every entry, if the outcome is a pass.
LEMMA RecordPasses ==
    ASSUME EntriesInv, RecordOutcome(entries) = "VERIFICATION_PASS"
    PROVE  /\ entries # <<>>
           /\ \A i \in 1..Len(entries) :
                /\ StoryDocs[entries[i].story] \in DocType
                /\ RecordDocs[entries[i].record] \in DocType
                /\ Proven(StoryDocs[entries[i].story], AcceptanceDocs[entries[i].acceptance],
                          RecordDocs[entries[i].record])
<1> DEFINE results == {ResultOf(entries[i]) : i \in 1..Len(entries)}
           bad == \E r \in results : r.planIssues # <<>> \/ r.incomplete
           fails == \E r \in results : r.status = "fail"
           partial == \E r \in results : r.status = "partial"
<1>1. RecordOutcome(entries) =
        IF HasError(entries) \/ entries = <<>> THEN "ERROR"
        ELSE IF bad THEN "VERIFICATION_RESULT_INCOMPLETE"
        ELSE IF fails THEN "VERIFICATION_FAIL"
        ELSE IF partial THEN "VERIFICATION_PARTIAL"
        ELSE "VERIFICATION_PASS"
  BY DEF RecordOutcome, WorstOf
<1>2. ~HasError(entries) /\ entries # <<>> /\ ~bad /\ ~fails /\ ~partial
  <2> HIDE DEF bad, fails, partial
  <2> QED BY <1>1
<1>3. ASSUME NEW i \in 1..Len(entries)
      PROVE  /\ StoryDocs[entries[i].story] \in DocType
             /\ RecordDocs[entries[i].record] \in DocType
             /\ Proven(StoryDocs[entries[i].story], AcceptanceDocs[entries[i].acceptance],
                       RecordDocs[entries[i].record])
  <2> DEFINE e == entries[i]
             r == ResultOf(e)
  <2>1. e.kind # "error" /\ Documented(e)
    BY <1>2 DEF HasError, EntriesInv
  <2>2. r.planIssues = <<>> /\ ~r.incomplete /\ r.status \notin {"fail", "partial"}
    BY <1>2
  <2> HIDE DEF e, r
  <2> DEFINE story == StoryDocs[e.story]
             acceptance == AcceptanceDocs[e.acceptance]
  <2>3. story \in DocType /\ acceptance \in DocType
          /\ (e.record > 0 => RecordDocs[e.record] \in DocType)
    BY <2>1, DocsAre
  <2>4. r = EvaluateResult(story, acceptance, e.record > 0,
                   IF e.record > 0 THEN RecordDocs[e.record] ELSE <<>>)
    BY DEF ResultOf, r
  <2>5. e.record > 0
    <3> SUFFICES ASSUME ~(e.record > 0) PROVE FALSE
      OBVIOUS
    <3>1. (e.record > 0) = FALSE
      OBVIOUS
    <3>2. r = EvaluateResult(story, acceptance, FALSE, <<>>)
      BY <2>4, <3>1
    <3> HIDE DEF story, acceptance
    <3>3. r = Stopped(ResolvePlan(story), PlanIssues(story))
      BY <3>2 DEF EvaluateResult
    <3> QED BY <2>2, <3>3 DEF Stopped
  <2>6. r = EvaluateResult(story, acceptance, TRUE, RecordDocs[e.record])
    <3>1. (e.record > 0) = TRUE
      BY <2>5
    <3> QED BY <2>4, <3>1
  <2>7. RecordDocs[e.record] \in DocType
    BY <2>3, <2>5
  <2>8. Proven(story, acceptance, RecordDocs[e.record])
    <3> HIDE DEF story, acceptance
    <3> QED BY <2>2, <2>3, <2>6, <2>7, ResultPasses
  <2> QED BY <2>3, <2>7, <2>8 DEF e
<1> QED BY <1>2, <1>3

\* That is what PassIsProven says.
LEMMA PassHasProof ==
    ASSUME EntriesInv, PassInv
    PROVE  PassIsProven
<1> SUFFICES ASSUME verdict.outcome = "VERIFICATION_PASS" PROVE PassIsProven
  BY DEF PassIsProven
<1>1. entries # <<>> /\ (command.subjects # <<>> => Len(entries) = Len(command.subjects))
  BY RecordPasses DEF PassInv
<1>2. ASSUME NEW i \in 1..Len(entries)
      PROVE  LET story == StoryDocs[entries[i].story]
                 record == RecordDocs[entries[i].record]
                 checks == ToSet(Section(record, "## Checks").entries)
                 evidence == ToSet(Section(record, "## Evidence").entries)
                 Passing(lines, name) == \E l \in lines : l.h = name /\ l.v = Plain("pass")
                                                           /\ HasDetail(l)
                 level == Values(Section(story, "## Risk").entries, "Level")
                 impact == Values(Section(story, "## Architecture").entries, "Impact")
             IN  /\ PlanIssues(story) = <<>>
                 /\ \A layer \in {"lint", "static", "unit"} : Passing(checks, layer)
                 /\ level \in {<<Plain("medium")>>, <<Plain("high")>>} =>
                        Passing(checks, "integration")
                 /\ level = <<Plain("high")>> =>
                        Passing(checks, "contract") /\ Passing(checks, "e2e")
                 /\ impact \in {<<Plain("medium")>>, <<Plain("high")>>} =>
                        Passing(checks, "architecture")
                 /\ \A box \in ToSet(ContentLines(AcceptanceDocs[entries[i].acceptance])) :
                        box.t = "box" /\ box.h \in AcceptanceIds => Passing(evidence, box.h)
                 /\ ~\E l \in checks \cup evidence : l.v = Plain("fail")
                 /\ \A l \in ToSet(Section(record, "## Authority Used").entries) :
                        \/ Says(story, "## Authority", l.v.s[1], Plain("yes"))
                        \/ l.v.s[1] \in {"plan", "modify"}
                             /\ ~Says(story, "## Authority", l.v.s[1], Plain("no"))
  <2> DEFINE story == StoryDocs[entries[i].story]
             acceptance == AcceptanceDocs[entries[i].acceptance]
             record == RecordDocs[entries[i].record]
             cs == Section(record, "## Checks").entries
             ev == Section(record, "## Evidence").entries
             used == Section(record, "## Authority Used").entries
             level == Values(Section(story, "## Risk").entries, "Level")
             impact == Values(Section(story, "## Architecture").entries, "Impact")
             need == Requires(story)
  <2>1. story \in DocType /\ record \in DocType /\ Proven(story, acceptance, record)
    BY RecordPasses DEF PassInv
  <2>2. /\ {"lint", "static", "unit"} \subseteq need
        /\ level \in {<<Plain("medium")>>, <<Plain("high")>>} => "integration" \in need
        /\ level = <<Plain("high")>> => {"contract", "e2e"} \subseteq need
        /\ impact \in {<<Plain("medium")>>, <<Plain("high")>>} => "architecture" \in need
    <3> HIDE DEF story
    <3> QED BY RequiredAre
  <2> HIDE DEF story, acceptance, record, need
  <2>3. /\ PlanIssues(story) = <<>>
        /\ \A layer \in need : PassingLine(cs, layer)
        /\ \A box \in ToSet(ContentLines(acceptance)) :
              box.t = "box" /\ box.h \in AcceptanceIds => PassingLine(ev, box.h)
        /\ \A l \in ToSet(cs) \cup ToSet(ev) : l.v # Plain("fail")
        /\ \A l \in ToSet(used) :
              /\ l.v.s[1] \in Operations
              /\ PlanAuthority(story, PlanTaskMode(story))[l.v.s[1]]
    BY <2>1 DEF Proven, need
  <2>4. \A l \in ToSet(used) :
              \/ Says(story, "## Authority", l.v.s[1], Plain("yes"))
              \/ l.v.s[1] \in {"plan", "modify"}
                   /\ ~Says(story, "## Authority", l.v.s[1], Plain("no"))
    <3> TAKE l \in ToSet(used)
    <3> DEFINE op == l.v.s[1]
               mode == PlanTaskMode(story)
    <3>1. op \in Operations /\ PlanAuthority(story, mode)[op]
      BY <2>3
    <3> HIDE DEF op, mode
    <3>2. \/ Says(story, "## Authority", op, Plain("yes"))
          \/ op \in {"plan", "modify"} /\ ~Says(story, "## Authority", op, Plain("no"))
      BY <2>1, <2>3, <3>1, GrantedIsSaid
    <3> QED BY <3>2 DEF op
  <2> HIDE DEF cs, ev, used, level, impact
  <2> DEFINE Passing(lines, name) == \E l \in lines : l.h = name /\ l.v = Plain("pass")
                                                      /\ HasDetail(l)
  <2>5. /\ \A layer \in {"lint", "static", "unit"} : Passing(ToSet(cs), layer)
        /\ level \in {<<Plain("medium")>>, <<Plain("high")>>} => Passing(ToSet(cs), "integration")
        /\ level = <<Plain("high")>> =>
              Passing(ToSet(cs), "contract") /\ Passing(ToSet(cs), "e2e")
        /\ impact \in {<<Plain("medium")>>, <<Plain("high")>>} => Passing(ToSet(cs), "architecture")
    <3>1. \A name \in need : Passing(ToSet(cs), name)
      BY <2>3 DEF PassingLine
    <3> HIDE DEF Passing
    <3> QED BY <2>2, <3>1
  <2>6. \A box \in ToSet(ContentLines(acceptance)) :
              box.t = "box" /\ box.h \in AcceptanceIds => Passing(ToSet(ev), box.h)
    BY <2>3 DEF PassingLine
  <2>7. ~\E l \in ToSet(cs) \cup ToSet(ev) : l.v = Plain("fail")
    BY <2>3
  <2> HIDE DEF Passing
  <2>8. PlanIssues(story) = <<>>
    BY <2>3
  <2> QED BY ONLY <2>4, <2>5, <2>6, <2>7, <2>8
          DEF story, acceptance, record, cs, ev, used, level, impact, Passing
<1> QED BY <1>1, <1>2 DEF PassIsProven

-----------------------------------------------------------------------------
(* The documents that were read.                                            *)

\* What is found out about a decision can be used.
Use(found) ==
    /\ found.kind \in {"missing", "ambiguous", "unreadable", "retired", "found"}
    /\ found.kind = "found" => found.doc \in 1..Len(DecisionDocs)

\* Whatever a decision's candidates are, what is found out can be used.
LEMMA DecisionUsable ==
    ASSUME NEW decisions, NEW id, NEW retired,
           decisions.kind \in {"directory", "symlink"} /\ id \in DOMAIN decisions.records =>
               decisions.records[id] \in Seq(FileType(DecisionDocs))
    PROVE  Use(ReadDecision(decisions, id, retired))
<1> DEFINE files == IF decisions.kind \in {"directory", "symlink"} /\ id \in DOMAIN decisions.records
                      THEN decisions.records[id] ELSE <<>>
           candidates == Where(files, LAMBDA f : f.kind \in {"file", "locked"})
           chosen == {i \in 1..Len(files) : files[i].kind \in {"file", "locked"}}
<1>1. files \in Seq(FileType(DecisionDocs))
  OBVIOUS
<1>2. candidates = Picked(files, chosen)
  BY DEF Where
<1>3. ReadDecision(decisions, id, retired) =
        IF retired THEN Decision("retired", 0)
        ELSE IF candidates = <<>> THEN Decision("missing", 0)
        ELSE IF Len(candidates) > 1 THEN Decision("ambiguous", 0)
        ELSE IF Readable(candidates[1]) THEN Decision("found", candidates[1].doc)
        ELSE Decision("unreadable", 0)
  BY DEF ReadDecision
<1> HIDE DEF files, candidates, chosen
<1>4. candidates \in Seq(FileType(DecisionDocs))
  BY <1>1, <1>2, PickedIs
<1>5. ASSUME candidates # <<>>, Readable(candidates[1])
      PROVE  candidates[1].doc \in 1..Len(DecisionDocs)
  <2>1. candidates[1] \in FileType(DecisionDocs)
    BY <1>4, <1>5
  <2>2. candidates[1].doc \in 0..Len(DecisionDocs) /\ candidates[1].doc > 0
    BY <2>1, <1>5 DEF FileType, Readable
  <2>3. Len(DecisionDocs) \in Nat
    BY DocsAssumption
  <2> QED BY <2>2, <2>3
<1>6. \A kind, doc : Decision(kind, doc).kind = kind /\ Decision(kind, doc).doc = doc
  BY DEF Decision
<1> QED BY <1>3, <1>5, <1>6 DEF Use

\* One more decision is known.
LEMMA OneMoreDecision ==
    ASSUME NEW decided, Usable(decided), NEW id, NEW found, Use(found)
    PROVE  Usable(Knowing(decided, id, found))
<1> DEFINE more == Knowing(decided, id, found)
<1>1. /\ DOMAIN more = {id} \cup DOMAIN decided
      /\ \A x \in DOMAIN more : more[x] = IF x = id THEN found ELSE decided[x]
  BY DEF Knowing
<1> HIDE DEF more
<1>2. \A x \in DOMAIN more : Use(more[x])
  BY <1>1 DEF Usable, Use
<1>3. Usable(more)
  BY <1>2 DEF Usable, Use
<1> QED BY <1>3 DEF more

\* The tree's documents are those of the tables.
LEMMA TreeTypes ==
    ASSUME TypeOK
    PROVE  /\ \A name \in ToSet(Names) : DirOf(name) \in DirType
           /\ \A id : id \in DOMAIN Decisions.records =>
                Decisions.records[id] \in Seq(FileType(DecisionDocs))
<1>1. Specs \in SpecsType
  BY DEF TypeOK, DiskType, Specs
<1>2. Specs.stories \in StoriesType /\ Specs.decisions \in DecisionsType
  BY <1>1 DEF SpecsType
<1>3. \A name \in ToSet(Names) : Specs.stories.dirs[name] \in DirType
  BY <1>2 DEF StoriesType
<1>4. Specs.decisions.records \in [DecisionIds -> Seq(FileType(DecisionDocs))]
  BY <1>2 DEF DecisionsType
<1>5. \A id : id \in DOMAIN Specs.decisions.records =>
                Specs.decisions.records[id] \in Seq(FileType(DecisionDocs))
  BY <1>4
<1> QED BY <1>3, <1>5 DEF DirOf, Specs, Decisions

\* The files of a Story directory are documents of the tables.
LEMMA FilesOf ==
    ASSUME NEW dir \in DirType
    PROVE  /\ dir.story.doc \in 0..Len(StoryDocs) /\ dir.acceptance.doc \in 0..Len(AcceptanceDocs)
           /\ dir.record.doc \in 0..Len(RecordDocs)
           /\ dir["story"].doc \in 0..Len(StoryDocs)
           /\ dir["acceptance"].doc \in 0..Len(AcceptanceDocs)
<1>1. dir.story \in FileType(StoryDocs) /\ dir.acceptance \in FileType(AcceptanceDocs)
      /\ dir.record \in FileType(RecordDocs)
  BY DEF DirType
<1> QED BY <1>1 DEF FileType

\* How many documents there are.
LEMMA TableSizes ==
    /\ Len(StoryDocs) \in Nat /\ Len(AcceptanceDocs) \in Nat /\ Len(RecordDocs) \in Nat
    /\ Len(DecisionDocs) \in Nat
  BY DocsAssumption

-----------------------------------------------------------------------------
(* What the steps leave alone.                                              *)

\* A step that reads no document keeps what is said of them.
LEMMA DocumentsStay ==
    ASSUME EntriesInv, SourcesInv, SubjectsInv, UNCHANGED <<command, walk, entries>>,
           phase' = phase \/ phase' \notin CheckPhases
    PROVE  EntriesInv' /\ SourcesInv' /\ SubjectsInv'
<1>1. EntriesInv'
  BY DEF EntriesInv
<1>2. SourcesInv'
  BY DEF SourcesInv, HasBoth, CheckPhases
<1>3. SubjectsInv'
  BY DEF SubjectsInv, CheckPhases
<1> QED BY <1>1, <1>2, <1>3

\* Nothing else than a check of recorded results is a pass of one.
LEMMA NoPass ==
    ASSUME verdict'.outcome # "VERIFICATION_PASS"
    PROVE  PassInv'
  BY DEF PassInv

\* Nothing is done any more once something was concluded.
LEMMA PassStays ==
    ASSUME PassInv, UNCHANGED <<command, entries>>, verdict'.outcome = verdict.outcome, phase' = phase
    PROVE  PassInv'
  BY DEF PassInv

\* The other process changes nothing that was read.
LEMMA SwapDocuments ==
    ASSUME IInv, DocumentsInv, Swap
    PROVE  DocumentsInv'
<1>1. UNCHANGED <<command, phase, walk, entries, verdict>>
  BY DEF Swap
<1> QED BY <1>1, DocumentsStay, PassStays DEF DocumentsInv

\* Neither does the child.
LEMMA ChildDocuments ==
    ASSUME IInv, DocumentsInv, ChildActions
    PROVE  DocumentsInv'
<1>0. TypeOK /\ PhaseInv /\ ChildInv
  BY DEF IInv
<1>1. UNCHANGED <<command, walk, entries>>
  BY <1>0, ChildActsWhen DEF OfChild
<1>2. phase' \in {"await", "done"}
  BY <1>0, ChildWaits
<1>3. EntriesInv' /\ SourcesInv' /\ SubjectsInv'
  BY <1>1, <1>2, DocumentsStay DEF DocumentsInv, CheckPhases
<1>4. \/ verdict'.outcome = verdict.outcome /\ phase' = phase
      \/ verdict'.outcome = verdict.outcome /\ Spawn
      \/ verdict'.outcome \in {"ERROR", "VERIFIED_LOCAL", "VERIFICATION_FAILED"}
  BY <1>0, ChildOutcome
<1>5. PassInv'
  <2>1. CASE verdict'.outcome = verdict.outcome /\ phase' = phase
    BY <1>1, <2>1, PassStays DEF DocumentsInv
  <2>2. CASE verdict'.outcome = verdict.outcome /\ Spawn
    <3>1. verdict.outcome # "VERIFICATION_PASS"
      BY <2>2 DEF Spawn, DocumentsInv, PassInv
    <3> QED BY <2>2, <3>1, NoPass
  <2>3. CASE verdict'.outcome \in {"ERROR", "VERIFIED_LOCAL", "VERIFICATION_FAILED"}
    BY <2>3, NoPass
  <2> QED BY <1>4, <2>1, <2>2, <2>3
<1> QED BY <1>3, <1>5 DEF DocumentsInv

\* What the walk holds of the Story that is being read.
Sources(w) ==
    /\ w.story \in 0..Len(StoryDocs) /\ w.acceptance \in 0..Len(AcceptanceDocs)
    /\ Usable(w.decided) /\ w.todo \in Seq(ToSet(Names))
    /\ w.pc \in {"root", "decide", "settle"} =>
          w.story > 0 /\ w.acceptance > 0 /\ w.wanted = ReadStoryDecisions(StoryDocs[w.story])
    /\ w.pc = "settle" => w.wanted \subseteq DOMAIN w.decided

\* The invariant, of the walk alone.
LEMMA SourcesNow ==
    ASSUME SourcesInv, SubjectsInv
    PROVE  Sources(walk)
  BY DEF SourcesInv, SubjectsInv, HasBoth, Sources

\* A walk with nothing in its hands.
LEMMA NothingHeld ==
    /\ NoWalk.story = 0 /\ NoWalk.acceptance = 0 /\ NoWalk.record = 0
    /\ NoWalk.decided = NoDecisions /\ NoWalk.todo = <<>> /\ NoWalk.wanted = {}
    /\ NoWalk.pc = "idle"
    /\ Usable(NoDecisions) /\ <<>> \in Seq(ToSet(Names))
<1>1. Usable(NoDecisions)
  BY DEF Usable, NoDecisions
<1> QED BY <1>1 DEF NoWalk

\* A walk that ends has nothing in its hands.
LEMMA EndSources ==
    ASSUME NEW result, Ends(result)
    PROVE  Sources(walk')
<1>1. /\ walk'.story = 0 /\ walk'.acceptance = 0 /\ walk'.decided = NoDecisions
      /\ walk'.todo = <<>> /\ walk'.pc = "end"
  BY NothingHeld DEF Ends, NoWalk
<1> QED BY <1>1, NothingHeld, TableSizes DEF Sources

\* A step of Doctor's walk.
LEMMA WalkDocuments ==
    ASSUME IInv, DocumentsInv, phase = "contracts", UNCHANGED OfStories, Sources(walk'), EntriesInv'
    PROVE  DocumentsInv'
<1>1. UNCHANGED <<command, phase, verdict>>
  BY DEF OfStories
<1>2. verdict.outcome = "none"
  BY DEF IInv, PhaseInv
<1>3. PassInv'
  BY <1>1, <1>2, NoPass
<1>4. SourcesInv'
  BY <1>1 DEF Sources, SourcesInv, HasBoth
<1>5. SubjectsInv'
  BY <1>1 DEF Sources, DocumentsInv, SubjectsInv, CheckPhases
<1> QED BY <1>3, <1>4, <1>5 DEF DocumentsInv

\* Entries that stay are made of documents still.
LEMMA SameEntries ==
    ASSUME DocumentsInv, UNCHANGED entries
    PROVE  EntriesInv' /\ Sources(walk) /\ SourcesInv
  BY SourcesNow DEF EntriesInv, DocumentsInv

\* The walk moves on with the same documents in its hands.
LEMMA SourcesKept ==
    ASSUME NEW w, Sources(w), NEW v, v.pc \notin {"root", "decide", "settle"},
           v.story = w.story, v.acceptance = w.acceptance, v.decided = w.decided, v.todo = w.todo
    PROVE  Sources(v)
  BY DEF Sources

\* Listing the Stories reads no document,
LEMMA LookingDocuments ==
    ASSUME IInv, DocumentsInv, HoldStories \/ ListStories \/ LookAtStory
    PROVE  DocumentsInv'
<1>1. phase = "contracts" /\ UNCHANGED entries /\ UNCHANGED OfStories
      /\ walk.pc \in {"hold", "list", "next"} /\ DOMAIN walk = WalkFields
  BY DEF HoldStories, ListStories, LookAtStory, Inspecting, OfStories, IInv, TypeOK
<1>2. \/ Ends("error")
      \/ \E held : walk' = [walk EXCEPT !.held = held, !.pc = "list"]
      \/ \E listed : walk' = [walk EXCEPT !.pc = "next", !.listed = listed]
      \/ \E listed : walk' = [walk EXCEPT !.listed = listed]
      \/ walk' = [walk EXCEPT !.pc = "keep"]
  <2>1. CASE HoldStories
    BY <2>1, Zenon DEF HoldStories
  <2>2. CASE ListStories
    BY <2>2, Zenon DEF ListStories
  <2>3. CASE LookAtStory
    BY <2>3, Zenon DEF LookAtStory
  <2> QED BY <2>1, <2>2, <2>3
<1>3. \/ Ends("error")
      \/ /\ walk'.story = walk.story /\ walk'.acceptance = walk.acceptance
         /\ walk'.decided = walk.decided /\ walk'.todo = walk.todo
         /\ walk'.pc \in {"list", "next", "keep", walk.pc}
  BY <1>1, <1>2 DEF WalkFields
<1>4. Sources(walk')
  <2>1. CASE Ends("error")
    BY <2>1, EndSources
  <2>2. CASE /\ walk'.story = walk.story /\ walk'.acceptance = walk.acceptance
             /\ walk'.decided = walk.decided /\ walk'.todo = walk.todo
             /\ walk'.pc \in {"list", "next", "keep", walk.pc}
    BY <1>1, <2>2, SameEntries, SourcesKept
  <2> QED BY <1>3, <2>1, <2>2
<1> QED BY <1>1, <1>4, SameEntries, WalkDocuments

\* ... and taking up a Story drops those of the one before.
LEMMA HoldStoryDocuments ==
    ASSUME IInv, DocumentsInv, HoldStory
    PROVE  DocumentsInv'
<1>1. phase = "contracts" /\ UNCHANGED entries /\ UNCHANGED OfStories /\ DOMAIN walk = WalkFields
  BY DEF HoldStory, Inspecting, OfStories, IInv, TypeOK
<1>2. \/ Ends("error")
      \/ \E dir : walk' = [walk EXCEPT !.pc = "read", !.dir = dir, !.story = 0, !.acceptance = 0,
                                       !.decided = NoDecisions, !.wanted = {}]
  BY Zenon DEF HoldStory
<1>3. Sources(walk')
  <2>1. CASE Ends("error")
    BY <2>1, EndSources
  <2>2. CASE ~Ends("error")
    <3>1. /\ walk'.pc = "read" /\ walk'.story = 0 /\ walk'.acceptance = 0
          /\ walk'.decided = NoDecisions /\ walk'.todo = walk.todo
      BY <1>1, <1>2, <2>2 DEF WalkFields
    <3>2. walk.todo \in Seq(ToSet(Names))
      BY <1>1, SameEntries DEF Sources
    <3> QED BY <3>1, <3>2, NothingHeld, TableSizes DEF Sources
  <2> QED BY <2>1, <2>2
<1> QED BY <1>1, <1>3, SameEntries, WalkDocuments

\* Each of the two files is one of its table.
LEMMA ReadingDocuments ==
    ASSUME IInv, DocumentsInv, Inspecting("read"), NEW field \in {"story", "acceptance"},
           ReadEither(field)
    PROVE  DocumentsInv'
<1>1. /\ phase = "contracts" /\ walk.pc = "read" /\ UNCHANGED entries /\ UNCHANGED OfStories
      /\ DOMAIN walk = WalkFields /\ walk.listed \subseteq ToSet(Names) /\ walk.listed # {}
      /\ TypeOK
  BY DEF ReadEither, Inspecting, OfStories, IInv, TypeOK, CurrentInv, Reading
<1>2. Current \in ToSet(Names)
  BY <1>1, CurrentListed
<1>3. DirOf(Current) \in DirType
  BY <1>1, <1>2, TreeTypes
<1> DEFINE file == DirOf(Current)[field]
<1>4. \/ Ends("error")
      \/ walk' = [walk EXCEPT ![field] = file.doc]
  BY Zenon DEF ReadEither
<1>5. Sources(walk')
  <2>1. CASE Ends("error")
    BY <2>1, EndSources
  <2>2. CASE ~Ends("error")
    <3>0. walk' = [walk EXCEPT ![field] = file.doc]
      BY <1>4, <2>2
    <3>1. \A x \in WalkFields \ {field} : walk'[x] = walk[x]
      BY <1>1, <3>0
    <3>2. walk'[field] = file.doc
      BY <1>1, <3>0 DEF WalkFields
    <3>3. /\ walk'["pc"] = walk["pc"] /\ walk'["decided"] = walk["decided"]
          /\ walk'["todo"] = walk["todo"]
      BY <3>1 DEF WalkFields
    <3>4. Sources(walk)
      BY <1>1, SameEntries
    <3>5. walk'["story"] \in 0..Len(StoryDocs) /\ walk'["acceptance"] \in 0..Len(AcceptanceDocs)
      <4>1. CASE field = "story"
        <5>1. walk'["acceptance"] = walk["acceptance"]
          BY <3>1, <4>1 DEF WalkFields
        <5> QED BY <1>3, <3>2, <3>4, <4>1, <5>1, FilesOf DEF Sources
      <4>2. CASE field = "acceptance"
        <5>1. walk'["story"] = walk["story"]
          BY <3>1, <4>2 DEF WalkFields
        <5> QED BY <1>3, <3>2, <3>4, <4>2, <5>1, FilesOf DEF Sources
      <4> QED BY <4>1, <4>2
    <3> QED BY <1>1, <3>3, <3>4, <3>5 DEF Sources
  <2> QED BY <2>1, <2>2
<1> QED BY <1>1, <1>5, SameEntries, WalkDocuments

\* The decisions that are wanted are those of the Story that was read.
LEMMA WantDocuments ==
    ASSUME IInv, DocumentsInv, WantDecisions
    PROVE  DocumentsInv'
<1>1. /\ phase = "contracts" /\ UNCHANGED entries /\ UNCHANGED OfStories
      /\ DOMAIN walk = WalkFields /\ walk.story > 0 /\ walk.acceptance > 0
  BY DEF WantDecisions, Inspecting, OfStories, IInv, TypeOK
<1> DEFINE wanted == ReadStoryDecisions(StoryDocs[walk.story])
<1>2. walk' = [walk EXCEPT !.wanted = wanted, !.pc = IF wanted = {} THEN "settle" ELSE "root"]
  BY DEF WantDecisions
<1> HIDE DEF wanted
<1>3. /\ walk'.story = walk.story /\ walk'.acceptance = walk.acceptance
      /\ walk'.decided = walk.decided /\ walk'.todo = walk.todo
      /\ walk'.wanted = wanted /\ walk'.pc = IF wanted = {} THEN "settle" ELSE "root"
  BY <1>1, <1>2 DEF WalkFields
<1>4. Sources(walk)
  BY <1>1, SameEntries
<1>5. Sources(walk')
  BY <1>1, <1>3, <1>4 DEF Sources, wanted
<1> QED BY <1>1, <1>5, SameEntries, WalkDocuments

\* They are all known when the Story is settled.
LEMMA HoldDecisionsDocuments ==
    ASSUME IInv, DocumentsInv, HoldDecisions \/ DecisionsRemain
    PROVE  DocumentsInv'
<1>1. /\ phase = "contracts" /\ UNCHANGED entries /\ UNCHANGED OfStories
      /\ DOMAIN walk = WalkFields /\ walk.pc \in {"root", "decide"}
  BY DEF HoldDecisions, DecisionsRemain, Inspecting, OfStories, IInv, TypeOK
<1>2. \/ Ends("error")
      \/ \E decisions : walk' = [walk EXCEPT !.pc = "decide", !.decisions = decisions]
      \/ walk' = [walk EXCEPT !.pc = "settle"] /\ walk.wanted = DOMAIN walk.decided
  <2>1. CASE HoldDecisions
    BY <2>1, Zenon DEF HoldDecisions
  <2>2. CASE DecisionsRemain
    BY <2>2, Zenon DEF DecisionsRemain
  <2> QED BY <2>1, <2>2
<1>3. \/ Ends("error")
      \/ /\ walk'.story = walk.story /\ walk'.acceptance = walk.acceptance
         /\ walk'.decided = walk.decided /\ walk'.todo = walk.todo /\ walk'.wanted = walk.wanted
         /\ walk'.pc = "decide" \/ (walk'.pc = "settle" /\ walk.wanted = DOMAIN walk.decided)
  BY <1>1, <1>2 DEF WalkFields
<1>4. Sources(walk)
  BY <1>1, SameEntries
<1>5. Sources(walk')
  <2>1. CASE Ends("error")
    BY <2>1, EndSources
  <2>2. CASE ~Ends("error")
    BY <1>1, <1>3, <1>4, <2>2 DEF Sources
  <2> QED BY <2>1, <2>2
<1> QED BY <1>1, <1>5, SameEntries, WalkDocuments

\* Each that is read can be used.
LEMMA ReadDecisionDocuments ==
    ASSUME IInv, DocumentsInv, ReadOneDecision
    PROVE  DocumentsInv'
<1>1. /\ phase = "contracts" /\ UNCHANGED entries /\ UNCHANGED OfStories
      /\ DOMAIN walk = WalkFields /\ walk.pc = "decide" /\ TypeOK
  BY DEF ReadOneDecision, Inspecting, OfStories, IInv, TypeOK
<1>2. PICK id : walk' = [walk EXCEPT !.decided =
                  Knowing(@, id, IF Leads(Specs) THEN ReadDecision(Decisions, id, FALSE)
                                                 ELSE Decision("missing", 0))]
  BY DEF ReadOneDecision
<1> DEFINE found == IF Leads(Specs) THEN ReadDecision(Decisions, id, FALSE)
                                    ELSE Decision("missing", 0)
           known == Knowing(walk.decided, id, found)
<1>3. Use(ReadDecision(Decisions, id, FALSE)) /\ Use(Decision("missing", 0))
  BY <1>1, TreeTypes, DecisionUsable DEF Use, Decision
<1>4. Use(found)
  BY <1>3
<1>5. walk' = [walk EXCEPT !.decided = known]
  BY <1>2
<1> HIDE DEF found
<1>6. Sources(walk)
  BY <1>1, SameEntries
<1>7. Usable(known)
  BY <1>4, <1>6, OneMoreDecision DEF Sources
<1> HIDE DEF known
<1>8. /\ walk'.story = walk.story /\ walk'.acceptance = walk.acceptance
      /\ walk'.decided = known /\ walk'.todo = walk.todo /\ walk'.wanted = walk.wanted
      /\ walk'.pc = "decide"
  BY <1>1, <1>5 DEF WalkFields
<1>9. Sources(walk')
  BY <1>1, <1>6, <1>7, <1>8 DEF Sources
<1> QED BY <1>1, <1>9, SameEntries, WalkDocuments

\* One more entry.
LEMMA MoreEntries ==
    ASSUME TypeOK, EntriesInv, NEW entry, Documented(entry), entries' = Append(entries, entry)
    PROVE  EntriesInv'
<1>1. /\ Len(entries') = Len(entries) + 1 /\ Len(entries) \in Nat
      /\ \A i \in 1..Len(entries) : entries'[i] = entries[i]
      /\ entries'[Len(entries) + 1] = entry
  BY Appended DEF TypeOK
<1>2. \A i \in 1..Len(entries') : Documented(entries'[i])
  <2> SUFFICES ASSUME NEW i \in 1..Len(entries') PROVE Documented(entries'[i])
    OBVIOUS
  <2>1. CASE i \in 1..Len(entries)
    <3>1. Documented(entries[i]) /\ entries'[i] = entries[i]
      BY <1>1, <2>1 DEF EntriesInv
    <3> QED BY <3>1
  <2>2. CASE i \notin 1..Len(entries)
    BY <1>1, <2>2
  <2> QED BY <2>1, <2>2
<1>3. EntriesInv'
  BY <1>2 DEF EntriesInv, Documented, Usable, Decided
<1> QED BY <1>3

\* The Story becomes an entry of the documents that were read.
LEMMA SettleStoryDocuments ==
    ASSUME IInv, DocumentsInv, SettleStory
    PROVE  DocumentsInv'
<1>1. /\ phase = "contracts" /\ UNCHANGED OfStories /\ walk.pc = "settle" /\ TypeOK
      /\ DOMAIN walk = WalkFields
  BY DEF SettleStory, Inspecting, OfStories, IInv, TypeOK
<1>2. \/ Ends("error") /\ UNCHANGED entries
      \/ /\ \E name : entries' = Append(entries, Entry_("story", name, "", walk.story,
                                                       walk.acceptance, 0, walk.decided))
         /\ \E listed : walk' = [NoWalk EXCEPT !.pc = "next", !.held = walk.held, !.listed = listed]
  BY Zenon DEF SettleStory
<1>3. CASE Ends("error") /\ UNCHANGED entries
  BY <1>1, <1>3, EndSources, SameEntries, WalkDocuments
<1>4. CASE ~(Ends("error") /\ UNCHANGED entries)
  <2>1. PICK name : entries' = Append(entries, Entry_("story", name, "", walk.story,
                                                     walk.acceptance, 0, walk.decided))
    BY <1>2, <1>4
  <2> DEFINE entry == Entry_("story", name, "", walk.story, walk.acceptance, 0, walk.decided)
  <2>2. Sources(walk)
    BY SourcesNow DEF DocumentsInv
  <2>3. Documented(entry)
    <3>1. /\ entry.kind = "story" /\ entry.story = walk.story
          /\ entry.acceptance = walk.acceptance
          /\ entry.record = 0 /\ entry.decided = walk.decided
      BY DEF Entry_
    <3>2. walk.story \in 1..Len(StoryDocs) /\ walk.acceptance \in 1..Len(AcceptanceDocs)
          /\ 0 \in 0..Len(RecordDocs)
      BY <1>1, <2>2, TableSizes DEF Sources
    <3>3. Usable(walk.decided) /\ Decided(walk.story, walk.decided)
      BY <1>1, <2>2 DEF Sources, Decided
    <3> HIDE DEF entry
    <3> QED BY <3>1, <3>2, <3>3 DEF Documented
  <2>4. entries' = Append(entries, entry)
    BY <2>1
  <2>5. EntriesInv'
    <3> HIDE DEF entry
    <3> QED BY <1>1, <2>3, <2>4, MoreEntries DEF DocumentsInv
  <2>6. /\ walk'.story = 0 /\ walk'.acceptance = 0 /\ walk'.decided = NoDecisions
        /\ walk'.todo = <<>> /\ walk'.pc = "next"
    BY <1>2, <1>4, NothingHeld DEF NoWalk
  <2>7. Sources(walk')
    BY <2>6, NothingHeld, TableSizes DEF Sources
  <2> QED BY <1>1, <2>5, <2>7, WalkDocuments
<1> QED BY <1>3, <1>4

\* The end of the walk.
LEMMA SettleStoriesDocuments ==
    ASSUME IInv, DocumentsInv, SettleStories
    PROVE  DocumentsInv'
<1>1. phase = "contracts" /\ UNCHANGED entries /\ UNCHANGED OfStories
  BY DEF SettleStories, Inspecting, OfStories
<1>2. \E result : Ends(result)
  BY Zenon DEF SettleStories
<1>3. Sources(walk')
  BY <1>2, EndSources
<1> QED BY <1>1, <1>3, SameEntries, WalkDocuments

\* The steps of Doctor before and after it reads the Stories.
LEMMA DoctorConcludes ==
    ASSUME NEW s
    PROVE  EvaluateRepositoryDoctor(s).outcome # "VERIFICATION_PASS"
  BY EvaluationMeans DEF Outcomes

\* The first steps of Doctor read no document.
LEMMA EarlyDocuments ==
    ASSUME IInv, DocumentsInv, ResolveRoot \/ ObserveTop \/ HoldSpecs \/ ObserveUnder
    PROVE  DocumentsInv'
<1>1. UNCHANGED <<command, walk, entries>>
  BY DEF ResolveRoot, ObserveTop, HoldSpecs, ObserveUnder
<1>2. /\ phase' \notin CheckPhases
      /\ verdict'.outcome \in {verdict.outcome, "ERROR"}
      /\ phase \in Early
  <2>1. CASE ResolveRoot
    BY <2>1 DEF ResolveRoot, Report, NoVerdict, CheckPhases, Early
  <2>2. CASE ObserveTop \/ HoldSpecs \/ ObserveUnder
    BY <2>2 DEF ObserveTop, HoldSpecs, ObserveUnder, CheckPhases, Early
  <2> QED BY <2>1, <2>2
<1>3. verdict.outcome = "none"
  BY <1>2 DEF IInv, PhaseInv
<1>4. PassInv'
  BY <1>2, <1>3, NoPass
<1> QED BY <1>1, <1>2, <1>4, DocumentsStay DEF DocumentsInv

\* The structure is judged before any is read.
LEMMA JudgeDocuments ==
    ASSUME IInv, DocumentsInv, JudgeStructure
    PROVE  DocumentsInv'
<1> DEFINE s == IF snapshot.guidance.kind = "directory" /\ snapshot.guidance.searchable
                  THEN [snapshot EXCEPT !.guidanceEntry = disk.top.guidanceEntry] ELSE snapshot
           e == Preliminary(s)
<1>1. /\ UNCHANGED <<command, entries>> /\ phase = "guidance" /\ DOMAIN walk = WalkFields
      /\ verdict.outcome = "none"
  BY DEF JudgeStructure, IInv, TypeOK, PhaseInv, Early
<1>2. \/ Conclude(e) /\ UNCHANGED walk
      \/ phase' = "contracts" /\ walk' = [walk EXCEPT !.pc = "hold"] /\ UNCHANGED verdict
  BY Zenon DEF JudgeStructure
<1>3. e.outcome # "VERIFICATION_PASS"
  BY DoctorConcludes DEF Preliminary
<1> HIDE DEF e
<1>4. CASE Conclude(e) /\ UNCHANGED walk
  <2>1. /\ verdict'.outcome = e.outcome
        /\ phase' = IF command.name = "run-verify" /\ Confirmed(e.required) THEN "spawn" ELSE "done"
    BY <1>4 DEF Conclude
  <2>2. PassInv' /\ phase' \notin CheckPhases
    BY <1>3, <2>1, NoPass DEF CheckPhases
  <2> QED BY <1>1, <1>4, <2>2, DocumentsStay DEF DocumentsInv
<1>5. CASE phase' = "contracts" /\ walk' = [walk EXCEPT !.pc = "hold"] /\ UNCHANGED verdict
  <2>1. /\ walk'.story = walk.story /\ walk'.acceptance = walk.acceptance
        /\ walk'.decided = walk.decided /\ walk'.todo = walk.todo /\ walk'.pc = "hold"
    BY <1>1, <1>5 DEF WalkFields
  <2>2. Sources(walk)
    BY SourcesNow DEF DocumentsInv
  <2>3. Sources(walk')
    BY <2>1, <2>2, SourcesKept
  <2>4. SourcesInv'
    BY <1>5, <2>3 DEF Sources, SourcesInv, HasBoth
  <2>5. SubjectsInv'
    BY <1>1, <1>5, <2>3 DEF Sources, DocumentsInv, SubjectsInv, CheckPhases
  <2>6. PassInv'
    BY <1>1, <1>5, NoPass
  <2>7. EntriesInv'
    BY <1>1, SameEntries
  <2> QED BY <2>4, <2>5, <2>6, <2>7 DEF DocumentsInv
<1> QED BY <1>2, <1>4, <1>5

\* The handoff is read beside them.
LEMMA HandoffDocuments ==
    ASSUME IInv, DocumentsInv, HoldForHandoff \/ ReadHandoff \/ SettleHandoff
    PROVE  DocumentsInv'
<1>1. UNCHANGED <<command, phase, walk, entries, verdict>>
  BY DEF HoldForHandoff, ReadHandoff, SettleHandoff, OfHandoff
<1> QED BY <1>1, DocumentsStay, PassStays DEF DocumentsInv

\* The end of both inspections.
LEMMA SettleDocuments ==
    ASSUME IInv, DocumentsInv, Settle
    PROVE  DocumentsInv'
<1>1. /\ UNCHANGED <<command, walk, entries>>
      /\ verdict'.outcome = EvaluateRepositoryDoctor(snapshot').outcome
      /\ phase' \in {"spawn", "done"}
  BY SettleFields
<1>2. PassInv'
  BY <1>1, DoctorConcludes, NoPass
<1> QED BY <1>1, <1>2, DocumentsStay DEF DocumentsInv, CheckPhases

\* Every step of Doctor.
LEMMA DoctorDocuments ==
    ASSUME IInv, DocumentsInv, Doctor
    PROVE  DocumentsInv'
<1>1. CASE ResolveRoot \/ ObserveTop \/ HoldSpecs \/ ObserveUnder
  BY <1>1, EarlyDocuments
<1>2. CASE JudgeStructure
  BY <1>2, JudgeDocuments
<1>3. CASE HoldStories \/ ListStories \/ LookAtStory
  BY <1>3, LookingDocuments
<1>4. CASE HoldStory
  BY <1>4, HoldStoryDocuments
<1>5. CASE ReadStorySource
  BY <1>5, ReadingDocuments DEF ReadStorySource
<1>6. CASE WantDecisions
  BY <1>6, WantDocuments
<1>7. CASE HoldDecisions \/ DecisionsRemain
  BY <1>7, HoldDecisionsDocuments
<1>8. CASE ReadOneDecision
  BY <1>8, ReadDecisionDocuments
<1>9. CASE SettleStory
  BY <1>9, SettleStoryDocuments
<1>10. CASE SettleStories
  BY <1>10, SettleStoriesDocuments
<1>11. CASE HoldForHandoff \/ ReadHandoff \/ SettleHandoff
  BY <1>11, HandoffDocuments
<1>12. CASE Settle
  BY <1>12, SettleDocuments
<1> QED
  BY <1>1, <1>2, <1>3, <1>4, <1>5, <1>6, <1>7, <1>8, <1>9, <1>10, <1>11, <1>12 DEF Doctor

-----------------------------------------------------------------------------
(* story check, verification check and handoff check.                       *)

\* What a check passes no recorded results with.
LEMMA OtherOutcomes ==
    /\ \A list, ready : StoryOutcome(list, ready) # "VERIFICATION_PASS"
    /\ \A list : PlanOutcome(list) # "VERIFICATION_PASS"
    /\ \A file : HandoffOutcome(file) # "VERIFICATION_PASS"
<1>1. ASSUME NEW list, NEW ready
      PROVE  StoryOutcome(list, ready) # "VERIFICATION_PASS"
  <2> DEFINE incomplete == \E i \in 1..Len(list) : StoryDiagnostics(list[i], ready) # <<>>
  <2>1. StoryOutcome(list, ready) =
          CASE HasError(list) \/ list = <<>> -> "ERROR"
            [] ~HasError(list) /\ list # <<>> /\ incomplete ->
                 IF ready THEN "STORY_READINESS_INCOMPLETE" ELSE "STORY_CONTRACT_INCOMPLETE"
            [] OTHER -> IF ready THEN "STORY_READINESS_OK" ELSE "STORY_CONTRACT_OK"
    BY DEF StoryOutcome
  <2> HIDE DEF incomplete
  <2> QED BY <2>1
<1>2. ASSUME NEW list
      PROVE  PlanOutcome(list) # "VERIFICATION_PASS"
  BY Zenon DEF PlanOutcome
<1>3. ASSUME NEW file
      PROVE  HandoffOutcome(file) # "VERIFICATION_PASS"
  BY DEF HandoffOutcome
<1> QED BY <1>1, <1>2, <1>3

\* A check that is under way has concluded nothing.
LEMMA CheckRuns ==
    ASSUME IInv, DocumentsInv, phase \in {"start"} \cup CheckPhases
    PROVE  /\ verdict.outcome = "none" /\ DOMAIN walk = WalkFields /\ walk.pc = "idle"
           /\ DOMAIN verdict = VerdictFields /\ TypeOK
           /\ phase = "start" => entries = <<>>
           /\ Sources(walk)
<1>1. verdict.outcome = "none" /\ walk.pc = "idle" /\ (phase = "start" => entries = <<>>)
  BY DEF IInv, PhaseInv, Early
<1>2. Sources(walk)
  BY SourcesNow DEF DocumentsInv
<1> QED BY <1>1, <1>2 DEF IInv, TypeOK

\* It concludes something else than a pass of recorded results.
LEMMA ReportsOther ==
    ASSUME IInv, DocumentsInv, UNCHANGED <<command, walk, entries>>, NEW name,
           Report(Outcome(name)), name # "VERIFICATION_PASS"
    PROVE  DocumentsInv'
<1>1. DOMAIN verdict = VerdictFields
  BY DEF IInv, TypeOK
<1>2. phase' = "done" /\ verdict' = [verdict EXCEPT !.outcome = name]
  BY DEF Report, Outcome
<1>3. verdict'.outcome = name
  BY <1>1, <1>2 DEF VerdictFields
<1>4. PassInv'
  BY <1>3, NoPass
<1> QED BY <1>2, <1>4, DocumentsStay DEF DocumentsInv, CheckPhases

\* Some of the names are a list of names.
LEMMA NamesFound ==
    ASSUME NEW chosen
    PROVE  Picked(Names, chosen) \in Seq(ToSet(Names))
<1>1. Names \in Seq(ToSet(Names))
  <2>1. Len(Names) \in Nat /\ \A i \in 1..Len(Names) : Names[i] \in ToSet(Names)
    BY NamesFacts
  <2>2. Names = [i \in 1..Len(Names) |-> Names[i]]
    BY NamesFacts
  <2> QED BY <2>1, <2>2
<1> QED BY <1>1, PickedIs

\* A check begins with its subjects, or with all that are found.
LEMMA BeginDocuments ==
    ASSUME IInv, DocumentsInv, BeginCheck
    PROVE  DocumentsInv'
<1> DEFINE found == Where(Names, LAMBDA n : Leads(DirOf(n)))
<1>1. phase = "start" /\ UNCHANGED <<command, entries>>
  BY DEF BeginCheck, Checking, OfCheck
<1>2. /\ verdict.outcome = "none" /\ DOMAIN walk = WalkFields /\ walk.pc = "idle"
      /\ entries = <<>> /\ Sources(walk)
  BY <1>1, CheckRuns
<1>3. \/ /\ \/ walk' = [walk EXCEPT !.todo = command.subjects]
            \/ command.subjects = <<>> /\ walk' = [walk EXCEPT !.todo = found]
         /\ phase' = "subjects" /\ UNCHANGED verdict
      \/ Report(Outcome("ERROR")) /\ UNCHANGED walk
  BY Zenon DEF BeginCheck
<1>4. CASE Report(Outcome("ERROR")) /\ UNCHANGED walk
  BY <1>1, <1>4, ReportsOther
<1>5. CASE ~(Report(Outcome("ERROR")) /\ UNCHANGED walk)
  <2>1. command \in CommandType
    BY DEF DocumentsInv, SubjectsInv
  <2>2. command.subjects \in Seq(ToSet(Names))
    BY <2>1 DEF CommandType
  <2>3. found \in Seq(ToSet(Names))
    BY NamesFound DEF Where
  <2> HIDE DEF found
  <2>4. /\ phase' = "subjects" /\ UNCHANGED verdict
        /\ \/ walk'.todo = command.subjects
           \/ command.subjects = <<>> /\ walk'.todo = found
        /\ walk'.story = walk.story /\ walk'.acceptance = walk.acceptance
        /\ walk'.decided = walk.decided /\ walk'.pc = walk.pc
    BY <1>2, <1>3, <1>5 DEF WalkFields
  <2>5. SourcesInv'
    BY <1>2, <2>4 DEF SourcesInv, HasBoth, Sources
  <2>6. SubjectsInv'
    <3>1. walk'.todo \in Seq(ToSet(Names))
      BY <2>2, <2>3, <2>4
    <3>2. command.subjects # <<>> => Len(entries') + Len(walk'.todo) = Len(command.subjects)
      <4>1. Len(entries') = 0 /\ Len(command.subjects) \in Nat
        BY <1>1, <1>2, <2>2
      <4> QED BY <2>4, <4>1
    <3> QED BY <1>1, <2>1, <2>4, <3>1, <3>2 DEF SubjectsInv
  <2>7. PassInv'
    BY <1>2, <2>4, NoPass
  <2>8. EntriesInv'
    BY <1>1, SameEntries
  <2> QED BY <2>5, <2>6, <2>7, <2>8 DEF DocumentsInv
<1> QED BY <1>4, <1>5

\* One more subject was judged.
LEMMA AddDocuments ==
    ASSUME IInv, DocumentsInv, phase \in CheckPhases, walk.todo # <<>>,
           UNCHANGED <<command, verdict>>, NEW entry, Documented(entry), Add(entry)
    PROVE  DocumentsInv'
<1>1. /\ entries' = Append(entries, entry) /\ phase' = "subjects"
      /\ walk' = [NoWalk EXCEPT !.todo = Tail(walk.todo)]
  BY DEF Add
<1>2. TypeOK /\ verdict.outcome = "none" /\ Sources(walk)
  BY CheckRuns
<1>3. /\ walk'.story = 0 /\ walk'.acceptance = 0 /\ walk'.decided = NoDecisions
      /\ walk'.todo = Tail(walk.todo) /\ walk'.pc = "idle"
  BY <1>1, NothingHeld DEF NoWalk
<1>4. walk.todo \in Seq(ToSet(Names))
  BY <1>2 DEF Sources
<1>5. /\ Tail(walk.todo) \in Seq(ToSet(Names)) /\ Len(walk.todo) \in Nat
      /\ Len(Tail(walk.todo)) = Len(walk.todo) - 1
  <2> DEFINE S == ToSet(Names)
  <2> HIDE DEF S
  <2>1. walk.todo \in Seq(S) /\ walk.todo # <<>>
    BY <1>4 DEF S
  <2>2. Tail(walk.todo) \in Seq(S) /\ Len(Tail(walk.todo)) = Len(walk.todo) - 1
        /\ Len(walk.todo) \in Nat
    BY <2>1
  <2> QED BY <2>2 DEF S
<1>6. EntriesInv'
  BY <1>1, <1>2, MoreEntries DEF DocumentsInv
<1>7. SourcesInv'
  BY <1>1, <1>3, NothingHeld, TableSizes DEF SourcesInv
<1>8. SubjectsInv'
  <2>1. Len(entries') = Len(entries) + 1 /\ Len(entries) \in Nat
    BY <1>1, <1>2, Appended DEF TypeOK
  <2>2. command \in CommandType
        /\ (command.subjects # <<>> => Len(entries) + Len(walk.todo) = Len(command.subjects))
    BY DEF DocumentsInv, SubjectsInv
  <2>3. command.subjects # <<>> => Len(entries') + Len(walk'.todo) = Len(command.subjects)
    <3>1. Len(walk'.todo) = Len(walk.todo) - 1
      BY <1>3, <1>5
    <3>2. \A a, b \in Nat : (a + 1) + (b - 1) = a + b
      OBVIOUS
    <3>3. Len(entries) \in Nat /\ Len(walk.todo) \in Nat
      BY <1>5, <2>1
    <3>4. (Len(entries) + 1) + (Len(walk.todo) - 1) = Len(entries) + Len(walk.todo)
      BY <3>2, <3>3, Zenon
    <3> QED BY <2>1, <2>2, <3>1, <3>4, Zenon
  <2> QED BY <1>1, <1>3, <1>5, <2>2, <2>3 DEF SubjectsInv
<1>9. PassInv'
  BY <1>2, NoPass
<1> QED BY <1>6, <1>7, <1>8, <1>9 DEF DocumentsInv

\* An entry that is an error is made of nothing.
LEMMA ErrorDocumented ==
    ASSUME NEW name, NEW code
    PROVE  Documented(ErrorEntry(name, code))
<1>1. ErrorEntry(name, code).kind = "error"
  BY DEF ErrorEntry, Entry_
<1> QED BY <1>1 DEF Documented

\* The name at hand is one of the Stories'.
LEMMA SubjectIsName ==
    ASSUME IInv, DocumentsInv, phase \in CheckPhases, walk.todo # <<>>
    PROVE  Head(walk.todo) \in ToSet(Names)
<1>1. walk.todo \in Seq(ToSet(Names))
  BY DEF DocumentsInv, SubjectsInv
<1> DEFINE S == ToSet(Names)
<1> HIDE DEF S
<1>2. walk.todo \in Seq(S) /\ walk.todo # <<>>
  BY <1>1 DEF S
<1>3. Head(walk.todo) \in S
  BY <1>2
<1> QED BY <1>3 DEF S

\* The next subject is there, or is an error.
LEMMA NextDocuments ==
    ASSUME IInv, DocumentsInv, NextSubject
    PROVE  DocumentsInv'
<1>1. phase = "subjects" /\ walk.todo # <<>> /\ UNCHANGED <<command, verdict>>
  BY DEF NextSubject, Checking, OfCheck
<1>2. \/ phase' = "story" /\ UNCHANGED <<walk, entries>>
      \/ Add(ErrorEntry(Head(walk.todo), "missing"))
  BY Zenon DEF NextSubject
<1>3. CASE Add(ErrorEntry(Head(walk.todo), "missing"))
  BY <1>1, <1>3, ErrorDocumented, AddDocuments DEF CheckPhases
<1>4. CASE phase' = "story" /\ UNCHANGED <<walk, entries>>
  <2>1. verdict.outcome = "none"
    BY <1>1, CheckRuns DEF CheckPhases
  <2>2. PassInv'
    BY <1>1, <2>1, NoPass
  <2>3. EntriesInv'
    BY <1>4, SameEntries
  <2>4. SourcesInv'
    BY <1>4 DEF DocumentsInv, SourcesInv, HasBoth
  <2>5. SubjectsInv'
    BY <1>1, <1>4 DEF DocumentsInv, SubjectsInv, CheckPhases
  <2> QED BY <2>2, <2>3, <2>4, <2>5 DEF DocumentsInv
<1> QED BY <1>2, <1>3, <1>4

\* The documents at a Story's paths are of the tables.
LEMMA SourceTypes ==
    ASSUME IInv, DocumentsInv, phase \in CheckPhases, walk.todo # <<>>
    PROVE  /\ Readable(SourceOf("story")) => SourceOf("story").doc \in 1..Len(StoryDocs)
           /\ Readable(SourceOf("acceptance")) =>
                 SourceOf("acceptance").doc \in 1..Len(AcceptanceDocs)
           /\ Readable(SourceOf("record")) => SourceOf("record").doc \in 1..Len(RecordDocs)
<1>1. Head(walk.todo) \in ToSet(Names) /\ TypeOK
  BY SubjectIsName, CheckRuns
<1>2. DirOf(Head(walk.todo)) \in DirType
  BY <1>1, TreeTypes
<1>3. ~Readable(Absent)
  BY DEF Readable, Absent, File
<1>4. ASSUME NEW field
      PROVE  Readable(SourceOf(field)) => SourceOf(field) = DirOf(Head(walk.todo))[field]
                                          /\ SourceOf(field).doc > 0
  BY <1>3 DEF SourceOf, Readable
<1> DEFINE dir == DirOf(Head(walk.todo))
<1>5. /\ dir["story"].doc \in 0..Len(StoryDocs)
      /\ dir["acceptance"].doc \in 0..Len(AcceptanceDocs)
      /\ dir["record"].doc \in 0..Len(RecordDocs)
  BY <1>2, FilesOf
<1> HIDE DEF dir
<1>6. Readable(SourceOf("story")) => SourceOf("story").doc \in 1..Len(StoryDocs)
  BY <1>4, <1>5, TableSizes DEF dir
<1>7. Readable(SourceOf("acceptance")) => SourceOf("acceptance").doc \in 1..Len(AcceptanceDocs)
  BY <1>4, <1>5, TableSizes DEF dir
<1>8. Readable(SourceOf("record")) => SourceOf("record").doc \in 1..Len(RecordDocs)
  BY <1>4, <1>5, TableSizes DEF dir
<1> QED BY <1>6, <1>7, <1>8

\* One document more of the subject at hand.
LEMMA MoreSources ==
    ASSUME IInv, DocumentsInv, phase \in CheckPhases, walk.todo # <<>>, phase' \in CheckPhases,
           UNCHANGED <<command, verdict, entries>>, walk'.todo = walk.todo, SourcesInv'
    PROVE  DocumentsInv'
<1>1. verdict.outcome = "none"
  BY CheckRuns
<1>2. PassInv'
  BY <1>1, NoPass
<1>3. EntriesInv'
  BY SameEntries
<1>4. SubjectsInv'
  BY DEF DocumentsInv, SubjectsInv
<1> QED BY <1>2, <1>3, <1>4 DEF DocumentsInv

\* The Story is read, or is an error.
LEMMA StoryFileDocuments ==
    ASSUME IInv, DocumentsInv, ReadStoryFile
    PROVE  DocumentsInv'
<1>1. phase = "story" /\ UNCHANGED <<command, verdict>> /\ phase \in CheckPhases
  BY DEF ReadStoryFile, Checking, OfCheck, CheckPhases
<1>2. walk.todo # <<>> /\ DOMAIN walk = WalkFields /\ walk.pc = "idle" /\ Sources(walk)
  BY <1>1, CheckRuns DEF DocumentsInv, SubjectsInv, CheckPhases
<1> DEFINE file == SourceOf("story")
<1>3. \/ /\ Readable(file) /\ walk' = [walk EXCEPT !["story"] = file.doc]
         /\ phase' = "acceptance" /\ UNCHANGED entries
      \/ \E code : Add(ErrorEntry(Head(walk.todo), code))
  BY Zenon DEF ReadStoryFile, ReadRequired
<1>4. CASE \E code : Add(ErrorEntry(Head(walk.todo), code))
  BY <1>1, <1>2, <1>4, ErrorDocumented, AddDocuments
<1>5. CASE ~\E code : Add(ErrorEntry(Head(walk.todo), code))
  <2>1. file.doc \in 1..Len(StoryDocs)
    BY <1>1, <1>2, <1>3, <1>5, SourceTypes
  <2> HIDE DEF file
  <2>2. /\ walk'.story = file.doc /\ walk'.acceptance = walk.acceptance
        /\ walk'.decided = walk.decided /\ walk'.todo = walk.todo /\ walk'.pc = "idle"
    BY <1>2, <1>3, <1>5 DEF WalkFields
  <2>3. phase' = "acceptance" /\ UNCHANGED entries
    BY <1>3, <1>5
  <2>4. SourcesInv'
    BY <1>2, <2>1, <2>2, <2>3, TableSizes DEF Sources, SourcesInv
  <2> QED BY <1>1, <1>2, <2>2, <2>3, <2>4, MoreSources DEF CheckPhases
<1> QED BY <1>4, <1>5

\* Its acceptance document is read, or is an error.
LEMMA AcceptanceDocuments ==
    ASSUME IInv, DocumentsInv, ReadAcceptanceFile
    PROVE  DocumentsInv'
<1>1. phase = "acceptance" /\ UNCHANGED <<command, verdict>> /\ phase \in CheckPhases
  BY DEF ReadAcceptanceFile, Checking, OfCheck, CheckPhases
<1>2. /\ walk.todo # <<>> /\ DOMAIN walk = WalkFields /\ walk.pc = "idle" /\ Sources(walk)
      /\ walk.story > 0
  BY <1>1, CheckRuns DEF DocumentsInv, SubjectsInv, SourcesInv, CheckPhases
<1> DEFINE file == SourceOf("acceptance")
<1>3. \/ /\ Readable(file) /\ walk' = [walk EXCEPT !["acceptance"] = file.doc]
         /\ phase' = IF command.name = "story" THEN "decisions" ELSE "record"
         /\ UNCHANGED entries
      \/ \E code : Add(ErrorEntry(Head(walk.todo), code))
  BY Zenon DEF ReadAcceptanceFile, ReadRequired
<1>4. CASE \E code : Add(ErrorEntry(Head(walk.todo), code))
  BY <1>1, <1>2, <1>4, ErrorDocumented, AddDocuments
<1>5. CASE ~\E code : Add(ErrorEntry(Head(walk.todo), code))
  <2>1. file.doc \in 1..Len(AcceptanceDocs)
    BY <1>1, <1>2, <1>3, <1>5, SourceTypes
  <2> HIDE DEF file
  <2>2. /\ walk'.story = walk.story /\ walk'.acceptance = file.doc
        /\ walk'.decided = walk.decided /\ walk'.todo = walk.todo /\ walk'.pc = "idle"
    BY <1>2, <1>3, <1>5 DEF WalkFields
  <2>3. phase' \in {"decisions", "record"} /\ UNCHANGED entries
    BY <1>3, <1>5
  <2>4. SourcesInv'
    BY <1>2, <2>1, <2>2, <2>3, TableSizes DEF Sources, SourcesInv, HasBoth
  <2> QED BY <1>1, <1>2, <2>2, <2>3, <2>4, MoreSources DEF CheckPhases
<1> QED BY <1>4, <1>5

\* An entry of documents that were read.
LEMMA MadeOfSources ==
    ASSUME IInv, DocumentsInv, phase \in {"decisions", "record"},
           NEW kind \in {"plan", "record", "record-error", "story"}, NEW name,
           NEW record \in 0..Len(RecordDocs), NEW decided,
           kind = "story" => Usable(decided) /\ Decided(walk.story, decided)
    PROVE  Documented(Entry_(kind, name, "", walk.story, walk.acceptance, record, decided))
<1> DEFINE e == Entry_(kind, name, "", walk.story, walk.acceptance, record, decided)
<1>1. /\ e.kind = kind /\ e.story = walk.story /\ e.acceptance = walk.acceptance
      /\ e.record = record /\ e.decided = decided
  BY DEF Entry_
<1>2. /\ walk.story \in 1..Len(StoryDocs) /\ walk.acceptance \in 1..Len(AcceptanceDocs)
  BY TableSizes DEF DocumentsInv, SourcesInv, HasBoth
<1> HIDE DEF e
<1>3. Documented(e)
  BY <1>1, <1>2 DEF Documented
<1> QED BY <1>3 DEF e

\* Its decisions are read one by one, and then it is an entry.
LEMMA DecisionsDocuments ==
    ASSUME IInv, DocumentsInv, ReadDecisions
    PROVE  DocumentsInv'
<1> DEFINE wanted == ReadStoryDecisions(StoryDocs[walk.story]) \ DOMAIN walk.decided
           entry == Entry_("story", Head(walk.todo), "", walk.story, walk.acceptance, 0, walk.decided)
           Found(id) == IF Leads(Specs) /\ Leads(Stories)
                          THEN ReadDecision(Decisions, id, command.retired)
                          ELSE ReadDecision(Absent, id, command.retired)
<1>1. phase = "decisions" /\ UNCHANGED <<command, verdict>> /\ phase \in CheckPhases
  BY DEF ReadDecisions, Checking, OfCheck, CheckPhases
<1>2. /\ walk.todo # <<>> /\ DOMAIN walk = WalkFields /\ walk.pc = "idle" /\ Sources(walk) /\ TypeOK
      /\ walk.story > 0 /\ walk.acceptance > 0
  BY <1>1, CheckRuns DEF DocumentsInv, SubjectsInv, SourcesInv, HasBoth, CheckPhases
<1>3. \/ wanted = {} /\ Add(entry)
      \/ /\ \E id : walk' = [walk EXCEPT !.decided = Knowing(walk.decided, id, Found(id))]
         /\ UNCHANGED <<entries, phase>>
  BY Zenon DEF ReadDecisions
<1>4. CASE wanted = {} /\ Add(entry)
  <2>1. Usable(walk.decided) /\ Decided(walk.story, walk.decided)
    BY <1>2, <1>4 DEF Sources, Decided
  <2>2. Documented(entry)
    <3>1. 0 \in 0..Len(RecordDocs)
      BY TableSizes
    <3>2. \A name : Documented(Entry_("story", name, "", walk.story, walk.acceptance, 0, walk.decided))
      BY <1>1, <2>1, <3>1, MadeOfSources
    <3> QED BY <3>2
  <2> HIDE DEF entry
  <2> QED BY <1>1, <1>2, <1>4, <2>2, AddDocuments
<1>5. CASE ~(wanted = {} /\ Add(entry))
  <2>1. PICK id : walk' = [walk EXCEPT !.decided = Knowing(walk.decided, id, Found(id))]
    BY <1>3, <1>5
  <2>2. Use(ReadDecision(Decisions, id, command.retired))
    BY <1>2, TreeTypes, DecisionUsable
  <2>3. Use(ReadDecision(Absent, id, command.retired))
    <3>1. Absent.kind \notin {"directory", "symlink"}
      BY DEF Absent, File
    <3> QED BY <3>1, DecisionUsable
  <2>4. Use(Found(id))
    BY <2>2, <2>3
  <2> HIDE DEF Found
  <2> DEFINE known == Knowing(walk.decided, id, Found(id))
  <2>5. Usable(known)
    BY <1>2, <2>4, OneMoreDecision DEF Sources
  <2>6. walk' = [walk EXCEPT !.decided = known]
    BY <2>1
  <2> HIDE DEF known
  <2>7. /\ walk'.story = walk.story /\ walk'.acceptance = walk.acceptance
        /\ walk'.decided = known /\ walk'.todo = walk.todo /\ walk'.pc = "idle"
    BY <1>2, <2>6 DEF WalkFields
  <2>8. UNCHANGED <<entries, phase>>
    BY <1>3, <1>5
  <2>9. SourcesInv'
    BY <1>2, <2>5, <2>7, <2>8 DEF Sources, SourcesInv, HasBoth
  <2> QED BY <1>1, <1>2, <2>7, <2>8, <2>9, MoreSources
<1> QED BY <1>3, <1>4, <1>5

\* Or its record is read, and it is one.
LEMMA RecordDocuments ==
    ASSUME IInv, DocumentsInv, ReadRecord
    PROVE  DocumentsInv'
<1> DEFINE file == SourceOf("record")
           Of(kind, doc) == Entry_(kind, Head(walk.todo), "", walk.story, walk.acceptance, doc,
                                   NoDecisions)
           last == IF Readable(file) THEN file.doc ELSE 0
<1>1. phase = "record" /\ UNCHANGED <<command, verdict>> /\ phase \in CheckPhases
  BY DEF ReadRecord, Checking, OfCheck, CheckPhases
<1>2. walk.todo # <<>>
  BY <1>1 DEF DocumentsInv, SubjectsInv, CheckPhases
<1>3. (CASE ~command.record -> Add(Of("plan", 0))
         [] command.record /\ file.kind = "symlink" -> Add(Of("record-error", 0))
         [] command.record /\ file.kind # "symlink" -> Add(Of("record", last)))
  BY DEF ReadRecord
<1>4. last \in 0..Len(RecordDocs) /\ 0 \in 0..Len(RecordDocs)
  BY <1>1, <1>2, SourceTypes, TableSizes
<1> HIDE DEF file, last
<1>5. Documented(Of("plan", 0)) /\ Documented(Of("record-error", 0)) /\ Documented(Of("record", last))
  BY <1>1, <1>4, MadeOfSources
<1> HIDE DEF Of
<1>6. Add(Of("plan", 0)) \/ Add(Of("record-error", 0)) \/ Add(Of("record", last))
  BY <1>3
<1> QED BY <1>1, <1>2, <1>5, <1>6, AddDocuments

\* A check that passes recorded results has an entry for every subject.
LEMMA EndDocuments ==
    ASSUME IInv, DocumentsInv, EndCheck
    PROVE  DocumentsInv'
<1> DEFINE name == CASE command.name = "story" -> StoryOutcome(entries, command.ready)
                     [] command.name = "verification" /\ command.record -> RecordOutcome(entries)
                     [] OTHER -> PlanOutcome(entries)
<1>1. /\ phase = "subjects" /\ walk.todo = <<>> /\ UNCHANGED <<command, walk, entries>>
      /\ Report(Outcome(name))
  BY DEF EndCheck, Checking, OfCheck
<1>2. name = "VERIFICATION_PASS" => RecordOutcome(entries) = "VERIFICATION_PASS"
  BY OtherOutcomes
<1> HIDE DEF name
<1>3. CASE name # "VERIFICATION_PASS"
  BY <1>1, <1>3, ReportsOther
<1>4. CASE name = "VERIFICATION_PASS"
  <2>1. DOMAIN verdict = VerdictFields
    BY DEF IInv, TypeOK
  <2>2. phase' = "done"
    BY <1>1 DEF Report
  <2>3. Len(entries) \in Nat /\ Len(walk.todo) = 0
    BY <1>1 DEF IInv, TypeOK
  <2>4. command.subjects # <<>> => Len(entries) = Len(command.subjects)
    <3>1. command.subjects # <<>> => Len(entries) + Len(walk.todo) = Len(command.subjects)
      BY <1>1 DEF DocumentsInv, SubjectsInv, CheckPhases
    <3> QED BY <2>3, <3>1
  <2>5. PassInv'
    BY <1>1, <1>2, <1>4, <2>2, <2>4 DEF PassInv
  <2> QED BY <1>1, <2>2, <2>5, DocumentsStay DEF DocumentsInv, CheckPhases
<1> QED BY <1>3, <1>4

\* The handoff has no documents of Stories.
LEMMA CheckHandoffDocuments ==
    ASSUME IInv, DocumentsInv, CheckHandoff
    PROVE  DocumentsInv'
<1>1. UNCHANGED <<command, walk, entries>>
  BY DEF CheckHandoff, OfCheck
<1>2. \E file : Report(Outcome(HandoffOutcome(file)))
  BY Zenon DEF CheckHandoff
<1> QED BY <1>1, <1>2, OtherOutcomes, ReportsOther

\* Every step of the checks.
LEMMA ContractDocuments ==
    ASSUME IInv, DocumentsInv, Contracts
    PROVE  DocumentsInv'
  BY BeginDocuments, NextDocuments, StoryFileDocuments, AcceptanceDocuments, DecisionsDocuments,
     RecordDocuments, EndDocuments, CheckHandoffDocuments DEF Contracts

\* At first nothing was read.
LEMMA FirstDocuments ==
    ASSUME Init
    PROVE  DocumentsInv
<1>1. PICK case \in Cases : command = case.command
  BY DEF Init
<1>2. phase = "start" /\ walk = NoWalk /\ entries = <<>> /\ verdict = NoVerdict
  BY DEF Init
<1>3. command \in CommandType
  BY <1>1, CasesAssumption
<1>4. verdict.outcome = "none"
  BY <1>2, InitialRecords
<1>5. EntriesInv
  BY <1>2 DEF EntriesInv
<1>6. SourcesInv
  BY <1>2, NothingHeld, TableSizes DEF SourcesInv, HasBoth
<1>7. SubjectsInv
  BY <1>2, <1>3, NothingHeld DEF SubjectsInv, CheckPhases
<1>8. PassInv
  BY <1>4 DEF PassInv
<1> QED BY <1>5, <1>6, <1>7, <1>8 DEF DocumentsInv

\* Every step keeps it.
LEMMA DocumentsStep ==
    ASSUME IInv, DocumentsInv, [Next]_vars
    PROVE  DocumentsInv'
<1>1. CASE Swap
  BY <1>1, SwapDocuments
<1>2. CASE Doctor
  BY <1>2, DoctorDocuments
<1>3. CASE MakeVerify
  BY <1>3, ChildDocuments DEF MakeVerify, ChildActions
<1>4. CASE Contracts
  BY <1>4, ContractDocuments
<1>5. CASE UNCHANGED vars
  BY <1>5, DocumentsStay, PassStays DEF vars, DocumentsInv
<1> QED BY <1>1, <1>2, <1>3, <1>4, <1>5 DEF Next, Done

\* In every execution an entry is made of documents that were read, with every decision

\* its Story refers to, there is one for every subject, and a pass is the outcome of the
\* recorded results (story.ts, verification.ts, doctor.ts: the entries a verdict is from).
THEOREM DocumentsInvariance == Spec => []DocumentsInv
<1>1. Init => DocumentsInv
  BY FirstDocuments
<1>2. IInv /\ DocumentsInv /\ [Next]_vars => DocumentsInv'
  BY DocumentsStep
<1> QED BY <1>1, <1>2, ChecksInvariance, PTL DEF Spec

\* Whatever the documents are and however many, VERIFICATION_PASS is proven by those that

\* were read: every layer and criterion by a passing line, no line failing, no operation
\* used without authority (packages/core/src/verification.ts).
THEOREM PassIsProvenAlways == Spec => []PassIsProven
<1>1. DocumentsInv => PassIsProven
  BY PassHasProof DEF DocumentsInv
<1> QED BY <1>1, DocumentsInvariance, PTL

\* For all documents, asking for readiness changes nothing of what `story check` reports of

\* the default contract (story.ts:494-522).
THEOREM ReadinessKeepsStructureAlways == Spec => []ReadinessKeepsStructure
<1>1. DocumentsInv => ReadinessKeepsStructure
  BY StructureKept DEF DocumentsInv
<1> QED BY <1>1, DocumentsInvariance, PTL

\* For all documents, a Story `story check` finds nothing wrong with has a plan without

\* issues, of the same task mode, authority, risk level and architecture impact.
THEOREM ContractImpliesPlanAlways == Spec => []ContractImpliesPlan
<1>1. DocumentsInv => ContractImpliesPlan
  BY ContractHasPlan DEF DocumentsInv
<1> QED BY <1>1, DocumentsInvariance, PTL
=============================================================================
