-------------------------------- MODULE MCChecks --------------------------------
(***************************************************************************)
(* Small instances of Checks: a sound tree, and trees, documents and        *)
(* directories that deviate from it in one respect each.                    *)
(***************************************************************************)
EXTENDS Checks

MCTemplateWords == EvidencePlaceholders \cup {"<goal>"}
MCAcceptanceIds == {"AC-1", "AC-2", "AC-9"}
MCDecisionIds == {"ADR-1", "ADR-2", "ADR-3"}
MCNames == <<"PBT-1", "PBT-2-b", "notes">>
MCSegmentsOf == [n \in {"PBT-1", "PBT-2-b", "notes"} |->
    CASE n = "PBT-1" -> <<"A", "D">> [] n = "PBT-2-b" -> <<"A", "D", "x">> [] OTHER -> <<"x">>]

Sec(heading, lines) == <<Heading(2, heading)>> \o lines
Yes == Plain("yes")
No == Plain("no")

-----------------------------------------------------------------------------
(* Stories: named parts, one of which deviates *)

Sound ==
    [goal |-> Sec("## Goal", <<Prose(Plain("Ship"))>>),
     scope |-> Sec("## Scope", <<Entry(Plain("One file"))>>),
     class |-> Sec("## Classification", <<Decl("Security sensitive", No),
                     Decl("Baseline conformance", No), Decl("Task mode", Plain("execution"))>>),
     authority |-> Sec("## Authority", <<Decl("commit", Yes)>>),
     architecture |-> <<>>,
     risk |-> Sec("## Risk", <<Decl("Level", Plain("low"))>>),
     rest |-> <<>>]
Written(p) == <<Heading(1, "# Story")>> \o p.goal \o p.scope \o p.class \o p.authority
                \o p.architecture \o p.risk \o p.rest

Goals(lines) == Written([Sound EXCEPT !.goal = lines])
Classes(lines) == Written([Sound EXCEPT !.class = Sec("## Classification", lines)])
Grants(lines) == Written([Sound EXCEPT !.authority = Sec("## Authority", lines)])
Designs(lines) == Written([Sound EXCEPT !.architecture = Sec("## Architecture", lines)])
Risks(lines) == Written([Sound EXCEPT !.risk = Sec("## Risk", lines)])
Signals(signal, lines) ==
    Written([Sound EXCEPT !.risk = Sec("## Risk", <<Decl("Level", Plain("low")),
                                                    Decl("Signal", Quoted(signal))>>),
                          !.rest = lines])
Medium == <<Decl("Impact", Plain("medium")), Decl("Decision", Quoted("ADR-1"))>>
Capacity(evidence) ==
    Sec("## Capacity", <<Decl("Bounded resource", Quoted("queue")), Decl("Limit", Quoted("8")),
        Decl("Saturation behavior", Quoted("refuse")), Decl("Failure projection", Quoted("TBD")),
        Decl("Evidence AC", evidence)>>)
Sensitive(lines) ==
    Written([Sound EXCEPT !.class = Sec("## Classification", <<Decl("Security sensitive", Yes),
                                          Decl("Baseline conformance", Yes)>>), !.rest = lines])

MCStoryDocs == <<
    Written(Sound),                                                              \* 1
    Written([Sound EXCEPT !.architecture = Sec("## Architecture", Medium),
        !.risk = Sec("## Risk", <<Decl("Level", Plain("high")),
                                  Decl("Reason", Quoted("security"))>>)]),      \* 2
    Goals(<<>>),
    Goals(Sec("## Goal", <<Prose(Plain("TBD")), Heading(3, "### Notes")>>)),
    Goals(Sec("## Goal", <<Prose(Plain("TBD")), Heading(0, "#note")>>)),
    Goals(Sec("## Goal", <<Fence("tick", 3, TRUE), Prose(Plain("In a fence")), Fence("tick", 3, FALSE),
                           Fence("tick", 3, TRUE)>>)),
    Classes(<<Decl("Security sensitive", No)>>),
    Classes(<<Decl("Security sensitive", No), LooseDecl("Baseline conformance", No)>>),
    Classes(<<Decl("Security sensitive", No), Decl("Baseline conformance", Plain("maybe"))>>),
    Classes(<<Decl("Security sensitive", No), Decl("Baseline conformance", No),
              Decl("Task mode", Plain("evidence"))>>),                           \* 10
    Classes(<<Decl("Security sensitive", No), Decl("Baseline conformance", No),
              Decl("Task mode", Plain("mixed")), Decl("Task mode", Plain("evidence"))>>),
    Classes(<<Decl("Security sensitive", No), Decl("Baseline conformance", No),
              Decl("Task mode", Plain("other"))>>),
    Grants(<<Decl("commit", Yes), Decl("commit", No)>>),
    Grants(<<Decl("push", Yes), Entry(Plain("deploy"))>>),
    Grants(<<Decl("modify", No), Decl("deploy", Plain("maybe")), Decl("merge", Yes)>>),  \* 15
    Grants(<<Decl("commit", Yes), Heading(2, "## Authority"), Decl("push", Yes)>>),
    Designs(<<Decl("Impact", Plain("medium")), Decl("Decision", Quoted("ADR-2"))>>),
    Designs(<<Decl("Impact", Plain("medium"))>>),
    Designs(<<Decl("Impact", Plain("high")), Decl("Impact", Plain("low")),
              Decl("Contract", Quoted("api"))>>),
    Designs(<<Decl("Decision", Text("quoted", <<"ADR-1", "ADR-3">>)),
              Decl("Decision", Quoted("ADR-3"))>>),                              \* 20
    Designs(<<Decl("Decision", Quoted("ADR-x")), Decl("Contract", Plain("prose")),
              Decl("Colour", Quoted("red")), Entry(Plain("entry"))>>),
    Designs(<<Decl("Boundary", Quoted("cli")), Decl("Owner", Text("quoted", <<"cli", "=", "me">>)),
              Decl("Owner", Text("quoted", <<"core", "=", "me">>)),
              Decl("Owner", Quoted("cli")), Decl("Owner", Text("quoted", <<"cli", "=", "">>))>>),
    Risks(<<Decl("Level", Plain("medium"))>>),
    Risks(<<Decl("Level", Plain("medium")), Decl("Level", Plain("low"))>>),
    Risks(<<Decl("Level", Plain("low")), Decl("Reason", Quoted("payment"))>>),   \* 25
    Risks(<<Decl("Level", Plain("medium")), Decl("Reason", Plain("prose"))>>),
    Risks(<<Decl("Level", Plain("medium")), Decl("Reason", Quoted("cache"))>>),
    Risks(<<Decl("Level", Plain("huge")), Decl("Signal", Quoted("surprise")),
            Decl("Signal", Plain("concurrency")), Decl("Mood", Yes), Entry(Plain("entry"))>>),
    Signals("bounded-capacity", Capacity(Quoted("AC-1"))),
    Signals("bounded-capacity", Capacity(Quoted("AC-9"))),                       \* 30
    Signals("bounded-capacity", Capacity(Quoted("later"))),
    Signals("bounded-capacity", Capacity(Plain("AC-1"))),
    Signals("bounded-capacity", <<>>),
    Signals("error-projection", Sec("## Error Projection", <<Entry(Plain("entry")),
        Decl("Limit", Quoted("8")), Decl("Source failure", Quoted("io"))>>)),
    Signals("concurrency", <<>>),                                                \* 35
    Signals("retention-overflow", <<>>),
    Sensitive(Sec("## Trust Boundary Fields", <<Entry(Quoted("header"))>>)
                \o Sec("## Superseded Behavior", <<Entry(Quoted("old.test"))>>)),
    Sensitive(Sec("## Trust Boundary Fields", <<Entry(Plain("TBD"))>>)
                \o Sec("## Superseded Behavior", <<Entry(Plain("prose"))>>)),
    Sensitive(Sec("## Trust Boundary Fields", <<Entry(Text("span", <<"a", "b">>)),
                                                Entry(Plain("prose"))>>)),
    Written([Sound EXCEPT !.rest = Sec("## Superseded Behavior", <<>>)]),        \* 40
    Written([Sound EXCEPT !.architecture = Sec("## Architecture", <<Decl("Impact", Plain("medium")),
        Decl("Contract", Quoted("api"))>>)]),
    Written([Sound EXCEPT !.class = Sec("## Classification", <<Decl("Security sensitive", No),
        Decl("Baseline conformance", No), Decl("Task mode", Plain("evidence"))>>),
        !.authority = <<>>])
>>

-----------------------------------------------------------------------------
(* Acceptance documents *)

Criteria == <<Box("AC-1", Plain("Works")), Box("AC-2", Plain("Lasts"))>>
Header == Row("evidence header", <<>>)
Separator == Row("separator", <<>>)
Proof(cell) == <<cell, Plain("test"), Quoted("t"), Quoted("f"), Quoted("o"), Blank>>
Table(rows) == <<Heading(2, "## Acceptance Evidence"), Header, Separator>> \o rows
BothRows == <<Row("row", Proof(Quoted("AC-1"))), Row("row", Proof(Quoted("AC-2")))>>
Matrix(rows) == <<Heading(2, "## Security Fixture Matrix"), Row("matrix header", <<>>),
                  Separator>> \o rows
Fixture == <<Quoted("f"), Quoted("p"), Plain("reject"), Quoted("l"), Quoted("v"), Blank>>

MCAcceptanceDocs == <<
    Criteria \o Table(BothRows),                                                 \* 1
    Criteria,
    Table(BothRows),
    <<Box("AC-1", Plain("Works")), Box("AC-1", Plain("TBD"))>> \o Table(BothRows),
    Criteria \o Table(<<Row("row", Proof(Quoted("AC-1"))), Row("row", Proof(Quoted("AC-1"))),
                        Row("row", Proof(Plain("AC-2")))>>),                     \* 5
    Criteria \o <<Heading(2, "## Acceptance Evidence"), Row("other", <<>>), Row("other", <<>>)>>,
    Criteria \o Table(BothRows) \o Table(<<>>),
    Criteria \o Table(<<Row("row", <<Quoted("AC-9"), Plain("guess"), Plain("TBD"), Plain("prose"),
                                     Quoted("TBD"), Blank>>),
                        Row("row", <<Quoted("AC-1")>>),
                        Row("row", [Proof(Quoted("AC-2")) EXCEPT ![6] = Plain("more")])>>),
    Criteria \o Table(BothRows) \o Matrix(<<Row("row", Fixture)>>),              \* 9
    Criteria \o Table(BothRows) \o Matrix(<<>>),
    Criteria \o Table(BothRows)
      \o Matrix(<<Row("row", [Fixture EXCEPT ![1] = Plain("TBD"), ![2] = Plain("prose"),
                                             ![3] = Plain("ignore")]), Row("row", <<>>)>>),
    Criteria \o <<Heading(2, "## Security Fixture Matrix"), Row("other", <<>>), Row("other", <<>>)>>
>>

-----------------------------------------------------------------------------
(* Recorded results *)

Ran(layer) == Observed(layer, "pass", Quoted("make"))
Low == <<Ran("lint"), Ran("static"), Ran("unit")>>
All == Low \o <<Ran("integration"), Ran("contract"), Ran("e2e"), Ran("architecture")>>
Seen == <<Evidence("AC-1", "pass", Quoted("t")), Evidence("AC-2", "pass", Quoted("t"))>>
Result(checks, evidence, rest) == Sec("## Checks", checks) \o Sec("## Evidence", evidence) \o rest
Used(op) == Sec("## Authority Used", <<Entry(Plain(op))>>)
Left == Sec("## Residual Risks", <<Entry(Quoted("slow"))>>)

MCRecordDocs == <<
    Result(Low, Seen, <<>>),                                                     \* 1
    Result(All, Seen, Used("commit")),
    Result(All, Seen, Used("deploy")),
    Result(All, Seen, Used("add_dependency")),
    Result(<<Ran("lint"), Ran("static")>>, Seen, Left),                          \* 5
    Result(<<Ran("lint"), Ran("static")>>, Seen, <<>>),
    Result(Low, <<Evidence("AC-1", "pass", Quoted("t"))>>, Left),
    Result(Low \o <<Observed("e2e", "fail", Quoted("x"))>>, Seen, <<>>),
    Result(<<Observed("lint", "skipped", Quoted("x"))>> \o Low, Seen, Left),
    Result(<<Observed("lint", "skipped", Quoted("x")), Ran("static"), Ran("unit")>>, Seen, Left), \* 10
    Result(Low, <<Evidence("AC-1", "blocked", Quoted("t")), Evidence("AC-2", "pass", Quoted("t"))>>,
           Left),
    Result(Low \o <<Ran("style"), Entry(Plain("entry")), Observed("e2e", "pass", Plain("prose"))>>,
           <<Evidence("AC-9", "pass", Quoted("t")), Observed("AC-1", "pass", Quoted("t"))>>, <<>>),
    Sec("## Checks", Low), Sec("## Evidence", Seen),
    Result(Low, Seen, Used("dance") \o Sec("## Residual Risks", <<Entry(Plain("prose"))>>)),  \* 15
    Result(Low, <<Evidence("AC-1", "fail", Quoted("t")), Evidence("AC-2", "pass", Quoted("t"))>>,
           <<>>)
>>

MCDecisionDocs == <<
    <<Decl("Status", Plain("accepted"))>>, <<Decl("Status", Plain("proposed"))>>,
    <<Decl("Status", Plain("rejected"))>>, <<>>,
    <<Decl("Status", Plain("accepted")), Decl("Status", Plain("proposed"))>>,
    <<Decl("Status", Plain("maybe"))>>
>>

-----------------------------------------------------------------------------
(* Handoffs *)

Story1 == Pair("story", Scalar("id", <<"A", "D">>))
At(parts) == Pair("recorded_at", Scalar("timestamp", parts))
Base == <<YamlSection("handoff"), Story1, At(<<12, 31, 23, 59, 59>>),
          Pair("repository", Scalar("word", <<>>)), Pair("revision", Scalar("hexadecimal", <<40>>)),
          YamlSection("verification"), Pair("command", Scalar("word", <<>>)),
          Pair("result", Scalar("pass", <<>>))>>
Block(lines) == <<Yaml("other"), Yaml("open")>> \o lines \o <<Yaml("close")>>
MCHandoffDocs == <<
    Block(Base),
    <<Yaml("open")>> \o Base,
    <<Yaml("other")>>,
    Block(Base) \o Block(Base),
    Block([Base EXCEPT ![3] = At(<<13, 1, 0, 0, 0>>)]),                          \* 5
    Block([Base EXCEPT ![2] = Pair("story", Scalar("id", <<"A", "x">>)),
                       ![5] = Pair("revision", Scalar("hexadecimal", <<39>>))]),
    Block([Base EXCEPT ![4] = Pair("repository", Scalar("boolean", <<>>)),
                       ![8] = Pair("result", Scalar("maybe", <<>>))]),
    Block([Base EXCEPT ![7] = Pair("command", [Scalar("word", <<>>) EXCEPT !.led = TRUE])]),
    Block(<<Story1>> \o Base),
    Block(Base \o <<Pair("story", Scalar("id", <<"A", "D">>))>>),                \* 10
    Block(SubSeq(Base, 1, 5) \o <<YamlSection("verification"), Yaml("break")>> \o SubSeq(Base, 7, 8)
            \o <<YamlSection("workflow"), Pair("state", Scalar("word", <<>>))>>),
    Block(Base \o <<Yaml("list"), Yaml("deep"), Yaml("other"), Yaml("blank"), Yaml("open"),
                    YamlSection("baseline"), YamlSection("notes"),
                    Pair("x", Scalar("word", <<>>))>>)
>>

-----------------------------------------------------------------------------
(* Trees *)

Dir(ino, s, a, r) ==
    [kind |-> "directory", ino |-> ino, story |-> Plainly(s), acceptance |-> Plainly(a),
     record |-> Plainly(r)]
NoDir == [Dir(0, 1, 1, 1) EXCEPT !.kind = "missing"]
Dirs(first, second, third) ==
    [n \in ToSet(MCNames) |-> CASE n = "PBT-1" -> first [] n = "PBT-2-b" -> second [] OTHER -> third]
Accepted == [id \in {"ADR-1", "ADR-2", "ADR-3"} |-> IF id = "ADR-2" THEN <<>> ELSE <<Plainly(1)>>]
Tops ==
    [agents |-> FileOf(<<"guide">>), makefile |-> FileOf(<<"include", "rule">>),
     guidance |-> Directory, guidanceEntry |-> FileOf(<<"entry">>), skills |-> Directory,
     agentSkills |-> Missing, github |-> Missing]
Tree(dirs) ==
    [root |-> "directory", top |-> Tops,
     specs |-> [kind |-> "directory", ino |-> 1, marker |-> FileOf(<<CheckoutVersion>>),
                legacy |-> Missing, handoff |-> Plainly(1),
                stories |-> [kind |-> "directory", ino |-> 2, dirs |-> dirs],
                decisions |-> [kind |-> "directory", ino |-> 3, records |-> Accepted]]]
One(s, a, r) == Tree(Dirs(Dir(4, s, a, r), NoDir, NoDir))
Two == Tree(Dirs(Dir(4, 2, 1, 2), Dir(5, 1, 1, 1), NoDir))

\* What deviates at the top, under specs/, and in one Story directory.
TopTrees ==
    {[One(1, 1, 1) EXCEPT !.top.agents = o] : o \in {Missing, FileOf(<<>>), OfKind("symlink"),
        OfKind("other"), OfKind("file"), OfKind("unconfirmable"),
        [FileOf(<<>>) EXCEPT !.got = FALSE]}}
    \cup {[One(1, 1, 1) EXCEPT !.top.makefile = FileOf(lines)] : lines \in {<<"plain">>,
            <<"define", "rule", "define", "endef", "endef", "rule">>, <<"plain\\", "rule">>,
            <<"rule\\">>}}
    \cup {[One(1, 1, 1) EXCEPT !.top.guidance = o] : o \in {Missing, OfKind("directory"),
            OfKind("symlink")}}
    \cup {[One(1, 1, 1) EXCEPT !.top.guidanceEntry = o] : o \in {Missing, FileOf(<<>>),
            OfKind("symlink")}}
    \cup {[One(1, 1, 1) EXCEPT !.root = "file"]}
SpecsTrees ==
    {[One(1, 1, 1) EXCEPT !.specs.kind = k] : k \in {"missing", "symlink", "locked", "other"}}
    \cup {[One(1, 1, 1) EXCEPT !.specs.stories.kind = k] : k \in {"missing", "symlink", "locked"}}
    \cup {[One(1, 1, 1) EXCEPT !.specs.marker = o] : o \in {Missing, FileOf(<<"0.1.0">>),
            FileOf(<<"">>), OfKind("symlink"), OfKind("file")}}
    \cup {[One(1, 1, 1) EXCEPT !.specs.legacy = FileOf(<<"0.9.0">>), !.specs.marker = m] :
            m \in {Missing, FileOf(<<CheckoutVersion>>)}}
    \cup {[One(1, 1, 1) EXCEPT !.specs.legacy = o, !.specs.marker = Missing] :
            o \in {FileOf(<<"0.8.0">>), OfKind("symlink")}}
    \cup {[One(1, 1, 1) EXCEPT !.specs.handoff = f] : f \in {Absent, Plainly(0), File("symlink", 1)}
            \cup {Plainly(d) : d \in 2..Len(MCHandoffDocs)}}
DecisionTrees ==
    {[One(2, 1, 2) EXCEPT !.specs.decisions.records["ADR-1"] = files] :
        files \in {<<>>, <<Plainly(1), Plainly(1)>>, <<File("locked", 0)>>, <<File("symlink", 1)>>}
          \cup {<<Plainly(d)>> : d \in 2..Len(MCDecisionDocs)}}
    \cup {[One(2, 1, 2) EXCEPT !.specs.decisions.kind = k] : k \in {"missing", "symlink"}}
DirTrees ==
    {Tree(Dirs(d, Dir(5, 1, 1, 1), NoDir)) : d \in
        {[Dir(4, 1, 1, 1) EXCEPT !.kind = k] : k \in {"symlink", "other", "missing"}}
          \cup {[Dir(4, 1, 1, 1) EXCEPT !.story = f] : f \in {Absent, Plainly(0), File("symlink", 1)}}
          \cup {[Dir(4, 1, 1, 1) EXCEPT !.record = f] : f \in {Absent, File("symlink", 1)}}}
    \cup {Tree(Dirs(NoDir, NoDir, NoDir)), Tree(Dirs(Dir(4, 1, 1, 1), NoDir, Dir(6, 1, 1, 1)))}
StoryTrees == {One(s, 1, 1) : s \in 1..Len(MCStoryDocs)}
AcceptanceTrees == {One(1, a, 1) : a \in 1..Len(MCAcceptanceDocs)}
                     \cup {One(s, a, 1) : s \in {30, 37, 38}, a \in 7..Len(MCAcceptanceDocs)}
RecordTrees == {One(s, 1, r) : s \in {1, 2, 10, 15, 27, 41}, r \in 1..Len(MCRecordDocs)}
                 \cup {One(1, 2, 1), One(1, 4, 1)}

Command(name, ready, record, subjects) ==
    [name |-> name, ready |-> ready, record |-> record, retired |-> FALSE, subjects |-> subjects]
Given(commands, trees, n) == [command : commands, disk : trees, swaps : {n}]
DoctorOnly == {Command("doctor", FALSE, FALSE, <<>>)}
StoryOnly == {Command("story", ready, FALSE, <<>>) : ready \in BOOLEAN}
RecordOnly == {Command("verification", FALSE, TRUE, <<>>)}
Named == {Command("story", FALSE, FALSE, <<"PBT-1", "notes">>),
          Command("verification", FALSE, TRUE, <<"PBT-1", "PBT-2-b">>),
          Command("verification", FALSE, FALSE, <<"PBT-1">>)}

MCCases ==
    Given(DoctorOnly, TopTrees \cup SpecsTrees \cup DecisionTrees \cup DirTrees \cup StoryTrees, 0)
    \cup Given(DoctorOnly, {Two, One(2, 1, 2)}, 1)
    \cup Given({Command("run-verify", FALSE, FALSE, <<>>)},
               {One(1, 1, 1), [One(1, 1, 1) EXCEPT !.top.makefile = Missing]}, 0)
    \cup Given(StoryOnly, StoryTrees \cup AcceptanceTrees \cup DecisionTrees \cup DirTrees, 0)
    \cup Given({[c EXCEPT !.retired = TRUE] : c \in StoryOnly}, {One(2, 1, 1)}, 0)
    \cup Given(RecordOnly, RecordTrees \cup StoryTrees \cup DirTrees \cup {Two}, 0)
    \cup Given(Named, {Two, One(1, 1, 1)}, 1)
    \cup Given({Command("handoff", FALSE, FALSE, <<>>)}, SpecsTrees, 0)
    \cup Given(StoryOnly \cup RecordOnly, {[Two EXCEPT !.specs.kind = "missing"]}, 0)

\* A Story directory that deviates, to be put in the place of a sound one.
MCOthers == {Dir(0, 3, 1, 5), Dir(0, 13, 1, 1)}
=============================================================================
