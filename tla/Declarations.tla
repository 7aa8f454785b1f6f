------------------------------ MODULE Declarations ------------------------------
(***************************************************************************)
(* The Markdown subset every contract reader shares                        *)
(* (packages/core/src/declarations.ts and story-literals.ts): which lines  *)
(* are content, which bullets a section holds, and which values count as   *)
(* stated.                                                                  *)
(*                                                                         *)
(* A document is a sequence of lines, already trimmed.  A line is told by  *)
(* what the readers look at: a heading (its text and level), a bullet that *)
(* is or is not a declaration, a checkbox, a table row, a fence or prose.  *)
(* A value is the words it is made of and how it is quoted: "quoted" when  *)
(* the whole value is one backticked span, "span" when it only holds one.  *)
(***************************************************************************)
EXTENDS Naturals, Sequences, FiniteSets, SequencesExt

Text(how, words) == [q |-> how, s |-> words]
Plain(word)  == Text("prose", <<word>>)
Quoted(word) == Text("quoted", <<word>>)
Blank == Text("prose", <<>>)

Line(type, name, value, n, exact, cells) ==
    [t |-> type, h |-> name, v |-> value, n |-> n, exact |-> exact, cells |-> cells]
Heading(level, name) == Line("heading", name, Blank, level, TRUE, <<>>)
Decl(label, value)   == Line("decl", label, value, 0, TRUE, <<>>)
LooseDecl(label, value) == Line("decl", label, value, 0, FALSE, <<>>)
Entry(value)         == Line("entry", "", value, 0, TRUE, <<>>)
Box(id, value)       == Line("box", id, value, 0, TRUE, <<>>)
Row(name, cells)     == Line("row", name, Blank, 0, TRUE, cells)
Fence(char, run, bare) == Line("fence", char, Blank, run, bare, <<>>)
Prose(value)         == Line("prose", "", value, 0, TRUE, <<>>)

\* What a document is made of.
TextType == [q : {"prose", "quoted", "span"}, s : Seq(STRING)]
LineType == [t : STRING, h : STRING, v : TextType, n : Nat, exact : BOOLEAN, cells : Seq(TextType)]
DocType == Seq(LineType)

-----------------------------------------------------------------------------
(* Selections *)

\* The elements at the chosen positions, in order.
Picked(seq, chosen) ==
    LET upTo[i \in 0..Len(seq)] ==
            IF i = 0 THEN <<>>
            ELSE IF i \in chosen THEN Append(upTo[i - 1], seq[i]) ELSE upTo[i - 1]
    IN  upTo[Len(seq)]

\* The elements that pass a test: SelectSeq, told by the positions it keeps.
Where(seq, Test(_)) == Picked(seq, {i \in 1..Len(seq) : Test(seq[i])})

-----------------------------------------------------------------------------
(* Fences and sections *)

NoFence == [char |-> "", run |-> 0]

\* What a line does to the fence that is open before it: a run of three opens
\* one, a bare run at least as long of the same character closes it.
FenceAfter(open, line) ==
    IF open = NoFence
      THEN IF line.t = "fence" /\ line.n >= 3 THEN [char |-> line.h, run |-> line.n]
                                              ELSE NoFence
      ELSE IF line.t = "fence" /\ line.h = open.char /\ line.n >= open.run /\ line.exact
             THEN NoFence ELSE open

\* The fence that is open after each line.
OpenFences(source) ==
    LET open[i \in 0..Len(source)] ==
            IF i = 0 THEN NoFence ELSE FenceAfter(open[i - 1], source[i])
    IN  open

LinesOutside(source, open) ==
    Picked(source, {i \in 1..Len(source) : NoFence = open[i - 1] /\ NoFence = open[i]})

\* The lines outside every fenced block.
ContentLines(source) == LinesOutside(source, OpenFences(source))

IsBullet(line) == line.t \in {"decl", "entry", "box"}

\* The heading every line is under: the last one before it, of whatever level.
HeadingsOver(content) ==
    LET over[i \in 0..Len(content)] ==
            IF i = 0 THEN "" ELSE IF content[i].t = "heading" THEN content[i].h ELSE over[i - 1]
    IN  over

LinesWith(content, over, heading) ==
    Picked(content, {i \in 1..Len(content) : content[i].t # "heading" /\ over[i] = heading})

\* The lines under a heading, in document order.
LinesUnder(content, heading) == LinesWith(content, HeadingsOver(content), heading)

SectionOf(content, heading) ==
    [count |-> Cardinality({i \in 1..Len(content) :
                    content[i].t = "heading" /\ content[i].h = heading}),
     entries |-> Where(LinesUnder(content, heading), IsBullet)]

\* Every bullet of every occurrence of a section, and how often it is declared.
Section(source, heading) == SectionOf(ContentLines(source), heading)

IsDecl(entry) == entry.t = "decl"

\* The values a section declares for a label.
Values(entries, label) ==
    LET those == Where(entries, LAMBDA e : IsDecl(e) /\ e.h = label)
    IN  [k \in 1..Len(those) |-> those[k].v]

\* The strict reader: one space after the marker, one after the colon, a value.
StrictValues(lines, label) ==
    Values(Where(lines, LAMBDA l : IsDecl(l) /\ l.exact /\ l.v # Blank), label)

-----------------------------------------------------------------------------
(* Literals and placeholders: three lists, two predicates *)

DeclarationPlaceholders == {"*", "-", "TBD", "tbd", "TODO", "todo", "N/A", "n/a", "..."}
EvidencePlaceholders ==
    DeclarationPlaceholders
      \cup {"<evidence>", "<fixture>", "<fixture / precondition>", "<expected observation>"}

\* The words that are unfilled template cells, written <like this>.
CONSTANT TemplateWords
ASSUME TemplateAssumption ==
    {"<evidence>", "<fixture>", "<fixture / precondition>", "<expected observation>"}
        \subseteq TemplateWords

OneOf(value, words) == value.s \in {<<w>> : w \in words}

StructuredLiteral(value) == value.q = "quoted"
ExactLiteral(value) == value.q = "quoted" /\ ~OneOf(value, DeclarationPlaceholders)
ExactValue(value)   == value.q = "quoted" /\ ~OneOf(value, EvidencePlaceholders)
HasLiteral(value)   == value.q \in {"quoted", "span"}
IsPlaceholder(value) ==
    value.q = "prose" /\ (value.s = <<>>
        \/ OneOf(value, {"*", "-", "TBD", "tbd", "N/A", "n/a"} \cup TemplateWords))

-----------------------------------------------------------------------------
\* The codes a reader reports, one after the other.
Flag(condition, code) == IF condition THEN <<code>> ELSE <<>>

\* The codes of every element of a sequence, in order.
Codes(entries, Of(_)) == FlattenSeq([i \in 1..Len(entries) |-> Of(i)])

Levels == {"low", "medium", "high"}
TaskModes == {"architecture", "execution", "evidence", "mixed"}

\* Every operation a Story can grant.
Operations == {"plan", "modify", "add_dependency", "migration", "commit", "push", "deploy"}

IsWord(value, words) == value.q = "prose" /\ OneOf(value, words)
=============================================================================
