--------------------------- MODULE MCReviewRecords ---------------------------
(***************************************************************************)
(* Small instances of ReviewRecords: a few requests that supersede one      *)
(* another, sheets that carry them, and the responses to these sheets.      *)
(***************************************************************************)
EXTENDS RecordsInvariant, TLC

CONSTANTS i1, i2, i3, r1, r2, c1, c2, a, b, c, f1, f2, f3, x1, x2, x3, x4, text

Revision(id, blocks, replaces) ==
  [id |-> id, blocking |-> blocks, supersedes |-> replaces, body |-> text]

A  == Revision(a, TRUE, NoId)
BA == Revision(b, FALSE, a)   \* b replaces a
CA == Revision(c, FALSE, a)   \* c replaces a as well
CB == Revision(c, FALSE, b)   \* c replaces b

Sheet(x, R) == [fp |-> f1, prefix |-> x, revisions |-> R]

S1 == Sheet(x1, {A})
S2 == Sheet(x2, {A, BA})      \* the page exports what it has each time
S3 == Sheet(x3, {A, CA})
S4 == Sheet(x4, {CB})
S5 == Sheet(x2, {BA})

Answer(id, outcome) == [id |-> id, outcome |-> outcome, located |-> TRUE]
Response(S, to, answers) == [sheets |-> S, from |-> f1, to |-> to, answers |-> answers]

R1 == Response({S1}, f2, {Answer(a, "incorporated")})
R2 == Response({S1, S5}, f2, {Answer(b, "not-incorporated")})
R4 == Response({S1}, f2, {})   \* an answer was forgotten
R3 == Response({S1}, f1, {Answer(a, "needs-decision")})

\* f3 abbreviates to the same digits as f2.
MCPrefixOf == [f \in Fingerprints |-> IF f = f1 THEN x1 ELSE x2]

CommandOf(p) ==
  IF p \in {i1, i2, i3} THEN "import" ELSE IF p \in {r1, r2} THEN "respond" ELSE "confirm"
MCCommand == [p \in Procs |-> CommandOf(p)]

RaceSheets      == {S1, S5}
RaceResponses   == {R1, R2, R4}
OneSheet        == {S1}
NumberResponses == {R \in {R1, R3} : {R.from, R.to} \subseteq Fingerprints}
NoResponses     == {}

Importers  == Permutations({i1, i2})
Confirmers == Permutations({c1, c2})
=============================================================================
