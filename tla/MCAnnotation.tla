---------------------------- MODULE MCAnnotation ----------------------------
(***************************************************************************)
(* Small instances of AnnotationPage: ids are numbers, 0 is no id, the page   *)
(* makes 1, 2, ... and the ids from 8 on come from elsewhere.                 *)
(***************************************************************************)
EXTENDS AnnotationInvariant

CONSTANTS a, b, bad, f1, f2, t1

MCNewId(n) == n

Revision(id, body, page0, replaces) ==
  [id |-> id, body |-> body, fingerprint |-> page0, supersedes |-> replaces]

Entry(id, body, replaces, exported) ==
  WithFlags(Revision(id, body, f1, replaces), exported, FALSE)

\* A cycle and an invalid entry, two claims of one target, a draft that is replaced.
Cycle     == <<Entry(8, a, 9, TRUE), Entry(9, a, 8, TRUE), Entry(10, bad, 0, TRUE)>>
TwoClaims == <<Entry(8, a, 0, TRUE), Entry(9, a, 8, TRUE), Entry(10, a, 8, TRUE)>>
EarlyEdit == <<Entry(8, a, 0, FALSE), Entry(9, a, 8, FALSE), Entry(10, a, 9, FALSE)>>

\* Written on the page of f1, so they belong under its key.
MCPlanted ==
  [f \in {f1, f2} |->
     IF f = f1 THEN {Unreadable, Draft(Cycle), Draft(TwoClaims), Draft(EarlyEdit)}
     ELSE {}]
NothingPlanted == [f \in {f1, f2} |-> {}]

\* From the page as it was before, two versions; a later version alone; another text for
\* the first version, twice.
MCGivenSheets ==
  {<<Revision(8, a, f2, 0), Revision(9, a, f2, 8)>>,
   <<Revision(10, a, f1, 8)>>,
   <<Revision(8, b, f2, 0), Revision(8, b, f2, 0)>>}
NoSheets == {}
=============================================================================
