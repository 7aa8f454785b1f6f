----------------------------- MODULE AdoptionMarker -----------------------------
(***************************************************************************)
(* What an installation promises to somebody who reads the target while it   *)
(* runs, or after it died: the new adoption marker is published only when    *)
(* nothing is pending any more, nothing is taken back while it vouches, and   *)
(* the verdict that ends the installation is true.                           *)
(***************************************************************************)
CONSTANTS Managed, Marker

VARIABLES
  altered,     \* managed paths that are not as they were before
  pending,     \* payload destinations that are not installed yet
  vouched,     \* the new marker is on disk
  distrusted,  \* the installation has declared the marker untrustworthy
  verdict

vars == <<altered, pending, vouched, distrusted, verdict>>

Init ==
  /\ altered = {} /\ pending = {}
  /\ vouched = FALSE /\ distrusted = FALSE
  /\ verdict = "none"

\* The installation decides what it is going to replace.
Begin ==
  /\ verdict = "none"
  /\ altered = {} /\ pending = {}
  /\ pending' \in SUBSET (Managed \ {Marker})
  /\ UNCHANGED <<altered, vouched, distrusted, verdict>>

\* A payload gets in place; a payload equal to the original alters nothing.
Replace(p) ==
  /\ verdict = "none"
  /\ p # Marker /\ ~vouched
  /\ pending' = pending \ {p}
  /\ altered' \in {altered, altered \cup {p}}
  /\ UNCHANGED <<vouched, distrusted, verdict>>

\* The marker is published last.
Publish ==
  /\ verdict = "none"
  /\ pending = {}
  /\ vouched' = TRUE
  /\ altered' = altered \cup {Marker}
  /\ UNCHANGED <<pending, distrusted, verdict>>

\* The marker is restored or removed, or declared untrustworthy.
Retract ==
  /\ verdict = "none"
  /\ \/ vouched' = FALSE /\ UNCHANGED distrusted
     \/ vouched' \in {vouched, FALSE} /\ distrusted' = TRUE
  /\ altered' \in {altered, altered \ {Marker}, altered \cup {Marker}}
  /\ UNCHANGED <<pending, verdict>>

\* A payload is taken back, which a trusted marker forbids.
Restore(p) ==
  /\ verdict = "none"
  /\ p # Marker /\ (~vouched \/ distrusted)
  /\ altered' = altered \ {p}
  /\ pending' \in {pending, pending \cup {p}}
  /\ UNCHANGED <<vouched, distrusted, verdict>>

Conclude ==
  /\ verdict = "none"
  /\ verdict' \in {"installed", "unchanged", "incomplete"}
  /\ verdict' = "installed" => pending = {} /\ ~distrusted
  /\ verdict' = "unchanged" => altered = {} /\ ~vouched
  /\ UNCHANGED <<altered, pending, vouched, distrusted>>

Next ==
  \/ Begin \/ Publish \/ Retract \/ Conclude
  \/ \E p \in Managed : Replace(p) \/ Restore(p)

Spec == Init /\ [][Next]_vars
=============================================================================
