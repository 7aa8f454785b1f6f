----------------------------- MODULE MCInitMutation -----------------------------
(***************************************************************************)
(* A small target for InitMutation: two managed directories, one inside the *)
(* other, a Story template in the inner one (every mode), AGENTS.md in the   *)
(* root (safe and force only), and the two adoption markers.                 *)
(***************************************************************************)
EXTENDS InitInvariant

CONSTANTS specs, template, agents, story, marker, legacy

MCFreshDirectories   == <<specs, template>>
MCUpgradeDirectories == <<specs, template>>
MCFreshPayloads      == <<agents, story>>
MCUpgradePayloads    == <<story>>
MCParent == [x \in {agents, story, marker, legacy, specs, template} |->
               CASE x = agents -> Root
                 [] x = story -> template
                 [] x = specs -> Root
                 [] OTHER -> specs]

\* A smaller target, for the runs in which somebody else edits it.
MCOneDirectory == <<specs>>
MCOnePayload   == <<story>>
MCOneParent == [x \in {story, marker, legacy, specs} |->
                  IF x = specs THEN Root ELSE specs]
=============================================================================
