---------------------------- MODULE RepositoryRules ----------------------------
(***************************************************************************)
(* How Doctor interprets what it observed of a repository                  *)
(* (packages/core/src/repository.ts).  An observation is the kind of a path, *)
(* whether it can be read and searched, and the lines of its text when they *)
(* were acquired; a blank text has no line.                                 *)
(***************************************************************************)
EXTENDS Naturals, Sequences, FiniteSets, SequencesExt

CONSTANT CheckoutVersion        \* IMPLEMENTED_PROTOCOL_VERSION

Observed_(kind, readable, searchable, got, text) ==
    [kind |-> kind, readable |-> readable, searchable |-> searchable, got |-> got, text |-> text]
Missing == Observed_("missing", FALSE, FALSE, FALSE, <<>>)
FileOf(text) == Observed_("file", TRUE, FALSE, TRUE, text)
Directory == Observed_("directory", TRUE, TRUE, FALSE, <<>>)
OfKind(kind) == Observed_(kind, FALSE, FALSE, FALSE, <<>>)

Acquired(o) == o.kind = "file" /\ o.readable /\ o.got

PathError(o) ==
    CASE o.kind = "symlink"       -> <<"REPOSITORY_PATH_SYMLINK">>
      [] o.kind = "unconfirmable" -> <<"REPOSITORY_PATH_UNCONFIRMABLE">>
      [] OTHER -> <<>>

RequiredFile(o) ==
    IF PathError(o) # <<>> THEN PathError(o)
    ELSE CASE o.kind = "missing" -> <<"REPOSITORY_REQUIRED_MISSING">>
           [] o.kind \notin {"missing", "file"} -> <<"REPOSITORY_REQUIRED_TYPE">>
           [] o.kind = "file" /\ ~o.readable -> <<"REPOSITORY_REQUIRED_UNREADABLE">>
           [] o.kind = "file" /\ o.readable /\ ~o.got -> <<"REPOSITORY_PATH_UNCONFIRMABLE">>
           [] Acquired(o) /\ o.text = <<>> -> <<"REPOSITORY_REQUIRED_BLANK">>
           [] OTHER -> <<>>

RequiredDirectory(o, readable) ==
    IF PathError(o) # <<>> THEN PathError(o)
    ELSE CASE o.kind = "missing" -> <<"REPOSITORY_REQUIRED_MISSING">>
           [] o.kind \notin {"missing", "directory"} -> <<"REPOSITORY_REQUIRED_TYPE">>
           [] o.kind = "directory" /\ (~o.searchable \/ (readable /\ ~o.readable)) ->
                <<"REPOSITORY_REQUIRED_UNREADABLE">>
           [] OTHER -> <<>>

-----------------------------------------------------------------------------
(* The Makefile clue: a literal verify rule outside recipes and definitions *)

Continues(line) == line \in {"plain\\", "rule\\"}
IsRule(line) == line \in {"rule", "rule\\"}

ScanMakefile(text) ==
    LET start == [continued |-> FALSE, depth |-> 0, limited |-> FALSE, found |-> FALSE]
        after[i \in 0..Len(text)] ==
            IF i = 0 THEN start
            ELSE LET s == after[i - 1]
                     line == text[i]
                 IN  IF s.depth > 0
                       THEN [s EXCEPT !.limited = TRUE,
                                      !.depth = CASE line = "define" -> @ + 1
                                                  [] line = "endef" -> @ - 1
                                                  [] OTHER -> @]
                     ELSE IF s.continued
                       THEN [s EXCEPT !.continued = Continues(line),
                                      !.limited = @ \/ Continues(line)]
                     ELSE [s EXCEPT !.continued = Continues(line),
                                    !.depth = IF line = "define" THEN 1 ELSE 0,
                                    !.limited = @ \/ Continues(line)
                                                  \/ line \in {"define", "include", "expands"},
                                    !.found = @ \/ IsRule(line)]
    IN  [clue |-> IF after[Len(text)].found THEN "FOUND" ELSE "UNCONFIRMED",
         limited |-> after[Len(text)].limited]

-----------------------------------------------------------------------------
(* The adoption markers *)

\* The version a marker records: the first line that states one.
VersionOf(text) == IF text = <<>> THEN "" ELSE text[1]

Adopted(marker) ==
    IF Acquired(marker) /\ VersionOf(marker.text) # "" THEN VersionOf(marker.text) ELSE "UNKNOWN"

MarkerIssues(marker) ==
    IF marker.kind = "missing" THEN <<>>
    ELSE IF ~Acquired(marker) THEN <<"REPOSITORY_MARKER_UNCONFIRMABLE">>
    ELSE IF VersionOf(marker.text) = "" THEN <<"REPOSITORY_MARKER_VERSION">>
    ELSE <<>>

LegacyMigrates(marker, legacy) ==
    legacy.kind # "missing" /\ marker.kind = "missing" /\ Acquired(legacy)
        /\ legacy.text = <<"0.9.0">>

LegacyIssues(marker, legacy) ==
    IF legacy.kind = "missing" \/ LegacyMigrates(marker, legacy) THEN <<>>
    ELSE IF marker.kind # "missing" THEN <<"REPOSITORY_MARKER_AMBIGUOUS">>
    ELSE IF ~Acquired(legacy) THEN <<"REPOSITORY_LEGACY_MARKER_UNCONFIRMABLE">>
    ELSE <<"REPOSITORY_LEGACY_MARKER_INVALID">>

-----------------------------------------------------------------------------
(* Composed contracts and guidance *)

Composed(observation, prefix) ==
    CASE observation = "error"       -> "ERROR"
      [] observation = "incomplete"  -> prefix \o "_CONTRACT_INCOMPLETE"
      [] observation = "not-present" -> "NOT_PRESENT"
      [] observation = "no-stories"  -> "NO_STORIES"
      [] observation = "ok"          -> prefix \o "_CONTRACT_OK"
      [] OTHER -> "NOT_CHECKED"

ComposedIssues(observation) ==
    IF observation = "error" THEN <<"REPOSITORY_COMPOSED_UNCONFIRMABLE">> ELSE <<>>

Guidance(directory, entry) ==
    CASE directory.kind = "missing" -> "NOT_PRESENT"
      [] directory.kind # "missing" /\ directory # Directory -> "ERROR"
      [] directory = Directory /\ entry.kind # "missing" /\ ~Acquired(entry) -> "ERROR"
      [] directory = Directory /\ Acquired(entry) /\ entry.text # <<>> -> "GUIDANCE_CONTRACT_OK"
      [] OTHER -> "GUIDANCE_CONTRACT_INCOMPLETE"

Detected(observations) ==
    IF \E o \in observations : o.kind # "missing" THEN "DETECTED" ELSE "NOT_PRESENT"

-----------------------------------------------------------------------------
\* The codes that say a required path could not be safely confirmed.
Unsafe == {"REPOSITORY_PATH_SYMLINK", "REPOSITORY_PATH_UNCONFIRMABLE",
           "REPOSITORY_REQUIRED_UNREADABLE"}

\* What a snapshot amounts to. Without the required structure nothing else is
\* judged; with it, any issue is an error and any incomplete contract a drift.
EvaluateRepositoryDoctor(snapshot) ==
    LET agents == RequiredFile(snapshot.agents)
        specs == RequiredDirectory(snapshot.specs, FALSE)
        stories == IF specs = <<>> THEN RequiredDirectory(snapshot.stories, TRUE) ELSE specs
        makefile == RequiredFile(snapshot.makefile)
        required == agents \o stories \o makefile
        Word(issues) == IF issues = <<>> THEN "OK" ELSE "INCOMPLETE"
        guidance == Guidance(snapshot.guidance, snapshot.guidanceEntry)
        later == MarkerIssues(snapshot.marker)
                   \o LegacyIssues(snapshot.marker, snapshot.legacy)
                   \o ComposedIssues(snapshot.story) \o ComposedIssues(snapshot.handoff)
                   \o (IF guidance = "ERROR" THEN <<"REPOSITORY_GUIDANCE_UNCONFIRMABLE">> ELSE <<>>)
        drift == \/ /\ Acquired(snapshot.marker)
                    /\ VersionOf(snapshot.marker.text) \notin {"", CheckoutVersion}
                 \/ LegacyMigrates(snapshot.marker, snapshot.legacy)
                 \/ "incomplete" \in {snapshot.story, snapshot.handoff}
                 \/ guidance = "GUIDANCE_CONTRACT_INCOMPLETE"
        clue == IF Acquired(snapshot.makefile) THEN ScanMakefile(snapshot.makefile.text)
                ELSE [clue |-> "UNCONFIRMED", limited |-> FALSE]
        confirmed == [agents |-> Word(agents), stories |-> Word(stories),
                      makefile |-> Word(makefile), verifyRule |-> clue.clue,
                      limited |-> clue.limited]
    IN  IF required # <<>>
          THEN [outcome |-> IF ToSet(required) \cap Unsafe # {} THEN "ERROR"
                            ELSE "STRUCTURE_INCOMPLETE",
                required |-> confirmed, issues |-> required,
                adopted |-> "UNKNOWN", story |-> "NOT_CHECKED", handoff |-> "NOT_CHECKED",
                guidance |-> "NOT_CHECKED", skills |-> "NOT_CHECKED", ci |-> "NOT_CHECKED",
                migration |-> FALSE]
          ELSE [outcome |-> IF later # <<>> THEN "ERROR"
                            ELSE IF drift THEN "CONTRACT_DRIFT" ELSE "STRUCTURE_OK",
                required |-> confirmed, issues |-> later,
                adopted |-> Adopted(snapshot.marker),
                story |-> Composed(snapshot.story, "STORY"),
                handoff |-> Composed(snapshot.handoff, "HANDOFF"),
                guidance |-> guidance,
                skills |-> Detected({snapshot.skills, snapshot.agentSkills}),
                ci |-> Detected({snapshot.github}),
                migration |-> LegacyMigrates(snapshot.marker, snapshot.legacy)]
=============================================================================
