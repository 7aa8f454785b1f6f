# PraxisBound: verification project

PraxisBound is a command-line tool (`packages/cli`, with its pure half in
`packages/core`) that installs a specification workflow into a repository and
reviews, verifies and hands off the Stories written in it. Nearly everything it
does is a function of files it reads. What makes it hard to get right is what it
does to those files: every command that writes is a small transaction on a
directory that other people and other runs of the tool work in at the same time,
with operating system calls that fail and a process that can be interrupted or
killed between any two of them.

This directory holds TLA+ models of those transactions, TLC configurations that
check them on small instances, and theorems about them that TLAPS checks for
every value of the constants.

## 1. The system

Each part below lists its state, its operations, what it interacts with, what is
hard about it, and what makes it correct. `PROJECT.json` lists the sources of
each part, and under `hazards` the lines where the hard parts bite.

**Init transaction** (`core/src/init.ts`, `core/src/mutation.ts`, `cli/src/init*.ts`).
State: the target's managed directories, payload files and two adoption markers;
the staging directory of each effect (its backup `original` and its `payload`);
the plan; the lists of prepared, attempted, applied, restored and unrecovered
effects. Operations: observe, plan (`safe`, `force`, `upgrade`), make directories,
stage, back up, recapture, replace, recover, invalidate the marker, clean up,
evaluate. Interacts with Node's signals (a flag that is polled) and with whoever
edits the target. Hard: a failure after some files were replaced, a second failure
while restoring, a kill anywhere, edits between check and use. Correct when no
original is lost, the marker never vouches for a partial snapshot, and the verdict
is true.

**Activation transaction** (`core/src/activation.ts`, `cli/src/activation*.ts`).
State: the managed section of `AGENTS.md`, the skill, the workflow and the
activation snapshot, the legacy files of an earlier ForgeFlow activation, their
directories and stages, a scratch directory outside the target. The protocol of Init
with the snapshot as the last effect; a later run judges a half-made activation by all
of the files. Backups are verified against the observed digest. A legacy directory
is removed inside the transaction after the last effect, and made again when that
fails. Correct when a result still holds as the activation is planned again, and a
migration is all or nothing.

**Readiness digests** (`cli/src/review-readiness-digests.ts`, `review-readiness.ts`,
`review-paths.ts`). State: `readiness.json` next to each Story, temporary files
beside them, what one run has read. Operations: read the batch, validate, plan,
stage, re-check, rename, clean up, read again. Interacts with authors who edit
Stories and sidecars and with other runs. Hard: several files, one decision, no
lock. Correct when no run rewrites from a stale reading, a run that succeeds leaves
fresh digests, and a partial rewrite is named.

**Record store and record commands** (`review-records.ts`, `review-import.ts`,
`review-respond.ts`, `review-confirm*.ts`, `core/src/review/revision-*.ts`,
`confirmation.ts`). State: an append-only directory of sheets, responses and
confirmations. Operations: exclusive creation by linking a temporary file; import,
respond and confirm as read-validate-write. Hard: the set is validated before the
link and two commands may both pass; a confirmation waits for a human between its
check and its write; a kill between link and unlink.

**Preflight, goal plan and observation** (`review-preflight.ts`, `review-goal-plan.ts`,
`review-observe.ts`, `review-git.ts`). State: preflight reports and observations among
the records, and three artifacts per plan. Operations: a gate over sources, records,
confirmation, Stories, semantic report and Git, which are read one after the other; a
report; a second reading before the artifacts are written one by one. Hard: everything
read may be changed by an author, a commit or another command before the next thing is
read. Correct when what is published is what a stored report found ready, and the files
of a plan belong together.

**Index, fingerprint and rendering** (`review.ts`, `review-evidence.ts`,
`core/src/review/{manifest,fingerprint,dependency-graph,render,markdown}.ts`).
Reads a batch sequentially, digests it, orders its dependency graph, renders HTML.
No state survives a call. The graph's order and cycle report are the part with
logic; the rest is text.

**Annotation page** (`core/src/review/annotation-*.ts`, `revision-sheet.ts`). State:
requests in memory and in the storage of the browser, which all pages opened from files
share; what was handed off. Operations: write, edit, export, copy, restore, reload.
Hard: the clipboard answers later, a storage refuses or is written by another page.
Correct when the versions of a request stay in order, a mark means a sheet left, and
nothing is lost without a warning.

**Goal-plan artifacts** (`core/src/goal-plan-artifacts.ts`). A validator of JSON
documents and of references between them.

**Evaluators** (`core/src/{story,story-readiness,story-decision,story-governance,verification,verification-result,handoff,repository,release}.ts`).
Pure functions from documents to a verdict, over lexing. Hard: two modules
(`story-governance.ts` and `verification.ts`) read the same sections of the same Story
with code of their own, and must agree. Correct when silence never passes, and what one
reader accepts the other understands in the same way.

**Canonical verification and doctor** (`cli/src/{verify,canonical-verification,doctor,doctor-execution,story,verification,handoff}.ts`).
Doctor observes a tree, reads its contracts through directories it holds by inode, and
may run `make verify` as a child whose two output streams it passes on. Hard: a
directory is exchanged while it is read; `error`, `exit` and `close` come in an order
of their own, pipes fill up, and a descendant may keep one open. Correct when a verdict
is about one tree, and the outcome of the child is the child's.

**Command-line entry and packaging** (`bin.ts`, `machine.ts`, `packaged-snapshot.ts`, ...).
Dispatch and reading of packaged files, without state.

**Shell tooling** (`scripts/`). The retained shell versions of the same commands;
`scripts/bootstrap` is a second implementation of the Init promise.

## 2. Plan

Most important behaviour first; each step is a module, its TLC module, and what is
worth proving of it.

| | Module | What it models | Abstract specification, composition | Theorems |
|-|-|-|-|-|
| 1 | `InitPlan`, `InitMutation` (done) | planning, execution, recovery | implements `AdoptionMarker` | types, no original lost, marker vouches, preparation harmless, every verdict true, leftovers accounted for, the refinement (done) |
| 2 | `ReadinessDigests` (done) | runs over one batch | instance per set of runs | types, edits survive, success is fresh, partial rewrites are named (done) |
| 3 | `ActivationPlan`, `ActivationMutation` (done) | acquisition, planning, mutation, removal of the legacy directory, recovery | plans again with its own planner after the end or a kill | early edits survive, migration is whole, partial is refused, results hold (done) |
| 4 | `RevisionContent`, `ReviewRecords` (done) | the judgements on requests and responses; import, respond, confirm over one directory | any number of processes over one store | types, records readable and kept, numbers without gaps, serial imports valid, records justified, results true (done) |
| 5 | `PreflightRules`, `GoalPlan` (done) | gate, report, artifacts, observation | uses `RevisionContent`; other commands write the records meanwhile | coverage is reported, plans belong together, reports are news (done) |
| 6 | `RevisionSheet`, `AnnotationPage` (done) | requests, storage, clipboard, sheets | pages share one storage | chains are sound, marks are earned, unsaved is shown, sheets come back (done) |
| 7 | `Declarations`, `VerificationRules`, `StoryRules`, `HandoffRules`, `RepositoryRules` (done) | the rules of the evaluators over abstract lines | two readers of one Story compared | a pass is proven, readiness keeps the structure, a contract has its plan, for all documents (done) |
| 8 | `CheckedTree`, `Checks` (done) | doctor, `make verify`, and the static checks as commands over a tree | composes all of 7 | one tree was read, a clean tree has its contracts, the outcome is the child's, entries are made of what was read (done) |
| 9 | `InitRestart` | a second execution over what a killed one left | composes two executions of `InitMutation` | none: TLC |
| 10 | `DependencyGraph`, the release evaluator | the remaining pure rules | reference definitions over bounded inputs | |
| 11 | `BootstrapScript` | the shell installer | implements `AdoptionMarker` or shows where it does not | |

1 to 5 hold the protocols that other people's files depend on, 6 the only state that is
in one place alone, 7 and 8 the verdicts a team relies on. 9 to 11 are left. Runs are
few and large: a run answers one question about a part.

## 3. Init

`InitPlan` is the pure half: `PlanOutcome` and `PlanEffects` are `planMutation`,
`EvaluateInitMutation` and `ValidExecutionObservation` are the evaluator and its
validation of what the executor reports. `InitMutation` is the executor, one action
per awaited operating system operation.

| Code | Model |
|-|-|
| files at the destinations, managed directories | `disk`, `dirs` (a directory knows whether it is `theirs`, `ours` or `foreign`: made by somebody while the execution ran) |
| a staging directory with `original` and `payload` | `stage[p]` |
| `plan.preconditions`, `plan.effects` | `pre`, `effects` |
| position in `executeInitMutation` | `pc`, `cursor` |
| `createdDirectories`, `createdStages`, `prepared`, `attempted`, `applied`, ... | `created`, `staged`, and the variables of those names |
| `shouldAbort` polling a flag set by a signal handler | `interrupted`, `Signal`, `ShouldAbort` |
| capture of all preconditions | `Validate`, `Recapture` |
| the loops | `MakeDirectory`, `MakeStage`/`CopyOriginal`/`WriteNew`, `ApplyEffect`, `RecoverEffect`, `Invalidate`, `CleanStage`, `CleanDirectory` |

Abstractions. A content stands for the bytes and the inode of a file, so a file
replaced by an equal one counts as changed exactly when the code would notice. All
kinds that the code refuses (links, special files, unreadable ones) are one kind
`odd`. A capture of all preconditions is one step although it awaits one call per
path. An operation can fail `before` or `after` its effect. The environment edits
files, staging directories and managed directories; an edit before the recapture is
`early`, one after it `late`. Parsing, rendering, modes of files and the layout of
messages are left out.

`AdoptionMarker` is the promise to a reader of the target: the new marker is
published when nothing is pending, nothing is taken back while it vouches, and
"installed", "unchanged" and "incomplete" are true when given. `KeepsPromise` is the
refinement, with `altered`, `pending`, `vouched` and `distrusted` computed from the
disk.

### Runs

| Run | Instance | What it shows |
|-|-|-|
| `init_faults` | two nested directories, a payload in each of two directories, all three modes, two faults of both kinds, a signal, a kill | no original is lost, the marker and every verdict are true, what the execution made is accounted for, and the promise is kept. A second fault during recovery is the first that makes recovery incomplete, so two reach every outcome; two payloads and the marker give an effect before and after the failing one |
| `init_edits` | one directory, one payload, both markers, one edit, two faults of both kinds, a signal | check-then-use windows: an edit of a file, of its stage or of a directory at any moment; the evaluator accepts every observation, and a stage that is left or was replaced before the recapture is named |

`LeftoversAreNamed` says what a result accounts for, and no more. A recorded staging
directory that is left, or that somebody replaced before the recapture, is named as
residue or as retained, by a committed result too. A recorded managed directory that is
left is named unless the execution committed, which keeps its directories as part of the
installation, or recovery is incomplete: then nothing at all is removed, and the stages
are named but the created directories are not (`init-mutation.ts:597-608`). What a call
made that then failed (`:112`) is on no record, and nobody names it; the property says
that there is one such thing at most, of a preparation that failed before anything was
replaced.

No liveness is stated: an execution is a sequence of loops over fixed lists, with one
recovery that ends in a return.

`CHECK_DEADLOCK FALSE` is used because an execution stops when it has ended.

## 4. Readiness digests

`ReadinessDigests` models any number of runs over one batch. A definition is the
content of a Story's `story.md` and `acceptance.md` together; a sidecar is the
definition its two digests stand for and a body, everything else in the file. A run
reads definitions and sidecars one file at a time, so what it holds may never have
existed at one moment; it plans only from what it holds, checks paths for links,
stages every rewrite, looks at every sidecar once more, and renames one after the
other. The re-check reads through a symbolic link, and so does the model.

| Code | Model |
|-|-|
| `story.md` + `acceptance.md`, `readiness.json` | `definition`, `sidecar` |
| `.readiness.<uuid>.tmp` | `temps` |
| `observations` | `observed` |
| `planned`, `updated`, the array given to `cleanupStaged` | `planned`, `updated`, `cleaning` |
| the response | `verdict` |

History variables: `theirs`, the sidecar that somebody other than the runs wrote
last; `exposed`, the Stories whose sidecar was changed after some run had already
looked at it for the last time; `disturbed`, per run, the Stories that others
changed since it started.

A manifest that cannot be used, an oversized definition or a link in a definition's
path all end the run the way `index failed` does, before anything is written.
Unlinking a temporary file may fail and is ignored, as in the code.

| Run | Instance | What it shows |
|-|-|-|
| `readiness` | two runs, two Stories, two definitions and two bodies; a failing operation, a kill or an edit, one in all (`MaxTogether`) | the interleavings of two runs with an author: changes survive, success leaves fresh digests, a partial rewrite is named. One Story before and one after the failing one. What takes a failure and an edit in the same behaviour is left to the theorems, which hold for any number of each |
| `readiness_temp` | one run, one Story | a documented claim that fails (section 11) |

`EditsSurvive` is the central property: whatever the order of runs and edits, what
somebody wrote is still there unless they wrote it in the window between the last
look and the rename, which the code cannot close without a lock. Two runs at once
are harmless to each other in this sense, because both only change digests.
No liveness is stated: a run is a straight sequence of loops over fixed lists.

## 5. Review records

`RevisionContent` holds the judgements, without state: which sets of revision requests
are consistent, which requests are effective, what an import conflicts with, what a
response has to answer, what is unresolved. `ReviewRecords` is the records directory of
a batch and any number of executions of `review import`, `review respond` and
`review confirm` over it, with somebody editing the sources.

| Code | Model |
|-|-|
| record files `revisions-*`, `responses-*-n`, `confirmation-*` | `records`: a name is a kind, a prefix of a hash and a number |
| the sources, as their fingerprint | `fp` |
| `index.fingerprint` of a command | `snap[p]` |
| the listing, the sheets read from it | `names[p]`, `seen[p]` |
| the bytes to write, the temporary file, the attempt in `createNewRecord` | `payload[p]`, `temp[p]`, `attempt[p]` |
| indexing, listing, reading and judging, the prompt | `Start`, `List`, `ReadToImport`/`ReadRevisions`, `JudgeResponse`/`JudgeConfirm`, `Prompt` |
| `createNewRecord` | `OpenTemp`, `WriteTemp`, `Link`, `Lstat`, `Clean` |
| `writeConfirmationRecord` after a failure | `Probe`, `Reread` |

A record that is linked is known by its inode, which is the process that created it.
Abstractions: records never change once they are complete, so the reads of several of
them after a listing are one step, at whose time a name that is gone or incomplete is
noticed; the sources are indexed in one step; a directory that is a link, or is
exchanged between two checks, is the fault `unsafe`; sheets are sets of requests, and
a request is its id, whether it blocks, what it supersedes and one content for all its
other fields. A sheet keeps its own bytes, so its prefix is a field of it. Fingerprints
with the same prefix are modelled, because the name of a confirmation carries only
twelve digits.

A kill may come anywhere. What it leaves is what a process leaves that never moves
again; where a run has no action for it, safety covers it all the same.

| Run | Instance | What it shows |
|-|-|-|
| `records_race` | two imports, a response and a confirmation, one failing operation | every interleaving of the four over two sheets, one of which supersedes a request of the other, and three responses: whatever is stored is complete, stays, and rests on stored records |
| `records_confirm` | an import and two confirmations of sources that abbreviate alike, one failing operation, kills, one change | "exists", "collision", "written" and "failed" are told apart rightly |
| `records_names` | an import and two responses, one failing operation, kills | the race for numbers leaves no gap; the commands end |

Two attempts instead of a hundred reach the exhausted loop, two confirmations every
outcome of the race for a name; longer chains of requests are left to the proof, which
is for any sheets.

Some properties hold under conditions the code does not enforce, and say so in the
instance. `SupersededIsStored`, `ResponsesCoverTheirSheets` and `ConfirmationsAreEarned`
hold, also for overlapping imports, where a file that was just linked can be examined: a
failing `lstat` withdraws a record that another command may have read. `ResultsAreTrue`
holds under the same condition, or a confirmation that reads the record of another one
while that is being withdrawn reports a collision that is none. `ImportedSetValid` and
`RecordsReadable` are proved (section 10) and have no run: the first for imports that do
not overlap (`SerialImports`) and a directory that can be listed.

`CommandsEnd` assumes weak fairness of `Work(p)`, what a command does by itself; the
person at the prompt may never answer, and a command that waits for them has not ended.

## 6. Activation

`ActivationPlan` is the pure half of `praxisbound codex activate`: what is acquired,
`PlanOutcome` and `PlanEffects`, and the evaluator with its validation of what the
executor reports. `ActivationMutation` is `runActivation` and the executor, one action
per awaited operation, from the scratch directory in which the payloads are shown to its
removal.

| Code | Model |
|-|-|
| managed files, activation directories, files in them that are not managed | `disk`, `dirs`, `strangers` |
| staging directories | `stage[p]` |
| the temporary root of `runActivation` | `scratch` |
| the lists of the executor | variables of those names, as for Init |
| `rmdir` of the legacy directory, its re-creation on a failure | `RemoveLegacy`, `RecreateLegacy` |

| Run | Instance | What it shows |
|-|-|-|
| `activation` | the four files of an activation, the three legacy ones, the adoption marker, their directories; one fault of either kind, one edit, a signal | results hold when the activation is planned again; a half-made activation is refused; a migration is all or nothing; early edits survive |

The paths are the code's own, so the instance is the whole set. `Replanned` is the
planner applied to what is on disk, at the end or wherever the process was killed: it
stands for the next run, which is why no action restarts the program. Every state is one
the process may be killed in. `ResultHoldsOnReplan` leaves out directories that were made
by a call that then failed (`Torn`), for the reason given in section 11.

## 7. Preflight, goal plan and observation

`PreflightRules` is the classification of findings; it shares `RevisionContent` with the
record commands. `GoalPlan` has any number of executions of `review preflight`, `review
goal-plan` and `review observe` beside people who edit, commit, import, answer and
confirm.

| Code | Model |
|-|-|
| the sources, the last commit | `sources`, `head` as fingerprints |
| the records directory | `imported`, `answered`, `confirmed`, `reports`, `observed` |
| `coverage-review.json`, `manifest.json`, `declaration.json` of a plan | `artifacts[plan]` |
| the evaluation, read by read | one action per read, `Evaluate`, `WriteReport` |
| the re-check, the writes of a plan | `Approve`, `WriteArtifact` |

| Run | Instance | What it shows |
|-|-|-|
| `goal_plan` | two executions, each a goal plan or a preflight that expects a commit, and an observation; any one operation fails; two things other people do | a Coverage Review rests on a stored report, the files of a plan belong together, and a report says something new (or could not read the one before it, `BASELINE_INVALID`) |

Two contents of the sources are used, which abbreviate alike and have the same Stories, so
that their reports and plans meet under one name; what keeps one of them from passing is
in the records, the commit and the semantic report. With two changes by others a
confirmation, the sources or the commit can change and change back within one execution.

Abstractions. `createNewRecord` is one step, because `ReviewRecords` has its steps: a
record is whole once it has a name, and no taken name becomes free. The artifacts' own
temporary files are left out; each artifact is replaced in one step, by the rename. An
evaluation goes by the confirmation it read first, while the Coverage Review names the
bytes that are read again, as in the code. What the semantic report says is a choice.
`HEAD` and the status of the work tree are read in two steps. `BASELINE_INVALID` is the
code `REVIEW_RECORD_INVALID` where its path tells it apart. The length of a plan's id,
schemas and size limits are left out.

## 8. Annotation page

`RevisionSheet` has the rules on requests: what a chain of versions is, what an edit, a
restore and the reading of a stored draft or of a sheet accept. `AnnotationPage` is the
user interface around them, as far as it changes state.

| Code | Model |
|-|-|
| `state.requests`, `ui.panel`, `ui.quarantine`, `ui.storageMessage` | `requests`, `panel`, `quarantine`, `warned` |
| local storage under the key of a fingerprint | `storage` |
| the promise of `navigator.clipboard.writeText` | `writing` |
| what left a page | `sheets`, a history variable |
| event handlers | one action each |

| Run | Instance | What it shows |
|-|-|-|
| `annotation` | one page that may have no storage, two requests, one sheet, one write that fails or comes from another page | versions stay in order, marks mean a sheet left, what is not saved is shown, what left comes back |
| `annotation_copy` | one page, one request, two sheets | a documented claim that fails (section 11) |

The drafts and sheets from elsewhere include a sound chain, one that contradicts itself
and one for another fingerprint. Targets, quotes and focus are data; whether a draft is
attached is decided by its fingerprint. `SheetCapacity` stands for `MAX_SHEET_BYTES`.
A cycle is a set of ids that
`supersedes` never leaves, and a rejected entry takes with it what cannot be followed
without meeting it: the code walks, the module states what the walks find. One clipboard
write at a time is pending. The flag `fromStorage` is left out, because
nothing but its own message depends on it. A write from elsewhere makes a page's own
view stale until it writes or loads again, and `UnsavedIsShown` says so: pages opened
from files share one storage and no page is told.

## 9. Evaluators, doctor and canonical verification

`Declarations` is the reading of sections, fences and literals that all evaluators share,
over lines whose values are one of a few shapes: a word, a quoted literal, prose that
holds one (`DocType`). A loop that keeps some lines is `Picked`, told by the positions it
keeps, or `Where`, told by a test. `StoryRules` has `story check` (contract, readiness, decisions, authority,
risk), `VerificationRules` the plan and the recorded result, `HandoffRules` the handoff,
`RepositoryRules` doctor's judgement on its observations. `CheckedTree` is the tree they
are read from and the commands' outcomes, and `Checks` the commands step by step.

| Code | Model |
|-|-|
| the target as directories with inodes | `disk`, and `swaps` left to the other process |
| `observe` of each top-level path, in order | `snapshot`, `phase` |
| the walk over Stories, with the directory held by inode | `walk`, `entries` |
| the inspection of the handoff beside it | `handoff` |
| the spawned `make verify`, its streams, pipes and events | `child` |
| the envelope | `verdict` |

| Run | Instance | What it shows |
|-|-|-|
| `checks` | 42 Stories, and acceptance files, records, decisions, handoffs and trees that are sound but for one thing; every command; one exchanged directory; two bytes on each stream through a pipe of one | doctor's verdict is about one tree; a clean tree has its contracts; a pass is proven; the two readers of governance agree; the outcome is the child's, and it is always settled |

A deviation in one respect is enough because the rules are conjunctions of checks of one
line or one pair of lines; the pairs that matter (a decision beside its Story, a result
beside its contract, an impact beside a risk) are varied together. A pipe of one byte and
two bytes are enough for a child that waits on one stream while the other is read.
Deadlock is checked: only finished commands stutter.

Fairness is assumed of what the child does and of the events and reads that follow,
never of the person or process that exchanges directories. A child, or a descendant of
it, that never ends would never be settled; the code has no timeout, and
`VerificationEnds` is about children that end. The child starts also when doctor's
contract inspection ended in an error, as in the code: only the structure decides.

A bullet is either a declaration or a plain entry, so a quoted literal that holds a colon is
lexed as a declaration: `RiskDefects` and `LiteralSectionIssues` are a little stricter about
one than `verification-result.ts:361-381` and `story.ts:450-462`. No property depends on it.

Left out: splitting a table at escaped pipes, argument parsing, a decisions directory
configured elsewhere (the retired variable that names one is there), Story directories
that are skipped for their name. The decisions of one Story are read in any order. A
directory that is exchanged and put back between two looks keeps its inode and cannot be
noticed; `docs/doctor.md:67-69` rules this out. Top-level paths do not change while
doctor looks at them, and one guarded read is one step.

## 10. Proofs

Every theorem holds for any number of processes, faults, edits, paths, Stories or bytes,
under the assumptions its modules name; the runs show the same formulas on the instances
above. The inductive invariants have modules of their own, because TLC checked them
before they were proved and finds a counterexample to a wrong part within seconds.

| Invariant | Proofs | Theorems about |
|-|-|-|
| `InitInvariant` | `InitSafetyProofs` | types, originals, marker |
| `InitVerdict`, on top of it | `InitSafetyProofs`, second part | the verdicts, the leftovers, the refinement |
| `ActivationInvariant` | `ActivationProofs` | early edits, results, kills, migration |
| `ReadinessInvariant` | `ReadinessProofs` | types, changes by others, what success and a failed rename mean |
| `RecordsInvariant` | `ReviewRecordsProofs` | the store, what rests on it, what the commands report |
| `GoalPlanInvariant` | `GoalPlanProofs` | reports, plans, Coverage Reviews |
| `ChecksInvariant` | `ChecksProofs`, with the lemmas of `ContractProofs` about documents | doctor's tree, the outcome of the child, what a pass proves, the two readers of a Story |
| `AnnotationInvariant` | `AnnotationProofs` | chains, marks, what is saved, sheets |

### Init

`MarkerVouches` and `NoOriginalLost` are not inductive: that a replacement loses nothing
depends on a backup having been taken several steps before. `InitInvariant` gives the
strengthening `IInv`:

- `IndexInv`: the loops stay within the lists they walk;
- `EffectsInv`: no destination is planned twice, the marker is last;
- `PhaseInv`: what is empty or complete in each phase;
- `TheirsInv`, `UnappliedIsUnchanged`: until the first replacement the disk is what
  others made of it;
- `BackupInv`: every prepared effect has a faithful backup;
- `ApplyInv`: while applying, below the index everything is replaced, above nothing;
- `RestoreInv`: while recovering, all above the index is as it was;
- `RetractInv`: the marker is dealt with before any payload is taken back;
- `CleanInv`: backups go only when the originals are in place.

`Invariance` proves `Spec => []IInv`, with one step per action and under it one per
conjunct; `TypeCorrectness`, `OriginalsSurvive`, `MarkerIsTruthful` and
`PreparationIsHarmless` follow. They hold for every set of paths and directories,
any number of faults and edits, under the assumptions named in `InitPlan` and
`InitMutation`: payload lists do not repeat, markers are no payloads, the kinds of a
missing or odd file are not contents.

What the verdict says needs more than where the files are: it is computed from the lists
the executor kept on the way. `VerdictInv` is inductive together with `IInv`:

- `ListInv`: each list is a prefix of the plan, or of the list it is taken from, and as
  long as the phase says; recovery goes backwards through `attempted`;
- `RecoveryInv`: what recovery has come to is restored or unrecovered, never both;
- `FailureInv`: what the stage of a failure says of all the lists;
- `ResidueInv`, `ScopeInv`: residue and effects lie within what was made and observed;
- `EarlyInv`: what the recapture let pass has not changed before it;
- `RestoredInv`, `NamedInv`: what is not as it was is still to be restored, or named.

`ObservationsAreAccepted` follows (the evaluator's branch for an inconsistent observation is
dead code), `RestorationIsTrue`, `NothingUnnamed` and `EarlyEditsAreKept`.
`LeftoversNamed` needs `LeftInv` and assumes nothing of faults or edits: `UnrecordedInv`,
what is made without being recorded ends the preparation at once; `KeptInv`, what is
recorded stays until cleanup while nobody edits, and an incomplete recovery does not clean
up; `StagesLeftInv` and `DirectoriesLeftInv`, what a cleanup loop has passed is gone or
residue.
`PromiseIsKept` is the refinement of `AdoptionMarker`, step by step, for executions
nobody edits beside (`MaxEdits = 0`; a file somebody else removes is a step that no protocol
allows). `PromiseInv` adds to the two invariants that every payload is either as it was
or in place.

### Activation

The invariant has two halves. What holds whoever edits: `PlanInv`, `ListContents`,
`ListLengths` and `PhaseInv` as for Init; `ShelterInv` and `DirectoryInv`, what is in no
directory is nowhere and a directory is as it was, or made here, or the legacy one;
`OwnedInv`, until cleanup the execution knows what it made; `NamedInv`, a path nobody else
touched is as it was, or still to be recovered, or named; and what cleanup has passed.
What holds while nobody edits (`edits = 0 => ...`): `AlonePlaces`, every planned path has
its old content or the new one; `AloneRefusal`, a refusal changed nothing; `AloneResult`,
the claim about planning again. The heart are lemmas about the planner: planning over the
files as they were finds the same effects, over the target finds none, and over anything
in between does not find it installed.

`MigrationIsWholeAlways` is proved for all edits, `PartialIsRefusedAlways` and
`ResultHoldsOnReplanAlways` under the condition in the properties themselves, that nobody
edited. `EarlyEditsSurviveAlways` has an invariant of its own: until the recapture the
target is what others made of it and nothing was attempted (`BeforeApply`), the recapture
goes on only if every managed path is as planned for, so that later a path which differs
from the plan without the execution has been touched late (`FromPollOn`).

### Readiness digests

`RunTypes` and `ChangesSurvive` hold for any number of runs, Stories, faults and edits. The
strengthening is `SightInv`: for every run and every sidecar it has looked at for the last
time and not yet replaced, unless `exposed`, what the run has read has the same content as
what others wrote last. The re-check establishes it, because the bytes on disk equal the
bytes read and `EditsSurvive` holds for the disk; a rename, also of another run, preserves
it, because it keeps the body; an edit either exposes the Story or finds no run that
depends on it.

`SuccessIsFresh` and `PartialIsNamed` rest on a second invariant, `ResultInv`, about what a
run has read and written. `FreshAt`: what the run has read so far and nobody else has
changed is on disk as it was read, or as the run rewrote it. `StaleAt`: the plan is exactly
what was stale when it was read. `OrderAt`: what has been replaced is the beginning of the
plan, all of it when the run reports success and less when a rename failed. A rename of
another run counts as a change by others, so the invariant of one run survives the steps of
all (`ResultKept`); that `verdict` is only set where a run ends (`VerdictAt`) is what lets a
killed run promise nothing.

### Review records

For any number of processes, sheets, responses, faults and changes:

- `RecordTypes`, `RecordsStayReadable`, `RecordsStay` from `StoreInv`: what a process is
  about to link is complete and described by its name, and between link and examination
  the name leads to its own file;
- `NumbersHaveNoGaps` from `NumberInv`: a process that tries a number has found all
  lower ones taken, and a taken name is only given up by its writer, who says so;
- `ImportsStayValid` from `ImportsInv`, for serial imports: nothing is imported between
  the listing and the link of an import, the judgement of the listing is therefore one
  of the directory, and it keeps a consistent set consistent. The heart is a lemma
  about sets: a set without cycles in which everything superseded is known, joined
  with a sheet without cycles that conflicts with nothing, has no cycle;
- `SupersededStaysStored`, `ResponsesStayCovering`, `ConfirmationsStayEarned` from
  `GrowInv`, if `lstat` does not fail: the directory only grows, what a process has seen
  and judged is monotone in it, and so is still true when the record gets its name, any
  number of imports and edits later;
- `ResultsStayTrue` from `TruthInv`, under the same condition: until the link a process owns
  no record, afterwards exactly the one it reports, and the record that a confirmation finds
  instead of its own is still there when it is read and reported.

Each invariant is split into what a process knows (`...At(p)`) and what the store
promises; a step of one process leaves what the others know alone (`OthersStay`), and
the records change in two actions only (`RecordsChange`). The assumptions are those
named in the two modules: no name of a missing record or target is one of a record or
id, and a response names at least one sheet.

### Goal plans

`GoalPlanInvariant` follows a report from the listing to the plan it leads to:

- `NumbersInv`: reports are numbered without gaps and an execution has listed them from
  the first on;
- `BaselineInv`: what it compares with is the highest report listed, or that one was
  invalid, and what it is about to write differs from it;
- `ReportInv`, `StoredInv`: the report it goes by is of the sources it indexed, was READY,
  and is stored;
- `PublishInv`: the plan follows from both, and the parts before the one to be written next
  are on disk as this plan has them;
- `FilesInv`: each file of a plan holds what its name says;
- `WritersInv`: there is a writer for every stored report, another one for each, that had
  listed only lower numbers.

`PublishInv` holds although other executions may write into the same directory, also for
sources whose abbreviation is the same, because a file that is there is only ever confirmed
and never replaced. `ReportsAreNewsAlways` was false as
first stated: an execution that finds the last report invalid has nothing to compare with
and may repeat it, with `BASELINE_INVALID` among its findings, so the property excludes
that report. Two executions that list at the same time may both write the same; the
writers of `WritersInv` are the witnesses of that exception.

### Checks

Doctor trusts what it read while the directories it went through keep their inodes.
`ChecksInvariant` says why: an inode is `Old` if no exchange can still bring it, a held
inode is old, and so a directory that now has the inode it was held by was never exchanged
since; all that was read below it was read through that one (`Guarded`, in `SpecsInv`,
`StoriesInv` and `CurrentInv`). `NamesInv` keeps this for the Stories already settled and
says that those to come are unread; `JudgedInv` that every Story directory that was there
from the beginning is still to be looked at or was judged; `WalkInv` and `HandoffInv` what
their results mean. `EvaluationMeans` is the lemma about doctor's evaluator: a sound
outcome has a confirmed structure and no inspection that ended in an error, a clean one
nothing incomplete. `DoctorReadsOneTreeAlways` and `CleanMeansContractsAlways` follow for
any tree, any number of Stories and of exchanged directories.

For the child, `Balanced` counts the bytes of each stream: what was written is passed on,
or the held half of a character, or in the pipe, and a stream that has ended has nothing
left. With `ChildInv` (a child is started once, settled once, and an error means it never
wrote) this gives `OutcomeIsTheChildsAlways`, however much is written and whatever a pipe
holds. `CasesAssumption` says that trees have the shape of the model, and that what is
there at the beginning has lower inodes than what is brought later.

What the documents say is proved for all documents, of any length: `DocsAssumption` says
only that they are sequences of lines, and `CasesAssumption` that a command names Stories
and files lead to documents. The argument has two layers.

`ContractProofs` is about documents alone. The rules read them with loops, and what a loop
leaves needs induction over its positions. `Upward` and `UpTo` give it: the positions where
a statement fails would have a least one (`SmallestOfSet`, from `WFMin` and the well-founded
order of the numbers), which is neither the first nor one after a position where it holds.
A statement is then a set of numbers and not an operator, which the provers can handle, and
the table of a recursive function exists by `PrefixTable`. On this rest `PickedIs` (what is
picked is exactly what stood at the chosen positions), `PickedConcat`, `FlattenIs` and, for
each rule of `StoryRules` and `VerificationRules`, what it means that it reports nothing:

- `StoryStructure`: a contract with readiness is the contract without, and more that is
  picked out again;
- `PlanClear`, `PlanIsRead`: where `story check` finds no governance issue every value is
  declared exactly once and plainly, so the looser reader of the plan has the same;
- `ResultPasses`: a result without a plan issue, a gap, a failure or a part has a passing
  line with a detail for every layer of `RequiredAre` and every criterion, and no failing one.

`DocumentsInv` of `ChecksInvariant` carries this to the commands. `PassIsProven` is not
inductive, because the outcome is computed from entries that were made many steps before;
and for an entry nobody knows from its number alone that it is one of a document. So
`EntriesInv` says that an entry names the documents it was made of and that a Story is judged
with every decision it refers to; `SourcesInv` the same of the Story in hand, step by step
through the reads of Doctor and of the commands; `SubjectsInv` that entries and subjects to
come are together those asked for; `PassInv` that a pass is the outcome of the entries. With
`StoryStructure` and `PlanIsRead` the two properties about Stories follow, with `ResultPasses`
the one about a pass.

### Annotation page

`PageInv` of `AnnotationInvariant` has five parts, for any number of pages, requests, sheets
and faults, whatever is planted in the storage and whatever sheets are given:

- `ListsSound`, `SheetsSound`: every list is one that `loadState` gives back as it is, every
  sheet that left or may leave a page one that an empty page accepts;
- `IdsKnown`: every id in a list, a sheet or the storage is known, so that the next one is
  new to all of them, however many pages share the storage;
- `PanelIsCurrent`: an export panel shows the requests as they are now, and a write to the
  clipboard that may still mark some belongs to the panel that is shown. `commit` closes
  the panel for exactly this; with it a late answer marks only what the sheet has;
- `MarksAreTrue`: what is marked in a list or in the storage left in a sheet;
- `SavedIsShown`: what a page without a message shows is what is stored under its key.

The rest are lemmas about the rules. `ProblemsAre` says when a list has no problems: every
target is claimed once, no ids are closed under `supersedes`, every target is there and
exported. Cycles, and what depends on a rejected entry, are stated by such closed sets and
not by a walk, so that no induction is needed; TLC compared both statements on all short
lists. `WithoutDangling` is the heart of reading a stored draft: what is left when the
problems and all that hangs on them are gone has no problems of its own, so one pass is
enough. `AppendIsSound`, `SameChainIsSound` and `RestoreIsSound` say that a new version, an
edit in place and a restore keep a list sound, `SoundIsReadBack` and `RestoreBack` that what
was saved or let out is accepted again. The assumptions are those of `AnnotationPage`: a new
id is nobody else's, and what comes from elsewhere has ids of its own but any content. A
draft or sheet that somebody hand-edits under an id this page made is therefore outside the
theorems.

### Only model-checked

`CommandsEnd` and `VerificationEnds`, because liveness is out of the prover's
reach. Every invariant and action property the passing runs check is stated by a theorem.
What the rules that no property speaks of return for all documents (`EvaluateHandoff`, the
scan of the Makefile, the details of an issue list beyond whether it is empty) is explored
by the `checks` run only. No module declares a recursive operator, because the solver behind
the prover takes none; what is recursive is a function, and induction over it goes by least
elements, as above.

Three theorems are about properties no run checks by themselves: `PreparationIsHarmless`,
`RecordsStayReadable` and `ImportsStayValid`.

## 11. Where the code and its documents disagree

With a run:

- `readiness_temp`: the temporary file whose own staging or rename failed is left
  behind (`review-readiness-digests.ts:316`).
- `annotation_copy`: `specs/stories/TST-023-batch-review-annotation/story.md:129` says
  that "An exported request is read-only; editing it creates a new request". A copy whose
  clipboard answers after the panel was closed is not counted
  (`annotation-ui.ts:542`), so the request is edited in place and leaves the page a
  second time, under the same id with another text.

Met while modelling, and excluded by the condition of a property or stated by it:

- A directory whose identity cannot be read after it was made (`init-mutation.ts:112`) is
  neither recorded nor reported, although
  `specs/stories/TST-013-init-apply-recovery/acceptance.md:63` expects "owned residue
  reported or removed" of a fault at a directory or a stage; `LeftoversAreNamed` states
  that it is the only one. Activation makes directories in the same way.
- A marker that recovery restored and then removed (`init-mutation.ts:589`) is not named
  as unrecovered, although
  `specs/stories/TST-013-init-apply-recovery/story.md:111` asks for "every
  unrecovered destination".
- A response is compared with the fingerprint of the sources as they were when the
  command started (`review-respond.ts:286`); the comment above it says "recomputed at
  write time".
- A directory that cannot be listed counts as empty (`review-records.ts:175`), and a
  conflicting sheet is imported; `specs/features/batch-review/contract.md:200` wants the
  judgement based on the complete imported records.
- Where a linked record can neither be examined nor unlinked, it stays although the
  command reports `write-failed`, which `review-confirm-write.ts:22` rules out.
- Overlapping imports can make the imported set inconsistent, as the comment at
  `revision-content.ts:244-249` concedes, so that every later command refuses it.
- A change of a sidecar after the re-check is overwritten by the rename (the window
  `EditsSurvive` excludes).

Met while modelling, outside every property:

- Recovery reports `INIT_RECOVERY_INCOMPLETE` also when only a cleanup failed and every
  original is in place.
- The Stories are read again for their readiness (`review-preflight.ts:645`) after the
  index took the bytes the fingerprint is of. Only `batch.json` and the confirmation are
  checked again before a plan is written, while `docs/typescript-tooling/cli-contract.md:934`
  promises that a plan is never "silently different from the one just evaluated".
- `protocol/execution.md:113-119` and `protocol/verification.md:113` say that `Scope: full`
  requires a `full: pass` record naming `make verify`. `scripts/verification-check`
  enforces it; `verification.ts` and `verification-result.ts` do not know the section.

## 12. Not modelled

- Index, fingerprint and rendering: functions from files to text. That the sources are
  read one after the other is part of the commands that index; the dependency graph is
  drawn and reported, and nothing else depends on its order.
- Goal-plan artifacts: a validator of the shape of JSON, field by field, without state
  and without rules between steps. Which artifacts are written, and when, is in
  `GoalPlan`.
- The release evaluator: a list of independent comparisons of versions, tags and two
  observations of the work tree.
- Command-line entry and packaging: dispatch and argument parsing.
- Shell tooling: the retained scripts do the same once more, without concurrency or
  recovery of their own, except `scripts/bootstrap`, which is left in the plan.
- Markdown, HTML, JSON schemas and regular expressions are text and stay out. Of the
  annotation page, drawing and focus are out of reach of a model checker. Permissions,
  disk quotas and `fsync` are not modelled: a write that the code awaited is there after
  a kill.
