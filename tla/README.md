# Sogi, specified

TLA+ models of the control plane in `src/src/sogi`, TLC runs that check them on small
instances, and TLAPS proofs of what matters most. Paths below are relative to
`src/src/sogi/` unless they start with `src/`; `service.py` is `runs/service.py`.

## The system

Sogi sits beside a coding agent. An MCP server, CLI commands and host hooks, each a
process of its own, work on one repository through `RunService`, and keep their state
in `.sogi/`: an SQLite file (`runs`: one JSON payload per run; `events`: an append-only
stream per run), a JSON mirror per run, a marker naming the active run, a lock file.

| component | state | operations | interacts with | hard because |
|---|---|---|---|---|
| Run service `runs/service.py` | none of its own but a lock | start, the `record_*` family, verify, assess_patch, acknowledge, propose/apply_patch, transition_phase, complete | everything: it loads a record, changes it, lets the governor inspect it, saves | several threads and processes, deaths, errors after the commit |
| Storage `storage/db.py` | tables `runs`, `events`, mirror files | load_run, save_run_with_events | called under the lock | transaction and mirror are two steps |
| Event log and replay `events/` | the stream | append, reduce_event, rebuild, compare | check-integrity compares replay and record | two representations of everything that happens |
| Record, phases, state `core/`, `state/` | phase, reads, changes, commands, warnings, patches, verification, acknowledgements | transition_to, add | saved as one payload | a path of phases that several operations move |
| Governor `governor/` | none: recomputed from the stream | inspect | called in every transaction; `_govern` deduplicates | counting across resets, scope known late |
| Worktree fingerprint `repository/worktree.py` | none | capture_fingerprint | verify, complete, patches | git fails, edits go on |
| Verification `verification/` | none | discover, execute, map evidence to criteria | verify | reads a worktree that moves |
| Patch assessment `patch/assessment.py` | none | analyze_patch | verify, assess_patch | the same findings on two ways |
| Patch engine `patch/provider.py`, `patch/ast_grep.py` | the files | propose, apply | propose_patch, apply_patch, the analyzer's index | look, compare, edit and save are steps of their own, and nobody else takes the lock |
| Hooks `integrations/hooks.py` | a snapshot per session, health counters | capture, reconcile, record | run by the host around each tool call | git status tells names, not changes; sessions and tool calls overlap, are denied, die |
| Context `context/`, analyzer port `repository/` | none | compile, localize, rank, truncate | compile_context; its files are the scope of gate, governor and patches | greedy selection under a budget, tiers with caps, rounding |
| MCP, CLI, launcher, harness, metrics, doctor, config, rendering | none | translate, print, start processes | call the service | - |

What makes each correct:

* service and storage: no update is lost, row and events agree, an answered operation
  is durable, mirrors and marker only lag, no lock wedges;
* gate: a run is called done only on evidence about the content that is there, every
  finding acknowledged, and an agent that does what it is told gets through;
* log and replay: replaying the stream yields the record;
* governor: every situation is warned about, once, and nothing else is;
* patch engine: what is written is what was proposed and shown, in scope, on record;
* hooks: what a tool changed is recorded while a run is in progress, and nothing else is
  (in which of two runs, no document says and no property states);
* evidence: a criterion is satisfied only by a matching test that passed or, where no
  executed test matches, by suites none of which failed and a test file that matches;
  and no later check repairs a failure;
* context: the budget is kept, no room is wasted, a crowded file yields, the callers of
  what is to be edited are named.

## The modules

| module | models | composed with |
|---|---|---|
| `AtomicRuns` | what the service promises: operations on runs are atomic, at most once, done when answered | abstract specification |
| `RunStore` | `_file_lock`, `_mutate`, `start`, `complete`, `save_run_with_events`, `_write_snapshot`, `_write_active_run` | implements `AtomicRuns` (`log <- row`) |
| `RunStoreProofs` | its invariants and the refinement, for all constants | extends `RunStore` |
| `CompletionGate` | verify, assess_patch, compile_context, `_check_gate`, complete, acknowledge, transition_phase over a moving worktree | takes from `RunStore` that what is stored is one step |
| `CompletionGateProofs` | soundness of the gate, for all constants | extends `CompletionGate` |
| `Governor` | the three checks as folds over a stream, and what they look for, said without counting | used by `RunLedger` |
| `RunLedger` | what every operation writes to record and stream; replay; comparison | takes from `RunStore` that transactions are serial |
| `RunLedgerProofs` | one warning for each situation and none without one, phases, types, and that replay yields the record, for all constants | extends `RunLedger`, `Positions` |
| `HookChannel` | the two hooks around a tool call: snapshot, reconcile, record | takes from `RunStore` what the active-run marker may be |
| `HookChannelProofs` | what is recorded is what changed, for all constants | extends `HookChannel`, `Positions` |
| `Positions` | facts about the positions of a sequence: the last and the first of a set of them, functions defined from one to the next, streaks of hits with no break | used by the two modules of proofs above |
| `Evidence` | discovery, execution, test reports, `map_criteria`, the outcome of a verify | computes what `CompletionGate` takes as a constant (`OutcomesOf`) |
| `EvidenceProofs` | what a verify may conclude, for all constants | extends `Evidence` |
| `PatchEngine` | propose_patch, apply_patch, the splice of a region, the rewrite by ast-grep, over files that move | takes from `RunStore` that a proposal is stored in one step; details what `RunLedger` has as two operations |
| `PatchEngineProofs` | what an apply may write, for all constants | extends `PatchEngine` |
| `ContextCompiler` | scores, `_select_under_budget`, truncation, `Localizer.localize` | computes the scope that `Governor`, `CompletionGate` and `PatchEngine` take as constants |
| `ContextCompilerProofs` | callers are surfaced, for all constants | extends `ContextCompiler` |
| `MCRunStore`, `MCCompletionGate`, `MCRunLedger`, `MCHookChannel`, `MCEvidence`, `MCPatchEngine`, `MCContextCompiler` | values for the constants TLC needs | |

**RunStore.** A thread walks a call through the labels of `pc`; each action is one thing
that another thread, another process or a death can come before or after: draw an id
(`NewRunId`, before any lock, as in the code), take `self._lock`, take the flock, load,
commit, rename the mirror, move the marker, release, reply. `Refuse`, `Rollback`,
`MirrorFails` and `MarkerFails` are the exceptions; they leave by the same two releases
(`with`, `finally`). `Crash` ends a process: its threads, its lock and its flock go,
what is on disk stays, except a marker it was in the middle of writing (`write_text`
truncates first; the mirror is renamed into place and is never torn). A row is
abstracted to the sequence of operations it reflects, which is what tells a lost update
from a kept one. A thread that runs a read-only call changes nothing and is left out.

**CompletionGate.** `tree` is the content of the worktree, `base` and `head` what is
committed. `verify` is four actions, because it holds no lock until it stores: run the
checks, capture the fingerprint, assess the diff, store. The assessment uses the scope of
the record verify read first, whatever `CompileContext` has put there since. It asks git
several times and takes a failure for an empty answer, so it finds any part of what there
is (`Assessments`); a git that does not return within 30 s raises `TimeoutExpired`, which
`_analyze_patch_safe` does not catch, and nothing is stored (`VerifyFails`). `StoreEvidence` takes the
watermark from the stream at that moment, as the closure in the code does. `Complete`
captures a fingerprint and decides inside one transaction; edits by others during that
one capture are not split further. A fingerprint sees everything, or HEAD only (a `git
diff` that fails is folded in as an empty one), or nothing. `checked`, `sight`,
`missed`, `disturbed` and `unreported` are history: no guard reads them; the scope in a
snapshot is too. Staging a file changes
the fingerprint in the code and not in the model; it can only make the gate stricter.

**RunLedger, Governor.** Each operation is one action that computes record and events
and passes them to `Save`, which does what `_mutate` does: inspect the stored stream
followed by the new events, drop findings already warned about, append warnings to both,
store. Replay is a fold of `Reduce`; `Mismatches` are the fields `compare_with_snapshot`
would report, plus the token counts it does not look at. `Governor` has the forced
completion among the CRITICAL kinds, as the table in `finding.py` does; the service
stores that warning with the default severity, and so does `CompleteForced`.

**HookChannel.** A call goes from its first hook (git status, hash and store) through the
tool to its second (read the snapshot, git status, hash and compare, record), and then
starts anew; each step may be separated from the next by writes and commits of anybody, by
the start or the end of a run, or by the hooks of another session. `base`, `due`,
`touched` and `blind` are history. `due` is what differs between the two looks, found from
the tree and not from the snapshot; `touched` is what somebody changed since the first. A
session may start with a snapshot of an earlier version, a list of names, every path of
which the code reports as changed once; only a call whose first hook stored nothing meets
it. Two exemptions are named in the properties and listed as hazards: a call is `blind`
when a hook of it failed, git did not answer it, no run was in progress, or a call of its
own session overlapped it; and a change that was committed before the second look, of a
path clean at the first, is not due. A command given a run by `--run` is left out, and so
is what a hook records of reads and commands, which depends on its payload only.

**Evidence.** One verify from its beginning: `todo` is what the configuration or discovery
yields, `RunCheck` runs the first of it with any fate the policy and the operating system
have for a command, `Conclude` maps the criteria and draws the outcome. A repository is
the set of marks discovery looks for, a report a function from tests to outcomes, a
criterion is known by the files and tests whose names contain one of its terms. What
pytest may write follows its exit code (`Written`, external): a suite that exits with 0
has no failed test, and one that was killed may have hung after it wrote its report.
`PASS`, the verdicts and their grounds are stated without the case analysis of the code.
Checks are told apart by their commands and nothing compares them, so one suite may run
twice: as `pytest` and as the `make test` that calls it, or by two commands of the
configuration. `FailuresStand` says what matters then. A command of the configuration has
kind `test` whatever it runs, so `OnlyTestsCount` is about discovered checks. A
`package.json` that is not UTF-8, or whose `scripts` is no object, raises out of verify
with nothing stored (`discovery.py:88-94`); such repositories are left out.

**PatchEngine.** A file is the sequence of its lines, each with or without a carriage
return before its line feed. The code reads and writes text: `Read` drops the carriage
returns, as `read_text` does and the pipe from `ast-grep`, and `Written` has none, as
`write_text` adds none on the systems that have `fcntl`. Files that end without a newline
and lone carriage returns are left out. Each read or write of a file is an action: look
for the target, splice, diff (three reads); compare; look and splice again, truncate,
write, save. The engine's apply is the dry run once more, whose diff nobody reads. What
others do (`Edit`, `Reindex`) may come between any two, `Stop` is the death of a process
or a program that fails, at any point. `moved` is history: whether the files or the index
changed while the lock was held, before or after the engine looked for its target for the
last time. The analyzer may name any definition of the symbol, and a place it has left. A
symbol is one line, a diff has one hunk per file and `NearLines` lines of context, the
hash of a text is the text, and a rewrite's preview reads all files in one step. A
fingerprint is that of the worktree, that of HEAD (its diff failed) or none; HEAD is not
moved, as a commit can only make more fingerprints differ. `ast-grep` runs in the working
directory of the process (`ast_grep.py:33-36`, `93-104`), not in the root of the
repository: the model takes the two to be the same, which `ScopeUnlessMoved` and
`RecordedUnlessMoved` rest on; requests that narrow a rewrite to `paths` are left out. A
compiled context is assumed; the warnings of a refused apply are in `RunLedger`.

**ContextCompiler.** One call on one answer of the analyzer, in steps of one selected
symbol. Texts are their lengths, a name or a path is the set of its words, and a concept is
in a text if it is one of them, where the code looks for substrings. Scores are integers in
thousandths, where the code has floats, whose last bits may break a tie differently.
Contents end without blanks. Callers are asked for by name, as the code does, so those of
another symbol of the same name come along. An answer is a set of symbols at different
places (`PlacesDiffer`), where `discover` passes on a tuple of the analyzer's code blocks
(`tree_sitter_provider.py:103-114`) and nothing looks for duplicates: that nothing is told
twice (`NothingFittingLeft`) rests on it. Words of a path include its extension and its
directories, as in `_identity_terms`, so in a real repository two symbols with nothing in
common, the premise of `CrowdedFileYields`, are rarer than among the nine of the run.

`PROJECT.json` maps every definition that models code to its lines.

## The runs

| run | instance | shows |
|---|---|---|
| `store_safety` | 2 processes, 3 threads, 2 runs, 4 calls, 1 death | types; `Consistent`, `AnsweredIsStored`, `MirrorLags`, `MirrorFresh`, `MarkerSound`, `MirrorForward`; refinement of `AtomicRuns` |
| `store_liveness` | the same processes, 1 run, 3 calls | `CallsReturn` |
| `gate_safety` | 3 contents, 1 scope, 1 verify at a time, 3 edits, 1 report, every sight | `GateSound`, `ReportedEditsCaught` |
| `gate_liveness` | 2 overlapping verifies, 2 edits, 1 report | `RemediationWorks`, `GateSound` |
| `ledger` | all operations, 4 transactions, 2 paths (one in scope), 1 command, thresholds 2 | `IntegrityHolds`, `PhaseForward`, `OneWarningEach`, `NothingEscapes`, `NoFalseAlarm` |
| `hook_channel` | 2 sessions, 1 path, 3 contents, 2 changes, 1 run, old snapshots, calls without bound | `ChangesRecorded`, `NothingInvented` |
| `evidence` | 6 repositories, 3 configurations (none, a suite and a linter, a suite twice), 3 criteria, 2 tests, 3 contexts, up to 4 checks | `PassIsEarned`, `VerdictsGrounded`, `OnlyTestsCount`, `WorseNeverHelps`, `FailuresStand` |
| `patch_engine` | 2 callers, 2 files, carriage returns in some, a splice and a rewrite, 2 proposals, 2 edits, an index that lags | `ExactUnlessMoved`, `ScopeUnlessMoved`, `RecordedUnlessMoved`, `HashGuards` |
| `context` | up to 7 of 9 symbols, 7 phases, 3 budgets, tiers of 2 | `BudgetHeld`, `NothingFittingLeft`, `CrowdedFileYields`, `CallersSurfaced`, `DroppedOnlyWhenFull` |
| `evidence_uncollected` | violates `UncollectedProvesNothing` | a criterion is satisfied by a suite that ran none of its tests |
| `gate_edit_during_verify` | violates `EvidenceMatchesTree` | an edit between the checks and the fingerprint passes as verified |
| `ledger_forced` | violates `WarningsReplay` | a forced completion does not replay |

**Bounds.** Two processes and three threads give contention on each of the two locks and
on both at once; two starts and two runs give a marker to fight over; a mutation and a
completion give a writer to lose; one death, which may come at any point, is enough
because nothing is repaired at start-up: what a second one finds, the first one left. For the gate three contents
are one that passes, one that fails and one that raises a finding; two edits suffice to
leave a content and come back to it (A-B-A), three to do so after a commit; two verifies
can store in either order. The thresholds are constants: 2 in place of 3 reaches in four
transactions what 3 reaches in six.
Four transactions are enough for start, finish, verify and a patch to meet in any order;
a batch of events inside one transaction (verify, apply_patch) is not bounded by it.
For the hooks three contents are what it takes to be dirty twice in different ways, and
two changes to be so around one call; two calls are in two sessions, and the calls of one
session that follow each other are the same call again, so that a snapshot left by one is
met by the next. For the evidence two tests give every mixture of outcomes that the mapping
tells apart; one criterion matches a file and its test, one tests without a file, one
everything; the repositories declare each tool at least once, pytest in both files, and
one suite twice, and so does a configuration.
For the gate one report is enough to be before or after a watermark. For patches the two
files are one in scope and one outside, the rewrite changes both and the splice one of
them, which gives diffs that differ in one file only; two edits suffice to change a file
and change it back around a proposal, and two proposals to be of the same diff, to invalidate each other, or
to meet a patch that stopped half-way. For the context nine symbols in five files are such
that headers alone, one body, and several symbols exceed a budget, and that ranks, costs
and redundancies disagree; the caps of the tiers are 2 in place of 5 and 8, and up to
seven symbols fill both.
`CHECK_DEADLOCK FALSE` stands where the model counts its steps and may stop;
`RunStore` checks deadlock, `Quiet` being the only way to stop.

**Fairness.** `RunStore`: weak fairness of each thread that has a step to take. The
interpreter and the kernel schedule it, a flock released is granted to somebody, and no
step waits for anything but the two locks. Weak fairness is enough because a holder of
the flock always ends; with three calls nobody can be overtaken for ever.
`CompletionGate`: weak fairness of the verifies, of acknowledging, and of completing with
unverified criteria accepted. That is not the code but the agent of the remediations its
errors name; the property says they are sufficient. Edits and commits need no fairness.

## The proofs

**RunStoreProofs** proves every safety property of `store_safety` and the refinement for
any number of processes, threads, runs, calls and deaths, from the assumptions on the
constants and `~TokensCollide`: two starts never hold the same drawn id at once. The code
draws 24 random bits and checks them against the table before it takes a lock, so the
assumption is probabilistic; without it `Consistent` fails in the model, as it would in
the code. None of the properties is inductive. `IInv` adds: who is past an acquisition
holds the lock (`LocksHeld`); a call belongs to one thread and is unanswered while it
runs (`JobsSound`); a run under creation has no row and one creator (`StartsAlone`);
under the flock the record in memory is the row plus this call, and after the commit the
row itself (`RecordsCurrent`); where the effect of a call can be found, and that it
cannot be found before its commit (`EffectsPlaced`); for each mirror that is behind, the
thread that will write it or the failed call that did not (`MirrorsExplained`); the
marker against the threads on their way out (`MarkersExplained`). One lemma per action
shows that it keeps `IInv`; the exceptions share `FailStep`. `Implementation` maps a
commit to the abstract effect, a reply or an exception to the abstract answer, a death to
the failure of all calls of a process at once, and everything else to a stutter.

**CompletionGateProofs** proves `TypeOK`, `GateSound` and `ReportedEditsCaught` for any
contents, checks, findings, verifies and edits. `GInv` says that a verify nobody disturbed
has gathered facts about the worktree as it is (and all findings of the scope it knew,
unless git hid some), that stored evidence stays what it was
about (with the findings tied to the number of HEAD, so that a commit cannot confuse
them), and that a tree other than the one checked has an unreported edit or a report past
the watermark.

**EvidenceProofs** proves the five properties of `evidence` and `TypeOK` for any
repositories, configurations, criteria, tests and contexts. `EInv` adds that a report
comes from a test check that was run, that a suite that passed reports no failure, that of
the discovered checks the suites are the tests (`Declared`), and that what was concluded
is what the results say. `FailuresAreKept` needs that a violated criterion has a failed
test, which stays in the reports, or a failed check, which decides the outcome
(`ViolatedMeans`). `WorseHelpsNothing` goes over the ranks of one criterion, and of the
outcome, as the results of one test get worse.

**PatchEngineProofs** proves the five properties of `patch_engine` for any files, requests,
callers, contexts of a diff and edits. The invariant says what a caller under the lock
knows as long as nobody moved anything: the text it spliced is the splice of the file it
will overwrite, its diff is the diff of that text and the diff of its patch, and of a
rewrite every file is either still as previewed or already written. That a hunk of the
bytes is, read as text, the hunk of the texts when a write leaves the newlines as they are
is a matter of common prefixes and suffixes (`EndsAgree`, `ShownDiff`): for a splice of a
file without carriage returns (`PlainAgree`) and for a rewrite (`KeptAgree`).

**HookChannelProofs** proves `TypeOK`, `ChangesRecorded` and `NothingInvented` for any calls,
sessions, paths, contents, runs and changes, two calls of one session among them, which the
run has not. `HInv` says that an open call that is not blind is alone in its session
(`Alone`), so that the snapshot of the session is the one its first hook stored; and that
every path nobody touched since is as that snapshot says, in the worktree and in what git
status tells (`Sees`). `HookStep` carries the invariant over a step of one call, the other
lemmas say what that call then knows. That a run is active whenever one is in progress
needs the last element of a finite set: `LastOne` (in `Positions`) gets it from the
well-foundedness of strict inclusion, without an induction theorem.

**RunLedgerProofs** proves `TypeOK`, `OneWarningEach`, `NothingEscapes`, `NoFalseAlarm`,
`PhaseForward` and `IntegrityHolds` for any paths, commands, checks, criteria, scope, thresholds and length of a
run. Three things are shown first. What a check of the governor counts along a stream is the
length of the current streak (`StreakCounted`), so a check finds exactly the situations said
without counting (`ReadsFound`, `FailuresFound`, `StraysFound`); the induction this needs
goes over the sets of positions for which a claim holds (`StepByStep`), and that a function
defined from one position to the next exists and is the only one (`Recursion`,
`OneRecursion`) is proved rather than assumed. What `_govern` does not warn about again has
a warning of the same signature (`UnwarnedFound`). More events end no situation, and
warnings make none (`ReadsKept`, `FailuresKept`, `StraysKept`), so that the governor need not
look at what it adds. `LInv` then says that warnings differ, that each has its cause in the
stream and that each situation of the stream has its warning; `GovernedOK` and `SaveKeeps`
carry it over what every operation ends with, and one lemma per operation over the rest:
`ApplyStep` over the two calls of the governor in one transaction.

`IntegrityHolds` needs a second invariant on top, `RInv`: replay and record agree on every
field but for the two cases the property names (`Agrees`), no event is of the future
(`Before`), and no command was started in it (`Begun`). The last two are what makes a verify
beside an open command a case of `RanWhileOpen` at once, and keeps it one when the command
is finished later. `After` is replay from a record on; replay of two lists of events
is replay of the second after that of the first (`AfterBoth`), so that each operation is a
matter of its own events: `SaveReplays` deals with the warnings every operation ends with,
and one lemma per operation with the rest. Three of them are more than one step of
`Reduce`. A verify sends a start and a finish for each check where the record has one
command: they cancel out, one check at a time, when none of the checks is open
(`Closed`, `AfterChecks`), and touch nothing but commands when one is (`OnlyCommands`).
A finish replaces one open instance of a command and keeps the others
(`FinishChanges`, `RemovedSet`). And an apply out of an acknowledged scope first saves what the governor
says of the stored stream: nothing, as every situation has its warning already
(`NothingNew`, from `LInv`). Assumed of the constants is `NoneAssumption`: the missing value
is no path, command, time or kind of decision.

**ContextCompilerProofs** proves the five properties of `context` and `TypeOK` for any
answer of the analyzer, task, ranking of phases, budget, caps and callers; assumed is that
an answer, the words of the task and those of a name are finite, as in the code. Sums are
cardinalities: `Spent` counts the tokens of the answer (`Told`), so that what the prover
knows of finite sets bounds them. `CInv` says that the symbols told are whole, different,
and no longer candidates; that what they cost and what remains make up the budget; and
that each after the first added no less than any that is left and costs no more (`Whole`);
or else that the answer is the one cut symbol (`Cut`). The lemmas below it are about sort
keys: `Before` orders keys of one length totally, so that a nonempty finite set has a
`First`, two symbols with the same key are the same (`PlacesDiffer`), and a
`Top` that leaves something takes as many as asked, each before all it leaves (`TopFull`).

Only model-checked: liveness (`CallsReturn`, `RemediationWorks`), which rests on fairness
and is out of the prover's reach. Every other property of the passing runs is a theorem.

## What was found

Three statements of the repository's documents and comments that the code does not keep,
one run each (`findings` in `PROJECT.json`): edits during a verify, forced completions that
`check-integrity` reports as mismatches, criteria satisfied by tests that were never
collected. The models contain more, which the properties except by name or by a history
variable and no run shows:

* a verify beside an open command of the same text replays to other command records
  (`RanWhileOpen`; `IntegrityHolds` excludes this and the forced completion, so that it
  still catches any other mismatch);
* `transition_phase` reaches DONE past the gate (`GateSound` speaks of completions);
* a loop that a change ended and that starts again raises no second warning, where the
  docstring of `WarningRecord` (`core/run_record.py:48-50`) has an exception for it: the
  code compares with every warning there ever was, so the exception never happens
  (`OneWarningEach` allows it, as the docstring does, and is silent on this);
* an applied splice takes every carriage return out of its file, so that each line of a
  CRLF file changes while the previewed and compared diff has one hunk
  (`ExactUnlessMoved` names the case and holds for the text);
* a configured linter that passes satisfies a criterion by itself when pytest is missing,
  as every configured command has kind `test` (`service.py:1125-1128`; `OnlyTestsCount`
  excepts them);
* a suite that is declared twice runs twice (`Evidence`);
* without a matching executed test, exit codes and file names satisfy a criterion, which
  the tests and the roadmap provide for and the docstring of `evidence_providers.py:9-11`
  words otherwise (`PassIsEarned` has both cases);
* an edit made while an apply is under way, after the comparison, is overwritten
  (`ExactUnlessMoved` asks that nothing moves while the lock is held);
* a git that hangs ends a verify with nothing stored (`VerifyFails`), where the docstring of
  `_analyze_patch_safe` says that a flaky git must not prevent that;
* a context exceeds its budget when the header of the best symbol leaves no room
  (`BudgetHeld` names the case and bounds the excess).

## Not modelled, and the plan

1. Proofs: what one model takes from another, as a refinement (the two operations of
   `RunLedger` on patches as an abstraction of `PatchEngine`).
2. In `HookChannel`: untracked directories among the paths, two calls of one session as
   a run, `--run`, the health counters.
3. In `ContextCompiler`: the related tests, as part of the scope.
4. In `CompletionGate`: the assessment itself (deleted and weakened tests, manifests),
   which is a constant now.

Not planned: the launcher and the analyzer behind its port (process I/O); MCP and
CLI (translation: their processes are the processes of `RunStore`, and the run id
an MCP server remembers only fills in an argument); the
evaluation harness (a sequential experiment over disposable clones), metrics, doctor,
configuration and rendering (pure functions, outside
the control plane); `JsonStateStore`, `append_event`, `save_run` and
`delete_run_snapshot_state` (no caller in the service).
