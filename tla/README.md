# The autonomous pipeline, in TLA+

The repository is a set of skills that let coding agents work unattended. Its
program logic is a durable run engine: a checkpoint file with a lock, an event
log, a budget ledger, one-use capabilities, a build of a task graph in git
worktrees, and a driver that goes from an approved plan to one published commit;
around it stand an intake and a plan gate, a process runner, two workflow scripts
of the older backend, a watcher, a router of learnings and a registry of recurring
jobs. This directory models these parts, checks them with TLC, and proves with TLAPS
what does not rest on fairness. Paths below are relative to `src/`; `lib` stands for
`autonomous-pipeline/scripts/lib`, `store` for `checkpoint-resume/scripts/lib`.

## The system

| Component | State it keeps | Operations | What makes it correct |
|---|---|---|---|
| `store/checkpoint-store.mjs`, lock | a lock directory beside the file | mkdir, stat, rename, rmdir, polls | writers exclude each other, no update is lost, a dead holder locks nobody out |
| `store/checkpoint-store.mjs`, document; `checkpoint.mjs` | status, units, phases, open and resolved items, validation, pipeline block | init, unit, phase, item, resolve, validation, resume, finalize, gc | done means that nothing is owed; findings never vanish; triage points at causes |
| `run-status.mjs`, `workflow-journal.mjs` | none; they read the document and a foreign journal | report, overlay | the report agrees with the document; nobody is shown at work who is not |
| `store/event-log.mjs` | append-only log and snapshot | initialize, append, rebuild | the two are one document through any crash |
| `lib/budget-ledger.mjs` | budget block of the checkpoint | init, reserve, settle, reconcile, pause, resume, report tokens, evaluate | the caps hold under concurrency and crashes; a stop is earned and final |
| `lib/authorization.mjs` | capability files by suffix | issue, verify, consume, complete, revoke, halt | one-use, bound to what was approved, dead once revoked |
| `lib/intake-scope.mjs`, `capture-intake.mjs` | a write-once intake file | capture, read, compare | written once, and nobody is told of a scope that is not on disk |
| `validate-plan.mjs`, the scope gate of `lib/pipeline-engine.mjs` | none; plan and intake files | judge, approve, preflight | no gate lets through what another refuses; what passes can be built side by side |
| `lib/build-engine.mjs`, `git-integration.mjs`, `git-workspaces.mjs` | worktrees, index, integration branch, units | runBuild, runTask, reconcileResume, integrateTask, worktree creation and quarantine | each task is integrated once, in layer order, as reviewed; done records are true |
| `lib/phase-engine.mjs`, `pipeline-state.mjs` | phases, final validation | runPhaseEngine, lifecycle, convergenceFailures | fail-closed order of phases |
| `lib/review-panel.mjs` | items, reservations | fan-out, deduplication, verifier quorum | no finding is dropped without a quorum |
| `lib/pipeline-engine.mjs`, publication in `git-integration.mjs` | all of the above, the target ref | approve, start, resume, authorize, publish | nothing runs unapproved, what is finalized has converged, one publication an approval |
| `lib/process-runner.mjs`, `lib/codex-executor.mjs` | a child process group, an answer file | spawn, timeout, cancel, kill, close; probes and task | one result, nobody left running, ok is earned |
| `pipeline.mjs`, `lib/cli-contract.mjs` | none | parse, dispatch | one JSON answer and the status that goes with it |
| `pipeline-workflow.js`, `review-workflow.js` | slots, a root lock, a branch, the checkpoint | one launch after another; one review | no slot leaks, nothing skipped is green, clean is earned |
| `watch-and-act/scripts/watch-state.mjs` | a watch file | init, observe, next, status | the polls are counted; an outcome that was told stays |
| `auto-learn/scripts/route-learnings.mjs` | generated blocks of AGENTS.md files | judge, merge, patch | what was learnt stays |
| `schedule-recurring-agent/scripts/validate-job.mjs` | a registry | validate, create, tear down | one routine a key |
| map verifier, run harvester, shell guards and hooks, site and catalogue | none, or one read | | |

They interact through files. The ledger, the store and the driver read, change and
write the same checkpoint under the lock; capabilities and the intake are files that
only exclusive creation, link and rename protect; the build meets git through
worktrees and a branch; the driver calls the build, the phases, `finalize` and the
publication in turn, and re-reads the checkpoint between them; every agent is a
process group whose answer is a file. The hard behaviour is what happens between
two of those steps: tasks interleave at their awaits, two sessions drive one run, a
process dies anywhere and is resumed, a call times out and is answered late, a file
is edited between approval and use. `PROJECT.json` lists these hazards at their
lines, with the properties that are about them or the reason there is none.

## The modules

| Module | Models | Run | Proved in |
|---|---|---|---|
| `BudgetLedger` | `budget-ledger.mjs`, one action per operation | `run` | `RunProofs` |
| `PipelineEngine` | approve, start, resume, authorize, publication and gc, by two sessions | `run`, `pipeline_unapproved` | `RunProofs` |
| `Learnings` | `route-learnings.mjs`, each file emptied and then filled, and what people edit | `run`, `learning_dropped` | `RunProofs` |
| `RecurringJob` | `validate-job.mjs`, lookup and write apart, the write cut short or not | `run` | `PlanGateProofs` |
| `BuildEngine` | `runBuild`, `runTask`, `reconcileResume`, `integrateTask`, over any history | `drive`, `build_*` | `DriveProofs` |
| `ReviewPanel` | `review-panel.mjs`: dimensions, merged findings, skeptics, register | `drive` | `DriveProofs` |
| `PhaseEngine` | `phase-engine.mjs` around `ReviewPanel`, driven again after crashes and blocks | `drive` | `DriveProofs` |
| `IntakeScope` | the write-once capture: temporary file, link, sync, read back | `documents` | `PlanGateProofs` |
| `WriteScopes` | `overlaps` of the validator and `inScope` of the build, as operators | `documents` | `PlanGateProofs` |
| `PlanGate` | `validate-plan.mjs`, the second coding of its rules at approval, the third in the workflow, preflight; over `IntakeScope` and `WriteScopes` | `documents` | `PlanGateProofs` |
| `Authorization` | `authorization.mjs`, one action per file step | `documents` | `AuthorizationProofs` |
| `OneUseToken` | abstract: what a capability promises | property of `documents` | `AuthorizationProofs` |
| `CheckpointStore` | the document's operations, `finalize`, `resume`, `converged` | `documents` | `CheckpointProofs` |
| `CheckpointCli`, `RunStatus` | the commands in front of the store; the report over it, with the second coding of resume | `documents` | `CheckpointProofs` |
| `EventLog` | `event-log.mjs`, one action per write, and the crash of each | `documents` | `CheckpointProofs` |
| `DurableDoc` | abstract: what the log promises | property of `documents` | `CheckpointProofs` |
| `WorkflowJournal` | the reader of a foreign journal, and its writer | `documents` | `CheckpointProofs` |
| `PipelineCli` | `parseCli`, dispatch, the one answer | `documents` | `PlanGateProofs` |
| `CheckpointLock` | `withLock`, one action per file-system call | `concurrency`, `lock_steal` | `CheckpointLockProofs` |
| `ProcessRunner` | one child with its group, every node event an action | `concurrency` | `AgentProofs` |
| `CodexExecutor` | `codex-executor.mjs`: three calls of `ProcessRunner`, and the answer file with who wrote it | `concurrency` | `AgentProofs` |
| `WatchState` | `watch-state.mjs` by several pollers that may die | `concurrency` | `CheckpointLockProofs` |
| `PipelineWorkflow` | `pipeline-workflow.js`: slots, root lock, launches over what earlier ones left | `concurrency`, `workflow_false_green` | `AgentProofs` |
| `ReviewWorkflow` | `review-workflow.js`: lenses, merged places, panel, verdict | `concurrency` | `AgentProofs` |
| `PipelineState` | the phase lifecycle of `pipeline-state.mjs` | `closeout_stuck` | |
| `RecursionLemmas` | none: that recursive functions exist, and induction along a list | | itself |

Definitions carry the names of the source where TLA+ allows it. What is one action
is what the code makes atomic: a function under `withLock` in `BudgetLedger`,
`CheckpointStore` and `WatchState`; a single file-system call in `CheckpointLock`,
`EventLog`, `Authorization` and `IntakeScope`; the stretch between two awaits in
`BuildEngine`, `PhaseEngine`, `ReviewPanel` and the workflows; one durable write in
`PipelineEngine`, `Learnings` and `RecurringJob`; one event of the runtime in
`ProcessRunner`. A refused operation writes nothing and is a stuttering step unless
it moves a process on. Mutants (`\* Mutant:`) stand before the definition they
replace; they are part of no specification and show that each property can fail.

Modules that build on one another extend one another: `CodexExecutor` on
`ProcessRunner`, `PhaseEngine` on `ReviewPanel`, `PlanGate` on `IntakeScope` and
`WriteScopes`, `RunStatus` on `CheckpointCli` on `CheckpointStore`, and `EventLog` is
shown to implement `DurableDoc` by INSTANCE, as `Authorization` is `OneUseToken`. `CheckpointLock` justifies the
atomicity the others assume of a locked operation, and says when: `lock_steal` shows
that with a dead holder and two survivors it does not hold. The other modules are
about the system without that accident.

Data is abstracted as follows. A document of the event log is a function from keys
to values and a digest is the document. In `BuildEngine` a file's content is the set
of tasks whose edits it holds. In `Authorization` and `PipelineEngine` plan, config
and intake are one input with a version, hashes are injective. An intake snapshot
is the sequence of its items; bytes a capture did not write do not parse. A path is
the sequence of its segments, so that slashes and dots keep their meaning. A line of
a journal is an event or garbled; a text of a learning is a name, with or without a line
break or a pattern of `replace`. An item of a scope has an id of one of four forms: plain,
with a dot, too long, or not an id; a task names it by a string or by a list.
Durations in the ledger are a few milliseconds; in `WatchState` time is whether the
deadline has passed; in `ProcessRunner` the timer may fire whenever it is armed.
Notes, prompts, wording and time stamps are left out.

## The runs

The four passing runs put modules side by side that share no state. An MC module
draws a `focus` at the start and a behaviour follows that part only, so the state
space is the sum of the parts and not their product; the invariants hold of all
parts in every state.

| Run | Parts and bounds, and why they suffice |
|---|---|
| `run` (`MC_Run`) | *commands*: two sessions, two plan contents, four commands: approve, start and two rivals. *budget*: two tasks, two phases, two termination sets that differ in calls, wall and attempts, timeouts that fit and that overrun; three barriers against a limit of two, so that a broken streak can precede a stop; one report of tokens. *learn*: three runs of the router over two directories, one edit by hand, a death between two files or in one; one text with a line break each in rule and evidence, one with a pattern. *job*: two keys, one also with a blank around it, jobs that are not valid, four creates with a registry and without, a tear-down of a routine or of the file |
| `drive` (`MC_Drive`) | *build*: two tasks side by side and one that follows both and shares a path with the first; three drives, one commit lost: a crash before the record, a resume and a stale record fit; a history with no trailer and one with the trailer of a task. *phases*: two drives, one refused write, a crash anywhere; an optional, a required, the review and both closeout phases; two findings, of which one can be open before; a required and an optional dimension; two skeptics, of which one comes from a dimension and the other is declared twice. The second drive meets the records of the first |
| `documents` (`MC_Documents`) | *command*: every line of up to three tokens behind a command. *judge*: plans right and wrong in scope, shape, order and write scopes, with ids of all forms and items named by lists, with and without an intake. *scope*: two captures of three drafts, one death or power failure or edit, a plan approved, edited and driven. *capability*: one operator, two consumers, the plan and one action; two state changes, with which a halted run can finish again at another revision; one edit. *checkpoint*: one unit; a required, an optional and a phase of another name, required or not; one finding; a right receipt, one that names an item twice, one without the path of its intake. *graph*: three units, whose lists form chains, forks, cycles and dangling names. *log*: two keys, four lines: an init over no snapshot or any, a crashed append, a repair and an append after it. *journal*: two workflows of one agent, two lines each |
| `concurrency` (`MC_Concurrency`) | *lock*: two callers with two operations each, one of which may die; stale after two ticks, eight polls, as in the code the polls outlast the threshold. *task*: one codex task, whose child may leave one descendant, with output below, at and above a ceiling of one chunk, and an answer file that is there before the call or not. *watch*: two pollers, one of which may die, two polls: the race is about the last one. *workflow*: two tasks of one layer behind one slot of each kind, one fix round, two launches, lossy status writes. *review*: two lenses over one place, reports of up to two findings of two severities |
| `lock_steal` | three processes, one of which dies, one update each |
| `build_lost`, `build_staged` | the *build* part, one drive; in the second the message of one task is refused |
| `build_detached` | the *build* part in the default workspace, two drives |
| `pipeline_unapproved` | the *commands* part |
| `learning_dropped` | the *learn* part |
| `workflow_false_green` | the *workflow* part, no status write lost |
| `closeout_stuck` | the eight phases of `PipelineState` |

Unit states of the checkpoint that no property tells apart are represented by one of
them. Consumers of capabilities are interchangeable, so `documents` takes their
permutations as symmetry; none of its properties is a liveness property. Deadlock is
not checked: every part may stop, its processes finished or dead or its bound
reached.

What the passing properties say:

- *ledger*: `NeverOversubscribed`, `EveryCallChargedOnce`, `StopDrains`,
  `NoProgressStopIsEarned`: caps, accounting and stops under concurrent, late and
  crashed calls.
- *driver*: `OneMovePerApprovedBase`, `ExecutorsNeedApproval`: the target moves at most
  once from each base an `approve` has stamped, and from no other; nothing runs before an
  approval is consumed.
- *build*: `IntegratedOnce`, `LayerBarrier`, `CommitsWhatWasReviewed`,
  `RecordsWhatIsReachable`, `GreenIsComplete`, through crashes, throws and lost commits,
  over a history with or without an earlier run. `LayerBarrier` and `GreenIsComplete` leave
  out the tasks that an earlier run's trailers name: the code takes them for integrated.
- *phases*: `ConvergesOnItsOwnEvidence` and `AdvanceIsAnswered`: no convergence on
  records of an earlier drive, no advance past a review in which a reported
  finding went without an answer, a blocker without being dismissed.
- *capabilities*: `ConsumedAtMostOnce`, `ActsOnWhatWasApproved`, and the refinement
  `ImplementsOneUseToken`: each kind is granted once, withdrawn only while nobody has it,
  taken by one consumer for what it was granted for, never after it was withdrawn, and
  completed by nobody else. The token of a kind is the suffix its file is found under.
- *intake and plan*: `CapturedOnce`, `ScopeGatesAgree`, `ScopeNeverShrinks`,
  `SafeToBuild`. `ScopeGatesAgree` says where the three codings of the scope rules part, and
  that they part nowhere else: the validator takes an extra id of more than 128 characters,
  which approve and the workflow refuse, and refuses one with a dot, which they take; the
  workflow refuses an item that a task names by other than a string, which the other two
  read by its text, and takes two tasks of one id.
- *checkpoint*: `DoneOwesNothing`, `GatesAgree`, `RootIsTheCause`, `StatusAgrees`:
  finalize, the convergence gate, resume and the report, each coded on its own, agree.
  `GatesAgree` likewise names the three places where a converged run is refused by
  `finalize`: no path of the intake was stamped, a phase of a name outside `PHASES` is
  blocked, or a phase is required beyond the required ones of `PHASES` and not done.
- *log and journal*: `ImplementsDurableDoc`, `OverlayIsHonest`.
- *lock*: `NoLostUpdate`, `EveryLiveCallEnters`.
- *agents*: `AgentsDieWithTheirRun`, `OkIsEarned`, `EveryTaskIsAnswered`. What is ok was
  read from a file that was whole and of the right shape, by this call or an earlier one,
  and that file is rewritten afterwards by nobody but a process that left the group.
- *watch and workflows*: `PollsAreAccounted`, `OneOutcome`, `SlotsAreBounded`,
  `NothingSkippedIsGreen`, `CleanIsEarned`.
- *around the run*: `OneLinersAreKept`: only a death in the write of a file, or a pattern in
  its new block, takes a learning of one line or what people wrote. `NeverStacked`: callers
  that name the registry are told of a key once, and what they were told is in it whenever it
  can be read. `OneAnswer`.

### What the violations show

Each of the eight runs that must fail states what the repository says and finds a
behaviour of the code that differs; `PROJECT.json` quotes the lines.

1. `lock_steal`. `withLock` stats the lock directory, then renames whatever bears
   the name. A holder dies; B and C both find its directory stale; B renames it,
   makes its own and enters; C, preempted since its stat, renames B's fresh
   directory and enters too.
2. `build_lost`. Every task worktree is cut from the approved base and whole files
   are copied back, so a task of the second layer that touches a file of the first
   layer commits it without the first edit.
3. `build_detached`. The default integration worktree is detached and nothing moves
   the integration ref, so a unit is done while the ref does not reach its commit.
   A resume then finds the record stale, or its commits quarantined.
4. `build_staged`. A commit message is judged after staging. When it is refused (a
   blank subject, or one of two lines), `restore()` puts the files back and not the
   index, and the next task of the layer commits the paths left there as its own.
   The passing run leaves such subjects out (`Unsayable = {}`).
5. `pipeline_unapproved`. A second `approve` over a prepared or done checkpoint
   stamps the hashes of an edited plan before the mint is refused, and `resume`
   accepts the capability consumed for the old plan.
6. `learning_dropped`. A learning with a line break in its evidence, or in another field,
   passes the checks, is written on two lines, is not read back, and is gone after the next
   write of the block.
7. `workflow_false_green`. A task reaches the branch before its slice is reviewed. A
   launch that is interrupted after a red review is followed by one that skips the
   task because of its trailer and reports converged.
8. `closeout_stuck`. Behind a blocked required phase the others are not runnable, and
   a pending phase may not become blocked, so the lifecycle never lets closeout run
   after the bumpy pass it is meant for. Only tests call `runnablePhases`;
   `phase-engine.mjs` writes blocked for the rest itself, and its closeout does run.

### Fairness

Two properties are about liveness, both in `concurrency`.

- `EveryLiveCallEnters`: weak fairness of every process's next step says that the
  operating system schedules live processes, and weak fairness of `tick` that time
  passes while somebody sleeps. A death is never fair. The polls of the code (800 of
  10 ms) outlast its stale threshold (5 s), which `MaxTries` and `StaleAfter` keep in
  proportion; `HoldAtMost` says that a live holder's section, one small read and
  write, ends within a poll.
- `EveryTaskIsAnswered`: node delivers its events, an armed timer fires, and the
  synchronous code between two awaits goes on. Nothing is assumed of the child: it may
  run for ever, ignore its input and keep its pipes. The property excepts
  `EscapedHolder`: a descendant that left the group and holds a pipe is reached by no
  kill, and the call waits for `close`.

Nothing else is driven by a scheduler the code controls: a run goes on when someone
resumes it.

## The proofs

Every property of a passing run that is not a liveness property is a theorem, for all
constants that satisfy the named assumption of its module; what is assumed beyond it is
said here and in the theorem. The assumptions say that sets are finite where the program
reads them from a file, that lists are lists, and what the code's own checks make sure of
(a layer names no task twice, as `validate-plan.mjs:224` refuses it; caps are positive, as
`makeGate` makes them). Eight modules hold the theorems.

`RunProofs`

- *Ledger*: `TypeCorrect`, `CapsHold`, `CallsAccounted` from the inductive invariant
  `Inv`, and `StopIsFinal`. Neither of the two invariants is inductive alone: a cap can only
  be kept by the first binding of the limits if nothing was spent before
  (`UnboundIsIdle`), and the caps need the types. The wall held is the cardinality of the
  set of held milliseconds, so that opening or closing a reservation moves it by that
  slice (`HeldSlice`). `StopIsEarned` rests on `StreakIsAtTheEnd`: a streak of k is k equal
  barriers at the end of the list.
- *Driver*: `TargetMovesByApproval`, `ApprovalComesFirst`, for any sessions, plans and number
  of commands. The first from `RefsInv`: what a session carries to the compare-and-swap is a
  base that was stamped, and what was integrated lies ahead of it. The second from `Gated`:
  whoever is on the way to drive or to publish has a consumed approval behind it.
- *Learnings*: `LearningsAddUp` from `FilesInv`: an absent file has nothing in it, no written
  file looks absent, and what a write under way puts in place of a file was made from it.

`AuthorizationProofs`, all assuming one operator

- `OneUse`, `ActsAsApproved`, and `RevokedIsDead`, which TLC checks as a part of the
  refinement. The invariant says that a kind that was ever
  issued is found in one of its files (`OneCapability`) and that whoever verified it or
  acts on it still meets that one or none (`SameAsVerified`).
- `FilesAreTokens`, the refinement: on top of it a kind lies under one suffix at most and
  whoever acts on it is the only one (`TokenInv`); then a creation is the grant, a rename
  takes, withdraws or completes the token, and all else is a stutter.

`PlanGateProofs`

- `IntakeIsWrittenOnce` for any captures, deaths and power failures: while nobody edits the
  file, whoever is past its link finds it there and whoever is past its sync finds it
  durable (`Kept`).
- `ValidPlansAreSafe`, for paths and entries of any length: prefixes of one sequence are
  comparable (`PrefixesCompare`), so what two entries both grant makes them overlap for the
  validator (`GrantedOverlaps`), although the two functions normalise on their own.
- `ThreeGatesAreOne`, with the partings of `ScopeGatesAgree` as they are stated above. The
  proof takes each rule of one coding to its counterpart; selected items may repeat, and the
  count of items and the count of ids agree only when they do not.
- `RunsCoverTheIntake` from `GateInv`: the snapshot in the file is a draft that somebody
  captured, and a run that is bound or started holds to one that was accepted.
- `RoutinesNeverStack`: what a call has still to write has a key nobody has and nobody was told
  of, as long as calls do not overlap; a file that is being filled holds all it held before.
- `OneAnswerPerCall`, for command lines of any tokens and length: what the parser has at a
  place, it has read from the tokens before it, and so whether JSON is asked for is decided
  alike by the parser and by the handler of its errors (`ModesAgree`).

`DriveProofs`

- `EachTaskOnce`, `LayersInOrder` and `GreenHasAll` for any plan, history, drives, crashes,
  throws and checkout. `RecordsAreBacked` says of any checkout that a done record has a
  commit behind it in the history that is checked out (`RecordsWhatIsCommitted`), and of the
  branch checkout that this is the integration branch; `build_detached` is what happens to
  the second part in the default workspace. The done set of the coordinator ties branch and
  records together (`Coordinated`), and whoever works is in the current layer and not on the
  branch (`InLayer`).
- `CommitsAreReviewed` assumes that every subject of the plan is one line (`Unsayable = {}`),
  and `build_staged` is what happens without it. On top of the invariant of the build, the
  second one says who may have made a path dirty: the holder of the checkout, or a task that
  threw in this layer, none of whose paths another task of the layer may write (`DirtInv`).
- `FinalizedOnWhatItSaw` from `ResultsInv`: what a drive calls done it saw pass, what it calls
  skipped was configured away, and a green final validation is followed by nothing that
  edits. `ReviewIsAnswered` adds the panel: ballots are those of independent skeptics, one
  each (`BallotsAreIndependent`, `OneBallotEach`), and verdicts stand on a quorum of them
  (`VerdictsStand`).

`CheckpointProofs`

- `LogIsDurable`, the refinement of `DurableDoc`: what the log holds replays to one document,
  but for a fragment behind the last record, and a snapshot is that document or the one
  before it; so each write of a call is a step or a stutter.
- `DoneIsPaidFor`, `GatesNeverDisagree`: what finalize asks of the receipt, counts that agree
  and no item left over, makes each item of the intake stand in it just once.
- `WalkFindsTheCause`: `resume` walks by recursion on what it has seen. Each call has seen one
  id more, so the recursion is defined (`WalkIsDefined`); where it ends is found by the least
  number of unseen ids for which it would end badly (`WalkEnds`). `ReportIsTrue`: the loop
  of `run-status.mjs` keeps, round by round, what that recursion would answer from where it
  stands (`RoundKeepsAnswer`), and has ended after as many rounds as there are ids.
- `OverlayTellsTheTruth`: as long as every complete line is an event, the lines are what
  happened, up to one event (`FlowInv`).

`CheckpointLockProofs`

- `LockTypeCorrect` for any processes, polls and thresholds. The other two assume that no
  section outlasts the stale threshold, and let processes die anywhere. `Serialized` says
  that being inside and owning the directory are the same, that a directory found stale is
  one whose holder is dead, and that whoever is about to write has read the current document.
  It breaks in one way only, when two processes are about to rename one directory
  (`lock_steal`), so `LockExcludes`, for any number of processes, is about the behaviours
  where that does not happen (`OneStealer`). `LockLosesNoUpdate` shows that it cannot happen
  to two processes, both of them mortal, because a stale directory is one that a dead process
  left, which leaves one to steal it; nor where nobody dies.
- `PollsAreCounted`, `WatchEndsOnce`, also with deaths: what is on disk is accounted for by the
  answers and the polls whose caller died, and whoever is inside is about to write what
  continues a watch that has not ended (`CallsInv`, `FileInv`).

`AgentProofs`

- `NoAgentOutlivesItsCall`, `OkTasksAreEarned` from `ExecInv`: no process of the group lives
  once the call is over, nothing is killed or cut off without a mark that says why, and the
  file is what was read of it as long as nobody wrote it since.
- `ConvergedMeansRun` from `FlowInv`: neither the checkpoint nor a launch that read it says
  done of a task that is not on the branch; behind the build, an empty register means that
  nothing was left out so far.
- `GatesCountTheirSlots` from `GateInv`: for each gate the tasks that hold a slot are as many as
  it counts, and the queue lists exactly those who wait, once each (`Slots`); admitting a
  layer is an induction along its list.
- `CleanDiffsAreEarned` from `ReviewInv`: whatever a lens reported is covered, for its place,
  by something at least as severe that the merge kept (`Covers`), and that was put to the
  panel its severity calls for.

Recursive functions (`chainRoot`, the rounds of the report, the fold of a list, the tokens
of a command line, `FlattenSeq`) are reasoned about with `RecursionLemmas`: a function whose
value at x reads it only at places of a lower rank exists (`FixedPoint`), so it can be
unfolded; `Accumulation` is the case of a list, `UpTo` is induction along one. Both come from
the least element of a set of numbers (`LeastOf`), as the induction theorems of the library
take an operator as a parameter, which these provers cannot instantiate.

Model-checked only:

- the two liveness properties: fairness and `ENABLED` are out of the prover's reach;
- of the lock, that a third process breaks it: beyond two processes with deaths, the theorem
  assumes that no two steal one directory;
- the eight violations, which are counterexamples.

## What is not modelled, and limits to keep in mind

Not modelled: the map verifier, the run harvester, the shell guards and hooks, the site
and the skill catalogue. They keep no state of their own: a check of one document
against the file system, a reading of a finished run, text matching on one command, and
static generation. Test files are read for what they expect, and not modelled.

Limits:

- *Capabilities.* One operator. The search for an existing capability and the exclusive
  creation are two steps, and the creation fails only on an issued file; with two
  operators minting one kind at once a capability that was issued and consumed in
  between is minted again, and `ConsumedAtMostOnce` fails. The module's documents speak
  of one interactive operator. The checks of terminal and directory are left out.
- *Build.* One driver. Two resumes over one repository, which quarantine each other's
  worktrees, are listed as a hazard. `integratedTaskIds` matches Task-Ids of any run, as the
  schema documents: over a base that an earlier run built, a task of a name used there is
  recorded done and not built. The model has such a history, and the two properties that
  would deny it leave those tasks out.
- *Driver.* The header of `git-integration.mjs` (line 18) says that the target moves exactly
  once. That holds of one approved base. A second `approve` after the publication resolves
  the base anew and stamps it before the mint is refused, and a resume then publishes again,
  from a target that equals its base; the model has this, and `OneMovePerApprovedBase` is
  what is left. Minting an approval is one step, its search and its exclusive creation; they
  are two in `Authorization`. `PipelineEngine` takes build and phases by their outcome. It
  reaches runs that no command continues: a crash between `init` and `markPrepared`, or
  between `finalize` and the publication, and a second `approve` of a prepared run, which
  wipes its nonce. No document promises otherwise. gc reads a status without the lock and
  renames later.
- *Checkpoint.* Operations are still accepted after `finalize`; `DoneOwesNothing` is about
  the step that writes done. The operations do not write through the event log yet, so that
  no checkpoint has two writers. A log may be begun with a document over an unrelated
  snapshot: what readers see until the next operation after a crash is that snapshot, and
  `DurableDoc` allows it. The report reads a status it does not know (`prepared`,
  `awaiting_authorization`) as complete once every unit is done, which `StatusAgrees` bounds
  and does not forbid. The upgrade of documents of the first schema is left out, as is `get`
  of a single field.
- *Phases.* `PhaseEngine` sees of the ledger that reservations can be refused and that it
  stops, and of a finding its id and whether it blocks. The panel a build task convenes is
  an outcome of `BuildEngine`; what it leaves open is where `PhaseEngine` starts.
- *Ledger.* Reports of tokens are bounded by `MaxReports`; paused time is never read back
  and is left out.
- *Agents.* The answer file of an earlier attempt may still be there and be read; no
  document promises more, and the hazard is listed.
- *Learnings and jobs.* One router and one job call at a time; neither file has a lock. Both
  are written in place: a death in the write of an AGENTS.md loses what stood in it, human
  text included, which `OneLinersAreKept` excepts; a death in the write of the registry leaves
  a file that no call can read, and every create refuses. A text with a pattern that
  `String.replace` expands (`$&` and its like) garbles the block it is written over, which is
  excepted too; a doubled dollar sign, of which one is kept, and text that imitates the marks
  of the block are left out, as is where in the text the block stands. A create without
  `--existing` looks nothing up and says created every time (`createUnlisted`); and two
  spellings of a key, one with a blank, are two keys, as the lookup takes keys as written.
- *Workflows.* What agents answer, and retries inside a slot, are outcomes.

## Plan

Done: all parts above, and a theorem for each of their safety properties. What would
add most next:

1. An abstract specification of the lock, a document that is changed at one instant, and
   the theorem that `CheckpointLock` implements it under the hypotheses of
   `LockLosesNoUpdate`.
2. Two build drivers over one repository, with the quarantine between them, and what is
   left of `EachTaskOnce` then.
3. The event log under the operations of the store, once the code writes through it.
4. Abstract specifications of the build (a branch that grows by whole layers) and of the
   gates of the workflow (counting semaphores).

## Running it

    tlc -workers 2 -config MC_Run.cfg MC_Run
    tlapm RunProofs.tla

and likewise for the other configurations, each of which is named after the module it
belongs to. `MC_Documents` is the longest run, about three minutes.
