---------------------------- MODULE BuildEngine ----------------------------
(***************************************************************************)
(* The build of an approved plan, with the git integration under it and    *)
(* the reconciliation of a resume: build-engine.mjs, integrateTask of      *)
(* git-integration.mjs, the worktrees of git-workspaces.mjs.               *)
(*                                                                         *)
(* One coordinator drives layers of tasks.  Within a layer the tasks are   *)
(* coroutines that interleave at their awaits; the critical section that   *)
(* copies a task's files into the integration checkout and commits them is *)
(* serialized by a mutex.  The process can die between any two steps, and  *)
(* a checkpoint write or a git command can throw, which rejects the build  *)
(* while the other tasks of the layer go on.                               *)
(*                                                                         *)
(* The content of a file is the set of tasks whose edits it holds.  Budget *)
(* refusals, executor deaths, reviews and validations are outcomes.        *)
(***************************************************************************)
EXTENDS Naturals, Sequences, SequencesExt

CONSTANTS
  Tasks, Paths,
  layers,        \* sequence of sets of tasks, the topological layers
  writeScope,    \* writeScope[t]: the paths the task may change
  Checkout,      \* what the integration directory has checked out
  Unsayable,     \* tasks whose commit subject the plan gives in several lines, or blank
  Histories,     \* what the history before this run may name: sets of tasks
  MaxRuns,       \* bound on how often the build is driven
  MaxLost        \* bound on how many commits the integration branch loses

layerOf(t) == CHOOSE i \in DOMAIN layers : t \in layers[i]

ASSUME BuildAssumption ==
  /\ layers \in Seq(SUBSET Tasks)
  /\ \A t \in Tasks : \E i \in DOMAIN layers : t \in layers[i]
  /\ \A i, j \in DOMAIN layers : i # j => layers[i] \cap layers[j] = {}
  /\ writeScope \in [Tasks -> SUBSET Paths]
  /\ \A t, u \in Tasks : t # u /\ layerOf(t) = layerOf(u)
                           => writeScope[t] \cap writeScope[u] = {}
  /\ Checkout \in {"branch", "detached"}
  /\ Unsayable \subseteq Tasks /\ Histories \subseteq SUBSET Tasks
  /\ MaxRuns \in Nat /\ MaxLost \in Nat

VARIABLES
  unit, buildPhase, stale,   \* checkpoint: units, phases.build, stale-done open items
  commits, tree,             \* integration checkout: commits of this run, HEAD,
  index, work,               \*   what is staged, files
  integration, leftover,     \* worktrees on disk: the integration one, those of tasks
  driver, layer, done,       \* coordinator: where it is, layer index, in-memory done set
  queue,                     \* task ids reconcileResume has still to look at
  pc, change, prior,         \* tasks: where each is, what it changed, the rollback copy
  earlier,                   \* the tasks that commits of earlier runs name, never changed
  runs, lost                 \* how often the build was driven, a commit lost

ckVars == <<unit, buildPhase, stale>>
gitVars == <<commits, tree, index, work, integration>>
taskVars == <<pc, change, prior>>
given == <<earlier, runs, lost>>
driverVars == <<driver, layer, done, queue, given>>
vars == <<ckVars, gitVars, leftover, taskVars, driverVars>>

Base == [p \in Paths |-> {}]
Settled == {"idle", "ok", "failed", "threw"}

Init ==
  /\ unit = [t \in Tasks |-> "pending"] /\ buildPhase = "pending" /\ stale = {}
  /\ commits = <<>>
  /\ tree = Base /\ index = Base /\ work = Base
  /\ integration = FALSE /\ leftover = {}
  /\ driver = "down" /\ layer = 1 /\ done = {} /\ queue = {}
  /\ pc = [t \in Tasks |-> "idle"] /\ change = [t \in Tasks |-> {}] /\ prior = Base
  /\ earlier \in Histories
  /\ runs = 0 /\ lost = 0

committed == {commits[i].task : i \in DOMAIN commits}

-----------------------------------------------------------------------------
\* start or resume: preflight refuses a dirty root, which is the integration
\* checkout when that is a branch checked out in the root.
start ==
  /\ driver = "down" /\ runs < MaxRuns
  /\ Checkout = "branch" => work = tree /\ index = tree
  /\ driver' = "prepare" /\ runs' = runs + 1
  /\ UNCHANGED <<ckVars, gitVars, leftover, taskVars, layer, done, queue, earlier, lost>>

\* prepareWorkspace.  A branch checkout is the caller's and stays.  The default
\* is a worktree detached at the approved base: one that is already there is
\* quarantined, with the commits only its HEAD knew, and the call throws.
prepareWorkspace ==
  /\ driver = "prepare"
  /\ IF Checkout = "detached" /\ integration
       THEN /\ integration' = FALSE /\ driver' = "down"
            /\ commits' = <<>>
            /\ tree' = Base /\ index' = Base /\ work' = Base
            /\ UNCHANGED <<buildPhase, queue, done>>
       ELSE /\ integration' = TRUE /\ driver' = "reconcile"
            /\ buildPhase' = "running" /\ queue' = Tasks /\ done' = {}
            /\ UNCHANGED <<commits, tree, index, work>>
  /\ UNCHANGED <<unit, stale, leftover, taskVars, layer, given>>

\* Mutant: trailers are not looked up, the checkpoint alone says what is integrated.
integratedPerCheckpoint == {t \in Tasks : unit[t] = "done"}

\* The Task-Ids of the commits reachable from the integration ref, of whatever run: the
\* trailers say which, and nobody looks.  Nothing moves the ref but a commit on a checkout
\* of that branch; a ref that does not resolve names no task.
integratedTaskIds == earlier \cup (IF Checkout = "branch" THEN committed ELSE {})

\* Mutant: a done record is believed.
reconcileTrusting(t) ==
  /\ driver = "reconcile" /\ t \in queue
  /\ queue' = queue \ {t}
  /\ IF t \in integratedTaskIds
       THEN unit' = [unit EXCEPT ![t] = "done"]
       ELSE UNCHANGED unit
  /\ done' = IF unit'[t] = "done" THEN done \cup {t} ELSE done
  /\ UNCHANGED <<buildPhase, stale, gitVars, leftover, taskVars, driver, layer, given>>

\* reconcileResume, for one task id.
reconcileResume(t) ==
  /\ driver = "reconcile" /\ t \in queue
  /\ queue' = queue \ {t}
  /\ IF t \in integratedTaskIds
       THEN /\ unit' = [unit EXCEPT ![t] = "done"] /\ done' = done \cup {t}
            /\ UNCHANGED stale
       ELSE /\ stale' = IF unit[t] = "done" THEN stale \cup {t} ELSE stale
            /\ UNCHANGED <<unit, done>>
  /\ UNCHANGED <<buildPhase, gitVars, leftover, taskVars, driver, layer, given>>

reconciled ==
  /\ driver = "reconcile" /\ queue = {}
  /\ driver' = "layer" /\ layer' = 1
  /\ UNCHANGED <<ckVars, gitVars, leftover, taskVars, done, queue, given>>

startLayer ==
  /\ driver = "layer" /\ layer <= Len(layers)
  /\ pc' = [t \in Tasks |-> IF t \in layers[layer] \ (done \cup stale) THEN "todo" ELSE pc[t]]
  /\ driver' = "tasks"
  /\ UNCHANGED <<ckVars, gitVars, leftover, change, prior, layer, done, queue, given>>

-----------------------------------------------------------------------------
\* runTask, step by step.
inProgress(t) ==
  /\ pc[t] = "todo"
  /\ unit' = [unit EXCEPT ![t] = "in_progress"]
  /\ pc' = [pc EXCEPT ![t] = "workspace"]
  /\ UNCHANGED <<buildPhase, stale, gitVars, leftover, change, prior, driverVars>>

\* The finally clause: a worktree that git will not remove is quarantined, and what
\* cannot even be moved stays where it is.
cleanupWorktree(t) == leftover' \in {leftover, leftover \ {t}}

blockTask(t) ==
  /\ unit' = [unit EXCEPT ![t] = "blocked"]
  /\ pc' = [pc EXCEPT ![t] = "failed"]
  /\ cleanupWorktree(t)

\* A worktree that was left behind is quarantined, and the task blocked.
createTaskWorktree(t) ==
  /\ pc[t] = "workspace"
  /\ IF t \in leftover
       THEN blockTask(t)
       ELSE /\ leftover' = leftover \cup {t} /\ pc' = [pc EXCEPT ![t] = "exec"]
            /\ UNCHANGED unit
  /\ UNCHANGED <<buildPhase, stale, gitVars, change, prior, driverVars>>

\* The executor returns having changed some paths; verifyScope looks at them.
executor(t, changed) ==
  /\ pc[t] = "exec"
  /\ IF changed # {} /\ changed \subseteq writeScope[t]
       THEN /\ change' = [change EXCEPT ![t] = changed]
            /\ pc' = [pc EXCEPT ![t] = "review"]
            /\ UNCHANGED <<unit, leftover>>
       ELSE blockTask(t) /\ UNCHANGED change
  /\ UNCHANGED <<buildPhase, stale, gitVars, prior, driverVars>>

\* No worktree, no budget, a dead executor, a blocked or missing review.
refused(t) ==
  /\ pc[t] \in {"workspace", "exec", "review"}
  /\ blockTask(t)
  /\ UNCHANGED <<buildPhase, stale, gitVars, change, prior, driverVars>>

\* Mutant: recorded before the commit instead of after it.
reviewRecording(t) ==
  /\ pc[t] = "review"
  /\ pc' = [pc EXCEPT ![t] = "mutex"]
  /\ unit' = [unit EXCEPT ![t] = "done"]
  /\ UNCHANGED <<buildPhase, stale, gitVars, leftover, change, prior, driverVars>>

review(t) ==
  /\ pc[t] = "review"
  /\ pc' = [pc EXCEPT ![t] = "mutex"]
  /\ UNCHANGED <<ckVars, gitVars, leftover, change, prior, driverVars>>

\* materializeChanges: whole files from a worktree of the base.  The mutex is
\* held while a task is at "commit" or "staged".
materializeChanges(t) ==
  /\ pc[t] = "mutex" /\ \A u \in Tasks : pc[u] \notin {"commit", "staged"}
  /\ prior' = work
  /\ work' = [p \in Paths |-> IF p \in change[t] THEN {t} ELSE work[p]]
  /\ pc' = [pc EXCEPT ![t] = "commit"]
  /\ UNCHANGED <<ckVars, commits, tree, index, integration, leftover, change, driverVars>>

\* git diff looks at the files, not at the index.
changedPaths == {p \in Paths : work[p] # tree[p]}

\* Mutant: what is found changed is staged whatever the task's scope.
inScopeAnything(t) == changedPaths # {}

\* integrateLocked: the diff against the tip is not empty and within scope.
inScope(t) == changedPaths # {} /\ changedPaths \subseteq writeScope[t]

\* git add with explicit paths, and no flag that would take more.
add(paths) == index' = [p \in Paths |-> IF p \in paths THEN work[p] ELSE index[p]]

\* integrateLocked, validation green: what changed is staged.
stageInScope(t) ==
  /\ pc[t] = "commit" /\ inScope(t)
  /\ add(changedPaths)
  /\ pc' = [pc EXCEPT ![t] = "staged"]
  /\ UNCHANGED <<ckVars, commits, tree, work, integration, leftover, change, prior, driverVars>>

\* The commit takes the index, whoever staged it.
commitIntegration(t) ==
  /\ pc[t] = "staged" /\ t \notin Unsayable
  /\ commits' = Append(commits, [task |-> t, tree |-> index,
                                 changed |-> {p \in Paths : index[p] # tree[p]},
                                 staged |-> changedPaths, reviewed |-> change[t]])
  /\ tree' = index /\ prior' = Base
  /\ pc' = [pc EXCEPT ![t] = "record"]
  /\ UNCHANGED <<ckVars, index, work, integration, leftover, change, driverVars>>

\* integrateTask refuses: no lock, validation red, empty or out-of-scope changes,
\* or, only after the staging, a subject that is not one line.  The copied files
\* are put back, the index is not.
rollback(t) ==
  /\ pc[t] = "commit" \/ (pc[t] = "staged" /\ t \in Unsayable)
  /\ work' = [p \in Paths |-> IF p \in change[t] THEN prior[p] ELSE work[p]]
  /\ prior' = Base
  /\ blockTask(t)
  /\ UNCHANGED <<buildPhase, stale, commits, tree, index, integration, change, driverVars>>

record(t) ==
  /\ pc[t] = "record"
  /\ unit' = [unit EXCEPT ![t] = "done"]
  /\ pc' = [pc EXCEPT ![t] = "ok"] /\ cleanupWorktree(t)
  /\ done' = done \cup {t}
  /\ UNCHANGED <<buildPhase, stale, gitVars, change, prior, driver, layer, queue, given>>

\* A checkpoint write or a git command throws: no rollback, no record.  The
\* worktree is cleaned up, Promise.all rejects, the other tasks go on.
throws(t) ==
  /\ pc[t] \notin Settled /\ pc[t] # "mutex"
  /\ pc' = [pc EXCEPT ![t] = "threw"]
  /\ IF pc[t] \in {"todo", "workspace"} THEN UNCHANGED leftover ELSE cleanupWorktree(t)
  /\ prior' = IF pc[t] \in {"commit", "staged"} THEN Base ELSE prior
  /\ driver' = "rejected"
  /\ UNCHANGED <<ckVars, gitVars, change, layer, done, queue, given>>

-----------------------------------------------------------------------------
settledTasks == \A t \in Tasks : pc[t] \in Settled

ended == /\ driver' = "down" /\ layer' = 1 /\ done' = {} /\ queue' = {}
         /\ pc' = [t \in Tasks |-> "idle"] /\ change' = [t \in Tasks |-> {}]
         /\ prior' = Base

\* Mutant: the next layer starts whatever became of this one.
barrierPassedAnyway == driver = "tasks" /\ settledTasks

barrierPassed ==
  /\ driver = "tasks" /\ settledTasks
  /\ layers[layer] \cap stale = {}
  /\ \A t \in layers[layer] : pc[t] # "failed"

nextLayer ==
  /\ barrierPassed
  /\ layer' = layer + 1 /\ driver' = "layer"
  /\ UNCHANGED <<ckVars, gitVars, leftover, taskVars, done, queue, given>>

stopAtLayer ==
  /\ driver = "tasks" /\ settledTasks /\ ~barrierPassed
  /\ buildPhase' = "blocked"
  /\ ended
  /\ UNCHANGED <<unit, stale, gitVars, leftover, given>>

\* Every layer passed; a stale-done task in any of them is a blocker still.
finish ==
  /\ driver = "layer" /\ layer = Len(layers) + 1
  /\ buildPhase' = IF stale = {} THEN "done" ELSE "blocked"
  /\ ended
  /\ UNCHANGED <<unit, stale, gitVars, leftover, given>>

\* The rejected process exits once its last task has settled.
exit ==
  /\ driver = "rejected" /\ settledTasks
  /\ ended
  /\ UNCHANGED <<ckVars, gitVars, leftover, given>>

\* The process dies: disk, git and checkpoint stay as they are.
crash ==
  /\ driver # "down"
  /\ ended
  /\ UNCHANGED <<ckVars, gitVars, leftover, given>>

\* The operator cleans the dirty root a preflight refused.
clean ==
  /\ driver = "down" /\ (work # tree \/ index # tree)
  /\ work' = tree /\ index' = tree
  /\ UNCHANGED <<ckVars, commits, tree, integration, leftover, taskVars, driverVars>>

\* Someone moves the integration branch back by a commit.
lose ==
  /\ driver = "down" /\ work = tree /\ index = tree /\ commits # <<>> /\ lost < MaxLost
  /\ commits' = Front(commits) /\ lost' = lost + 1
  /\ tree' = IF commits' = <<>> THEN Base ELSE Last(commits').tree
  /\ index' = tree' /\ work' = tree'
  /\ UNCHANGED <<ckVars, integration, leftover, taskVars, driver, layer, done, queue, earlier, runs>>

runTask(t) ==
  \/ inProgress(t) \/ createTaskWorktree(t)
  \/ \E changed \in SUBSET Paths : executor(t, changed)
  \/ refused(t) \/ review(t) \/ materializeChanges(t)
  \/ stageInScope(t) \/ commitIntegration(t) \/ rollback(t) \/ record(t) \/ throws(t)

Next ==
  \/ start \/ prepareWorkspace
  \/ \E t \in Tasks : reconcileResume(t)
  \/ reconciled \/ startLayer
  \/ \E t \in Tasks : runTask(t)
  \/ nextLayer \/ stopAtLayer \/ finish \/ exit \/ crash \/ clean \/ lose

Spec == Init /\ [][Next]_vars

-----------------------------------------------------------------------------
\* A unit is recorded done only when a commit that names the task is on the integration
\* branch, by the task itself or by a resume after a lost record.
RecordsWhatIsReachable ==
  [][ \A t \in Tasks : unit[t] # "done" /\ unit'[t] = "done" => t \in integratedTaskIds ]_vars

\* No crash, lost record or resume integrates a task a second time.
IntegratedOnce ==
  \A i, j \in DOMAIN commits : commits[i].task = commits[j].task => i = j

\* The layer barrier: a task is integrated only on top of every task of the layers before
\* it, each in a commit of this run unless an earlier one names it.
LayerBarrier ==
  \A i \in DOMAIN commits : \A t \in Tasks \ earlier :
    layerOf(t) < layerOf(commits[i].task)
      => \E j \in 1 .. i - 1 : commits[j].task = t

\* What is committed for a task is exactly what was reviewed for it, although a
\* task that threw may have left its files in the shared checkout.
CommitsWhatWasReviewed ==
  \A i \in DOMAIN commits : commits[i].changed = commits[i].reviewed

\* The build turns green only when this run has committed every task but those that an
\* earlier run's commits name: a done record whose commit was lost is never believed.
GreenIsComplete ==
  [][ buildPhase # "done" /\ buildPhase' = "done" => Tasks \subseteq committed \cup earlier ]_vars

\* Claimed by git-integration.mjs:17: two tasks never lose an update.  Every
\* edit that was committed is still in the tree.
NoEditLost ==
  \A i \in DOMAIN commits : \A p \in commits[i].changed : commits[i].task \in tree[p]

\* Claimed by git-integration.mjs:222: a commit holds only what its own integration
\* staged.
CommitsOnlyWhatItStaged ==
  \A i \in DOMAIN commits : commits[i].changed \subseteq commits[i].staged
=============================================================================
