----------------------------- MODULE DriveProofs -----------------------------
(***************************************************************************)
(* The two halves of a drive, for any plan and any review panel, and any   *)
(* number of drives, crashes, throws and refused writes.                   *)
(*                                                                         *)
(* The build: the done set of the coordinator ties the branch to the work  *)
(* in progress, as it holds what is on the branch while a drive goes from  *)
(* layer to layer, and whoever works is in the current layer and not in    *)
(* it.  A second invariant, on top of it, says who may have made the       *)
(* checkout dirty.                                                         *)
(*                                                                         *)
(* The phases: what a drive has in memory is what it saw, and the ballots  *)
(* of the review are those of independent skeptics, one each.              *)
(***************************************************************************)
EXTENDS BuildEngine, PhaseEngine, FiniteSetTheorems, TLAPS

Working == {"todo", "workspace", "exec", "review", "mutex", "commit", "staged"}
Unsettled == Working \cup {"record"}
Up == {"reconcile", "layer", "tasks", "rejected"}

BuildTypes ==
  /\ \E S : commits \in Seq(S)
  /\ committed \subseteq Tasks
  /\ pc \in [Tasks -> Unsettled \cup Settled]
  /\ unit = [t \in Tasks |-> unit[t]]
  /\ driver \in Up \cup {"down", "prepare"}
  /\ layer \in Nat \ {0}

\* The coordinator's view of the branch, by where it is.
Coordinated ==
  /\ driver \in {"down", "prepare"} => done = {}
  /\ driver \in Up => integration
  /\ ~ integration => commits = <<>>
  /\ done \subseteq committed \cup earlier
  /\ driver = "reconcile" => committed \subseteq done \cup (IF Checkout = "branch" THEN queue ELSE {})
  /\ driver = "layer" => committed \subseteq done
  /\ driver = "tasks" => committed \subseteq done \cup {t \in Tasks : pc[t] = "record"}
  /\ driver \in {"layer", "tasks", "rejected"} => \A i \in DOMAIN layers : i < layer => layers[i] \subseteq done

\* The tasks of the current layer.
InLayer ==
  /\ \A t \in Tasks : pc[t] \in Unsettled =>
       driver \in {"tasks", "rejected"} /\ layer \in DOMAIN layers /\ t \in layers[layer]
  /\ \A t \in Tasks : pc[t] \in Working => t \notin committed
  /\ \A t \in Tasks : pc[t] = "record" => t \in committed
  /\ driver = "tasks" =>
       /\ layer \in DOMAIN layers
       /\ \A t \in layers[layer] : t \in done \cup stale \/ pc[t] \in Unsettled \cup {"failed"}

BuildInv == BuildTypes /\ Coordinated /\ InLayer /\ IntegratedOnce /\ LayerBarrier

LEMMA BuildInit == Init => BuildInv
<1> SUFFICES ASSUME Init PROVE BuildInv
  OBVIOUS
<1>1. commits = <<>> /\ DOMAIN commits = {} /\ committed = {} /\ commits \in Seq({})
  BY DEF Init, committed
<1> QED BY <1>1 DEF Init, BuildInv, BuildTypes, Coordinated, InLayer, IntegratedOnce, LayerBarrier,
        Settled, Unsettled, Working, Up

-----------------------------------------------------------------------------
\* The branch grows by one commit at its end, or loses its last.
LEMMA Grows ==
  ASSUME NEW S, NEW s \in Seq(S), NEW r
  PROVE  /\ Append(s, r) \in Seq(S \cup {r})
         /\ DOMAIN Append(s, r) = 1..(Len(s) + 1) /\ DOMAIN s = 1..Len(s) /\ Len(s) \in Nat
         /\ \A i \in 1..Len(s) : Append(s, r)[i] = s[i]
         /\ Append(s, r)[Len(s) + 1] = r
<1>1. s \in Seq(S \cup {r})
  OBVIOUS
<1> QED BY <1>1

LEMMA Shrinks ==
  ASSUME NEW S, NEW s \in Seq(S), s # <<>>
  PROVE  /\ Front(s) \in Seq(S)
         /\ DOMAIN Front(s) = 1..(Len(s) - 1) /\ DOMAIN s = 1..Len(s) /\ Len(s) \in Nat \ {0}
         /\ \A i \in 1..(Len(s) - 1) : Front(s)[i] = s[i]
BY DEF Front

\* A task has one layer.
LEMMA OneLayer == ASSUME NEW i \in DOMAIN layers, NEW t \in Tasks, t \in layers[i] PROVE layerOf(t) = i
BY BuildAssumption DEF layerOf

LEMMA LayersAre == DOMAIN layers = 1..Len(layers) /\ Len(layers) \in Nat
                   /\ \A i \in DOMAIN layers : layers[i] \subseteq Tasks
BY BuildAssumption

LEMMA SameBranch ==
  ASSUME UNCHANGED <<commits, earlier>>
  PROVE  committed' = committed /\ (IntegratedOnce => IntegratedOnce') /\ (LayerBarrier => LayerBarrier')
BY DEF committed, IntegratedOnce, LayerBarrier

-----------------------------------------------------------------------------
\* The steps of the coordinator.
LEMMA DriverKeeps ==
  ASSUME BuildInv,
         \/ start \/ prepareWorkspace \/ (\E t \in Tasks : reconcileResume(t)) \/ reconciled
         \/ startLayer \/ nextLayer
  PROVE  BuildInv'
<1> USE DEF BuildInv, BuildTypes, Coordinated, InLayer, Up, Unsettled, Working, Settled,
            ckVars, gitVars, taskVars, given, driverVars
<1>1. CASE start
  BY <1>1, SameBranch DEF start
<1>2. CASE prepareWorkspace
  <2>1. CASE Checkout = "detached" /\ integration
    <3>1. /\ driver = "prepare" /\ driver' = "down" /\ commits' = <<>> /\ integration' = FALSE
          /\ UNCHANGED <<done, pc, unit, layer, stale, earlier>>
      BY <1>2, <2>1 DEF prepareWorkspace
    <3>2. commits' \in Seq({}) /\ DOMAIN commits' = {} /\ committed' = {}
      BY <3>1 DEF committed
    <3> QED BY <3>1, <3>2 DEF IntegratedOnce, LayerBarrier
  <2>2. CASE ~ (Checkout = "detached" /\ integration)
    <3>1. /\ driver = "prepare" /\ driver' = "reconcile" /\ integration' /\ queue' = Tasks
          /\ done' = {} /\ UNCHANGED <<commits, pc, unit, layer, stale, earlier>>
      BY <1>2, <2>2 DEF prepareWorkspace
    <3>2. Checkout # "branch" => committed = {}
      <4>1. Checkout # "branch" => commits = <<>>
        BY <2>2, BuildAssumption
      <4> QED BY <4>1 DEF committed
    <3> QED BY <3>1, <3>2, SameBranch
  <2> QED BY <2>1, <2>2
<1>3. ASSUME NEW t \in Tasks, reconcileResume(t) PROVE BuildInv'
  <2>1. /\ driver = "reconcile" /\ queue' = queue \ {t} /\ UNCHANGED <<commits, driver, pc, layer, integration, earlier>>
        /\ unit' = [u \in Tasks |-> unit'[u]]
        /\ IF t \in integratedTaskIds THEN done' = done \cup {t} ELSE UNCHANGED done
    BY <1>3 DEF reconcileResume
  <2>2. CASE Checkout = "branch"
    BY <2>1, <2>2, SameBranch DEF integratedTaskIds
  <2>3. CASE Checkout # "branch"
    BY <2>1, <2>3, SameBranch DEF integratedTaskIds
  <2> QED BY <2>2, <2>3
<1>4. CASE reconciled
  <2>1. committed \subseteq done
    BY <1>4 DEF reconciled
  <2>2. \A i \in DOMAIN layers : ~ (i < 1)
    BY LayersAre
  <2>3. driver = "reconcile" /\ driver' = "layer" /\ layer' = 1
        /\ UNCHANGED <<commits, done, pc, unit, stale, integration, earlier>>
    BY <1>4 DEF reconciled
  <2> QED BY <2>1, <2>2, <2>3, SameBranch
<1>5. CASE startLayer
  <2>1. /\ driver = "layer" /\ driver' = "tasks" /\ layer <= Len(layers)
        /\ pc' = [t \in Tasks |-> IF t \in layers[layer] \ (done \cup stale) THEN "todo" ELSE pc[t]]
        /\ UNCHANGED <<commits, done, unit, layer, stale, integration, earlier>>
    BY <1>5 DEF startLayer
  <2>2. \A t \in Tasks : pc[t] \notin Unsettled
    BY <2>1
  <2>3. layer \in DOMAIN layers /\ layers[layer] \subseteq Tasks
    BY <2>1, LayersAre
  <2> QED BY <2>1, <2>2, <2>3, SameBranch
<1>6. CASE nextLayer
  <2>1. /\ driver = "tasks" /\ driver' = "layer" /\ layer' = layer + 1
        /\ layers[layer] \cap stale = {} /\ \A t \in layers[layer] : pc[t] # "failed"
        /\ \A t \in Tasks : pc[t] \in Settled
        /\ UNCHANGED <<commits, done, pc, unit, stale, integration, earlier>>
    BY <1>6 DEF nextLayer, barrierPassed, settledTasks
  <2>2. layers[layer] \subseteq done /\ committed \subseteq done
    BY <2>1, LayersAre
  <2>3. \A i \in DOMAIN layers : i < layer + 1 => i < layer \/ i = layer
    BY LayersAre
  <2> QED BY <2>1, <2>2, <2>3, SameBranch
<1> QED BY <1>1, <1>2, <1>3, <1>4, <1>5, <1>6

-----------------------------------------------------------------------------
\* The commit of a task of the current layer, on top of all layers below.
LEMMA CommitKeeps ==
  ASSUME BuildInv, NEW t \in Tasks, commitIntegration(t)
  PROVE  /\ \E S : commits' \in Seq(S)
         /\ UNCHANGED earlier
         /\ committed' = committed \cup {t} /\ commits' # <<>>
         /\ IntegratedOnce' /\ LayerBarrier'
<1> PICK S : commits \in Seq(S)
  BY DEF BuildInv, BuildTypes
<1> PICK r : commits' = Append(commits, r) /\ r.task = t
  BY DEF commitIntegration
<1>0. UNCHANGED earlier
  BY DEF commitIntegration, driverVars, given
<1>1. /\ commits' \in Seq(S \cup {r})
      /\ DOMAIN commits' = 1..(Len(commits) + 1) /\ DOMAIN commits = 1..Len(commits)
      /\ Len(commits) \in Nat
      /\ \A i \in 1..Len(commits) : commits'[i] = commits[i]
      /\ commits'[Len(commits) + 1] = r
  BY Grows
<1>2. t \notin committed /\ t \in layers[layer] /\ layer \in DOMAIN layers
      /\ \A i \in DOMAIN layers : i < layer => layers[i] \subseteq committed \cup earlier
  BY DEF BuildInv, InLayer, Coordinated, commitIntegration, Unsettled, Working
<1>3. committed' = committed \cup {t} /\ commits' # <<>>
  BY <1>1 DEF committed
<1>4. IntegratedOnce'
  <2>1. \A i \in 1..Len(commits) : commits[i].task # t
    BY <1>1, <1>2 DEF committed
  <2>2. \A i \in DOMAIN commits' : i \in 1..Len(commits) \/ i = Len(commits) + 1
    BY <1>1
  <2> QED BY <1>1, <2>1, <2>2 DEF BuildInv, IntegratedOnce
<1>5. LayerBarrier'
  <2> SUFFICES ASSUME NEW i \in DOMAIN commits', NEW u \in Tasks \ earlier,
                      layerOf(u) < layerOf(commits'[i].task)
               PROVE  \E j \in 1 .. i - 1 : commits'[j].task = u
    BY <1>0 DEF LayerBarrier
  <2>1. CASE i \in 1..Len(commits)
    <3>1. PICK j \in 1 .. i - 1 : commits[j].task = u
      BY <1>1, <2>1 DEF BuildInv, LayerBarrier
    <3>2. j \in 1..Len(commits)
      BY <1>1, <2>1
    <3> QED BY <1>1, <3>1, <3>2
  <2>2. CASE i = Len(commits) + 1
    <3>1. layerOf(t) = layer
      BY <1>2, OneLayer
    <3>2. PICK n \in DOMAIN layers : u \in layers[n]
      BY BuildAssumption
    <3>3. layerOf(u) = n
      BY <3>2, OneLayer
    <3>4. u \in committed
      BY <1>1, <1>2, <2>2, <3>1, <3>2, <3>3
    <3>5. PICK j \in 1..Len(commits) : commits[j].task = u
      BY <1>1, <3>4 DEF committed
    <3>6. j \in 1 .. i - 1
      BY <1>1, <2>2
    <3> QED BY <1>1, <3>5, <3>6
  <2> QED BY <1>1, <2>1, <2>2
<1> QED BY <1>0, <1>1, <1>3, <1>4, <1>5

\* The steps of a task, but its commit, move it and leave the branch alone.
Moves(t, to) ==
  /\ pc' = [pc EXCEPT ![t] = to]
  /\ unit' = [u \in Tasks |-> unit'[u]]
  /\ UNCHANGED <<commits, layer, stale, integration, queue, earlier>>

LEMMA TaskKeeps == ASSUME BuildInv, NEW t \in Tasks, runTask(t) PROVE BuildInv'
<1> USE DEF ckVars, gitVars, taskVars, given, driverVars
<1>1. ASSUME NEW from \in Working, NEW to \in Working \cup {"failed"},
             pc[t] = from, Moves(t, to), UNCHANGED <<driver, done>>
      PROVE  BuildInv'
  <2> USE <1>1 DEF BuildInv, Moves
  <2>1. committed' = committed /\ IntegratedOnce' /\ LayerBarrier'
    BY SameBranch
  <2>2. t \notin committed /\ driver \in {"tasks", "rejected"} /\ layer \in DOMAIN layers
        /\ t \in layers[layer]
    BY DEF InLayer, Unsettled
  <2>3. pc \in [Tasks -> Unsettled \cup Settled] /\ to \in Unsettled \cup Settled
        /\ pc[t] # "record" /\ to # "record"
    BY DEF BuildTypes, Unsettled, Working, Settled
  <2>4. \A u \in Tasks : pc'[u] = IF u = t THEN to ELSE pc[u]
    BY <2>3
  <2>5. BuildTypes'
    BY <2>1, <2>3 DEF BuildTypes
  <2>6. Coordinated'
    BY <2>1, <2>3, <2>4 DEF Coordinated
  <2>7. InLayer'
    <3>1. \A u \in Tasks : pc'[u] \in Unsettled =>
            driver' \in {"tasks", "rejected"} /\ layer' \in DOMAIN layers /\ u \in layers[layer']
      BY <2>2, <2>4 DEF InLayer
    <3>2. \A u \in Tasks : /\ pc'[u] \in Working => u \notin committed
                           /\ pc'[u] = "record" => u \in committed
      BY <2>2, <2>3, <2>4 DEF InLayer
    <3>3. ASSUME driver' = "tasks", NEW u \in layers[layer]
          PROVE  u \in done \cup stale \/ pc'[u] \in Unsettled \cup {"failed"}
      BY <2>2, <2>4, <3>3, LayersAre DEF InLayer, Unsettled
    <3> QED BY <2>1, <2>2, <3>1, <3>2, <3>3 DEF InLayer
  <2> QED BY <2>1, <2>5, <2>6, <2>7
<1>2. CASE inProgress(t) \/ createTaskWorktree(t) \/ refused(t) \/ review(t)
           \/ materializeChanges(t) \/ stageInScope(t) \/ rollback(t)
           \/ \E changed \in SUBSET Paths : executor(t, changed)
  <2>1. \E from \in Working, to \in Working \cup {"failed"} :
          pc[t] = from /\ Moves(t, to) /\ UNCHANGED <<driver, done>>
    BY <1>2 DEF inProgress, createTaskWorktree, refused, review, materializeChanges, stageInScope,
       rollback, executor, blockTask, Working, Moves, BuildInv, BuildTypes
  <2> QED BY <1>1, <2>1
<1>3. CASE commitIntegration(t)
  <2>1. pc[t] = "staged" /\ pc' = [pc EXCEPT ![t] = "record"]
        /\ UNCHANGED <<unit, stale, driver, layer, done, queue, integration>>
    BY <1>3 DEF commitIntegration
  <2>2. driver \in {"tasks", "rejected"} /\ integration
    BY <2>1 DEF BuildInv, InLayer, Coordinated, Unsettled, Working, Up
  <2> QED BY <1>3, <2>1, <2>2, CommitKeeps
          DEF BuildInv, BuildTypes, Coordinated, InLayer, Up, Unsettled, Working, Settled
<1>4. CASE record(t)
  <2>1. pc[t] = "record" /\ Moves(t, "ok") /\ done' = done \cup {t} /\ UNCHANGED driver
    BY <1>4 DEF record, Moves, BuildInv, BuildTypes
  <2> USE <2>1 DEF BuildInv, Moves
  <2>2. committed' = committed /\ IntegratedOnce' /\ LayerBarrier' /\ t \in committed
    BY SameBranch DEF InLayer
  <2>3. \A u \in Tasks : pc'[u] = IF u = t THEN "ok" ELSE pc[u]
    BY DEF BuildTypes
  <2>4. BuildTypes'
    BY <2>2 DEF BuildTypes, Settled
  <2>5. driver \in {"tasks", "rejected"}
    BY DEF InLayer, Unsettled
  <2>6. Coordinated'
    BY <2>2, <2>3, <2>5 DEF Coordinated, Up
  <2>7. InLayer'
    BY <2>2, <2>3, <2>5, LayersAre DEF InLayer, Unsettled, Working
  <2> QED BY <2>2, <2>4, <2>6, <2>7
<1>5. CASE throws(t)
  <2>1. pc[t] \in Unsettled /\ Moves(t, "threw") /\ driver' = "rejected" /\ UNCHANGED done
    BY <1>5 DEF throws, Moves, BuildInv, BuildTypes
  <2>2. driver \in {"tasks", "rejected"}
    BY <2>1 DEF BuildInv, InLayer
  <2> QED BY <2>1, <2>2, SameBranch
          DEF BuildInv, BuildTypes, Coordinated, InLayer, Moves, Up, Unsettled, Working, Settled
<1> QED BY <1>2, <1>3, <1>4, <1>5 DEF runTask

-----------------------------------------------------------------------------
\* The ends of a drive, and what happens to the branch between two drives.
LEMMA EndKeeps ==
  ASSUME BuildInv, stopAtLayer \/ finish \/ exit \/ crash \/ clean \/ lose \/ UNCHANGED vars
  PROVE  BuildInv'
<1> USE DEF ckVars, gitVars, taskVars, given, driverVars
<1>1. ASSUME ended, UNCHANGED <<commits, unit, integration, earlier>> PROVE BuildInv'
  BY <1>1, SameBranch DEF ended, BuildInv, BuildTypes, Coordinated, InLayer, Up, Unsettled, Working, Settled
<1>2. CASE stopAtLayer \/ finish \/ exit \/ crash
  BY <1>1, <1>2 DEF stopAtLayer, finish, exit, crash
<1>3. CASE clean \/ UNCHANGED vars
  BY <1>3, SameBranch DEF clean, vars, BuildInv, BuildTypes, Coordinated, InLayer
<1>4. CASE lose
  <2> PICK S : commits \in Seq(S)
    BY DEF BuildInv, BuildTypes
  <2>1. /\ driver = "down" /\ commits # <<>> /\ commits' = Front(commits)
        /\ UNCHANGED <<unit, stale, integration, pc, driver, layer, done, earlier>>
    BY <1>4 DEF lose
  <2>2. /\ commits' \in Seq(S)
        /\ DOMAIN commits' = 1..(Len(commits) - 1) /\ DOMAIN commits = 1..Len(commits)
        /\ Len(commits) \in Nat \ {0}
        /\ \A i \in 1..(Len(commits) - 1) : commits'[i] = commits[i]
    BY <2>1, Shrinks
  <2>3. committed' \subseteq committed
    BY <2>2 DEF committed
  <2>4. IntegratedOnce'
    BY <2>2 DEF BuildInv, IntegratedOnce
  <2>5. LayerBarrier'
    <3> SUFFICES ASSUME NEW i \in DOMAIN commits', NEW u \in Tasks \ earlier,
                      layerOf(u) < layerOf(commits'[i].task)
                 PROVE  \E j \in 1 .. i - 1 : commits'[j].task = u
      BY <2>1 DEF LayerBarrier
    <3>1. PICK j \in 1 .. i - 1 : commits[j].task = u
      BY <2>2 DEF BuildInv, LayerBarrier
    <3> QED BY <2>2, <3>1
  <2>6. \A t \in Tasks : pc[t] \notin Unsettled
    BY <2>1 DEF BuildInv, InLayer
  <2> QED BY <2>1, <2>2, <2>3, <2>4, <2>5, <2>6
          DEF BuildInv, BuildTypes, Coordinated, InLayer, Up, Unsettled
<1> QED BY <1>2, <1>3, <1>4

LEMMA BuildNext == BuildInv /\ [Next]_vars => BuildInv'
BY DriverKeeps, TaskKeeps, EndKeeps DEF Next

LEMMA BuildAlways == Spec => []BuildInv
BY BuildInit, BuildNext, PTL DEF Spec

\* No crash, throw, lost record or resume integrates a task twice, whatever the plan.
THEOREM EachTaskOnce == Spec => []IntegratedOnce
<1>1. BuildInv => IntegratedOnce
  BY DEF BuildInv
<1> QED BY <1>1, BuildAlways, PTL

\* Every commit stands on the commits of all tasks of the layers before its own.
THEOREM LayersInOrder == Spec => []LayerBarrier
<1>1. BuildInv => LayerBarrier
  BY DEF BuildInv
<1> QED BY <1>1, BuildAlways, PTL

\* Whatever is checked out, a unit turns done only when this run has committed the task in
\* its integration checkout or an earlier run's commit names it.
LEMMA RecordsAreEarned ==
  ASSUME BuildInv, [Next]_vars, NEW t \in Tasks, unit[t] # "done", unit'[t] = "done"
  PROVE  t \in committed \cup earlier /\ (Checkout = "branch" => t \in integratedTaskIds)
<1> USE DEF ckVars, gitVars, taskVars, given, driverVars, integratedTaskIds
<1>1. CASE \E u \in Tasks : reconcileResume(u)
  BY <1>1 DEF reconcileResume, BuildInv, BuildTypes
<1>2. CASE \E u \in Tasks : record(u)
  BY <1>2 DEF record, BuildInv, BuildTypes, InLayer
<1>3. ASSUME NEW u \in Tasks, runTask(u), ~ record(u) PROVE FALSE
  BY <1>3 DEF runTask, inProgress, createTaskWorktree, executor, refused, review,
     materializeChanges, stageInScope, commitIntegration, rollback, throws, blockTask,
     BuildInv, BuildTypes
<1>4. ~ (start \/ prepareWorkspace \/ reconciled \/ startLayer \/ nextLayer \/ stopAtLayer \/ finish
         \/ exit \/ crash \/ clean \/ lose \/ UNCHANGED vars)
  BY DEF start, prepareWorkspace, reconciled, startLayer, nextLayer, stopAtLayer, finish, exit,
     crash, clean, lose, vars
<1> QED BY <1>1, <1>2, <1>3, <1>4 DEF Next

\* What RecordsWhatIsReachable says of a branch, said of any checkout: in the detached worktree
\* a drive makes by default the commit is there, and only the ref does not reach it.
RecordsWhatIsCommitted ==
  [][ \A t \in Tasks : unit[t] # "done" /\ unit'[t] = "done" => t \in committed \cup earlier ]_vars

\* A done record has a commit behind it in the integration checkout, whatever is checked out
\* there, and on the integration branch when that is what is checked out.
THEOREM RecordsAreBacked ==
  /\ Spec => RecordsWhatIsCommitted
  /\ Checkout = "branch" => (Spec => RecordsWhatIsReachable)
<1>1. Spec => RecordsWhatIsCommitted
  <2>1. BuildInv /\ [Next]_vars =>
          \A t \in Tasks : unit[t] # "done" /\ unit'[t] = "done" => t \in committed \cup earlier
    BY RecordsAreEarned
  <2> QED BY <2>1, BuildAlways, PTL DEF Spec, RecordsWhatIsCommitted
<1>2. ASSUME Checkout = "branch" PROVE Spec => RecordsWhatIsReachable
  <2>1. BuildInv /\ [Next]_vars =>
          \A t \in Tasks : unit[t] # "done" /\ unit'[t] = "done" => t \in integratedTaskIds
    BY <1>2, RecordsAreEarned
  <2> QED BY <2>1, BuildAlways, PTL DEF Spec, RecordsWhatIsReachable
<1> QED BY <1>1, <1>2

\* Whatever is checked out and whatever the history names, the build turns green only when
\* every other task of the plan was committed by this run.
THEOREM GreenHasAll == Spec => GreenIsComplete
<1>1. ASSUME BuildInv, [Next]_vars, buildPhase # "done", buildPhase' = "done"
      PROVE  Tasks \subseteq committed \cup earlier
  <2> USE DEF ckVars, gitVars, taskVars, given, driverVars
  <2>1. CASE finish
    <3>1. driver = "layer" /\ layer = Len(layers) + 1
      BY <2>1 DEF finish
    <3>2. \A i \in DOMAIN layers : layers[i] \subseteq committed \cup earlier
      <4>1. \A i \in DOMAIN layers : i < layer
        BY <3>1, LayersAre
      <4> QED BY <1>1, <3>1, <4>1 DEF BuildInv, Coordinated
    <3> QED BY <3>2, BuildAssumption
  <2>2. ASSUME NEW t \in Tasks, runTask(t) PROVE FALSE
    BY <1>1, <2>2 DEF runTask, inProgress, createTaskWorktree, executor, refused, review,
       materializeChanges, stageInScope, commitIntegration, rollback, record, throws
  <2>3. ~ (start \/ prepareWorkspace \/ (\E t \in Tasks : reconcileResume(t)) \/ reconciled
           \/ startLayer \/ nextLayer \/ stopAtLayer \/ exit \/ crash \/ clean \/ lose
           \/ UNCHANGED vars)
    BY <1>1 DEF start, prepareWorkspace, reconcileResume, reconciled, startLayer, nextLayer,
       stopAtLayer, exit, crash, clean, lose, vars
  <2> QED BY <1>1, <2>1, <2>2, <2>3 DEF Next
<1> QED BY <1>1, BuildAlways, PTL DEF Spec, GreenIsComplete
-----------------------------------------------------------------------------
\* What is committed is what was reviewed.  Three copies of the files matter: the tip of the
\* branch, what is staged and what lies in the checkout.  Where they differ a task of the
\* current layer is at work or threw, and the path is one it changed; as the scopes of a
\* layer are disjoint, no other task can stage it.
FileTypes ==
  /\ tree \in [Paths -> SUBSET Tasks] /\ index \in [Paths -> SUBSET Tasks]
  /\ work \in [Paths -> SUBSET Tasks] /\ prior \in [Paths -> SUBSET Tasks]
  /\ change \in [Tasks -> SUBSET Paths]
  /\ \A t \in Tasks : change[t] \subseteq writeScope[t]

Holding == {"commit", "staged"}
Agree(p) == work[p] = tree[p] /\ index[p] = tree[p]

\* The tip, and what every commit was on the branch when it was made.
TipInv ==
  /\ tree = IF commits = <<>> THEN Base ELSE commits[Len(commits)].tree
  /\ \A i \in DOMAIN commits :
       /\ commits[i].tree \in [Paths -> SUBSET Tasks]
       /\ \A p \in Paths : \A u \in commits[i].tree[p] : \E j \in 1 .. i : commits[j].task = u

\* Nothing is dirty but by a task that holds the checkout or threw in this layer.
DirtInv ==
  /\ \A p \in Paths : index[p] = tree[p] \/ index[p] = work[p]
  /\ ~integration => \A p \in Paths : Agree(p)
  /\ driver = "prepare" => ~integration \/ Checkout = "detached" \/ \A p \in Paths : Agree(p)
  /\ driver \in Up => \A p \in Paths : Agree(p) \/
       \E u \in Tasks : p \in change[u] /\ pc[u] \in Holding \cup {"threw"}
  /\ \A t \in Tasks : pc[t] = "threw" =>
       driver = "rejected" /\ layer \in DOMAIN layers /\ t \in layers[layer]

\* The mutex, and what its holder has done.
HolderInv ==
  /\ \A t, u \in Tasks : pc[t] \in Holding /\ pc[u] \in Holding => t = u
  /\ \A t \in Tasks : pc[t] \in Holding => \A p \in change[t] : work[p] = {t}
  /\ \A t \in Tasks : pc[t] = "commit" => \A p \in change[t] : index[p] = tree[p] /\ prior[p] = tree[p]
  /\ \A t \in Tasks : pc[t] = "staged" =>
       /\ \A p \in change[t] : index[p] = {t}
       /\ \A p \in Paths \ change[t] : Agree(p)

FilesInv == FileTypes /\ TipInv /\ DirtInv /\ HolderInv /\ CommitsWhatWasReviewed

LEMMA FilesInit == Init => FilesInv
<1> SUFFICES ASSUME Init PROVE FilesInv
  OBVIOUS
<1>1. commits = <<>> /\ DOMAIN commits = {}
  BY DEF Init
<1>2. Base \in [Paths -> SUBSET Tasks]
  BY DEF Base
<1> QED BY <1>1, <1>2 DEF Init, FilesInv, FileTypes, TipInv, DirtInv, HolderInv, Agree, Up, Holding,
        CommitsWhatWasReviewed

\* Steps that touch no file, and no task that holds the checkout or threw.
LEMMA Quiet ==
  ASSUME FilesInv, UNCHANGED <<commits, tree, index, work, prior>>,
         integration => integration',
         change' \in [Tasks -> SUBSET Paths], \A t \in Tasks : change'[t] \subseteq writeScope[t],
         \A t \in Tasks : pc[t] \in Holding \cup {"threw"} \/ pc'[t] \in Holding \cup {"threw"}
                            => pc'[t] = pc[t] /\ change'[t] = change[t],
         driver' = "prepare" => ~integration' \/ Checkout = "detached" \/ \A p \in Paths : Agree(p),
         driver' \in Up => driver \in Up \/ \A p \in Paths : Agree(p),
         \A t \in Tasks : pc[t] = "threw" => driver' = "rejected" /\ layer' = layer
  PROVE  FilesInv'
<1>1. FileTypes'
  BY DEF FilesInv, FileTypes
<1>2. TipInv' /\ CommitsWhatWasReviewed'
  BY DEF FilesInv, TipInv, CommitsWhatWasReviewed
<1>3. \A p \in Paths : Agree(p)' = Agree(p)
  BY DEF Agree
<1>4. DirtInv'
  BY <1>3 DEF FilesInv, DirtInv
<1>5. HolderInv'
  BY <1>3 DEF FilesInv, HolderInv, Holding
<1> QED BY <1>1, <1>2, <1>4, <1>5 DEF FilesInv

\* Everything agrees: the files were reset, or never touched.
LEMMA AllAgree ==
  ASSUME FileTypes', TipInv', CommitsWhatWasReviewed', \A p \in Paths : Agree(p)',
         \A t \in Tasks : pc'[t] \notin Holding \cup {"threw"}
  PROVE  FilesInv'
BY DEF FilesInv, DirtInv, HolderInv, Agree, Holding

\* Nobody holds or threw between the layers, so nothing is dirty there.
LEMMA BetweenLayers ==
  ASSUME BuildInv, FilesInv, driver \notin {"tasks", "rejected"}
  PROVE  /\ \A t \in Tasks : pc[t] \notin Holding \cup {"threw"}
         /\ driver \in Up => \A p \in Paths : Agree(p)
<1>1. \A t \in Tasks : pc[t] \notin Holding \cup {"threw"}
  BY DEF BuildInv, InLayer, FilesInv, DirtInv, Holding, Unsettled, Working
<1> QED BY <1>1 DEF FilesInv, DirtInv, Up

LEMMA DriverFiles ==
  ASSUME BuildInv, FilesInv,
         \/ start \/ prepareWorkspace \/ (\E t \in Tasks : reconcileResume(t)) \/ reconciled
         \/ startLayer \/ nextLayer \/ UNCHANGED vars
  PROVE  FilesInv'
<1> USE DEF ckVars, gitVars, taskVars, given, driverVars
<1>1. change \in [Tasks -> SUBSET Paths] /\ \A t \in Tasks : change[t] \subseteq writeScope[t]
  BY DEF FilesInv, FileTypes
<1>2. CASE start
  <2>1. \A p \in Paths : Checkout = "branch" => Agree(p)
    BY <1>2 DEF start, Agree
  <2>2. driver = "down" /\ driver' = "prepare"
        /\ UNCHANGED <<commits, tree, index, work, prior, integration, change, pc, layer>>
    BY <1>2 DEF start
  <2> QED BY <1>1, <2>1, <2>2, BetweenLayers, Quiet, BuildAssumption DEF Up
<1>3. CASE prepareWorkspace
  <2>0. driver = "prepare" /\ UNCHANGED <<prior, change, pc, layer>>
    BY <1>3 DEF prepareWorkspace
  <2>1. CASE Checkout = "detached" /\ integration
    <3>1. /\ driver' = "down" /\ commits' = <<>>
          /\ tree' = Base /\ index' = Base /\ work' = Base
      BY <1>3, <2>1 DEF prepareWorkspace
    <3>2. FileTypes'
      BY <2>0, <3>1 DEF FilesInv, FileTypes, Base
    <3>3. TipInv' /\ CommitsWhatWasReviewed'
      BY <3>1, DOMAIN commits' = {} DEF TipInv, CommitsWhatWasReviewed, Base
    <3>4. \A p \in Paths : Agree(p)'
      BY <3>1 DEF Agree
    <3> QED BY <2>0, <3>2, <3>3, <3>4, BetweenLayers, AllAgree
  <2>2. CASE ~ (Checkout = "detached" /\ integration)
    <3>1. driver' = "reconcile" /\ integration' /\ UNCHANGED <<commits, tree, index, work>>
      BY <1>3, <2>2 DEF prepareWorkspace
    <3>2. \A p \in Paths : Agree(p)
      BY <2>0, <2>2 DEF FilesInv, DirtInv
    <3> QED BY <1>1, <2>0, <3>1, <3>2, BetweenLayers, Quiet
  <2> QED BY <2>1, <2>2
<1>4. ASSUME NEW t \in Tasks, reconcileResume(t) PROVE FilesInv'
  <2>1. driver = "reconcile" /\ driver' = driver
        /\ UNCHANGED <<commits, tree, index, work, prior, integration, change, pc, layer>>
    BY <1>4 DEF reconcileResume
  <2> QED BY <1>1, <2>1, BetweenLayers, Quiet DEF Up
<1>5. CASE reconciled
  <2>1. driver = "reconcile" /\ driver' = "layer"
        /\ UNCHANGED <<commits, tree, index, work, prior, integration, change, pc>>
    BY <1>5 DEF reconciled
  <2> QED BY <1>1, <2>1, BetweenLayers, Quiet DEF Up
<1>6. CASE startLayer
  <2>1. driver = "layer" /\ driver' = "tasks"
        /\ UNCHANGED <<commits, tree, index, work, prior, integration, change, layer>>
    BY <1>6 DEF startLayer
  <2>2. \A t \in Tasks : pc[t] \notin Holding \cup {"threw"} /\ pc'[t] \notin Holding \cup {"threw"}
    BY <1>6, <2>1, BetweenLayers DEF startLayer, Holding
  <2> QED BY <1>1, <2>1, <2>2, Quiet DEF Up
<1>7. CASE nextLayer
  <2>1. driver = "tasks" /\ driver' = "layer"
        /\ UNCHANGED <<commits, tree, index, work, prior, integration, change, pc>>
    BY <1>7 DEF nextLayer, barrierPassed
  <2>2. \A t \in Tasks : pc[t] # "threw"
    BY <2>1 DEF FilesInv, DirtInv
  <2> QED BY <1>1, <2>1, <2>2, Quiet DEF Up
<1>8. CASE UNCHANGED vars
  <2>1. UNCHANGED <<commits, tree, index, work, prior, integration, change, pc, layer, driver>>
    BY <1>8 DEF vars
  <2> QED BY <1>1, <2>1, Quiet DEF FilesInv, DirtInv
<1> QED BY <1>2, <1>3, <1>4, <1>5, <1>6, <1>7, <1>8

\* The end of a drive leaves the files, and empties the tasks' memory.
LEMMA EndFiles ==
  ASSUME BuildInv, FilesInv, stopAtLayer \/ finish \/ exit \/ crash \/ clean \/ lose
  PROVE  FilesInv'
<1> USE DEF ckVars, gitVars, taskVars, given, driverVars
<1>1. ASSUME ended, UNCHANGED <<commits, tree, index, work, integration>> PROVE FilesInv'
  <2>1. FileTypes'
    BY <1>1 DEF ended, FilesInv, FileTypes, Base
  <2>2. TipInv' /\ CommitsWhatWasReviewed'
    BY <1>1 DEF FilesInv, TipInv, CommitsWhatWasReviewed
  <2>3. \A t \in Tasks : pc'[t] = "idle"
    BY <1>1 DEF ended
  <2>4. DirtInv'
    BY <1>1, <2>3 DEF ended, FilesInv, DirtInv, Agree, Up
  <2> QED BY <2>1, <2>2, <2>3, <2>4 DEF FilesInv, HolderInv, Holding
<1>2. CASE stopAtLayer \/ finish \/ exit \/ crash
  BY <1>1, <1>2 DEF stopAtLayer, finish, exit, crash
<1>3. CASE clean
  <2>1. /\ driver = "down" /\ work' = tree /\ index' = tree /\ tree' = tree
        /\ UNCHANGED <<commits, prior, change, pc>>
    BY <1>3 DEF clean
  <2>2. FileTypes' /\ TipInv' /\ CommitsWhatWasReviewed'
    BY <2>1 DEF FilesInv, FileTypes, TipInv, CommitsWhatWasReviewed
  <2> QED BY <2>1, <2>2, BetweenLayers, AllAgree DEF Agree
<1>4. CASE lose
  <2> PICK S : commits \in Seq(S)
    BY DEF BuildInv, BuildTypes
  <2>1. /\ driver = "down" /\ commits # <<>> /\ commits' = Front(commits)
        /\ tree' = (IF commits' = <<>> THEN Base ELSE Last(commits').tree)
        /\ index' = tree' /\ work' = tree' /\ UNCHANGED <<prior, change, pc>>
    BY <1>4 DEF lose
  <2>2. /\ commits' \in Seq(S)
        /\ DOMAIN commits' = 1..(Len(commits) - 1) /\ DOMAIN commits = 1..Len(commits)
        /\ Len(commits) \in Nat \ {0} /\ Len(commits') = Len(commits) - 1
        /\ \A i \in 1..(Len(commits) - 1) : commits'[i] = commits[i]
    BY <2>1, Shrinks
  <2>3. commits' # <<>> => Len(commits') \in DOMAIN commits' /\ Last(commits') = commits'[Len(commits')]
    BY <2>2 DEF Last
  <2>4. tree' = IF commits' = <<>> THEN Base ELSE commits'[Len(commits')].tree
    BY <2>1, <2>3
  <2>5. \A i \in DOMAIN commits' :
          /\ commits'[i].tree \in [Paths -> SUBSET Tasks]
          /\ \A p \in Paths : \A u \in commits'[i].tree[p] : \E j \in 1 .. i : commits'[j].task = u
          /\ commits'[i].changed = commits'[i].reviewed
    <3> SUFFICES ASSUME NEW i \in DOMAIN commits'
                 PROVE  /\ commits'[i].tree \in [Paths -> SUBSET Tasks]
                        /\ \A p \in Paths : \A u \in commits'[i].tree[p] : \E j \in 1 .. i : commits'[j].task = u
                        /\ commits'[i].changed = commits'[i].reviewed
      OBVIOUS
    <3>1. commits'[i] = commits[i] /\ i \in DOMAIN commits
      BY <2>2
    <3>2. \A j \in 1 .. i : commits'[j] = commits[j]
      BY <2>2
    <3> QED BY <3>1, <3>2 DEF FilesInv, TipInv, CommitsWhatWasReviewed
  <2>6. tree' \in [Paths -> SUBSET Tasks]
    BY <2>3, <2>4, <2>5 DEF Base
  <2>7. FileTypes' /\ TipInv' /\ CommitsWhatWasReviewed'
    BY <2>1, <2>4, <2>5, <2>6 DEF FilesInv, FileTypes, TipInv, CommitsWhatWasReviewed
  <2> QED BY <2>1, <2>7, BetweenLayers, AllAgree DEF Agree
<1> QED BY <1>2, <1>3, <1>4

\* Tasks of one layer share no path.
LEMMA DisjointScopes ==
  ASSUME BuildInv, NEW t \in Tasks, NEW u \in Tasks, layer \in DOMAIN layers,
         t \in layers[layer], u \in layers[layer], t # u
  PROVE  writeScope[t] \cap writeScope[u] = {}
BY OneLayer, BuildAssumption

\* A dirty path outside the scope of a task of the layer is another's.
LEMMA DirtIsAnothers ==
  ASSUME BuildInv, FilesInv, NEW t \in Tasks, pc[t] \in Unsettled,
         NEW p \in writeScope[t] \cap Paths, ~Agree(p)
  PROVE  p \in change[t] /\ pc[t] \in Holding
<1>1. driver \in {"tasks", "rejected"} /\ layer \in DOMAIN layers /\ t \in layers[layer]
  BY DEF BuildInv, InLayer
<1>2. PICK u \in Tasks : p \in change[u] /\ pc[u] \in Holding \cup {"threw"}
  BY <1>1 DEF FilesInv, DirtInv, Up
<1>3. u \in layers[layer]
  BY <1>1, <1>2 DEF FilesInv, DirtInv, BuildInv, InLayer, Holding, Unsettled, Working
<1>4. u = t
  BY <1>1, <1>2, <1>3, DisjointScopes DEF FilesInv, FileTypes
<1> QED BY <1>2, <1>4 DEF Unsettled, Working, Holding

-----------------------------------------------------------------------------
\* The four steps of the holder of the checkout.
LEMMA MaterializeFiles ==
  ASSUME BuildInv, FilesInv, NEW t \in Tasks, materializeChanges(t)
  PROVE  FilesInv'
<1>1. /\ pc[t] = "mutex" /\ \A u \in Tasks : pc[u] \notin Holding
      /\ prior' = work
      /\ work' = [p \in Paths |-> IF p \in change[t] THEN {t} ELSE work[p]]
      /\ pc' = [pc EXCEPT ![t] = "commit"]
      /\ UNCHANGED <<commits, tree, index, integration, change, driver, layer>>
  BY DEF materializeChanges, driverVars, Holding
<1>2. \A u \in Tasks : pc'[u] = IF u = t THEN "commit" ELSE pc[u]
  BY <1>1 DEF BuildInv, BuildTypes
<1>3. driver \in {"tasks", "rejected"} /\ integration /\ driver' \in Up /\ driver' # "prepare"
  BY <1>1 DEF BuildInv, InLayer, Coordinated, Up, Unsettled, Working
<1>4. \A p \in change[t] : p \in Paths /\ Agree(p)
  BY <1>1, DirtIsAnothers DEF FilesInv, FileTypes, Unsettled, Working
<1>5. FileTypes'
  BY <1>1 DEF FilesInv, FileTypes
<1>6. TipInv' /\ CommitsWhatWasReviewed'
  BY <1>1 DEF FilesInv, TipInv, CommitsWhatWasReviewed
<1>7. DirtInv'
  <2>1. \A p \in Paths : index'[p] = tree'[p] \/ index'[p] = work'[p]
    BY <1>1, <1>4 DEF FilesInv, DirtInv, Agree
  <2>2. \A p \in Paths : Agree(p)' \/
          \E u \in Tasks : p \in change'[u] /\ pc'[u] \in Holding \cup {"threw"}
    <3> SUFFICES ASSUME NEW p \in Paths, p \notin change[t]
                 PROVE  Agree(p)' \/
                        \E u \in Tasks : p \in change'[u] /\ pc'[u] \in Holding \cup {"threw"}
      BY <1>1, <1>2 DEF Holding
    <3>1. CASE Agree(p)
      BY <1>1, <3>1 DEF Agree
    <3>2. CASE ~Agree(p)
      <4>1. PICK u \in Tasks : p \in change[u] /\ pc[u] \in Holding \cup {"threw"}
        BY <1>3, <3>2 DEF FilesInv, DirtInv, Up
      <4> QED BY <1>1, <1>2, <4>1
    <3> QED BY <3>1, <3>2
  <2>3. \A u \in Tasks : pc'[u] = "threw" =>
          driver' = "rejected" /\ layer' \in DOMAIN layers /\ u \in layers[layer']
    BY <1>1, <1>2 DEF FilesInv, DirtInv
  <2> QED BY <1>1, <1>3, <2>1, <2>2, <2>3 DEF DirtInv
<1>8. HolderInv'
  BY <1>1, <1>2, <1>4 DEF FilesInv, FileTypes, HolderInv, Agree, Holding
<1> QED BY <1>5, <1>6, <1>7, <1>8 DEF FilesInv

LEMMA StageFiles ==
  ASSUME BuildInv, FilesInv, NEW t \in Tasks, stageInScope(t)
  PROVE  FilesInv'
<1>1. /\ pc[t] = "commit" /\ changedPaths \subseteq writeScope[t]
      /\ index' = [p \in Paths |-> IF p \in changedPaths THEN work[p] ELSE index[p]]
      /\ pc' = [pc EXCEPT ![t] = "staged"]
      /\ UNCHANGED <<commits, tree, work, prior, integration, change, driver, layer>>
  BY DEF stageInScope, inScope, add, driverVars
<1>2. \A u \in Tasks : pc'[u] = IF u = t THEN "staged" ELSE pc[u]
  BY <1>1 DEF BuildInv, BuildTypes
<1>3. driver \in {"tasks", "rejected"} /\ integration
  BY <1>1 DEF BuildInv, InLayer, Coordinated, Up, Unsettled, Working
\* What was reviewed is new in the checkout: the task is not on the branch.
<1>4. \A p \in change[t] : p \in Paths /\ work[p] = {t} /\ tree[p] # {t}
  <2>1. \A p \in Paths : t \notin tree[p]
    <3>1. t \notin committed
      BY <1>1 DEF BuildInv, InLayer, Working
    <3>2. CASE commits = <<>>
      BY <3>2 DEF FilesInv, TipInv, Base
    <3>3. CASE commits # <<>>
      <4> PICK S : commits \in Seq(S)
        BY DEF BuildInv, BuildTypes
      <4>1. Len(commits) \in DOMAIN commits /\ DOMAIN commits = 1 .. Len(commits)
        BY <3>3
      <4> QED BY <3>1, <3>3, <4>1 DEF FilesInv, TipInv, committed
    <3> QED BY <3>2, <3>3
  <2> QED BY <1>1, <2>1 DEF FilesInv, FileTypes, HolderInv, Holding
<1>5. \A p \in Paths \ change[t] : Agree(p)
  <2> SUFFICES ASSUME NEW p \in Paths, p \notin change[t], ~Agree(p) PROVE FALSE
    OBVIOUS
  <2>1. p \notin writeScope[t]
    BY <1>1, DirtIsAnothers DEF Unsettled, Working
  <2>2. work[p] = tree[p]
    BY <1>1, <2>1 DEF changedPaths
  <2> QED BY <2>2 DEF FilesInv, DirtInv, Agree
<1>6. \A p \in change[t] : index'[p] = {t} /\ p \in changedPaths
  BY <1>1, <1>4 DEF changedPaths
<1>7. FileTypes'
  BY <1>1 DEF FilesInv, FileTypes
<1>8. TipInv' /\ CommitsWhatWasReviewed'
  BY <1>1 DEF FilesInv, TipInv, CommitsWhatWasReviewed
<1>9. \A p \in Paths \ change[t] : Agree(p)'
  BY <1>1, <1>5 DEF Agree, changedPaths
<1>10. DirtInv'
  <2>1. \A p \in Paths : index'[p] = tree'[p] \/ index'[p] = work'[p]
    BY <1>1, <1>4, <1>6, <1>9 DEF Agree
  <2>2. \A p \in Paths : Agree(p)' \/
          \E u \in Tasks : p \in change'[u] /\ pc'[u] \in Holding \cup {"threw"}
    BY <1>1, <1>2, <1>9 DEF Holding
  <2> QED BY <1>1, <1>2, <1>3, <2>1, <2>2 DEF FilesInv, DirtInv
<1>11. HolderInv'
  BY <1>1, <1>2, <1>4, <1>6, <1>9 DEF FilesInv, HolderInv, Holding
<1> QED BY <1>7, <1>8, <1>10, <1>11 DEF FilesInv

LEMMA CommitFiles ==
  ASSUME BuildInv, FilesInv, NEW t \in Tasks, commitIntegration(t)
  PROVE  FilesInv'
<1> PICK S : commits \in Seq(S)
  BY DEF BuildInv, BuildTypes
<1> DEFINE r == [task |-> t, tree |-> index, changed |-> {p \in Paths : index[p] # tree[p]},
                 staged |-> changedPaths, reviewed |-> change[t]]
<1>1. /\ pc[t] = "staged" /\ commits' = Append(commits, r)
      /\ tree' = index /\ prior' = Base
      /\ pc' = [pc EXCEPT ![t] = "record"]
      /\ UNCHANGED <<index, work, integration, change, driver, layer>>
  BY DEF commitIntegration, driverVars
<1>2. /\ commits' \in Seq(S \cup {r}) /\ Len(commits) \in Nat
      /\ DOMAIN commits' = 1..(Len(commits) + 1) /\ DOMAIN commits = 1..Len(commits)
      /\ \A i \in 1..Len(commits) : commits'[i] = commits[i]
      /\ commits'[Len(commits) + 1] = r
  BY <1>1, Grows
<1>3. \A u \in Tasks : pc'[u] = IF u = t THEN "record" ELSE pc[u]
  BY <1>1 DEF BuildInv, BuildTypes
<1>4. /\ \A p \in change[t] : p \in Paths /\ index[p] = {t} /\ work[p] = {t}
      /\ \A p \in Paths \ change[t] : work[p] = tree[p] /\ index[p] = tree[p]
  BY <1>1 DEF FilesInv, FileTypes, HolderInv, Holding, Agree
<1>5. \A p \in Paths : t \notin tree[p]
  <2>1. t \notin committed
    BY <1>1 DEF BuildInv, InLayer, Working
  <2>2. CASE commits = <<>>
    BY <2>2 DEF FilesInv, TipInv, Base
  <2>3. CASE commits # <<>>
    <3>1. Len(commits) \in DOMAIN commits
      BY <1>2, <2>3
    <3> QED BY <1>2, <2>1, <2>3, <3>1 DEF FilesInv, TipInv, committed
  <2> QED BY <2>2, <2>3
<1>6. r.changed = r.reviewed
  BY <1>4, <1>5
<1>7. \A p \in Paths : Agree(p)'
  BY <1>1, <1>4 DEF Agree
<1>8. FileTypes'
  BY <1>1 DEF FilesInv, FileTypes, Base
<1>9. TipInv'
  <2>1. \A p \in Paths : \A u \in r.tree[p] : u = t \/ u \in tree[p]
    BY <1>4
  <2>2. \A p \in Paths : \A u \in tree[p] : \E j \in 1 .. Len(commits) : commits[j].task = u
    <3>1. CASE commits = <<>>
      BY <3>1 DEF FilesInv, TipInv, Base
    <3>2. CASE commits # <<>>
      <4>1. Len(commits) \in DOMAIN commits
        BY <1>2, <3>2
      <4> QED BY <3>2, <4>1 DEF FilesInv, TipInv
    <3> QED BY <3>1, <3>2
  <2>3. \A p \in Paths : \A u \in r.tree[p] : \E j \in 1 .. Len(commits) + 1 : commits'[j].task = u
    <3> SUFFICES ASSUME NEW p \in Paths, NEW u \in r.tree[p]
                 PROVE  \E j \in 1 .. Len(commits) + 1 : commits'[j].task = u
      OBVIOUS
    <3>1. CASE u = t
      BY <1>2, <3>1
    <3>2. CASE u # t
      <4>1. PICK j \in 1 .. Len(commits) : commits[j].task = u
        BY <2>1, <2>2, <3>2
      <4> QED BY <1>2, <4>1
    <3> QED BY <3>1, <3>2
  <2>4. r.tree \in [Paths -> SUBSET Tasks]
    BY DEF FilesInv, FileTypes
  <2>5. ASSUME NEW i \in DOMAIN commits'
        PROVE  /\ commits'[i].tree \in [Paths -> SUBSET Tasks]
               /\ \A p \in Paths : \A u \in commits'[i].tree[p] : \E j \in 1 .. i : commits'[j].task = u
    <3>1. CASE i = Len(commits) + 1
      BY <1>2, <2>3, <2>4, <3>1
    <3>2. CASE i # Len(commits) + 1
      <4>1. i \in DOMAIN commits /\ commits'[i] = commits[i] /\ \A j \in 1 .. i : commits'[j] = commits[j]
        BY <1>2, <3>2
      <4> QED BY <4>1 DEF FilesInv, TipInv
    <3> QED BY <3>1, <3>2
  <2>6. commits' # <<>> /\ Len(commits') = Len(commits) + 1 /\ tree' = commits'[Len(commits')].tree
    BY <1>1, <1>2
  <2> QED BY <2>5, <2>6 DEF TipInv
<1>10. CommitsWhatWasReviewed'
  <2> HIDE DEF r
  <2>1. \A i \in DOMAIN commits' : (i \in DOMAIN commits /\ commits'[i] = commits[i]) \/ commits'[i] = r
    BY <1>2
  <2> QED BY <1>6, <2>1 DEF FilesInv, CommitsWhatWasReviewed
<1>11. \A u \in Tasks : pc'[u] \notin Holding
  BY <1>1, <1>3 DEF FilesInv, HolderInv, Holding
<1>12. DirtInv'
  BY <1>1, <1>3, <1>7 DEF FilesInv, DirtInv, Agree
<1>13. HolderInv'
  BY <1>11 DEF HolderInv, Holding
<1> QED BY <1>8, <1>9, <1>10, <1>12, <1>13 DEF FilesInv

\* A rollback puts back what the tip has, as the holder changed only what agreed.
LEMMA RollbackFiles ==
  ASSUME Unsayable = {}, BuildInv, FilesInv, NEW t \in Tasks, rollback(t)
  PROVE  FilesInv'
<1>1. /\ pc[t] = "commit" /\ prior' = Base
      /\ work' = [p \in Paths |-> IF p \in change[t] THEN prior[p] ELSE work[p]]
      /\ pc' = [pc EXCEPT ![t] = "failed"]
      /\ UNCHANGED <<commits, tree, index, integration, change, driver, layer>>
  BY DEF rollback, blockTask, driverVars
<1>2. \A u \in Tasks : pc'[u] = IF u = t THEN "failed" ELSE pc[u]
  BY <1>1 DEF BuildInv, BuildTypes
<1>3. \A p \in change[t] : p \in Paths /\ Agree(p)'
  BY <1>1 DEF FilesInv, FileTypes, HolderInv, Agree
<1>4. \A p \in Paths \ change[t] : Agree(p)' = Agree(p) /\ work'[p] = work[p]
  BY <1>1 DEF Agree
<1>5. FileTypes'
  BY <1>1 DEF FilesInv, FileTypes, Base
<1>6. TipInv' /\ CommitsWhatWasReviewed'
  BY <1>1 DEF FilesInv, TipInv, CommitsWhatWasReviewed
<1>7. \A u \in Tasks : pc'[u] \notin Holding
  BY <1>1, <1>2 DEF FilesInv, HolderInv, Holding
<1>8. driver \in {"tasks", "rejected"} /\ integration
  BY <1>1 DEF BuildInv, InLayer, Coordinated, Up, Unsettled, Working
<1>9. DirtInv'
  <2>1. \A p \in Paths : index'[p] = tree'[p] \/ index'[p] = work'[p]
    BY <1>1, <1>3, <1>4 DEF FilesInv, DirtInv, Agree
  <2>2. ASSUME NEW p \in Paths, ~Agree(p)'
        PROVE  \E u \in Tasks : p \in change'[u] /\ pc'[u] \in Holding \cup {"threw"}
    <3>1. p \notin change[t] /\ ~Agree(p)
      BY <1>3, <1>4, <2>2
    <3>2. PICK u \in Tasks : p \in change[u] /\ pc[u] \in Holding \cup {"threw"}
      BY <1>8, <3>1 DEF FilesInv, DirtInv, Up
    <3> QED BY <1>1, <1>2, <3>1, <3>2
  <2> QED BY <1>1, <1>2, <1>8, <2>1, <2>2 DEF FilesInv, DirtInv
<1> QED BY <1>5, <1>6, <1>7, <1>9 DEF FilesInv, HolderInv, Holding

\* A task that throws leaves what it copied or staged.
LEMMA ThrowFiles ==
  ASSUME BuildInv, FilesInv, NEW t \in Tasks, throws(t)
  PROVE  FilesInv'
<1>1. /\ pc[t] \in Unsettled \ {"mutex"} /\ driver' = "rejected"
      /\ pc' = [pc EXCEPT ![t] = "threw"]
      /\ prior' = IF pc[t] \in Holding THEN Base ELSE prior
      /\ UNCHANGED <<commits, tree, index, work, integration, change, layer>>
  BY DEF throws, gitVars, BuildInv, BuildTypes, Holding
<1>2. \A u \in Tasks : pc'[u] = IF u = t THEN "threw" ELSE pc[u]
  BY <1>1 DEF BuildInv, BuildTypes
<1>3. driver \in {"tasks", "rejected"} /\ layer \in DOMAIN layers /\ t \in layers[layer]
  BY <1>1 DEF BuildInv, InLayer
<1>4. FileTypes'
  BY <1>1 DEF FilesInv, FileTypes, Base
<1>5. TipInv' /\ CommitsWhatWasReviewed'
  BY <1>1 DEF FilesInv, TipInv, CommitsWhatWasReviewed
<1>6. \A p \in Paths : Agree(p)' = Agree(p)
  BY <1>1 DEF Agree
<1>7. DirtInv'
  BY <1>1, <1>2, <1>3, <1>6 DEF FilesInv, DirtInv, Up
<1>8. HolderInv'
  BY <1>1, <1>2, <1>6 DEF FilesInv, HolderInv, Holding
<1> QED BY <1>4, <1>5, <1>7, <1>8 DEF FilesInv

LEMMA TaskFiles ==
  ASSUME Unsayable = {}, BuildInv, FilesInv, NEW t \in Tasks, runTask(t)
  PROVE  FilesInv'
<1>1. ASSUME NEW to \in {"workspace", "exec", "review", "mutex", "failed", "ok"},
             pc[t] \in Unsettled \ Holding, pc' = [pc EXCEPT ![t] = to],
             UNCHANGED <<commits, tree, index, work, prior, integration, driver, layer>>,
             change' \in [Tasks -> SUBSET Paths], \A u \in Tasks : change'[u] \subseteq writeScope[u],
             \A u \in Tasks : u # t => change'[u] = change[u]
      PROVE  FilesInv'
  <2>1. \A u \in Tasks : pc'[u] = IF u = t THEN to ELSE pc[u]
    BY <1>1 DEF BuildInv, BuildTypes
  <2>2. driver \in {"tasks", "rejected"}
    BY <1>1 DEF BuildInv, InLayer
  <2>3. \A u \in Tasks : pc[u] = "threw" => driver = "rejected"
    BY DEF FilesInv, DirtInv
  <2> QED BY <1>1, <2>1, <2>2, <2>3, Quiet DEF Unsettled, Working, Holding
<1>2. CASE inProgress(t) \/ createTaskWorktree(t) \/ refused(t) \/ review(t) \/ record(t)
  <2>1. \E to \in {"workspace", "exec", "review", "mutex", "failed", "ok"} :
          pc[t] \in Unsettled \ Holding /\ pc' = [pc EXCEPT ![t] = to]
          /\ UNCHANGED <<commits, tree, index, work, prior, integration, driver, layer, change>>
    BY <1>2 DEF inProgress, createTaskWorktree, refused, review, record, blockTask, Unsettled, Working,
       Holding, ckVars, gitVars, driverVars
  <2> QED BY <1>1, <2>1 DEF FilesInv, FileTypes
<1>3. ASSUME NEW changed \in SUBSET Paths, executor(t, changed) PROVE FilesInv'
  <2>1. \E to \in {"review", "failed"} :
          pc[t] \in Unsettled \ Holding /\ pc' = [pc EXCEPT ![t] = to]
          /\ UNCHANGED <<commits, tree, index, work, prior, integration, driver, layer>>
    BY <1>3 DEF executor, blockTask, Unsettled, Working, Holding, gitVars, driverVars
  <2>2. \/ UNCHANGED change
        \/ change' = [change EXCEPT ![t] = changed] /\ changed \subseteq writeScope[t]
    BY <1>3 DEF executor
  <2>3. /\ change' \in [Tasks -> SUBSET Paths] /\ \A u \in Tasks : change'[u] \subseteq writeScope[u]
        /\ \A u \in Tasks : u # t => change'[u] = change[u]
    BY <2>2 DEF FilesInv, FileTypes
  <2> QED BY <1>1, <2>1, <2>3
<1> QED BY <1>2, <1>3, MaterializeFiles, StageFiles, CommitFiles, RollbackFiles, ThrowFiles DEF runTask

LEMMA FilesNext == ASSUME Unsayable = {} PROVE BuildInv /\ FilesInv /\ [Next]_vars => FilesInv'
BY DriverFiles, TaskFiles, EndFiles DEF Next

\* If every subject of the plan is one line, what a commit changes is exactly what the reviewer
\* of its task saw, although tasks that threw leave their files and their staging behind.
THEOREM CommitsAreReviewed == ASSUME Unsayable = {} PROVE Spec => []CommitsWhatWasReviewed
<1>1. FilesInv => CommitsWhatWasReviewed
  BY DEF FilesInv
<1>2. Spec => []FilesInv
  BY FilesInit, FilesNext, BuildAlways, PTL DEF Spec
<1> QED BY <1>1, <1>2, PTL
-----------------------------------------------------------------------------
\* The phases after the build.  The memory of a drive is honest: what it calls done the
\* coordinator saw pass, what it calls skipped was configured away, and a green final
\* validation is followed by nothing that edits.
ResultsInv ==
  /\ results \in [Phases -> {"none", "blocked", "done", "skipped"}]
  /\ \A p \in Phases : results[p] = "done" => p \in observed
  /\ \A p \in Phases : results[p] = "skipped" => p \in skip
  /\ terminal = "green" => step = "returned" /\ validated

LEMMA ResultsInit == PhaseInit => ResultsInv
BY DEF PhaseInit, ResultsInv

\* A phase that ends as what the coordinator may call it.
LEMMA ResultKeeps ==
  ASSUME ResultsInv, NEW state \in {"blocked", "done", "skipped"}, result(state), step # "returned",
         observed \subseteq observed', state = "done" => current \in observed',
         state = "skipped" => current \in skip, skip' = skip
  PROVE  ResultsInv'
<1>1. \A p \in Phases : results'[p] = IF p = current THEN state ELSE results[p]
  BY DEF ResultsInv, result
<1> QED BY <1>1 DEF ResultsInv, result

LEMMA BlockedKeeps ==
  ASSUME ResultsInv, NEW ok, blockedResult(ok), step # "returned", skip' = skip
  PROVE  ResultsInv'
BY ResultKeeps DEF blockedResult

LEMMA RecordedKeeps ==
  ASSUME ResultsInv, NEW ok \in BOOLEAN, NEW status \in {"done", "skipped"}, recordedResult(status, ok),
         step # "returned", observed \subseteq observed', status = "done" => current \in observed',
         status = "skipped" => current \in skip, skip' = skip
  PROVE  ResultsInv'
BY ResultKeeps DEF recordedResult

LEMMA ResultsNext == ResultsInv /\ [PhaseNext]_phaseVars => ResultsInv'
<1> SUFFICES ASSUME ResultsInv, [PhaseNext]_phaseVars PROVE ResultsInv'
  OBVIOUS
<1> USE DEF others
<1>1. ASSUME NEW all \in BOOLEAN, driveToConvergence(all) PROVE ResultsInv'
  BY <1>1 DEF driveToConvergence, ResultsInv
<1>2. ASSUME NEW ok \in BOOLEAN, gatePhase(ok) \/ refusePhase(ok) \/ refuseReview(ok) PROVE ResultsInv'
  BY <1>2, BlockedKeeps DEF gatePhase, refusePhase, refuseReview, mustRun, atPhase
<1>3. ASSUME NEW ok \in BOOLEAN, agentFails(ok) \/ validationFails(ok) PROVE ResultsInv'
  BY <1>3, BlockedKeeps DEF agentFails, validationFails
<1>4. ASSUME NEW ok \in BOOLEAN, skipPhase(ok) PROVE ResultsInv'
  BY <1>4, BlockedKeeps, RecordedKeeps DEF skipPhase, atPhase, isSkipped
<1>5. ASSUME NEW ok \in BOOLEAN, invokeAgent(ok) \/ startReview(ok) PROVE ResultsInv'
  BY <1>5 DEF invokeAgent, startReview, mustRun, atPhase, memory, ResultsInv
<1>6. ASSUME NEW ok \in BOOLEAN, NEW exhausted \in BOOLEAN, NEW noProgress \in BOOLEAN,
             validationPasses(exhausted, noProgress, ok)
      PROVE  ResultsInv'
  BY <1>6, BlockedKeeps, RecordedKeeps DEF validationPasses
<1>7. ASSUME NEW ok \in BOOLEAN, reviewReturns(ok) PROVE ResultsInv'
  BY <1>7, BlockedKeeps, RecordedKeeps DEF reviewReturns
<1>8. ASSUME NEW ok \in BOOLEAN, NEW outcome \in {"green", "red", "missing"},
             runFinalValidation(outcome, ok)
      PROVE  ResultsInv'
  BY <1>8 DEF runFinalValidation, ResultsInv
<1>9. CASE agentReturns \/ reviewStep
  BY <1>9 DEF agentReturns, reviewStep, memory, ResultsInv
<1>10. CASE returnBlocked
  BY <1>10 DEF returnBlocked, allRun, memory, ResultsInv
<1>11. CASE coordinatorDies
  BY <1>11 DEF coordinatorDies, ResultsInv
<1>12. CASE UNCHANGED phaseVars
  BY <1>12 DEF phaseVars, memory, ResultsInv
<1> QED BY <1>1, <1>2, <1>3, <1>4, <1>5, <1>6, <1>7, <1>8, <1>9, <1>10, <1>11, <1>12 DEF PhaseNext

\* A run that may be finalized was validated as it is, and every phase passed under the eyes of
\* the coordinator in its last drive, whatever records earlier drives left behind.
THEOREM FinalizedOnWhatItSaw == PhaseSpec => []ConvergesOnItsOwnEvidence
<1>1. ResultsInv => ConvergesOnItsOwnEvidence
  BY DEF ResultsInv, ConvergesOnItsOwnEvidence, mayFinalize, converged, convergenceFailures
<1> QED BY <1>1, ResultsInit, ResultsNext, PTL DEF PhaseSpec

-----------------------------------------------------------------------------
\* The review.  A ballot names a declared skeptic that did not report the finding, each skeptic
\* has one, and a verdict stays what the ballots said when they were counted.
VerifierIds == {VerifierPanel[i].id : i \in DOMAIN VerifierPanel}
Ballots == [verifier : VerifierIds, refuted : BOOLEAN]
Verdicts == {"none", "resolved", "refuted", "confirmed", "unverified"}
refutesIn(ballots) == Cardinality({b \in ballots : b.refuted})
confirmsIn(ballots) == Cardinality({b \in ballots : ~b.refuted})

PanelTypes ==
  /\ dim \in 1 .. Len(Dimensions) + 1 /\ turn \in Nat \ {0}
  /\ votes \in [Findings -> SUBSET Ballots] /\ \A f \in Findings : IsFiniteSet(votes[f])
  /\ verdict \in [Findings -> Verdicts]
  /\ \A r \in rawFindings : r.finding \in Findings

\* The review's variables are at rest outside of it, and its steps come in order.
PanelSteps ==
  /\ step = "review" <=> panel # "idle"
  /\ panel = "idle" => dim = 1 /\ blockedReasons = {}
  /\ dim <= Len(Dimensions) => \A f \in Findings : votes[f] = {} /\ verdict[f] = "none"
  /\ panel \in {"verify", "vote", "clear", "resolve", "reviewed", "threw"} => dim > Len(Dimensions)
  /\ panel = "dimension" => dim <= Len(Dimensions)
  /\ panel \in {"verify", "vote"} => subject \in Findings /\ verdict[subject] = "none"
  /\ panel = "vote" => turn <= Len(VerifierPanel) /\ mayVote(VerifierPanel[turn])
  /\ panel \in {"clear", "resolve", "reviewed"} => undecided = {}
  /\ step \in {"agent", "validate"} => current # "review"

BallotsAreIndependent ==
  \A f \in Findings : \A b \in votes[f] :
    \E i \in DOMAIN VerifierPanel : VerifierPanel[i].id = b.verifier /\ VerifierPanel[i].origin \notin origins(f)
OneBallotEach ==
  \A f \in Findings : \A b, c \in votes[f] : b.verifier = c.verifier => b = c

\* A required dimension that was passed either reported or blocks.
CoverageInv ==
  \A i \in DOMAIN Dimensions : i < dim /\ Dimensions[i].required
    => Dimensions[i].name \in coverage \cup blockedReasons

VerdictsStand ==
  \A f \in Findings : verdict[f] \in {"refuted", "confirmed"} =>
    /\ 2 * Cardinality(votes[f]) >= Len(VerifierPanel)
    /\ verdict[f] = "refuted" => refutesIn(votes[f]) > confirmsIn(votes[f])
    /\ verdict[f] = "confirmed" => refutesIn(votes[f]) < confirmsIn(votes[f])

PanelInv == PanelTypes /\ PanelSteps /\ BallotsAreIndependent /\ OneBallotEach /\ CoverageInv /\ VerdictsStand

LEMMA PanelLists ==
  /\ DOMAIN Dimensions = 1 .. Len(Dimensions) /\ Len(Dimensions) \in Nat \ {0}
  /\ DOMAIN VerifierPanel = 1 .. Len(VerifierPanel) /\ Len(VerifierPanel) \in Nat
BY PanelAssumption DEF IsList

\* Ballots for and against add up, and each ballot is a skeptic.
LEMMA BallotsAddUp ==
  ASSUME NEW B \in SUBSET Ballots, IsFiniteSet(B)
  PROVE  /\ refutesIn(B) \in Nat /\ confirmsIn(B) \in Nat
         /\ Cardinality(B) = refutesIn(B) + confirmsIn(B)
         /\ IsFiniteSet({b \in B : b.refuted}) /\ IsFiniteSet({b \in B : ~b.refuted})
<1> DEFINE R == {b \in B : b.refuted}
           C == {b \in B : ~b.refuted}
<1>1. R \in SUBSET B /\ C \in SUBSET B /\ R \cup C = B /\ R \cap C = {}
  OBVIOUS
<1>2. IsFiniteSet(R) /\ IsFiniteSet(C)
  BY <1>1, FS_Subset
<1>3. Cardinality(R) \in Nat /\ Cardinality(C) \in Nat
  BY <1>2, FS_CardinalityType
<1>4. Cardinality(R \cup C) = Cardinality(R) + Cardinality(C) - Cardinality(R \cap C)
  BY <1>2, FS_Union
<1>5. Cardinality(R \cap C) = 0
  BY <1>1, FS_EmptySet
<1>6. refutesIn(B) = Cardinality(R) /\ confirmsIn(B) = Cardinality(C)
  BY DEF refutesIn, confirmsIn
<1>7. Cardinality(B) = Cardinality(R) + Cardinality(C)
  <2> HIDE DEF R, C
  <2>1. Cardinality(R \cup C) = Cardinality(B)
    BY <1>1, Zenon
  <2> QED BY <2>1, <1>3, <1>4, <1>5
<1> QED BY <1>2, <1>3, <1>6, <1>7

LEMMA OneSkepticABallot ==
  ASSUME NEW B, IsFiniteSet(B), \A b, c \in B : b.verifier = c.verifier => b = c
  PROVE  Cardinality({b.verifier : b \in B}) = Cardinality(B)
<1> DEFINE N == {b.verifier : b \in B}
           g == [b \in B |-> b.verifier]
<1>1. g \in [B -> N]
  OBVIOUS
<1>2. \A x, y \in B : g[x] = g[y] => x = y
  OBVIOUS
<1>3. \A n \in N : \E x \in B : g[x] = n
  OBVIOUS
<1>4. g \in Bijection(B, N)
  <2> HIDE DEF g, N
  <2>1. DOMAIN g = B
    BY <1>1
  <2> QED BY <1>1, <1>2, <1>3, <2>1 DEF Bijection, Injection, Surjection, IsInjective, Range
<1>5. ExistsBijection(B, N)
  BY <1>4 DEF ExistsBijection
<1> QED BY <1>5, FS_Bijection

LEMMA PanelInvInit == PhaseInit => PanelInv
<1> SUFFICES ASSUME PhaseInit PROVE PanelInv
  OBVIOUS
<1>1. IsFiniteSet({})
  BY FS_EmptySet
<1> QED BY <1>1, PanelLists
    DEF PhaseInit, PanelInit, PanelInv, PanelTypes, PanelSteps, BallotsAreIndependent, OneBallotEach,
        CoverageInv, VerdictsStand, Verdicts


\* Outside of the review nothing of it changes; when it is over it is forgotten.
LEMMA PanelAside ==
  ASSUME PanelInv, panelAside, step # "review", step' # "review",
         step' \in {"agent", "validate"} => current' # "review"
  PROVE  PanelInv'
BY DEF panelAside, reviewVars, PanelInv, PanelTypes, PanelSteps, BallotsAreIndependent, OneBallotEach,
   CoverageInv, VerdictsStand, undecided, findings, origins, mayVote, seen

LEMMA PanelForgets ==
  ASSUME panel' = "idle", forgetReview, step' \notin {"review", "agent", "validate"}
  PROVE  PanelInv'
<1>1. IsFiniteSet({})
  BY FS_EmptySet
<1> QED BY <1>1, PanelLists
    DEF forgetReview, PanelInv, PanelTypes, PanelSteps, BallotsAreIndependent, OneBallotEach,
        CoverageInv, VerdictsStand, Verdicts

\* The dimensions report.
LEMMA DimensionKeeps ==
  ASSUME PanelInv, UNCHANGED <<step, next>>, \/ skipDimension \/ dispatchDimension
         \/ \E out \in Outputs \cup {Dead} : dimensionReturns(out)
  PROVE  PanelInv'
<1> USE PanelLists
<1>1. CASE skipDimension
  <2>1. /\ panel = "dimensions" /\ panel' = panel /\ dim <= Len(Dimensions) /\ dim' = dim + 1
        /\ blockedReasons' = blockedReasons \cup isMissing(dim)
        /\ UNCHANGED <<coverage, rawFindings, subject, turn, votes, verdict>>
    BY <1>1 DEF skipDimension
  <2>2. CoverageInv'
    BY <2>1 DEF PanelInv, PanelTypes, CoverageInv, isMissing
  <2>3. PanelTypes' /\ PanelSteps'
    BY <2>1 DEF PanelInv, PanelTypes, PanelSteps
  <2> QED BY <2>1, <2>2, <2>3
          DEF PanelInv, BallotsAreIndependent, OneBallotEach, VerdictsStand, origins
<1>2. CASE dispatchDimension
  BY <1>2 DEF dispatchDimension, reviewVars, PanelInv, PanelTypes, PanelSteps, BallotsAreIndependent,
     OneBallotEach, CoverageInv, VerdictsStand, origins
<1>3. ASSUME NEW out \in Outputs \cup {Dead}, dimensionReturns(out) PROVE PanelInv'
  <2> DEFINE name == Dimensions[dim].name
  <2>1. /\ panel = "dimension" /\ panel' = "dimensions" /\ dim' = dim + 1
        /\ UNCHANGED <<subject, turn, votes, verdict>>
    BY <1>3 DEF dimensionReturns
  <2>2. dim <= Len(Dimensions) /\ \A f \in Findings : votes[f] = {} /\ verdict[f] = "none"
    BY <2>1 DEF PanelInv, PanelSteps
  <2>3. CASE out = Dead
    <3>1. blockedReasons' = blockedReasons \cup isMissing(dim) /\ UNCHANGED <<coverage, rawFindings>>
      BY <1>3, <2>3 DEF dimensionReturns
    <3>2. CoverageInv'
      BY <2>1, <3>1 DEF PanelInv, PanelTypes, CoverageInv, isMissing
    <3>3. PanelTypes' /\ PanelSteps'
      BY <2>1, <2>2, <3>1 DEF PanelInv, PanelTypes, PanelSteps
    <3> QED BY <2>1, <3>1, <3>2, <3>3
            DEF PanelInv, BallotsAreIndependent, OneBallotEach, VerdictsStand, origins
  <2>4. CASE out # Dead
    <3>1. /\ coverage' = coverage \cup {name} /\ blockedReasons' = blockedReasons
          /\ rawFindings' = rawFindings \cup
               {[dimension |-> name, finding |-> r.finding, severity |-> r.severity] : r \in out}
      BY <1>3, <2>4 DEF dimensionReturns
    <3>2. CoverageInv'
      BY <2>1, <3>1 DEF PanelInv, PanelTypes, CoverageInv
    <3>3. \A r \in rawFindings' : r.finding \in Findings
      BY <2>4, <3>1, PanelAssumption DEF PanelInv, PanelTypes
    <3>4. PanelTypes' /\ PanelSteps'
      BY <2>1, <2>2, <3>3 DEF PanelInv, PanelTypes, PanelSteps
    <3> QED BY <2>1, <2>2, <3>2, <3>4
            DEF PanelInv, BallotsAreIndependent, OneBallotEach, VerdictsStand
  <2> QED BY <2>3, <2>4
<1> QED BY <1>1, <1>2, <1>3

\* The findings are judged.
LEMMA VerdictKeeps ==
  ASSUME PanelInv, UNCHANGED <<step, next>>, \/ (\E f \in Findings : coordinatorEvidence(f) \/ verifyFinding(f))
         \/ passOver \/ callVerifier
  PROVE  PanelInv'
<1> USE PanelLists
<1>1. ASSUME NEW f \in Findings, coordinatorEvidence(f) PROVE PanelInv'
  <2>1. /\ panel = "dimensions" /\ dim > Len(Dimensions)
        /\ verdict' = [verdict EXCEPT ![f] = "resolved"]
        /\ UNCHANGED <<panel, dim, coverage, blockedReasons, rawFindings, subject, turn, votes>>
    BY <1>1 DEF coordinatorEvidence, deciding
  <2>2. \A g \in Findings : verdict'[g] = IF g = f THEN "resolved" ELSE verdict[g]
    BY <2>1 DEF PanelInv, PanelTypes
  <2>3. verdict' \in [Findings -> Verdicts]
    BY <2>1 DEF PanelInv, PanelTypes, Verdicts
  <2> QED BY <2>1, <2>2, <2>3 DEF PanelInv, PanelTypes, PanelSteps, BallotsAreIndependent, OneBallotEach,
             CoverageInv, VerdictsStand, origins
<1>2. ASSUME NEW f \in Findings, verifyFinding(f) PROVE PanelInv'
  BY <1>2 DEF verifyFinding, deciding, undecided, PanelInv, PanelTypes, PanelSteps,
     BallotsAreIndependent, OneBallotEach, CoverageInv, VerdictsStand, origins
<1>3. CASE passOver
  BY <1>3 DEF passOver, PanelInv, PanelTypes, PanelSteps,
     BallotsAreIndependent, OneBallotEach, CoverageInv, VerdictsStand, origins
<1>4. CASE callVerifier
  BY <1>4 DEF callVerifier, mayVote, seen, origins, reviewVars, PanelInv, PanelTypes, PanelSteps,
     BallotsAreIndependent, OneBallotEach, CoverageInv, VerdictsStand
<1> QED BY <1>1, <1>2, <1>3, <1>4

LEMMA BallotKeeps ==
  ASSUME PanelInv, UNCHANGED <<step, next>>, NEW vote \in BOOLEAN \cup {Dead}, verifierReturns(vote)
  PROVE  PanelInv'
<1> DEFINE v == VerifierPanel[turn]
           b == [verifier |-> v.id, refuted |-> vote]
<1>1. /\ panel = "vote" /\ panel' = "verify" /\ turn' = turn + 1
      /\ UNCHANGED <<dim, coverage, blockedReasons, rawFindings, subject, verdict>>
  BY DEF verifierReturns
<1>2. /\ subject \in Findings /\ verdict[subject] = "none" /\ dim > Len(Dimensions)
      /\ turn \in DOMAIN VerifierPanel /\ v.origin \notin origins(subject)
      /\ \A c \in votes[subject] : c.verifier # v.id
  BY <1>1, PanelLists DEF PanelInv, PanelTypes, PanelSteps, mayVote, seen
<1>3. CASE vote = Dead
  <2>1. votes' = votes
    BY <1>3 DEF verifierReturns
  <2> QED BY <1>1, <1>2, <2>1 DEF PanelInv, PanelTypes, PanelSteps, BallotsAreIndependent, OneBallotEach,
             CoverageInv, VerdictsStand, origins
<1>4. CASE vote # Dead
  <2>1. votes' = [votes EXCEPT ![subject] = @ \cup {b}] /\ vote \in BOOLEAN
    BY <1>4 DEF verifierReturns
  <2>2. \A f \in Findings : votes'[f] = IF f = subject THEN votes[f] \cup {b} ELSE votes[f]
    BY <2>1 DEF PanelInv, PanelTypes
  <2>3. b \in Ballots
    BY <1>2, <2>1 DEF Ballots, VerifierIds
  <2>4. IsFiniteSet(votes[subject] \cup {b})
    BY <1>2, FS_AddElement DEF PanelInv, PanelTypes
  <2>0. b.verifier = v.id
    OBVIOUS
  <2> HIDE DEF b
  <2>5. PanelTypes'
    <3>1. votes' \in [Findings -> SUBSET Ballots]
      BY <2>1, <2>3 DEF PanelInv, PanelTypes
    <3>2. \A f \in Findings : IsFiniteSet(votes'[f])
      BY <2>2, <2>4, Zenon DEF PanelInv, PanelTypes
    <3>3. dim' \in 1 .. Len(Dimensions) + 1 /\ turn' \in Nat \ {0} /\ verdict' \in [Findings -> Verdicts]
          /\ \A r \in rawFindings' : r.finding \in Findings
      BY <1>1 DEF PanelInv, PanelTypes
    <3> QED BY <3>1, <3>2, <3>3 DEF PanelTypes
  <2>6. PanelSteps'
    BY <1>1, <1>2 DEF PanelInv, PanelTypes, PanelSteps, Verdicts
  <2>7. BallotsAreIndependent'
    <3> SUFFICES ASSUME NEW f \in Findings, NEW c \in votes'[f]
                 PROVE  \E i \in DOMAIN VerifierPanel :
                          VerifierPanel[i].id = c.verifier /\ VerifierPanel[i].origin \notin origins(f)
      BY <1>1 DEF BallotsAreIndependent, origins
    <3>1. CASE c \in votes[f]
      BY <3>1 DEF PanelInv, BallotsAreIndependent
    <3>2. CASE c \notin votes[f]
      <4>1. c = b /\ f = subject
        BY <2>2, <3>2
      <4> QED BY <1>2, <2>0, <4>1
    <3> QED BY <3>1, <3>2
  <2>8. OneBallotEach'
    <3> SUFFICES ASSUME NEW f \in Findings, NEW c \in votes'[f], NEW d \in votes'[f], c.verifier = d.verifier
                 PROVE  c = d
      BY DEF OneBallotEach
    <3>1. CASE c \in votes[f] /\ d \in votes[f]
      BY <3>1 DEF PanelInv, OneBallotEach
    <3>2. CASE ~ (c \in votes[f] /\ d \in votes[f])
      <4>1. f = subject /\ (c = b \/ c \in votes[f]) /\ (d = b \/ d \in votes[f])
        BY <2>2, <3>2
      <4> QED BY <1>2, <2>0, <3>2, <4>1
    <3> QED BY <3>1, <3>2
  <2>9. CoverageInv'
    BY <1>1 DEF PanelInv, CoverageInv
  <2>10. VerdictsStand'
    <3>1. \A f \in Findings : verdict'[f] \in {"refuted", "confirmed"} => votes'[f] = votes[f]
      BY <1>1, <1>2, <2>2
    <3> QED BY <1>1, <3>1 DEF PanelInv, VerdictsStand
  <2> QED BY <2>5, <2>6, <2>7, <2>8, <2>9, <2>10 DEF PanelInv
<1> QED BY <1>3, <1>4

LEMMA TallyKeeps == ASSUME PanelInv, UNCHANGED <<step, next>>, tally PROVE PanelInv'
<1> DEFINE B == votes[subject]
           n == Cardinality(B)
           refutes == Cardinality({b \in B : b.refuted})
           confirms == n - refutes
           outcome == IF n < quorumFloor \/ refutes = confirms THEN "unverified"
                      ELSE IF refutes > confirms THEN "refuted" ELSE "confirmed"
<1>1. /\ panel = "verify" /\ panel' = "dimensions" /\ turn' = 1
      /\ verdict' = [verdict EXCEPT ![subject] = outcome]
      /\ UNCHANGED <<dim, coverage, blockedReasons, rawFindings, votes>>
  BY DEF tally
<1>2. subject \in Findings /\ dim > Len(Dimensions)
  BY <1>1 DEF PanelInv, PanelSteps
<1>3. outcome \in Verdicts /\ outcome # "none"
  BY DEF Verdicts
<1>4. \A f \in Findings : verdict'[f] = IF f = subject THEN outcome ELSE verdict[f]
  BY <1>1 DEF PanelInv, PanelTypes
<1>5. PanelTypes'
  <2> HIDE DEF outcome
  <2>1. verdict' \in [Findings -> Verdicts]
    BY <1>1, <1>3 DEF PanelInv, PanelTypes
  <2> QED BY <1>1, <2>1 DEF PanelInv, PanelTypes
<1>6. PanelSteps'
  BY <1>1, <1>2, PanelLists DEF PanelInv, PanelTypes, PanelSteps
<1>7. BallotsAreIndependent' /\ OneBallotEach' /\ CoverageInv'
  BY <1>1 DEF PanelInv, BallotsAreIndependent, OneBallotEach, CoverageInv, origins
<1>8. outcome \in {"refuted", "confirmed"} =>
        /\ 2 * n >= Len(VerifierPanel)
        /\ outcome = "refuted" => refutesIn(B) > confirmsIn(B)
        /\ outcome = "confirmed" => refutesIn(B) < confirmsIn(B)
  <2>1. refutesIn(B) \in Nat /\ confirmsIn(B) \in Nat /\ n = refutesIn(B) + confirmsIn(B)
    BY <1>2, BallotsAddUp DEF PanelInv, PanelTypes
  <2>2. refutes = refutesIn(B) /\ confirms = confirmsIn(B)
    BY <2>1 DEF refutesIn
  <2> HIDE DEF n, refutes, confirms
  <2>3. n \in Nat /\ (n >= quorumFloor => 2 * n >= Len(VerifierPanel))
    BY <2>1, PanelLists DEF quorumFloor
  <2>4. quorumFloor \in Nat
    BY PanelLists DEF quorumFloor
  <2> QED BY <2>1, <2>2, <2>3, <2>4
<1>9. VerdictsStand'
  <2> HIDE DEF n, outcome
  <2> QED BY <1>1, <1>4, <1>8 DEF PanelInv, VerdictsStand, n
<1> QED BY <1>5, <1>6, <1>7, <1>9 DEF PanelInv

LEMMA RegisterKeeps ==
  ASSUME PanelInv, UNCHANGED <<step, next>>, NEW ok \in BOOLEAN, register(ok) \/ clear(ok) \/ resolveCleared(ok)
  PROVE  PanelInv'
<1>1. /\ panel \in {"dimensions", "clear", "resolve"} /\ dim > Len(Dimensions) /\ undecided = {}
      /\ panel' \in {"clear", "resolve", "reviewed", "threw"} /\ UNCHANGED reviewVars
  BY DEF register, clear, resolveCleared, deciding, PanelInv, PanelSteps
<1>2. UNCHANGED <<dim, coverage, blockedReasons, rawFindings, subject, turn, votes, verdict>>
  BY <1>1 DEF reviewVars
<1>3. undecided' = {}
  BY <1>1, <1>2 DEF undecided, findings
<1> QED BY <1>1, <1>2, <1>3, PanelLists DEF PanelInv, PanelTypes, PanelSteps, BallotsAreIndependent, OneBallotEach,
           CoverageInv, VerdictsStand, origins

LEMMA PanelNextInv == PanelInv /\ [PhaseNext]_phaseVars => PanelInv'
<1> SUFFICES ASSUME PanelInv, [PhaseNext]_phaseVars PROVE PanelInv'
  OBVIOUS
<1>1. CASE reviewStep
  <2>1. PanelNext /\ UNCHANGED <<step, next>>
    BY <1>1 DEF reviewStep, memory
  <2> QED BY <2>1, DimensionKeeps, VerdictKeeps, BallotKeeps, TallyKeeps, RegisterKeeps DEF PanelNext
<1>2. ASSUME NEW ok \in BOOLEAN, reviewReturns(ok) PROVE PanelInv'
  BY <1>2, PanelForgets DEF reviewReturns, blockedResult, recordedResult, result
<1>3. CASE coordinatorDies
  BY <1>3, PanelForgets DEF coordinatorDies
<1>4. ASSUME NEW ok \in BOOLEAN, startReview(ok) PROVE PanelInv'
  BY <1>4, PanelLists DEF startReview, mustRun, atPhase, memory, reviewVars, PanelInv, PanelTypes, PanelSteps, BallotsAreIndependent,
     OneBallotEach, CoverageInv, VerdictsStand, origins
<1>5. ASSUME NEW all \in BOOLEAN, driveToConvergence(all) PROVE PanelInv'
  BY <1>5, PanelAside DEF driveToConvergence, panelAside
<1>6. ASSUME NEW ok \in BOOLEAN,
             gatePhase(ok) \/ skipPhase(ok) \/ refusePhase(ok) \/ agentFails(ok) \/ validationFails(ok)
             \/ refuseReview(ok)
      PROVE  PanelInv'
  BY <1>6, PanelAside DEF gatePhase, skipPhase, refusePhase, agentFails, validationFails, refuseReview,
     blockedResult, recordedResult, result, mustRun, atPhase
<1>7. ASSUME NEW ok \in BOOLEAN, invokeAgent(ok) PROVE PanelInv'
  BY <1>7, PanelAside DEF invokeAgent, mustRun, atPhase, memory, current
<1>8. CASE agentReturns
  BY <1>8, PanelAside DEF agentReturns, memory, current, PanelInv, PanelSteps
<1>9. ASSUME NEW ok \in BOOLEAN, NEW exhausted \in BOOLEAN, NEW noProgress \in BOOLEAN,
             validationPasses(exhausted, noProgress, ok)
      PROVE  PanelInv'
  BY <1>9, PanelAside DEF validationPasses, blockedResult, recordedResult, result
<1>10. ASSUME NEW ok \in BOOLEAN, NEW outcome \in {"green", "red", "missing"},
              runFinalValidation(outcome, ok)
       PROVE  PanelInv'
  BY <1>10, PanelAside DEF runFinalValidation, allRun
<1>11. CASE returnBlocked \/ UNCHANGED phaseVars
  <2>1. panelAside /\ next' = next
    BY <1>11 DEF returnBlocked, phaseVars, panelVars, panelAside, memory
  <2>2. CASE step = "review"
    <3>1. step' = step
      BY <1>11, <2>2 DEF returnBlocked, allRun, phaseVars
    <3> QED BY <2>1, <3>1 DEF panelAside, reviewVars, PanelInv, PanelTypes, PanelSteps,
               BallotsAreIndependent, OneBallotEach, CoverageInv, VerdictsStand, undecided, findings,
               origins, mayVote, seen, current
  <2>3. CASE step # "review"
    <3>1. step' # "review" /\ (step' \in {"agent", "validate"} => step' = step)
      BY <1>11, <2>3 DEF returnBlocked, phaseVars
    <3> QED BY <2>1, <2>3, <3>1, PanelAside DEF PanelInv, PanelSteps, current
  <2> QED BY <2>2, <2>3
<1> QED BY <1>1, <1>2, <1>3, <1>4, <1>5, <1>6, <1>7, <1>8, <1>9, <1>10, <1>11 DEF PhaseNext

-----------------------------------------------------------------------------
\* A verdict that clears a finding was earned: the skeptics of the definition of answered are the
\* ballots that were counted.
LEMMA ClearedIsAnswered ==
  ASSUME PanelInv, NEW f \in findings, verdict[f] \notin {"none", "unverified"},
         ~(verdict[f] = "confirmed" /\ isBlocker(f))
  PROVE  answered(f)
<1> DEFINE B == votes[f]
           R == {b \in B : b.refuted}
           C == {b \in B : ~b.refuted}
           independent == {v \in {VerifierPanel[i] : i \in DOMAIN VerifierPanel} :
                             \A r \in rawFindings : r.finding = f => r.dimension # v.origin}
           ballots(b) == {v.id : v \in {x \in independent : [verifier |-> x.id, refuted |-> b] \in B}}
<1>1. f \in Findings /\ B \in SUBSET Ballots /\ IsFiniteSet(B)
  BY DEF PanelInv, PanelTypes, findings
<1>2. CASE verdict[f] = "resolved"
  BY <1>2 DEF answered
<1>3. CASE verdict[f] \in {"refuted", "confirmed"}
  <2>1. \A b \in B : \E v \in independent : v.id = b.verifier
    <3> SUFFICES ASSUME NEW b \in B PROVE \E v \in independent : v.id = b.verifier
      OBVIOUS
    <3>1. PICK i \in DOMAIN VerifierPanel : VerifierPanel[i].id = b.verifier /\ VerifierPanel[i].origin \notin origins(f)
      BY <1>1 DEF PanelInv, BallotsAreIndependent
    <3>2. \A r \in rawFindings : r.finding = f => r.dimension # VerifierPanel[i].origin
      BY <3>1 DEF origins
    <3> QED BY <3>1, <3>2
  <2>2. \A b \in B : b = [verifier |-> b.verifier, refuted |-> b.refuted] /\ b.refuted \in BOOLEAN
    BY <1>1 DEF Ballots
  <2>3. \A x : x \in ballots(TRUE) <=> x \in {b.verifier : b \in R}
    <3> SUFFICES ASSUME NEW x PROVE x \in ballots(TRUE) <=> x \in {b.verifier : b \in R}
      OBVIOUS
    <3>1. ASSUME x \in ballots(TRUE) PROVE x \in {b.verifier : b \in R}
      <4>1. PICK v \in independent : x = v.id /\ [verifier |-> v.id, refuted |-> TRUE] \in B
        BY <3>1
      <4> QED BY <4>1
    <3>2. ASSUME NEW b \in R, x = b.verifier PROVE x \in ballots(TRUE)
      <4>1. PICK v \in independent : v.id = b.verifier
        BY <2>1
      <4>2. b.refuted = TRUE
        BY <2>2
      <4>3. [verifier |-> v.id, refuted |-> TRUE] \in B
        BY <2>2, <4>1, <4>2
      <4> QED BY <3>2, <4>1, <4>3
    <3> QED BY <3>1, <3>2
  <2>4. \A x : x \in ballots(FALSE) <=> x \in {b.verifier : b \in C}
    BY <2>1, <2>2
  <2>5. /\ Cardinality({b.verifier : b \in R}) = refutesIn(B)
        /\ Cardinality({b.verifier : b \in C}) = confirmsIn(B)
        /\ Cardinality({b.verifier : b \in B}) = Cardinality(B)
    <3>1. \A b, c \in B : b.verifier = c.verifier => b = c
      BY <1>1 DEF PanelInv, OneBallotEach
    <3>2. IsFiniteSet(R) /\ IsFiniteSet(C)
      BY <1>1, BallotsAddUp
    <3> QED BY <1>1, <3>1, <3>2, OneSkepticABallot DEF refutesIn, confirmsIn
  <2>6. ballots(TRUE) = {b.verifier : b \in R} /\ ballots(FALSE) = {b.verifier : b \in C}
    BY <2>3, <2>4
  <2>7. ballots(TRUE) \cup ballots(FALSE) = {b.verifier : b \in B}
    BY <2>6
  <2>8. /\ 2 * Cardinality(B) >= Len(VerifierPanel)
        /\ \/ refutesIn(B) > confirmsIn(B)
           \/ refutesIn(B) < confirmsIn(B) /\ ~isBlocker(f)
    BY <1>1, <1>3 DEF PanelInv, VerdictsStand
  <2>9. ~isBlocker(f) => \A r \in rawFindings : r.finding = f => r.severity # "blocker"
    BY DEF isBlocker
  <2>10. /\ Cardinality(ballots(TRUE)) = refutesIn(B) /\ Cardinality(ballots(FALSE)) = confirmsIn(B)
         /\ Cardinality(ballots(TRUE) \cup ballots(FALSE)) = Cardinality(B)
    BY <2>5, <2>6, <2>7, Zenon
  <2> QED
    <3> HIDE DEF ballots
    <3> QED BY <2>8, <2>9, <2>10 DEF answered, ballots
<1> QED BY <1>1, <1>2, <1>3 DEF PanelInv, PanelTypes, Verdicts

\* The review phase passes only on an answered review: every required dimension reported, and
\* every finding was resolved, refuted by a quorum of independent skeptics, or is no blocker.
THEOREM ReviewIsAnswered == PhaseSpec => AdvanceIsAnswered
<1>1. ASSUME PanelInv, [PhaseNext]_phaseVars, "review" \notin observed, "review" \in observed'
      PROVE  /\ \A i \in DOMAIN Dimensions : Dimensions[i].required => Dimensions[i].name \in coverage
             /\ \A r \in rawFindings : answered(r.finding)
  <2>1. PICK ok \in BOOLEAN : reviewReturns(ok) /\ canAdvanceShipPrep
    <3>1. ASSUME NEW ok \in BOOLEAN, NEW exhausted \in BOOLEAN, NEW noProgress \in BOOLEAN,
                 validationPasses(exhausted, noProgress, ok)
          PROVE  FALSE
      <4>1. current # "review"
        BY <1>1, <3>1 DEF PanelInv, PanelSteps, validationPasses
      <4> QED BY <1>1, <3>1, <4>1 DEF validationPasses, blockedResult
    <3>2. ASSUME NEW ok \in BOOLEAN, reviewReturns(ok) PROVE canAdvanceShipPrep
      BY <1>1, <3>2 DEF reviewReturns, blockedResult
    <3>3. ASSUME NEW ok \in BOOLEAN,
                 \/ gatePhase(ok) \/ skipPhase(ok) \/ refusePhase(ok) \/ invokeAgent(ok)
                 \/ agentFails(ok) \/ validationFails(ok) \/ refuseReview(ok) \/ startReview(ok)
          PROVE  FALSE
      BY <1>1, <3>3 DEF gatePhase, skipPhase, refusePhase, invokeAgent, agentFails, validationFails,
         refuseReview, startReview, blockedResult, memory
    <3>4. ASSUME NEW ok \in BOOLEAN, NEW outcome \in {"green", "red", "missing"},
                 runFinalValidation(outcome, ok)
          PROVE  FALSE
      BY <1>1, <3>4 DEF runFinalValidation
    <3>5. ~ \/ (\E all \in BOOLEAN : driveToConvergence(all)) \/ agentReturns \/ reviewStep
            \/ returnBlocked \/ coordinatorDies \/ UNCHANGED phaseVars
      BY <1>1 DEF driveToConvergence, agentReturns, reviewStep, returnBlocked, coordinatorDies,
         phaseVars, memory
    <3> QED BY <1>1, <3>1, <3>2, <3>3, <3>4, <3>5 DEF PhaseNext
  <2>2. dim > Len(Dimensions) /\ undecided = {} /\ blockedReasons = {} /\ blocking = {}
    BY <1>1, <2>1 DEF canAdvanceShipPrep, PanelInv, PanelSteps
  <2>3. \A i \in DOMAIN Dimensions : Dimensions[i].required => Dimensions[i].name \in coverage
    BY <1>1, <2>2, PanelLists DEF PanelInv, PanelTypes, CoverageInv
  <2>4. ASSUME NEW r \in rawFindings PROVE answered(r.finding)
    <3>1. r.finding \in findings
      BY DEF findings
    <3>2. /\ verdict[r.finding] \notin {"none", "unverified"}
          /\ ~(verdict[r.finding] = "confirmed" /\ isBlocker(r.finding))
      BY <2>2, <3>1 DEF undecided, blocking
    <3> QED BY <1>1, <3>1, <3>2, ClearedIsAnswered
  <2> QED BY <2>3, <2>4
<1>2. PhaseSpec => []PanelInv
  BY PanelInvInit, PanelNextInv, PTL DEF PhaseSpec
<1> QED BY <1>1, <1>2, PTL DEF PhaseSpec, AdvanceIsAnswered
==============================================================================
