---------------------------- MODULE AgentProofs ----------------------------
(***************************************************************************)
(* The three ways agents are run: the codex executor, one child and its    *)
(* process group at a time; the legacy workflow, many agents in turn       *)
(* behind its gates; and the review workflow, a lens each and then a panel *)
(* of skeptics for each finding.  All report an outcome that later steps   *)
(* believe, and the theorems are about what stands behind a good one.      *)
(***************************************************************************)
EXTENDS CodexExecutor, PipelineWorkflow, ReviewWorkflow, FiniteSetTheorems, RecursionLemmas, TLAPS

(***************************************************************************)
(* The executor.                                                           *)
(***************************************************************************)

ProcStates == {"unborn", "failed", "alive", "zombie", "gone"}
Marks == {"truncated", "timedOut", "cancelled"}

ProcTypes ==
  /\ proc \in [Procs -> ProcStates]
  /\ unread \in Nat /\ captured \in Nat
  /\ promise = "open" => flags \subseteq Marks \cup {"killed"}

\* Only born processes are in the group, and none that lives once the call is over.
GroupInv ==
  /\ group \subseteq Procs
  /\ \A p \in group : proc[p] \in {"alive", "zombie"}
  /\ promise # "open" => \A p \in group : ~Alive(p)

\* Nothing is killed without a mark that says why, nothing is taken past the ceiling
\* without one, and what exit told is how the leader ended.
OpenInv ==
  promise = "open" =>
    /\ "killed" \in flags => flags \cap Marks # {}
    /\ captured > MaxOutput => "truncated" \in flags
    /\ exitEvent # "none" => exitEvent = wait /\ proc[Leader] = "gone"

\* A run that ended well stays as it ended.
OkInv ==
  promise = "ok" =>
    /\ proc[Leader] = "gone" /\ wait = "zero" /\ exitEvent = "zero"
    /\ flags = {} /\ captured <= MaxOutput /\ unread = 0

TaskInv ==
  /\ stage # "done" => task = "none"
  /\ stage = "idle" => promise = "idle"
  /\ task = "ok" => promise = "ok" /\ message = "valid" /\ (output # message => writer = "escaped")

ExecInv == ProcTypes /\ GroupInv /\ OpenInv /\ OkInv /\ TaskInv

LEMMA LeaderIsAProcess == Leader \in Procs /\ \A d \in Descendants : d \in Procs /\ d # Leader
BY ProcessAssumption DEF Procs

\* A result is ok only without a mark, after status zero, with nobody left.
LEMMA OkIsClean ==
  ASSUME NEW f, NEW e, NEW survivor \in BOOLEAN, Reason(f, e, survivor) = "ok"
  PROVE  f \cap (Marks \cup {"spawnErr"}) = {} /\ e = "zero" /\ ~survivor
BY DEF Reason, Marks

LEMMA ReasonIsAnEnd ==
  ASSUME NEW f, NEW e, NEW survivor \in BOOLEAN
  PROVE  Reason(f, e, survivor) \notin {"idle", "open"}
BY DEF Reason

LEMMA ExecInitInv == ExecInit => ExecInv
BY ProcessAssumption DEF ExecInit, ProcInit, ExecInv, ProcTypes, GroupInv, OpenInv, OkInv, TaskInv, ProcStates

\* A kill leaves no live process in the group.
LEMMA KillKeeps ==
  ASSUME ExecInv, killGroup
  PROVE  /\ proc' \in [Procs -> ProcStates]
         /\ group' = group /\ \A p \in group : proc'[p] = "zombie"
         /\ proc[Leader] = "gone" => proc'[Leader] = "gone" /\ wait' = wait
BY LeaderIsAProcess DEF killGroup, ExecInv, ProcTypes, GroupInv, Victims, Alive, ProcStates

\* The call ends: whoever is left in the group is killed.
LEMMA FinalizeKeeps ==
  ASSUME ExecInv, promise = "open", NEW extra \in SUBSET {"spawnErr"}, finalize(flags \cup extra),
         extra = {} => exitEvent # "none" /\ unread = 0, UNCHANGED codexVars
  PROVE  ExecInv'
<1> DEFINE f == flags \cup extra
           survivor == CleanExit(f, exitEvent) /\ groupAlive
<1>1. promise' = Reason(f, exitEvent, survivor) /\ survivor \in BOOLEAN
  BY DEF finalize
<1>2. promise' \notin {"idle", "open"}
  BY <1>1, ReasonIsAnEnd
<1>3. CASE groupAlive
  <2>1. killGroup
    BY <1>3 DEF finalize
  <2>2. promise' # "ok"
    <3>1. promise' = "ok" => CleanExit(f, exitEvent) /\ ~survivor
      BY <1>1, OkIsClean DEF CleanExit, Marks
    <3> QED BY <3>1, <1>3
  <2> QED BY <1>2, <2>1, <2>2, KillKeeps
          DEF finalize, ExecInv, ProcTypes, GroupInv, OpenInv, OkInv, TaskInv, codexVars,
              Alive
<1>4. CASE ~groupAlive
  <2>1. UNCHANGED <<proc, group, pipes, wait, captured, unread, exitEvent>> /\ flags' = f /\ group = {}
    BY <1>4 DEF finalize, osVars, groupAlive
  <2>2. promise' = "ok" => /\ f \cap (Marks \cup {"spawnErr"}) = {} /\ exitEvent = "zero"
    BY <1>1, OkIsClean
  <2>3. promise' = "ok" => f = {} /\ extra = {} /\ captured <= MaxOutput
    <3> SUFFICES ASSUME promise' = "ok" PROVE f = {} /\ extra = {} /\ captured <= MaxOutput
      OBVIOUS
    <3>1. f \cap (Marks \cup {"spawnErr"}) = {}
      BY <2>2
    <3>2. extra = {} /\ f = flags /\ flags \cap Marks = {}
      BY <3>1
    <3>3. "killed" \notin flags /\ flags \subseteq Marks \cup {"killed"}
      BY <3>2 DEF ExecInv, ProcTypes, OpenInv
    <3>4. flags = {}
      BY <3>2, <3>3
    <3>5. captured <= MaxOutput
      BY <3>4, ProcessAssumption DEF ExecInv, ProcTypes, OpenInv
    <3> QED BY <3>2, <3>4, <3>5
  <2> QED BY <1>2, <2>1, <2>2, <2>3
          DEF ExecInv, ProcTypes, GroupInv, OpenInv, OkInv, TaskInv, codexVars, Alive
<1> QED BY <1>3, <1>4

\* What node tells the call.
LEMMA NodeKeeps == ASSUME ExecInv, NodeEvents, UNCHANGED codexVars PROVE ExecInv'
<1> USE DEF ExecInv, ProcTypes, GroupInv, OpenInv, OkInv, TaskInv, codexVars,
            Alive, Open, Turn, Marks
<1>1. CASE onAbort
  BY <1>1, KillKeeps DEF onAbort
<1>2. CASE onTimeout
  BY <1>2, KillKeeps DEF onTimeout
<1>3. CASE onData
  <2>1. captured' \in Nat /\ unread' \in Nat /\ captured' = captured + 1
    BY <1>3 DEF onData
  <2>2. CASE captured + 1 > MaxOutput /\ "truncated" \notin flags
    BY <1>3, <2>1, <2>2, KillKeeps DEF onData
  <2>3. CASE ~(captured + 1 > MaxOutput /\ "truncated" \notin flags)
    BY <1>3, <2>1, <2>3 DEF onData, osVars
  <2> QED BY <2>2, <2>3
<1>4. CASE onError
  BY <1>4, FinalizeKeeps DEF onError
<1>5. CASE onExit
  BY <1>5, LeaderIsAProcess DEF onExit, ProcStates
<1>6. CASE onClose
  BY <1>6, FinalizeKeeps, flags \cup {} = flags DEF onClose
<1> QED BY <1>1, <1>2, <1>3, <1>4, <1>5, <1>6 DEF NodeEvents

\* What the processes do.
LEMMA WorldKeeps == ASSUME ExecInv, World, UNCHANGED codexVars PROVE ExecInv'
<1> USE LeaderIsAProcess
    DEF ExecInv, ProcTypes, GroupInv, OpenInv, OkInv, TaskInv, codexVars, callVars,
        Alive, Open, ProcStates
<1>1. ASSUME NEW p \in Procs, NEW d \in Descendants, fork(p, d) PROVE ExecInv'
  BY <1>1 DEF fork
<1>2. ASSUME NEW d \in Descendants, leave(d) PROVE ExecInv'
  BY <1>2 DEF leave
<1>3. ASSUME NEW d \in Descendants, reap(d) PROVE ExecInv'
  BY <1>3 DEF reap
<1>4. ASSUME NEW p \in Procs, closePipes(p) PROVE ExecInv'
  BY <1>4 DEF closePipes
<1>5. ASSUME NEW p \in Procs, writeChunk(p) PROVE ExecInv'
  BY <1>5 DEF writeChunk, osVars
<1>6. ASSUME NEW p \in Procs, NEW status \in {"zero", "nonzero", "signal"}, exit(p, status) PROVE ExecInv'
  BY <1>6 DEF exit
<1> QED BY <1>1, <1>2, <1>3, <1>4, <1>5, <1>6 DEF World

\* A new run begins after one that is over, or as the first.
LEMMA RunKeeps ==
  ASSUME ExecInv, promise # "open", task = "none", NEW s \in {"version", "help", "exec"}, nextRun(s)
  PROVE  ExecInv'
<1> USE LeaderIsAProcess, ProcessAssumption
    DEF ExecInv, ProcTypes, GroupInv, OpenInv, OkInv, TaskInv, nextRun,
        Alive, ProcStates
<1>1. CASE promise' = "spawn-error"
  BY <1>1 DEF runProcess
<1>2. CASE promise' = "open"
  <2>1. PICK spawned \in {"failed", "alive"} :
          /\ proc' = [p \in Procs |-> IF p = Leader THEN spawned ELSE "unborn"]
          /\ group' = IF spawned = "alive" THEN {Leader} ELSE {}
    BY <1>2 DEF runProcess
  <2>2. flags' = {} /\ captured' = 0 /\ unread' = 0 /\ exitEvent' = "none"
    BY DEF runProcess
  <2>3. proc' \in [Procs -> ProcStates] /\ group' \subseteq Procs
    BY <2>1
  <2>4. \A p \in group' : proc'[p] \in {"alive", "zombie"}
    BY <2>1
  <2> QED BY <1>2, <2>2, <2>3, <2>4
<1> QED BY <1>1, <1>2 DEF runProcess

LEMMA ExecNextInv == ExecInv /\ [ExecNext]_execVars => ExecInv'
<1> SUFFICES ASSUME ExecInv, [ExecNext]_execVars PROVE ExecInv'
  OBVIOUS
<1>a. ASSUME NEW r, blocked(r), r = "ok" => promise = "ok" /\ message' = "valid" /\ output = "valid"
      PROVE  ExecInv'
  BY <1>a DEF blocked, procVars, osVars, callVars, ExecInv, ProcTypes, GroupInv, OpenInv, OkInv,
         TaskInv, Alive
<1>1. ASSUME NEW prompt \in {"empty", "text"}, NEW sandbox \in Tiers, NEW paths,
             runCodexTask(prompt, sandbox, paths)
      PROVE  ExecInv'
  <2>1. promise = "idle" /\ task = "none"
    BY <1>1 DEF runCodexTask, ExecInv, TaskInv
  <2> QED BY <1>1, <1>a, <2>1, RunKeeps DEF runCodexTask, early
<1>2. CASE preflightVersion
  BY <1>2, <1>a, RunKeeps DEF preflightVersion, early, ExecInv, TaskInv
<1>3. CASE preflightFlags
  BY <1>3, <1>a, RunKeeps DEF preflightFlags, early, ExecInv, TaskInv
<1>4. CASE readFinalOutput
  <2>1. CASE promise = "ok"
    <3>1. /\ blocked(validateEngineerOutput(output)) /\ message' = output
      BY <1>4, <2>1 DEF readFinalOutput
    <3>2. validateEngineerOutput(output) = "ok" => output = "valid"
      BY <1>4, <2>1 DEF validateEngineerOutput, ExecInv, TaskInv
    <3> QED BY <1>a, <2>1, <3>1, <3>2
  <2>2. CASE promise # "ok"
    BY <1>4, <1>a, <2>2 DEF readFinalOutput, early
  <2> QED BY <2>1, <2>2
<1>5. ASSUME NEW p \in Procs, NEW c \in Contents, writeOutput(p, c) PROVE ExecInv'
  BY <1>5 DEF writeOutput, procVars, osVars, callVars, ExecInv, ProcTypes, GroupInv, OpenInv, OkInv,
         TaskInv, Alive
<1>6. CASE Running /\ UNCHANGED codexVars
  BY <1>6, NodeKeeps, WorldKeeps DEF Running
<1>7. CASE UNCHANGED execVars
  BY <1>7 DEF execVars, codexVars, procVars, osVars, callVars, ExecInv, ProcTypes, GroupInv, OpenInv,
         OkInv, TaskInv, Alive
<1> QED BY <1>1, <1>2, <1>3, <1>4, <1>5, <1>6, <1>7 DEF ExecNext

LEMMA ExecAlways == ExecSpec => []ExecInv
BY ExecInitInv, ExecNextInv, PTL DEF ExecSpec

\* runProcess of process-runner.mjs: once the promise is settled, by whatever event, no
\* process of the group that the call started is alive.
THEOREM NoAgentOutlivesItsCall == ExecSpec => []AgentsDieWithTheirRun
<1>1. ExecInv => AgentsDieWithTheirRun
  BY DEF ExecInv, GroupInv, AgentsDieWithTheirRun
<1> QED BY <1>1, ExecAlways, PTL

\* A task of codex-executor.mjs is ok only behind a child that ended by itself with zero,
\* nothing cut off and nothing killed, and a file that was read whole and of the right shape;
\* no process of the group rewrites that file afterwards.
THEOREM OkTasksAreEarned == ExecSpec => []OkIsEarned
<1>1. ExecInv => OkIsEarned
  BY DEF ExecInv, OkInv, TaskInv, OkIsEarned
<1> QED BY <1>1, ExecAlways, PTL

-----------------------------------------------------------------------------
(***************************************************************************)
(* The legacy workflow.                                                    *)
(***************************************************************************)

\* The phases that come before a leg.
Before ==
  [simplify |-> {}, test |-> {"simplify"}, review |-> {"simplify", "test"},
   performance |-> {"simplify", "test", "review"},
   ship_prep |-> {"simplify", "test", "review", "performance"}, finalize |-> PhaseKeys]
AfterBuild == {"simplify", "test", "review", "performance", "ship_prep", "finalize"}
Wanted == {"test", "review"} \cup Enabled
Failed == {"blocked", "dep_blocked"}
Jobs == {"none", "engineer", "integrate", "review", "fix", "done"} \cup Failed

FlowTypes ==
  /\ leg \in {"down", "layers", "returned"} \cup AfterBuild
  /\ job \in [Tasks -> Jobs]
  /\ merged \subseteq Tasks

\* Neither the checkpoint nor a launch that read it says done of a task that is not on
\* the branch, or of a phase that no agent finished.
RecordInv ==
  /\ unitsDone \subseteq merged /\ doneTasks \subseteq merged
  /\ (phasesDone \cup donePhases) \cap PhaseKeys \subseteq ran
  /\ "build" \in phasesDone \cup donePhases => merged = Tasks

\* A task is reviewed once it is on the branch, and one that is not through is not done.
JobInv ==
  /\ \A t \in Tasks : job[t] \in {"review", "fix", "done"} => t \in merged
  /\ \A t \in Tasks : job[t] \notin {"none", "done"} => t \notin doneTasks
  /\ "build" \in donePhases => \A t \in Tasks : job[t] = "none"

\* Behind the build an empty register means that nothing was left out so far.
GreenInv ==
  /\ leg \in AfterBuild /\ register = {} =>
       /\ merged = Tasks /\ Before[leg] \cap Wanted \subseteq ran
       /\ \A t \in Tasks : job[t] \notin Failed
  /\ NothingSkippedIsGreen

FlowInv == FlowTypes /\ RecordInv /\ JobInv /\ GreenInv

\* What a status write leaves, whether it is kept or lost.
LEMMA WritesAreBounded ==
  /\ \A t, to : writeUnit(t, to) =>
       /\ unitsDone' \subseteq unitsDone \cup {t}
       /\ to # "done" => unitsDone' \subseteq unitsDone
  /\ \A p, to : persistPhase(p, to) =>
       /\ phasesDone' \subseteq phasesDone \cup {p}
       /\ to # "done" => phasesDone' \subseteq phasesDone
BY DEF writeUnit, persistPhase, set

LEMMA FlowStarts == FlowInit => FlowInv
BY DEF FlowInit, FlowInv, FlowTypes, RecordInv, JobInv, GreenInv, NothingSkippedIsGreen, Jobs,
       AfterBuild

LEMMA LaunchKeepsFlow == FlowInv /\ preflight => FlowInv'
<1> SUFFICES ASSUME FlowInv, preflight PROVE FlowInv'
  OBVIOUS
<1> USE DEF FlowInv, preflight, blankBuild, diskVars
<1>1. FlowTypes'
  BY DEF FlowTypes, Jobs
<1>2. RecordInv'
  BY DEF RecordInv
<1>3. JobInv'
  BY DEF JobInv
<1>4. GreenInv'
  BY DEF GreenInv, AfterBuild, NothingSkippedIsGreen
<1> QED BY <1>1, <1>2, <1>3, <1>4

LEMMA EndsKeepFlow == FlowInv /\ (finalizeFlow \/ crashFlow \/ spendTokens) => FlowInv'
<1> SUFFICES ASSUME FlowInv, finalizeFlow \/ crashFlow \/ spendTokens PROVE FlowInv'
  OBVIOUS
<1> USE DEF FlowInv, blankBuild, diskVars
<1>1. CASE finalizeFlow
  <2>1. converged' => register = {}
    BY <1>1 DEF finalizeFlow, gateFail
  <2>2. Wanted \subseteq PhaseKeys
    BY WorkflowAssumption DEF Wanted, PhaseKeys
  <2>3. Before["finalize"] = PhaseKeys
    BY DEF Before
  <2>4. leg = "finalize" /\ leg' = "returned" /\ UNCHANGED <<merged, ran>>
    BY <1>1 DEF finalizeFlow
  <2>5. GreenInv'
    BY <2>1, <2>2, <2>3, <2>4 DEF GreenInv, AfterBuild, NothingSkippedIsGreen, Wanted
  <2>6. FlowTypes'
    BY <1>1 DEF finalizeFlow, FlowTypes, Jobs
  <2>7. RecordInv' /\ JobInv'
    BY <1>1 DEF finalizeFlow, RecordInv, JobInv
  <2> QED BY <2>5, <2>6, <2>7
<1>2. CASE crashFlow
  <2>1. FlowTypes'
    BY <1>2 DEF crashFlow, FlowTypes, Jobs
  <2>2. RecordInv' /\ JobInv'
    BY <1>2 DEF crashFlow, RecordInv, JobInv
  <2>3. GreenInv'
    BY <1>2 DEF crashFlow, GreenInv, AfterBuild, NothingSkippedIsGreen
  <2> QED BY <2>1, <2>2, <2>3
<1>3. CASE spendTokens
  BY <1>3 DEF spendTokens, buildVars, FlowTypes, RecordInv, JobInv, GreenInv,
              NothingSkippedIsGreen
<1> QED BY <1>1, <1>2, <1>3

\* A step of one task within a layer: it may put its task on the branch, and it may call
\* it done when it is there.
LEMMA TaskStepKeepsFlow ==
  ASSUME FlowInv, leg = "layers", UNCHANGED <<leg, donePhases, phasesDone, ran, converged>>,
         NEW t \in Tasks, NEW to \in Jobs \ {"none"},
         job[t] \in {"engineer", "integrate", "review", "fix"},
         job' = [job EXCEPT ![t] = to],
         merged' \in {merged, merged \cup {t}},
         to \in {"review", "fix", "done"} => t \in merged',
         to = "done" => doneTasks' = doneTasks \cup {t} /\ unitsDone' \subseteq unitsDone \cup {t},
         to # "done" => doneTasks' = doneTasks /\ unitsDone' \subseteq unitsDone
  PROVE  FlowInv'
<1> USE DEF FlowInv
<1>1. FlowTypes'
  BY DEF FlowTypes
<1>2. RecordInv'
  BY DEF RecordInv, FlowTypes
<1>3. \A u \in Tasks : job'[u] = IF u = t THEN to ELSE job[u]
  BY DEF FlowTypes
<1>4. t \notin doneTasks /\ "build" \notin donePhases
  BY DEF JobInv
<1>5. JobInv'
  BY <1>3, <1>4 DEF JobInv
<1>6. GreenInv'
  BY DEF GreenInv, AfterBuild, NothingSkippedIsGreen, FlowTypes
<1> QED BY <1>1, <1>2, <1>5, <1>6

LEMMA LayerKeepsFlow ==
  ASSUME FlowInv, leg = "layers", NEW t \in Tasks, engineer(t) \/ integrate(t) \/ sliceReview(t) \/ fix(t)
  PROVE  FlowInv'
<1>1. ASSUME withRetry(t) PROVE FlowInv'
  BY <1>1 DEF withRetry, diskVars, FlowInv, FlowTypes, RecordInv, JobInv, GreenInv,
              NothingSkippedIsGreen
<1>2. ASSUME engineer(t), ~withRetry(t) PROVE FlowInv'
  <2>1. PICK to \in {"integrate", "blocked"} :
          /\ job[t] = "engineer" /\ job' = [job EXCEPT ![t] = to]
          /\ unitsDone' \subseteq unitsDone
          /\ UNCHANGED <<leg, donePhases, phasesDone, ran, converged, merged, doneTasks>>
    BY <1>2, WritesAreBounded DEF engineer
  <2> QED BY <2>1, TaskStepKeepsFlow DEF Jobs, Failed
<1>3. ASSUME integrate(t) PROVE FlowInv'
  <2>1. PICK to \in {"review", "blocked"} :
          /\ job[t] = "integrate" /\ job' = [job EXCEPT ![t] = to]
          /\ merged' \in {merged, merged \cup {t}} /\ (to = "review" => t \in merged')
          /\ unitsDone' \subseteq unitsDone
          /\ UNCHANGED <<leg, donePhases, phasesDone, ran, converged, doneTasks>>
    BY <1>3, WritesAreBounded DEF integrate
  <2> QED BY <2>1, TaskStepKeepsFlow DEF Jobs, Failed
<1>4. ASSUME sliceReview(t), ~withRetry(t) PROVE FlowInv'
  <2>1. PICK to \in {"done", "fix", "blocked"} :
          /\ job[t] = "review" /\ job' = [job EXCEPT ![t] = to]
          /\ to = "done" => doneTasks' = doneTasks \cup {t} /\ unitsDone' \subseteq unitsDone \cup {t}
          /\ to # "done" => doneTasks' = doneTasks /\ unitsDone' \subseteq unitsDone
          /\ UNCHANGED <<leg, donePhases, phasesDone, ran, converged, merged>>
    BY <1>4, WritesAreBounded DEF sliceReview
  <2>2. t \in merged
    BY <2>1 DEF FlowInv, JobInv
  <2> QED BY <2>1, <2>2, TaskStepKeepsFlow DEF Jobs, Failed
<1>5. ASSUME fix(t) PROVE FlowInv'
  <2>1. /\ job[t] = "fix" /\ job' = [job EXCEPT ![t] = "review"]
        /\ UNCHANGED <<leg, donePhases, phasesDone, ran, converged, merged, doneTasks, unitsDone>>
    BY <1>5 DEF fix, diskVars
  <2>2. t \in merged
    BY <2>1 DEF FlowInv, JobInv
  <2> QED BY <2>1, <2>2, TaskStepKeepsFlow DEF Jobs, Failed
<1> QED BY <1>1, <1>2, <1>3, <1>4, <1>5

LEMMA LayerStartKeepsFlow == FlowInv /\ startLayer => FlowInv'
<1> SUFFICES ASSUME FlowInv, startLayer PROVE FlowInv'
  OBVIOUS
<1> USE DEF FlowInv
<1> DEFINE todo == ToSet(Layers[layer]) \ doneTasks
<1>1. /\ leg = "layers" /\ "build" \notin donePhases
      /\ job' = [t \in Tasks |-> IF t \notin todo THEN job[t]
                                 ELSE IF ready(t) THEN "engineer" ELSE "dep_blocked"]
      /\ UNCHANGED <<diskVars, leg, doneTasks, donePhases, ran, converged>>
  BY DEF startLayer
<1>2. \A t \in Tasks : \/ job'[t] = job[t]
                       \/ job'[t] \in {"engineer", "dep_blocked"} /\ t \notin doneTasks
  BY <1>1
<1>3. FlowTypes'
  BY <1>1 DEF FlowTypes, Jobs, Failed, diskVars
<1>4. RecordInv'
  BY <1>1 DEF RecordInv, diskVars
<1>5. JobInv'
  BY <1>1, <1>2 DEF JobInv, diskVars
<1>6. GreenInv'
  BY <1>1 DEF GreenInv, AfterBuild, NothingSkippedIsGreen, diskVars
<1> QED BY <1>3, <1>4, <1>5, <1>6

LEMMA BuildEndKeepsFlow == FlowInv /\ buildPhase => FlowInv'
<1> SUFFICES ASSUME FlowInv, buildPhase PROVE FlowInv'
  OBVIOUS
<1> USE DEF FlowInv
<1>1. /\ leg' = "simplify"
      /\ UNCHANGED <<unitsDone, merged, job, doneTasks, donePhases, ran, converged>>
  BY DEF buildPhase
<1>2. Before["simplify"] = {}
  BY DEF Before
<1>3. CASE "build" \in donePhases
  <2>1. UNCHANGED phasesDone
    BY <1>3 DEF buildPhase
  <2>2. merged = Tasks /\ \A t \in Tasks : job[t] = "none"
    BY <1>3 DEF RecordInv, JobInv
  <2>3. GreenInv'
    BY <1>1, <1>2, <2>2 DEF GreenInv, NothingSkippedIsGreen, Failed
  <2>4. RecordInv' /\ JobInv' /\ FlowTypes'
    BY <1>1, <2>1 DEF RecordInv, JobInv, FlowTypes, AfterBuild
  <2> QED BY <2>3, <2>4
<1>4. CASE "build" \notin donePhases
  <2> DEFINE undone == {t \in Tasks : t \notin doneTasks}
  <2>1. /\ {<<"build", t>> : t \in undone} \subseteq register'
        /\ persistPhase("build", IF undone = {} THEN "done" ELSE "blocked")
    BY <1>4 DEF buildPhase
  <2>2. undone = {} => merged = Tasks /\ \A t \in Tasks : job[t] \notin Failed
    BY DEF RecordInv, JobInv, FlowTypes, Failed
  <2>3. register' = {} => undone = {}
    BY <2>1
  <2>4. GreenInv'
    BY <1>1, <1>2, <2>2, <2>3 DEF GreenInv, NothingSkippedIsGreen
  <2>5. phasesDone' \subseteq phasesDone \/ (undone = {} /\ phasesDone' \subseteq phasesDone \cup {"build"})
    BY <2>1, WritesAreBounded
  <2>6. RecordInv'
    BY <1>1, <2>2, <2>5 DEF RecordInv, PhaseKeys
  <2>7. JobInv' /\ FlowTypes'
    BY <1>1 DEF JobInv, FlowTypes, AfterBuild
  <2> QED BY <2>4, <2>6, <2>7
<1> QED BY <1>3, <1>4

\* A phase leaves the register empty only if it was not wanted or an agent finished it.
LEMMA PhaseKeepsFlow == ASSUME FlowInv, NEW p \in PhaseKeys, phaseAgent(p) PROVE FlowInv'
<1> USE DEF FlowInv
<1>1. /\ leg = p /\ leg' = Following[p]
      /\ UNCHANGED <<unitsDone, merged, job, doneTasks, donePhases, converged>>
  BY DEF phaseAgent, buildVars
<1>2. p \in AfterBuild /\ leg' \in AfterBuild /\ Before[leg'] = Before[p] \cup {p}
  BY <1>1 DEF PhaseKeys, AfterBuild, Following, Before
<1>3. \/ UNCHANGED ran /\ phasesDone' \subseteq phasesDone
      \/ ran' = ran \cup {p} /\ phasesDone' \subseteq phasesDone \cup {p}
  <2>1. CASE skipped(p)
    BY <2>1, WritesAreBounded DEF skipped
  <2>2. CASE stopped(p)
    BY <2>2, WritesAreBounded DEF stopped
  <2>3. CASE diedOrRed(p)
    BY <2>3, WritesAreBounded DEF diedOrRed
  <2>4. CASE answered(p)
    BY <2>4, WritesAreBounded DEF answered
  <2> QED BY <2>1, <2>2, <2>3, <2>4 DEF phaseAgent
<1>4. ASSUME register' = {}
      PROVE  register = {} /\ (p \in Wanted => p \in ran')
  <2>1. ~stopped(p) /\ ~diedOrRed(p)
    BY <1>4 DEF stopped, diedOrRed, budgetStop, gateFail
  <2>2. CASE answered(p)
    BY <1>4, <2>2 DEF answered
  <2>3. CASE skipped(p)
    <3>1. register = {} /\ UNCHANGED ran
      BY <1>4, <2>3 DEF skipped
    <3>2. \A t \in Tasks : job[t] \notin Failed
      BY <1>1, <1>2, <3>1 DEF GreenInv
    <3>3. ~someBlocked /\ ~reviewOpen
      BY <3>1, <3>2 DEF someBlocked, reviewOpen, Failed
    <3>4. p \in Wanted => switchedOn(p)
      BY <3>3, WorkflowAssumption DEF switchedOn, Wanted
    <3>5. p \in donePhases => p \in ran
      BY DEF RecordInv
    <3> QED BY <2>3, <3>1, <3>4, <3>5 DEF skipped
  <2> QED BY <2>1, <2>2, <2>3 DEF phaseAgent
<1>5. GreenInv'
  BY <1>1, <1>2, <1>3, <1>4 DEF GreenInv, NothingSkippedIsGreen
<1>6. RecordInv'
  BY <1>1, <1>3 DEF RecordInv, PhaseKeys
<1>7. JobInv' /\ FlowTypes'
  BY <1>1, <1>2 DEF JobInv, FlowTypes
<1> QED BY <1>5, <1>6, <1>7

LEMMA FlowIsInvariant == FlowSpec => []FlowInv
<1>1. FlowInv /\ [FlowNext]_flowVars => FlowInv'
  <2> SUFFICES ASSUME FlowInv, [FlowNext]_flowVars PROVE FlowInv'
    OBVIOUS
  <2>1. CASE UNCHANGED flowVars
    BY <2>1 DEF flowVars, diskVars, buildVars, FlowInv, FlowTypes, RecordInv, JobInv, GreenInv,
                NothingSkippedIsGreen
  <2>2. CASE FlowStep
    BY <2>2, LayerStartKeepsFlow, BuildEndKeepsFlow, EndsKeepFlow, LayerKeepsFlow, PhaseKeepsFlow
       DEF FlowStep
  <2> QED BY <2>1, <2>2, LaunchKeepsFlow, EndsKeepFlow DEF FlowNext
<1> QED BY <1>1, FlowStarts, PTL DEF FlowSpec

\* pipeline-workflow.js: converged is returned only by a launch behind which every task is
\* on the branch and every phase that is switched on was finished by an agent, whatever
\* crashed, ran out of budget or was read back from an earlier launch.
THEOREM ConvergedMeansRun == FlowSpec => []NothingSkippedIsGreen
<1>1. FlowInv => NothingSkippedIsGreen
  BY DEF FlowInv, GreenInv
<1> QED BY <1>1, FlowIsInvariant, PTL
-----------------------------------------------------------------------------
(***************************************************************************)
(* The gates of the workflow, and its root chain.  Who has a slot or waits *)
(* for one is told by the queue and by the jobs; what is counted must      *)
(* agree with both.                                                        *)
(***************************************************************************)

\* Lists without repeats: one more at the end, and one less at the front.
LEMMA AppendNew ==
  ASSUME NEW S, NEW s \in Seq(S), NEW x \in S, IsInjective(s), x \notin ToSet(s)
  PROVE  /\ Append(s, x) \in Seq(S) /\ IsInjective(Append(s, x))
         /\ ToSet(Append(s, x)) = ToSet(s) \cup {x}
<1> DEFINE r == Append(s, x)
<1>1. /\ r \in Seq(S) /\ Len(r) = Len(s) + 1 /\ Len(s) \in Nat
      /\ \A i \in 1..Len(s) : r[i] = s[i] /\ r[Len(r)] = x
      /\ r[Len(s) + 1] = x /\ DOMAIN r = 1..(Len(s) + 1) /\ DOMAIN s = 1..Len(s)
  OBVIOUS
<1>2. \A i \in 1..(Len(s) + 1) : i \in 1..Len(s) \/ i = Len(s) + 1
  BY <1>1
<1>3. \A i \in 1..Len(s) : i \in 1..(Len(s) + 1) /\ s[i] \in ToSet(s)
  BY <1>1 DEF ToSet
<1>4. Len(s) + 1 \in 1..(Len(s) + 1)
  BY <1>1
<1>5. ToSet(r) = ToSet(s) \cup {x}
  <2> HIDE DEF r
  <2> QED BY <1>1, <1>2, <1>3, <1>4 DEF ToSet
<1>6. IsInjective(r)
  <2> HIDE DEF r
  <2> SUFFICES ASSUME NEW i \in DOMAIN r, NEW j \in DOMAIN r, r[i] = r[j] PROVE i = j
    BY DEF IsInjective
  <2> QED BY <1>1, <1>2, <1>3 DEF IsInjective
<1> QED BY <1>1, <1>5, <1>6

LEMMA TailWithoutHead ==
  ASSUME NEW S, NEW s \in Seq(S), IsInjective(s), s # <<>>
  PROVE  /\ Tail(s) \in Seq(S) /\ IsInjective(Tail(s)) /\ s[1] \in ToSet(s)
         /\ ToSet(Tail(s)) = ToSet(s) \ {s[1]}
<1> DEFINE r == Tail(s)
<1>1. /\ r \in Seq(S) /\ Len(r) = Len(s) - 1 /\ Len(s) \in Nat /\ Len(s) > 0
      /\ \A i \in 1..(Len(s) - 1) : r[i] = s[i + 1]
      /\ DOMAIN r = 1..(Len(s) - 1) /\ DOMAIN s = 1..Len(s)
  OBVIOUS
<1>2. 1 \in 1..Len(s)
  BY <1>1
<1>3. \A i \in 1..(Len(s) - 1) : i + 1 \in 1..Len(s) /\ i + 1 # 1
  BY <1>1
<1>4. \A i \in 1..Len(s) : i = 1 \/ (i - 1 \in 1..(Len(s) - 1) /\ (i - 1) + 1 = i)
  BY <1>1
<1>5. ToSet(r) = ToSet(s) \ {s[1]}
  <2> HIDE DEF r
  <2>1. ASSUME NEW x \in ToSet(r) PROVE x \in ToSet(s) /\ x # s[1]
    <3>1. PICK i \in 1..(Len(s) - 1) : x = r[i]
      BY <1>1 DEF ToSet
    <3>2. i + 1 \in 1..Len(s) /\ i + 1 # 1 /\ x = s[i + 1]
      BY <1>1, <1>3, <3>1
    <3> QED BY <1>1, <1>2, <3>2 DEF ToSet, IsInjective
  <2>2. ASSUME NEW x \in ToSet(s), x # s[1] PROVE x \in ToSet(r)
    <3>1. PICK i \in 1..Len(s) : x = s[i]
      BY <1>1 DEF ToSet
    <3>2. i - 1 \in 1..(Len(s) - 1) /\ (i - 1) + 1 = i
      BY <1>4, <2>2, <3>1
    <3>3. r[i - 1] = x
      BY <1>1, <3>1, <3>2
    <3> QED BY <1>1, <3>2, <3>3 DEF ToSet
  <2>3. s[1] \notin ToSet(r)
    BY <2>1
  <2> QED BY <2>1, <2>2, <2>3
<1>6. IsInjective(r)
  <2> HIDE DEF r
  <2> SUFFICES ASSUME NEW i \in DOMAIN r, NEW j \in DOMAIN r, r[i] = r[j] PROVE i = j
    BY DEF IsInjective
  <2>1. i + 1 = j + 1
    BY <1>1, <1>3 DEF IsInjective
  <2> QED BY <1>1, <2>1
<1> QED BY <1>1, <1>2, <1>5, <1>6 DEF ToSet

Gates == [busy : Nat, queue : Seq(Tasks)]

\* Those who hold a slot of g and those who wait for one are who, the slots are counted,
\* and nobody waits while one is free.
Slots(g, limit, who) ==
  /\ g \in Gates /\ IsInjective(g.queue) /\ ToSet(g.queue) \subseteq who
  /\ g.busy = Cardinality(who \ ToSet(g.queue)) /\ g.busy <= limit
  /\ g.queue # <<>> => g.busy = limit

LEMMA RangeIsFinite == ASSUME NEW S, NEW s \in Seq(S) PROVE IsFiniteSet(ToSet(s))
<1>1. Len(s) \in Int /\ 1 \in Int /\ DOMAIN s = 1..Len(s)
  OBVIOUS
<1>2. IsFiniteSet(DOMAIN s)
  BY <1>1, FS_Interval
<1> DEFINE T == ToSet(s)
           D == DOMAIN s
<1>3. s \in Surjection(D, T)
  BY DEF Surjection, ToSet
<1> HIDE DEF T, D
<1> QED BY <1>2, <1>3, FS_Surjection DEF T, D

LEMMA TasksFinite == IsFiniteSet(Tasks)
<1> DEFINE sets == [k \in 1..Len(Layers) |-> ToSet(Layers[k])]
<1>1. Layers \in Seq(Seq(Tasks)) /\ Len(Layers) \in Nat /\ DOMAIN Layers = 1..Len(Layers)
  BY WorkflowAssumption
<1>2. sets \in Seq(SUBSET Tasks)
  <2>1. \A k \in 1..Len(Layers) : ToSet(Layers[k]) \in SUBSET Tasks
    BY <1>1 DEF Tasks
  <2> QED BY <1>1, <2>1
<1>3. IsFiniteSet(ToSet(sets))
  <2> HIDE DEF sets
  <2> QED BY <1>2, RangeIsFinite
<1>4. \A X \in ToSet(sets) : IsFiniteSet(X)
  <2>1. \A k \in 1..Len(Layers) : Layers[k] \in Seq(Tasks)
    BY <1>1
  <2>2. \A k \in 1..Len(Layers) : IsFiniteSet(ToSet(Layers[k]))
    BY <2>1, RangeIsFinite
  <2> QED BY <2>2, <1>1 DEF ToSet
<1>5. Tasks = UNION ToSet(sets)
  BY <1>1 DEF Tasks, ToSet
<1> HIDE DEF sets
<1> QED BY <1>3, <1>4, <1>5, FS_UNION

LEMMA SlotsOf ==
  ASSUME NEW n \in Nat, NEW q \in Seq(Tasks), NEW limit, NEW who,
         IsInjective(q), ToSet(q) \subseteq who, Cardinality(who \ ToSet(q)) = n, n <= limit,
         q # <<>> => n = limit
  PROVE  Slots([busy |-> n, queue |-> q], limit, who)
BY DEF Slots, Gates

LEMMA EnterKeepsSlots ==
  ASSUME NEW g, NEW limit \in Nat, NEW who \in SUBSET Tasks, NEW t \in Tasks \ who,
         Slots(g, limit, who)
  PROVE  Slots(gateEnter(g, limit, t), limit, who \cup {t})
<1> DEFINE q == g.queue
           n == g.busy
<1>1. /\ n \in Nat /\ q \in Seq(Tasks) /\ IsInjective(q) /\ ToSet(q) \subseteq who
      /\ n = Cardinality(who \ ToSet(q)) /\ n <= limit /\ (q # <<>> => n = limit)
      /\ t \notin ToSet(q)
  BY DEF Slots, Gates
<1>2. CASE n >= limit
  <2>1. gateEnter(g, limit, t) = [busy |-> n, queue |-> Append(q, t)]
    BY <1>2 DEF gateEnter, Slots, Gates
  <2> HIDE DEF q, n
  <2>2. /\ Append(q, t) \in Seq(Tasks) /\ IsInjective(Append(q, t))
        /\ ToSet(Append(q, t)) = ToSet(q) \cup {t}
    BY <1>1, AppendNew
  <2>3. (who \cup {t}) \ ToSet(Append(q, t)) = who \ ToSet(q)
    BY <2>2
  <2>4. n = limit /\ ToSet(Append(q, t)) \subseteq who \cup {t}
    BY <1>1, <1>2, <2>2
  <2> DEFINE r == Append(q, t)
             all == who \cup {t}
  <2>5. /\ r \in Seq(Tasks) /\ IsInjective(r) /\ ToSet(r) \subseteq all
        /\ Cardinality(all \ ToSet(r)) = n /\ n = limit
    BY <1>1, <2>2, <2>3, <2>4
  <2> HIDE DEF r, all
  <2>6. Slots([busy |-> n, queue |-> r], limit, all)
    BY <1>1, <2>5, SlotsOf
  <2> QED BY <2>1, <2>6 DEF r, all
<1>3. CASE ~ (n >= limit)
  <2>1. gateEnter(g, limit, t) = [busy |-> n + 1, queue |-> q]
    BY <1>3 DEF gateEnter, Slots, Gates
  <2> HIDE DEF q, n
  <2>2. q = <<>> /\ ToSet(q) = {} /\ n + 1 \in Nat /\ n + 1 <= limit
    BY <1>1, <1>3 DEF ToSet
  <2>3. (who \cup {t}) \ ToSet(q) = who \cup {t} /\ who \ ToSet(q) = who
    BY <2>2
  <2>4. Cardinality(who \cup {t}) = Cardinality(who) + 1
    BY TasksFinite, FS_Subset, FS_AddElement
  <2>5. Cardinality((who \cup {t}) \ ToSet(q)) = n + 1 /\ ToSet(q) \subseteq who \cup {t}
    BY <1>1, <2>3, <2>4
  <2> DEFINE all == who \cup {t}
             m == n + 1
  <2>6. /\ m \in Nat /\ m <= limit /\ ToSet(q) \subseteq all /\ q = <<>>
        /\ Cardinality(all \ ToSet(q)) = m
    BY <2>2, <2>5
  <2> HIDE DEF all, m
  <2>7. Slots([busy |-> m, queue |-> q], limit, all)
    BY <1>1, <2>6, SlotsOf
  <2> QED BY <2>1, <2>7 DEF all, m
<1> QED BY <1>2, <1>3

LEMMA LeaveKeepsSlots ==
  ASSUME NEW g, NEW limit \in Nat, NEW who \in SUBSET Tasks, NEW t \in who,
         Slots(g, limit, who), holds(g, t)
  PROVE  Slots(gateLeave(g), limit, who \ {t})
<1> DEFINE q == g.queue
           n == g.busy
           serving == who \ ToSet(q)
<1>1. /\ n \in Nat /\ q \in Seq(Tasks) /\ IsInjective(q) /\ ToSet(q) \subseteq who
      /\ n = Cardinality(serving) /\ n <= limit /\ (q # <<>> => n = limit)
      /\ t \in serving
  BY DEF Slots, Gates, holds
<1>2. /\ q # <<>> => gateLeave(g) = [busy |-> n, queue |-> Tail(q)]
      /\ q = <<>> => gateLeave(g) = [busy |-> n - 1, queue |-> q]
  BY DEF gateLeave, Slots, Gates
<1>3. serving \in SUBSET Tasks
  OBVIOUS
<1> HIDE DEF q, n, serving
<1>4. IsFiniteSet(serving) /\ IsFiniteSet(serving \ {t}) /\ Cardinality(serving \ {t}) = n - 1
  <2>1. IsFiniteSet(serving)
    BY <1>3, TasksFinite, FS_Subset
  <2>2. serving \ {t} \subseteq serving
    OBVIOUS
  <2> QED BY <1>1, <2>1, <2>2, FS_Subset, FS_RemoveElement
<1>5. n - 1 \in Nat
  BY <1>4, FS_CardinalityType
<1>6. CASE q # <<>>
  <2>1. /\ Tail(q) \in Seq(Tasks) /\ IsInjective(Tail(q)) /\ q[1] \in ToSet(q)
        /\ ToSet(Tail(q)) = ToSet(q) \ {q[1]}
    BY <1>1, <1>6, TailWithoutHead
  <2>2. (who \ {t}) \ ToSet(Tail(q)) = (serving \ {t}) \cup {q[1]} /\ q[1] \notin serving \ {t}
    BY <1>1, <2>1 DEF serving
  <2>3. Cardinality((serving \ {t}) \cup {q[1]}) = n
    <3> DEFINE rest == serving \ {t}
               next == q[1]
    <3>1. IsFiniteSet(rest) /\ Cardinality(rest) = n - 1 /\ next \notin rest
      BY <1>4, <2>2
    <3> HIDE DEF rest, next
    <3>2. Cardinality(rest \cup {next}) = Cardinality(rest) + 1
      BY <3>1, FS_AddElement
    <3>3. Cardinality(rest \cup {next}) = n
      BY <1>1, <3>1, <3>2
    <3> QED BY <3>3 DEF rest, next
  <2>4. ToSet(Tail(q)) \subseteq who \ {t}
    BY <1>1, <2>1 DEF serving
  <2> DEFINE r == Tail(q)
             left == who \ {t}
  <2>5. /\ r \in Seq(Tasks) /\ IsInjective(r) /\ ToSet(r) \subseteq left
        /\ Cardinality(left \ ToSet(r)) = n /\ n = limit
    BY <1>1, <1>6, <2>1, <2>2, <2>3, <2>4
  <2> HIDE DEF r, left
  <2>6. Slots([busy |-> n, queue |-> r], limit, left)
    BY <1>1, <2>5, SlotsOf
  <2> QED BY <1>2, <1>6, <2>6 DEF r, left
<1>7. CASE q = <<>>
  <2>1. ToSet(q) = {}
    BY <1>7 DEF ToSet
  <2>2. (who \ {t}) \ ToSet(q) = serving \ {t}
    BY <2>1 DEF serving
  <2>3. n - 1 <= limit /\ ToSet(q) \subseteq who \ {t}
    BY <1>1, <1>5, <2>1
  <2> DEFINE m == n - 1
             left == who \ {t}
  <2>4. /\ m \in Nat /\ m <= limit /\ ToSet(q) \subseteq left
        /\ Cardinality(left \ ToSet(q)) = m
    BY <1>4, <1>5, <2>2, <2>3
  <2> HIDE DEF m, left
  <2>5. Slots([busy |-> m, queue |-> q], limit, left)
    BY <1>1, <1>7, <2>4, SlotsOf
  <2> QED BY <1>2, <1>7, <2>5 DEF m, left
<1> QED BY <1>6, <1>7

\* What the first k of a list, those that are able, put into the gate.
Admitted(ts, able, k) == {ts[i] : i \in {j \in 1..k : ts[j] \in able}}

\* The list asks in order: whoever is able gets a slot or waits.
LEMMA AdmitKeepsSlots ==
  ASSUME NEW g, NEW ts \in Seq(Tasks), NEW able, IsInjective(ts),
         Slots(g, MaxBuildParallel, {})
  PROVE  Slots(admitAll(g, ts, able), MaxBuildParallel, able \cap ToSet(ts))
<1> DEFINE limit == MaxBuildParallel
           n == Len(ts)
           D == 0..n
           asks == [k \in 1..n |-> [h \in Gates |-> IF ts[k] \in able
                                                   THEN gateEnter(h, limit, ts[k]) ELSE h]]
           upTo == CHOOSE f : f = [k \in D |->
                      IF k = 0 THEN g
                      ELSE IF ts[k] \in able THEN gateEnter(f[k - 1], limit, ts[k])
                                             ELSE f[k - 1]]
<1>1. n \in Nat /\ DOMAIN ts = 1..n /\ limit \in Nat /\ g \in Gates
  BY WorkflowAssumption DEF Slots
<1>2. \A k \in D : k \in Nat /\ k <= n /\ (k # 0 => k \in 1..n /\ k - 1 \in D)
  BY <1>1
<1>3. \A h \in Gates, t \in Tasks : gateEnter(h, limit, t) \in Gates
  <2> SUFFICES ASSUME NEW h \in Gates, NEW t \in Tasks PROVE gateEnter(h, limit, t) \in Gates
    OBVIOUS
  <2>1. h.busy \in Nat /\ h.busy + 1 \in Nat /\ h.queue \in Seq(Tasks)
        /\ Append(h.queue, t) \in Seq(Tasks)
    BY DEF Gates
  <2>2. \/ gateEnter(h, limit, t) = [busy |-> h.busy, queue |-> Append(h.queue, t)]
        \/ gateEnter(h, limit, t) = [busy |-> h.busy + 1, queue |-> h.queue]
    BY DEF gateEnter, Gates
  <2>3. \A m \in Nat, q \in Seq(Tasks) : [busy |-> m, queue |-> q] \in Gates
    BY DEF Gates
  <2>4. [busy |-> h.busy, queue |-> Append(h.queue, t)] \in Gates
    BY <2>1, <2>3
  <2>5. [busy |-> h.busy + 1, queue |-> h.queue] \in Gates
    BY <2>1, <2>3
  <2> HIDE DEF Gates
  <2> QED BY Zenon, <2>2, <2>4, <2>5
<1>4. asks \in [1..n -> [Gates -> Gates]]
  <2>1. \A k \in 1..n : ts[k] \in Tasks
    BY <1>1
  <2> HIDE DEF Gates, limit
  <2> QED BY <1>3, <2>1
<1>5. PICK f : Accumulates(f, Gates, g, n, asks)
  <2> HIDE DEF asks, n
  <2> QED BY <1>1, <1>4, Accumulation
<1>6. upTo = [k \in D |-> IF k = 0 THEN g
                          ELSE IF ts[k] \in able THEN gateEnter(upTo[k - 1], limit, ts[k])
                                                 ELSE upTo[k - 1]]
  <2>1. ASSUME NEW k \in D
        PROVE  f[k] = IF k = 0 THEN g
                      ELSE IF ts[k] \in able THEN gateEnter(f[k - 1], limit, ts[k])
                                             ELSE f[k - 1]
    <3>1. f \in [D -> Gates] /\ f[k] = IF k = 0 THEN g ELSE asks[k][f[k - 1]]
      <4> HIDE DEF asks
      <4> QED BY <1>5 DEF Accumulates
    <3>2. CASE k = 0
      BY <3>1, <3>2
    <3>3. CASE k # 0
      <4>1. k \in 1..n /\ f[k - 1] \in Gates
        BY <1>2, <3>1, <3>3
      <4> QED BY <3>1, <3>3, <4>1
    <3> QED BY <3>2, <3>3
  <2>2. f = [k \in D |-> f[k]]
    BY <1>5 DEF Accumulates
  <2>3. f = [k \in D |-> IF k = 0 THEN g
                         ELSE IF ts[k] \in able THEN gateEnter(f[k - 1], limit, ts[k])
                                                ELSE f[k - 1]]
    BY <2>1, <2>2
  <2> QED BY <2>3
<1>7. admitAll(g, ts, able) = upTo[n]
  BY DEF admitAll
<1>0. 0 \in D /\ \A k \in 1..n : k \in D /\ k # 0
  BY <1>1
<1> HIDE DEF upTo, asks, D
<1>8. upTo[0] = g /\ \A k \in 1..n : upTo[k] = IF ts[k] \in able
                                              THEN gateEnter(upTo[k - 1], limit, ts[k])
                                              ELSE upTo[k - 1]
  BY <1>0, <1>6
<1> USE DEF D
<1> DEFINE K == {k \in D : Slots(upTo[k], limit, Admitted(ts, able, k))}
<1>9. 0 \in K
  <2>1. Admitted(ts, able, 0) = {} /\ 0 \in D
    BY <1>1 DEF Admitted
  <2> QED BY <1>8, <2>1
<1>10. ASSUME NEW k \in 1..n, k - 1 \in K PROVE k \in K
  <2> DEFINE who == Admitted(ts, able, k - 1)
  <2>1. k \in D /\ k \in Nat /\ ts[k] \in Tasks /\ \A j \in 1..k : j \in 1..n /\ ts[j] \in Tasks
    BY <1>1
  <2>2. who \in SUBSET Tasks
    BY <2>1 DEF Admitted
  <2>3. ts[k] \notin who
    BY <1>1, <2>1 DEF Admitted, IsInjective
  <2>4. Admitted(ts, able, k) = IF ts[k] \in able THEN who \cup {ts[k]} ELSE who
    BY <2>1 DEF Admitted
  <2>5. Slots(upTo[k - 1], limit, who)
    BY <1>10
  <2>6. CASE ts[k] \in able
    <3> HIDE DEF who, D
    <3>1. Slots(gateEnter(upTo[k - 1], limit, ts[k]), limit, who \cup {ts[k]})
      BY <1>1, <2>1, <2>2, <2>3, <2>5, EnterKeepsSlots
    <3> QED BY <1>8, <2>1, <2>4, <2>6, <3>1
  <2>7. CASE ts[k] \notin able
    BY <1>8, <2>1, <2>4, <2>5, <2>7
  <2> QED BY <2>6, <2>7
<1>11. \A k \in 0..n : k \in K
  <2> HIDE DEF K
  <2> QED BY <1>1, <1>9, <1>10, UpTo
<1>12. Admitted(ts, able, n) = able \cap ToSet(ts)
  BY <1>1 DEF Admitted, ToSet
<1>13. n \in 0..n
  BY <1>1
<1> QED BY <1>7, <1>11, <1>12, <1>13

GateInv ==
  /\ job \in [Tasks -> Jobs]
  /\ leg = "layers" =>
       /\ Slots(buildGate, MaxBuildParallel, {t \in Tasks : job[t] = "engineer"})
       /\ Slots(agentGate, MaxParallel, {t \in Tasks : job[t] = "review"})
       /\ rootChain \in Seq(Tasks) /\ IsInjective(rootChain)
       /\ ToSet(rootChain) = {t \in Tasks : job[t] \in {"integrate", "fix"}}

\* A launch starts with both gates free.
LEMMA BlankGates ==
  ASSUME blankBuild PROVE GateInv'
<1>1. \A limit \in Nat : Slots(Idle, limit, {})
  <2> DEFINE q == <<>>
             nobody == {}
  <2>1. /\ q \in Seq(Tasks) /\ IsInjective(q) /\ ToSet(q) \subseteq nobody
        /\ Cardinality(nobody \ ToSet(q)) = 0
    BY FS_EmptySet DEF IsInjective, ToSet
  <2>2. Idle = [busy |-> 0, queue |-> q]
    BY DEF Idle
  <2> SUFFICES ASSUME NEW limit \in Nat, q # <<>> => 0 = limit PROVE Slots(Idle, limit, nobody)
    OBVIOUS
  <2>3. 0 \in Nat /\ 0 <= limit
    OBVIOUS
  <2> HIDE DEF q, nobody
  <2> QED BY <2>1, <2>2, <2>3, SlotsOf
<1>2. \A t \in Tasks : job'[t] = "none"
  BY DEF blankBuild
<1>3. /\ {t \in Tasks : job'[t] = "engineer"} = {} /\ {t \in Tasks : job'[t] = "review"} = {}
      /\ {t \in Tasks : job'[t] \in {"integrate", "fix"}} = {}
  BY <1>2
<1>4. rootChain' = <<>> /\ <<>> \in Seq(Tasks) /\ IsInjective(<<>>) /\ ToSet(<<>>) = {}
  BY DEF blankBuild, IsInjective, ToSet
<1>5. buildGate' = Idle /\ agentGate' = Idle /\ job' \in [Tasks -> Jobs]
  BY DEF blankBuild, Jobs
<1> QED BY <1>1, <1>3, <1>4, <1>5, WorkflowAssumption DEF GateInv

LEMMA StartKeepsGates ==
  ASSUME GateInv, startLayer PROVE GateInv'
<1> DEFINE todo == ToSet(Layers[layer]) \ doneTasks
           able == {t \in todo : ready(t)}
           ts == Layers[layer]
<1>1. /\ leg = "layers" /\ ts \in Seq(Tasks) /\ IsInjective(ts) /\ ToSet(ts) \subseteq Tasks
      /\ UNCHANGED <<leg, agentGate, rootChain>>
  <2>1. leg = "layers" /\ layer \in DOMAIN Layers /\ UNCHANGED <<leg, agentGate, rootChain>>
    BY DEF startLayer
  <2> QED BY <2>1, WorkflowAssumption DEF Tasks
<1>2. /\ job' = [t \in Tasks |-> IF t \notin todo THEN job[t]
                                 ELSE IF ready(t) THEN "engineer" ELSE "dep_blocked"]
      /\ buildGate' = admitAll(buildGate, ts, able)
  BY DEF startLayer
<1>3. \A t \in Tasks : job[t] \in Final
  BY DEF startLayer, LayerOver
<1>4. {t \in Tasks : job[t] = "engineer"} = {}
  BY <1>3 DEF Final
<1>5. Slots(buildGate, MaxBuildParallel, {})
  BY <1>1, <1>4 DEF GateInv
<1>6. able \cap ToSet(ts) = {t \in Tasks : job'[t] = "engineer"}
  BY <1>1, <1>2, <1>3 DEF Final
<1>7. Slots(buildGate, MaxBuildParallel, {t \in Tasks : job[t] = "engineer"})'
  <2> HIDE DEF able, ts
  <2>1. Slots(admitAll(buildGate, ts, able), MaxBuildParallel, able \cap ToSet(ts))
    BY <1>1, <1>5, AdmitKeepsSlots
  <2>2. Slots(buildGate', MaxBuildParallel, {t \in Tasks : job'[t] = "engineer"})
    BY <1>2, <1>6, <2>1
  <2> QED BY <2>2
<1>8. /\ {t \in Tasks : job'[t] = "review"} = {t \in Tasks : job[t] = "review"}
      /\ {t \in Tasks : job'[t] \in {"integrate", "fix"}}
           = {t \in Tasks : job[t] \in {"integrate", "fix"}}
  BY <1>2, <1>3 DEF Final
<1>9. job' \in [Tasks -> Jobs]
  BY <1>2 DEF GateInv, Jobs, Failed
<1> QED BY <1>1, <1>7, <1>8, <1>9 DEF GateInv

At(kind) == {u \in Tasks : job[u] = kind}
InChain == {u \in Tasks : job[u] \in {"integrate", "fix"}}

LEMMA TaskKeepsGates ==
  ASSUME GateInv, leg = "layers", NEW t \in Tasks,
         engineer(t) \/ integrate(t) \/ sliceReview(t) \/ fix(t)
  PROVE  GateInv'
<1>0. /\ job \in [Tasks -> Jobs] /\ t \in Tasks
      /\ At("engineer") \in SUBSET Tasks /\ At("review") \in SUBSET Tasks
      /\ Slots(buildGate, MaxBuildParallel, At("engineer"))
      /\ Slots(agentGate, MaxParallel, At("review"))
      /\ rootChain \in Seq(Tasks) /\ IsInjective(rootChain) /\ ToSet(rootChain) = InChain
      /\ MaxBuildParallel \in Nat /\ MaxParallel \in Nat
  BY WorkflowAssumption DEF GateInv, At, InChain
\* It is enough to say who moved, and what became of the gates and of the chain.
<1>a. ASSUME NEW to \in Jobs, job' = [job EXCEPT ![t] = to],
             Slots(buildGate', MaxBuildParallel,
                   IF to = "engineer" THEN At("engineer") \cup {t} ELSE At("engineer") \ {t}),
             Slots(agentGate', MaxParallel,
                   IF to = "review" THEN At("review") \cup {t} ELSE At("review") \ {t}),
             rootChain' \in Seq(Tasks), IsInjective(rootChain'),
             ToSet(rootChain') = IF to \in {"integrate", "fix"} THEN InChain \cup {t}
                                                                ELSE InChain \ {t}
      PROVE  GateInv'
  <2>1. job' \in [Tasks -> Jobs]
    BY <1>0, <1>a
  <2>2. /\ At("engineer")' = IF to = "engineer" THEN At("engineer") \cup {t} ELSE At("engineer") \ {t}
        /\ At("review")' = IF to = "review" THEN At("review") \cup {t} ELSE At("review") \ {t}
        /\ InChain' = IF to \in {"integrate", "fix"} THEN InChain \cup {t} ELSE InChain \ {t}
    BY <1>0, <1>a DEF At, InChain
  <2>3. /\ Slots(buildGate', MaxBuildParallel, At("engineer")')
        /\ Slots(agentGate', MaxParallel, At("review")') /\ ToSet(rootChain') = InChain'
    BY <1>a, <2>2
  <2> QED BY <1>a, <2>1, <2>3 DEF GateInv, At, InChain
<1>b. /\ t \notin At("engineer") => At("engineer") \ {t} = At("engineer")
      /\ t \notin At("review") => At("review") \ {t} = At("review")
      /\ t \notin InChain => InChain \ {t} = InChain
  OBVIOUS
<1>c. /\ t \in At("engineer") <=> job[t] = "engineer"
      /\ t \in At("review") <=> job[t] = "review"
      /\ t \in InChain <=> job[t] \in {"integrate", "fix"}
  BY DEF At, InChain
<1>d. t \notin InChain =>
        /\ Append(rootChain, t) \in Seq(Tasks) /\ IsInjective(Append(rootChain, t))
        /\ ToSet(Append(rootChain, t)) = InChain \cup {t}
  BY <1>0, AppendNew
<1>e. t \in InChain /\ rootChain[1] = t =>
        /\ Tail(rootChain) \in Seq(Tasks) /\ IsInjective(Tail(rootChain))
        /\ ToSet(Tail(rootChain)) = InChain \ {t}
  <2>1. t \in InChain => rootChain # <<>>
    BY <1>0 DEF ToSet
  <2> QED BY <1>0, <2>1, TailWithoutHead
<1>1. ASSUME withRetry(t) PROVE GateInv'
  BY <1>1 DEF withRetry, GateInv
<1>2. ASSUME engineer(t), ~withRetry(t) PROVE GateInv'
  <2>1. PICK to \in {"integrate", "blocked"} :
          /\ job[t] = "engineer" /\ holds(buildGate, t) /\ buildGate' = gateLeave(buildGate)
          /\ job' = [job EXCEPT ![t] = to] /\ UNCHANGED agentGate
          /\ rootChain' = IF to = "integrate" THEN Append(rootChain, t) ELSE rootChain
    BY <1>2 DEF engineer
  <2>2. Slots(buildGate', MaxBuildParallel, At("engineer") \ {t})
    BY <1>0, <1>c, <2>1, LeaveKeepsSlots
  <2>3. Slots(agentGate', MaxParallel, At("review") \ {t})
    BY <1>0, <1>b, <1>c, <2>1
  <2>4. /\ rootChain' \in Seq(Tasks) /\ IsInjective(rootChain')
        /\ ToSet(rootChain') = IF to \in {"integrate", "fix"} THEN InChain \cup {t} ELSE InChain \ {t}
    BY <1>0, <1>b, <1>c, <1>d, <2>1
  <2>5. to \in Jobs /\ to # "engineer" /\ to # "review"
    BY DEF Jobs, Failed
  <2> QED BY <1>a, <2>1, <2>2, <2>3, <2>4, <2>5
<1>3. ASSUME integrate(t) PROVE GateInv'
  <2>1. PICK to \in {"review", "blocked"} :
          /\ job[t] = "integrate" /\ rootChain[1] = t /\ rootChain' = Tail(rootChain)
          /\ job' = [job EXCEPT ![t] = to] /\ UNCHANGED buildGate
          /\ agentGate' = IF to = "review" THEN gateEnter(agentGate, MaxParallel, t) ELSE agentGate
    BY <1>3 DEF integrate
  <2>2. Slots(buildGate', MaxBuildParallel, At("engineer") \ {t})
    BY <1>0, <1>b, <1>c, <2>1
  <2>3. Slots(agentGate', MaxParallel,
              IF to = "review" THEN At("review") \cup {t} ELSE At("review") \ {t})
    BY <1>0, <1>b, <1>c, <2>1, EnterKeepsSlots
  <2>4. /\ rootChain' \in Seq(Tasks) /\ IsInjective(rootChain')
        /\ ToSet(rootChain') = InChain \ {t}
    BY <1>c, <1>e, <2>1
  <2>5. to \in Jobs /\ to # "engineer" /\ to \notin {"integrate", "fix"}
    BY DEF Jobs, Failed
  <2> QED BY <1>a, <2>1, <2>2, <2>3, <2>4, <2>5
<1>4. ASSUME sliceReview(t), ~withRetry(t) PROVE GateInv'
  <2>1. PICK to \in {"done", "fix", "blocked"} :
          /\ job[t] = "review" /\ holds(agentGate, t) /\ agentGate' = gateLeave(agentGate)
          /\ job' = [job EXCEPT ![t] = to] /\ UNCHANGED buildGate
          /\ rootChain' = IF to = "fix" THEN Append(rootChain, t) ELSE rootChain
    BY <1>4 DEF sliceReview
  <2>2. Slots(buildGate', MaxBuildParallel, At("engineer") \ {t})
    BY <1>0, <1>b, <1>c, <2>1
  <2>3. Slots(agentGate', MaxParallel, At("review") \ {t})
    BY <1>0, <1>c, <2>1, LeaveKeepsSlots
  <2>4. /\ rootChain' \in Seq(Tasks) /\ IsInjective(rootChain')
        /\ ToSet(rootChain') = IF to \in {"integrate", "fix"} THEN InChain \cup {t} ELSE InChain \ {t}
    BY <1>0, <1>b, <1>c, <1>d, <2>1
  <2>5. to \in Jobs /\ to # "engineer" /\ to # "review"
    BY DEF Jobs, Failed
  <2> QED BY <1>a, <2>1, <2>2, <2>3, <2>4, <2>5
<1>5. ASSUME fix(t) PROVE GateInv'
  <2>1. /\ job[t] = "fix" /\ rootChain[1] = t /\ rootChain' = Tail(rootChain)
        /\ job' = [job EXCEPT ![t] = "review"] /\ UNCHANGED buildGate
        /\ agentGate' = gateEnter(agentGate, MaxParallel, t)
    BY <1>5 DEF fix
  <2>2. Slots(buildGate', MaxBuildParallel, At("engineer") \ {t})
    BY <1>0, <1>b, <1>c, <2>1
  <2>3. Slots(agentGate', MaxParallel, At("review") \cup {t})
    BY <1>0, <1>c, <2>1, EnterKeepsSlots
  <2>4. /\ rootChain' \in Seq(Tasks) /\ IsInjective(rootChain')
        /\ ToSet(rootChain') = InChain \ {t}
    BY <1>c, <1>e, <2>1
  <2> QED BY <1>a, <2>1, <2>2, <2>3, <2>4 DEF Jobs
<1> QED BY <1>1, <1>2, <1>3, <1>4, <1>5

LEMMA GateIsInvariant == FlowSpec => []GateInv
<1>1. FlowInit => GateInv
  <2>1. FlowInit => job = [t \in Tasks |-> "none"] /\ leg = "down"
    BY DEF FlowInit
  <2> QED BY <2>1 DEF GateInv, Jobs
<1>2. GateInv /\ [FlowNext]_flowVars => GateInv'
  <2> SUFFICES ASSUME GateInv, [FlowNext]_flowVars PROVE GateInv'
    OBVIOUS
  <2>1. CASE UNCHANGED <<leg, job, buildGate, agentGate, rootChain>>
    BY <2>1 DEF GateInv
  <2>2. CASE preflight \/ finalizeFlow \/ crashFlow
    BY <2>2, BlankGates DEF preflight, finalizeFlow, crashFlow
  <2>3. CASE buildPhase
    BY <2>3 DEF buildPhase, GateInv
  <2>4. ASSUME NEW p \in PhaseKeys, phaseAgent(p) PROVE GateInv'
    <3>1. leg' = Following[p] /\ UNCHANGED job
      BY <2>4 DEF phaseAgent, buildVars
    <3>2. leg' # "layers"
      BY <3>1 DEF PhaseKeys, Following
    <3> QED BY <3>1, <3>2 DEF GateInv
  <2>5. CASE FlowStep
    BY <2>2, <2>3, <2>4, <2>5, StartKeepsGates, TaskKeepsGates DEF FlowStep
  <2>6. CASE spendTokens \/ UNCHANGED flowVars
    BY <2>1, <2>6 DEF spendTokens, flowVars, buildVars
  <2> QED BY <2>2, <2>5, <2>6 DEF FlowNext
<1> QED BY <1>1, <1>2, PTL DEF FlowSpec

\* makeGate and withRootLock of pipeline-workflow.js: however the tasks of a layer
\* interleave, no gate lets in more than its cap or keeps a waiter behind a free slot, and
\* the root chain is exactly the tasks that still owe a merge or a fix.
THEOREM GatesCountTheirSlots == FlowSpec => []SlotsAreBounded
<1>1. GateInv => SlotsAreBounded
  BY DEF GateInv, Slots, Gates, SlotsAreBounded
<1> QED BY <1>1, GateIsInvariant, PTL

-----------------------------------------------------------------------------
(***************************************************************************)
(* The review workflow: what the merge keeps is never milder than what a   *)
(* reviewer said.                                                          *)
(***************************************************************************)

\* What is kept: some places, each with a severity.
KeptFindings == UNION {[P -> Severities] : P \in SUBSET Places}

\* Something at least as severe as f is kept for its place.
Covers(kept, f) == f.place \in DOMAIN kept /\ rank[kept[f.place]] <= rank[f.severity]

LEMMA KeepCovers ==
  ASSUME NEW kept \in KeptFindings, NEW f \in Findings
  PROVE  /\ keep(kept, f) \in KeptFindings /\ Covers(keep(kept, f), f)
         /\ \A g \in Findings : Covers(kept, g) => Covers(keep(kept, f), g)
<1>1. PICK P \in SUBSET Places : kept \in [P -> Severities]
  BY DEF KeptFindings
<1>2. f.place \in Places /\ f.severity \in Severities
  BY DEF Findings
<1>3. \A s \in Severities : rank[s] \in Nat
  BY ReviewAssumption DEF rank
<1> DEFINE new == keep(kept, f)
<1>4. /\ new \in [P \cup {f.place} -> Severities] /\ P \cup {f.place} \in SUBSET Places
      /\ \A p \in P \ {f.place} : new[p] = kept[p]
      /\ f.place \in P => new[f.place] = IF rank[f.severity] < rank[kept[f.place]]
                                         THEN f.severity ELSE kept[f.place]
      /\ f.place \notin P => new[f.place] = f.severity
  BY <1>1, <1>2 DEF keep
<1> HIDE DEF new
<1>5. new \in KeptFindings
  BY <1>4 DEF KeptFindings
<1>6. Covers(new, f)
  BY <1>1, <1>2, <1>3, <1>4 DEF Covers
<1>7. ASSUME NEW g \in Findings, Covers(kept, g) PROVE Covers(new, g)
  <2>1. g.place \in P /\ rank[kept[g.place]] <= rank[g.severity] /\ g.severity \in Severities
    BY <1>1, <1>7 DEF Covers, Findings
  <2>2. rank[new[g.place]] <= rank[kept[g.place]]
    BY <1>1, <1>2, <1>3, <1>4, <2>1
  <2>3. kept[g.place] \in Severities /\ new[g.place] \in Severities
    BY <1>1, <1>4, <2>1
  <2>4. rank[new[g.place]] <= rank[g.severity]
    BY <1>3, <2>1, <2>2, <2>3
  <2> QED BY <1>4, <2>1, <2>4 DEF Covers
<1> QED BY <1>5, <1>6, <1>7 DEF new

LEMMA DedupCovers ==
  ASSUME NEW found \in Seq(Findings)
  PROVE  /\ dedup(found) \in KeptFindings
         /\ \A f \in ToSet(found) : Covers(dedup(found), f)
<1> DEFINE n == Len(found)
           D == 0..n
           V == KeptFindings
           none == <<>>
           keeps == [k \in 1..n |-> [kept \in V |-> keep(kept, found[k])]]
           byKey == CHOOSE h : h = [k \in D |->
                      IF k = 0 THEN none ELSE keep(h[k - 1], found[k])]
<1>1. n \in Nat /\ DOMAIN found = 1..n /\ \A k \in 1..n : found[k] \in Findings
  OBVIOUS
<1>2. 0 \in D /\ \A k \in D : k \in Nat /\ (k # 0 => k \in 1..n /\ k - 1 \in D)
  BY <1>1
<1>3. keeps \in [1..n -> [V -> V]]
  <2>1. \A k \in 1..n, kept \in V : keep(kept, found[k]) \in V
    BY <1>1, KeepCovers
  <2> HIDE DEF V
  <2> QED BY <2>1
<1>4. none \in V
  <2>1. none \in [{} -> Severities] /\ {} \in SUBSET Places
    OBVIOUS
  <2> HIDE DEF none
  <2> QED BY <2>1 DEF KeptFindings
<1>5. PICK h : Accumulates(h, V, none, n, keeps)
  <2> HIDE DEF keeps, n, V, none
  <2> QED BY <1>1, <1>3, <1>4, Accumulation
<1>6. byKey = [k \in D |-> IF k = 0 THEN none ELSE keep(byKey[k - 1], found[k])]
  <2>1. ASSUME NEW k \in D
        PROVE  h[k] = IF k = 0 THEN none ELSE keep(h[k - 1], found[k])
    <3>1. h \in [D -> V] /\ h[k] = IF k = 0 THEN none ELSE keeps[k][h[k - 1]]
      <4> HIDE DEF keeps, none, V
      <4> QED BY <1>5 DEF Accumulates
    <3>2. k # 0 => k \in 1..n /\ h[k - 1] \in V
      BY <1>2, <3>1
    <3> HIDE DEF none, V
    <3> QED BY <3>1, <3>2
  <2>2. h = [k \in D |-> h[k]]
    BY <1>5 DEF Accumulates
  <2> HIDE DEF none
  <2>3. h = [k \in D |-> IF k = 0 THEN none ELSE keep(h[k - 1], found[k])]
    BY <2>1, <2>2
  <2> QED BY <2>3
<1>7. dedup(found) = byKey[n]
  BY DEF dedup
<1> HIDE DEF byKey, keeps, V, none
<1> DEFINE K == {k \in D : byKey[k] \in V /\ \A j \in 1..k : Covers(byKey[k], found[j])}
<1>8. 0 \in K
  BY <1>2, <1>4, <1>6
<1>9. ASSUME NEW k \in 1..n, k - 1 \in K PROVE k \in K
  <2>1. k \in D /\ k \in Nat /\ k # 0 /\ found[k] \in Findings
    BY <1>1
  <2>2. byKey[k] = keep(byKey[k - 1], found[k])
    BY <1>6, <2>1
  <2>3. byKey[k - 1] \in KeptFindings /\ \A j \in 1..(k - 1) : Covers(byKey[k - 1], found[j])
    BY <1>9 DEF V
  <2>4. byKey[k] \in KeptFindings /\ Covers(byKey[k], found[k])
    BY <2>1, <2>2, <2>3, KeepCovers
  <2>5. \A j \in 1..(k - 1) : Covers(byKey[k], found[j])
    <3> SUFFICES ASSUME NEW j \in 1..(k - 1) PROVE Covers(byKey[k], found[j])
      OBVIOUS
    <3>1. found[j] \in Findings /\ Covers(byKey[k - 1], found[j])
      BY <1>1, <2>1, <2>3
    <3> QED BY <2>1, <2>2, <2>3, <3>1, KeepCovers
  <2>6. \A j \in 1..k : j = k \/ j \in 1..(k - 1)
    BY <2>1
  <2>7. \A j \in 1..k : Covers(byKey[k], found[j])
    BY <2>4, <2>5, <2>6
  <2> QED BY <2>1, <2>4, <2>7 DEF V
<1>10. \A k \in 0..n : k \in K
  <2> HIDE DEF K
  <2> QED BY <1>1, <1>8, <1>9, UpTo
<1>11. n \in 0..n
  BY <1>1
<1>12. byKey[n] \in V /\ \A j \in 1..n : Covers(byKey[n], found[j])
  BY <1>10, <1>11
<1> QED BY <1>1, <1>7, <1>12 DEF ToSet, V

\* Every finding of a reviewer that answered is covered by what the merge kept.
MergeInv ==
  /\ places \in KeptFindings
  /\ \A k \in DOMAIN answers : answers[k] # Silent =>
       \A i \in DOMAIN answers[k] : Covers(places, answers[k][i])

Votes == [of : Nat, confirms : Nat, refutes : Nat, hardRefute : BOOLEAN]

ReviewInv ==
  /\ answers \in Seq(Answers) /\ DOMAIN panels \subseteq DOMAIN places
  /\ report \in {"none", "verifying", "clean", "open"}
  /\ report = "none" => panels = <<>>
  /\ report # "none" => Len(answers) = Len(Lenses) /\ MergeInv
  /\ \A p \in DOMAIN panels :
       panels[p] \in Votes /\ panels[p].of = panelSize(places[p])
  /\ report = "clean" => DOMAIN panels = DOMAIN places /\ clean

\* The barrier: the findings of all who answered, merged.
LEMMA MergeIsComplete ==
  ASSUME answers \in Seq(Answers)
  PROVE  /\ dedup(raw) \in KeptFindings
         /\ \A k \in DOMAIN answers : answers[k] # Silent =>
              \A i \in DOMAIN answers[k] : Covers(dedup(raw), answers[k][i])
<1> DEFINE lists == [k \in DOMAIN answers |-> IF k \in gaps THEN <<>> ELSE answers[k]]
<1>1. DOMAIN answers = 1..Len(answers) /\ Len(answers) \in Nat
      /\ \A k \in DOMAIN answers : answers[k] \in Answers
  OBVIOUS
<1>2. \A k \in DOMAIN answers : answers[k] # Silent => answers[k] \in Seq(Findings)
  BY <1>1 DEF Answers
<1>3. \A k \in DOMAIN answers : lists[k] \in Seq(Findings)
  BY <1>1, <1>2 DEF gaps
<1>4. lists \in Seq(Seq(Findings))
  BY <1>1, <1>3
<1>5. raw = FlattenSeq(lists)
  BY DEF raw
<1>6. /\ FlattenSeq(lists) \in Seq(Findings)
      /\ ToSet(FlattenSeq(lists)) = UNION {ToSet(lists[k]) : k \in DOMAIN lists}
  <2> HIDE DEF lists
  <2> QED BY <1>4, Flattened
<1>7. ASSUME NEW k \in DOMAIN answers, answers[k] # Silent, NEW i \in DOMAIN answers[k]
      PROVE  answers[k][i] \in ToSet(raw)
  <2>1. k \in DOMAIN lists /\ lists[k] = answers[k]
    BY <1>7 DEF gaps
  <2>2. answers[k][i] \in ToSet(lists[k])
    BY <2>1 DEF ToSet
  <2> HIDE DEF lists
  <2> QED BY <1>5, <1>6, <2>1, <2>2
<1>8. raw \in Seq(Findings)
  BY <1>5, <1>6
<1> QED BY <1>7, <1>8, DedupCovers

LEMMA ReviewKeepsInv == ReviewInv /\ [ReviewNext]_reviewVars => ReviewInv'
<1> SUFFICES ASSUME ReviewInv, [ReviewNext]_reviewVars PROVE ReviewInv'
  OBVIOUS
<1>1. ASSUME NEW a \in Answers, review(a) PROVE ReviewInv'
  <2>1. answers' \in Seq(Answers) /\ report = "none" /\ UNCHANGED <<places, panels, report>>
    BY <1>1 DEF review, ReviewInv
  <2> QED BY <2>1 DEF ReviewInv
<1>2. CASE merge
  <2>1. /\ report = "none" /\ report' = "verifying" /\ Len(answers) = Len(Lenses)
        /\ places' = dedup(raw) /\ UNCHANGED <<answers, panels>> /\ panels = <<>>
        /\ answers \in Seq(Answers)
    BY <1>2 DEF merge, ReviewInv
  <2>2. MergeInv'
    BY <2>1, MergeIsComplete DEF MergeInv
  <2>3. DOMAIN panels = {}
    BY <2>1
  <2> QED BY <2>1, <2>2, <2>3 DEF ReviewInv
<1>3. ASSUME NEW p \in Places, verify(p) PROVE ReviewInv'
  <2> DEFINE n == panelSize(places[p])
  <2>1. PICK confirms \in 0..n, refutes \in 0..n, hard \in BOOLEAN :
          panels' = [q \in DOMAIN panels \cup {p} |->
                       IF q = p THEN [of |-> n, confirms |-> confirms, refutes |-> refutes,
                                      hardRefute |-> hard]
                       ELSE panels[q]]
    BY <1>3 DEF verify
  <2>2. report = "verifying" /\ p \in DOMAIN places /\ UNCHANGED <<answers, places, report>>
    BY <1>3 DEF verify
  <2>3. n \in Nat
    BY ReviewAssumption DEF panelSize
  <2>4. \A q \in DOMAIN panels' : panels'[q] \in Votes /\ panels'[q].of = panelSize(places[q])
    <3> SUFFICES ASSUME NEW q \in DOMAIN panels \cup {p}
                 PROVE  panels'[q] \in Votes /\ panels'[q].of = panelSize(places[q])
      BY <2>1
    <3>1. CASE q = p
      <4>1. panels'[q] = [of |-> n, confirms |-> confirms, refutes |-> refutes, hardRefute |-> hard]
        BY <2>1, <3>1
      <4>2. confirms \in Nat /\ refutes \in Nat
        BY <2>3
      <4> HIDE DEF n
      <4> QED BY <2>3, <3>1, <4>1, <4>2 DEF Votes, n
    <3>2. CASE q # p
      <4>1. q \in DOMAIN panels /\ panels'[q] = panels[q]
        BY <2>1, <3>2
      <4> QED BY <4>1 DEF ReviewInv
    <3> QED BY <3>1, <3>2
  <2>5. DOMAIN panels' = DOMAIN panels \cup {p}
    BY <2>1
  <2> QED BY <2>2, <2>4, <2>5 DEF ReviewInv, MergeInv
<1>4. CASE conclude
  <2>1. /\ report = "verifying" /\ DOMAIN panels = DOMAIN places
        /\ report' = IF clean THEN "clean" ELSE "open"
        /\ UNCHANGED <<answers, places, panels>>
    BY <1>4 DEF conclude
  <2>2. clean' = clean
    BY <2>1 DEF clean, gaps
  <2> QED BY <2>1, <2>2 DEF ReviewInv, MergeInv
<1>5. CASE UNCHANGED reviewVars
  BY <1>5 DEF reviewVars, ReviewInv, MergeInv, clean, gaps
<1> QED BY <1>1, <1>2, <1>3, <1>4, <1>5 DEF ReviewNext

LEMMA CleanFollows == ReviewInv => CleanIsEarned
<1> SUFFICES ASSUME ReviewInv, report = "clean" PROVE CleanIsEarned
  BY DEF CleanIsEarned
<1>1. /\ DOMAIN answers = DOMAIN Lenses /\ DOMAIN panels = DOMAIN places /\ clean /\ MergeInv
  <2>1. Len(answers) = Len(Lenses) /\ answers \in Seq(Answers)
    BY DEF ReviewInv
  <2> QED BY <2>1, ReviewAssumption DEF ReviewInv
<1>2. \A k \in DOMAIN Lenses : answers[k] # Silent
  BY <1>1 DEF clean, gaps
<1>3. ASSUME NEW k \in DOMAIN Lenses, NEW i \in DOMAIN answers[k]
      PROVE  LET f == answers[k][i]
                 v == panels[f.place]
             IN  /\ v.of >= panelSize(f.severity)
                 /\ 2 * (v.confirms + v.refutes) >= v.of
                 /\ v.refutes >= v.confirms \/ v.hardRefute
  <2> DEFINE f == answers[k][i]
             v == panels[f.place]
             kept == places[f.place]
  <2>1. Covers(places, f)
    BY <1>1, <1>2 DEF MergeInv
  <2>2. v \in Votes /\ v.of = panelSize(kept) /\ verdictOf(v) = "rejected"
    BY <1>1, <2>1 DEF Covers, ReviewInv, clean
  <2>3. f \in Findings
    <3>1. answers[k] \in Answers /\ answers[k] # Silent
      BY <1>1, <1>2 DEF ReviewInv
    <3> QED BY <3>1 DEF Answers
  <2>4. kept \in Severities
    <3>1. PICK P \in SUBSET Places : places \in [P -> Severities]
      BY <1>1 DEF MergeInv, KeptFindings
    <3> QED BY <2>1, <3>1 DEF Covers
  <2>5. f.severity \in Severities /\ rank[kept] <= rank[f.severity]
    BY <2>1, <2>3 DEF Covers, Findings
  <2> HIDE DEF f, v, kept
  <2>6. f.severity = "blocker" => kept = "blocker"
    BY <2>4, <2>5, ReviewAssumption DEF rank
  <2>7. v.of >= panelSize(f.severity)
    BY <2>2, <2>6, ReviewAssumption DEF panelSize
  <2>8. quorum(v) /\ (v.refutes >= v.confirms \/ v.hardRefute)
    BY <2>2 DEF verdictOf, Votes
  <2>9. 2 * (v.confirms + v.refutes) >= v.of
    BY <2>2, <2>8 DEF quorum, Votes
  <2> QED BY <2>7, <2>8, <2>9 DEF f, v
<1> QED BY <1>2, <1>3 DEF CleanIsEarned

\* review-workflow.js: a diff is called clean only when every lens answered, and whatever
\* any of them reported, of however many that said the same thing milder, was rejected by a
\* panel that its own severity calls for, and that voted.
THEOREM CleanDiffsAreEarned == ReviewSpec => []CleanIsEarned
<1>1. ReviewInit => ReviewInv
  BY DEF ReviewInit, ReviewInv
<1> QED BY <1>1, ReviewKeepsInv, CleanFollows, PTL DEF ReviewSpec

=============================================================================
