-------------------------- MODULE PipelineWorkflow --------------------------
(***************************************************************************)
(* pipeline-workflow.js, the legacy backend: one launch walks the layers   *)
(* of the plan, then simplify, test, review, performance and ship prep,    *)
(* and returns a register of open findings.  It may crash, and may be      *)
(* launched again over what it left on disk: the checkpoint, which agents  *)
(* write and whose writes may be lost, and the Task-Id trailers of the     *)
(* working branch.                                                         *)
(*                                                                         *)
(* The tasks of a layer run as concurrent async functions; between them    *)
(* stand the two concurrency gates and the promise chain of the root lock. *)
(* What an agent answers is an outcome.  The scope gate of preflight is    *)
(* modelled in PlanGate and is an outcome here.                            *)
(***************************************************************************)
EXTENDS Naturals, Sequences, FiniteSets, SequencesExt

CONSTANTS Layers,        \* of the plan: a sequence of sequences of tasks
          DependsOn,     \* task -> set of tasks
          Enabled,       \* optional phases that the config switches on
          MaxBuildParallel, MaxParallel, MaxFix,
          Retries,       \* length of RETRY_DELAYS, cut down
          Reports,       \* phase -> the sets of findings that it may report
          Lossy,         \* tasks and phases whose status writes may be lost
          MaxLaunches    \* bound

Tasks == UNION {ToSet(Layers[k]) : k \in DOMAIN Layers}
PhaseKeys == {"simplify", "test", "review", "performance", "ship_prep"}

\* The plan validator lets a task stand in the layers once; a cap is at least one.
ASSUME WorkflowAssumption ==
  /\ Layers \in Seq(Seq(Tasks)) /\ \A k \in DOMAIN Layers : IsInjective(Layers[k])
  /\ DependsOn \in [Tasks -> SUBSET Tasks]
  /\ Enabled \subseteq PhaseKeys \ {"test", "review"}
  /\ MaxBuildParallel \in Nat \ {0} /\ MaxParallel \in Nat \ {0}
  /\ MaxFix \in Nat /\ Retries \in Nat
  /\ Lossy \subseteq Tasks \cup PhaseKeys \cup {"build"}

VARIABLES unitsDone, phasesDone,    \* the checkpoint: what it records as done,
          openOf,                   \* and its openItems
          merged,                   \* tasks whose trailer the branch reaches
          leg,                      \* where the launch is
          layer, job, attempts, fixes, \* its layer, and each task in it
          buildGate, agentGate,     \* slots taken, and who waits
          rootChain,                \* the promise chain of the root lock
          doneTasks, donePhases,    \* DONE and DONE_PHASES
          register,                 \* open findings, <<phase, what>>, until the launch returns
          over,                     \* the token budget is under its floor
          launches,
          verdict,                  \* history: the last slice review of a task
          ran,                      \* history: phases an agent finished, and well
          converged                 \* workflowConverged, as returned

diskVars == <<unitsDone, phasesDone, openOf, merged>>
buildVars == <<layer, job, attempts, fixes, buildGate, agentGate, rootChain>>
flowVars == <<diskVars, buildVars, leg, doneTasks, donePhases, register, over, launches,
              verdict, ran, converged>>

\* A status write is made by an agent with "|| true": it may be lost.
Kept(x) == IF x \in Lossy THEN BOOLEAN ELSE {TRUE}
Idle == [busy |-> 0, queue |-> <<>>]
Zero == [t \in Tasks |-> 0]

\* A launch that ends takes its memory with it.
blankBuild == /\ layer' = 1 /\ job' = [t \in Tasks |-> "none"]
              /\ attempts' = Zero /\ fixes' = Zero
              /\ buildGate' = Idle /\ agentGate' = Idle /\ rootChain' = <<>>

FlowInit ==
  /\ unitsDone = {} /\ phasesDone = {} /\ openOf = {} /\ merged = {}
  /\ leg = "down" /\ layer = 1 /\ job = [t \in Tasks |-> "none"]
  /\ attempts = Zero /\ fixes = Zero
  /\ buildGate = Idle /\ agentGate = Idle /\ rootChain = <<>>
  /\ doneTasks = {} /\ donePhases = {} /\ register = {} /\ over = FALSE
  /\ launches = 0 /\ verdict = [t \in Tasks |-> "none"] /\ ran = {} /\ converged = FALSE

-----------------------------------------------------------------------------
(* A gate hands its slot straight to the next waiter. *)
gateEnter(g, limit, t) ==
  IF g.busy >= limit THEN [g EXCEPT !.queue = Append(@, t)] ELSE [g EXCEPT !.busy = @ + 1]
\* Mutant: the slot is counted free and the waiter stays in the queue.
gateLeaveForgetting(g) == [g EXCEPT !.busy = @ - 1]
gateLeave(g) ==
  IF g.queue # <<>> THEN [g EXCEPT !.queue = Tail(@)] ELSE [g EXCEPT !.busy = @ - 1]
holds(g, t) == t \notin ToSet(g.queue)

\* withRetry: a null answer or a transient error is tried again in the slot.
withRetry(t) == /\ attempts[t] < Retries
                /\ attempts' = [attempts EXCEPT ![t] = @ + 1]
                /\ UNCHANGED <<diskVars, leg, layer, job, fixes, buildGate, agentGate, rootChain,
                               doneTasks, donePhases, register, over, launches, verdict, ran,
                               converged>>

\* Pure observations and approved drops leave the register; a note on a selected
\* item stays in it.
recordFindings(p, found) == {<<p, f>> : f \in found \ {"note", "dropped"}}
gateFail(p) == {<<p, "gate">>}
budgetStop(p) == gateFail(p)

\* Of a unit or a phase only "done" is read back, so no other record is told apart.
set(S, x, to) == IF to = "done" THEN S \cup {x} ELSE S \ {x}
writeUnit(t, to) ==
  \E kept \in Kept(t) : unitsDone' = IF kept THEN set(unitsDone, t, to) ELSE unitsDone

\* The phase is written before its findings, by one agent, with "|| true" after each.
persistPhase(p, to) ==
  \E keptPhase, keptItems \in Kept(p) :
    /\ phasesDone' = IF keptPhase THEN set(phasesDone, p, to) ELSE phasesDone
    /\ openOf' = IF keptItems THEN openOf \cup {i \in register' : i[1] = p} ELSE openOf

-----------------------------------------------------------------------------
(* A launch.  Preflight unions the units recorded done with the trailers,  *)
(* and rebuilds the register of the phases it will skip; when the agent    *)
(* died, the plan is unusable or the scope gate fails, it aborts.          *)
preflight ==
  /\ leg \in {"down", "returned"} /\ launches < MaxLaunches
  /\ launches' = launches + 1 /\ blankBuild
  /\ over' = FALSE /\ converged' = FALSE
  /\ \/ /\ leg' = "returned" /\ register' = {}
        /\ doneTasks' = {} /\ donePhases' = {}
     \/ /\ leg' = "layers"
        /\ doneTasks' = unitsDone \cup merged /\ donePhases' = phasesDone
        /\ \E degraded \in {{}, {<<"preflight", "delegation_degraded">>}} :
             register' = degraded \cup {i \in openOf : i[1] \in donePhases'}
  /\ UNCHANGED <<diskVars, verdict, ran>>

(* The next layer: dependencies are looked up before anything is awaited,  *)
(* then each task that is ready asks the gate, in order.                   *)
admitAll(g, ts, able) ==
  LET upTo[k \in 0..Len(ts)] ==
        IF k = 0 THEN g
        ELSE IF ts[k] \in able THEN gateEnter(upTo[k - 1], MaxBuildParallel, ts[k])
                               ELSE upTo[k - 1]
  IN upTo[Len(ts)]
Final == {"none", "done", "blocked", "dep_blocked"}
LayerOver == \A t \in Tasks : job[t] \in Final
ready(t) == DependsOn[t] \subseteq doneTasks
startLayer ==
  /\ leg = "layers" /\ LayerOver /\ "build" \notin donePhases
  /\ layer \in DOMAIN Layers /\ ~over
  /\ LET todo == ToSet(Layers[layer]) \ doneTasks
     IN /\ job' = [t \in Tasks |-> IF t \notin todo THEN job[t]
                                   ELSE IF ready(t) THEN "engineer" ELSE "dep_blocked"]
        /\ buildGate' = admitAll(buildGate, Layers[layer], {t \in todo : ready(t)})
  /\ layer' = layer + 1
  /\ UNCHANGED <<diskVars, leg, attempts, fixes, agentGate, rootChain, doneTasks, donePhases,
                 register, over, launches, verdict, ran, converged>>

(* The engineer commits on a branch of its own; anything short of a green  *)
(* slice blocks the task.                                                  *)
engineer(t) ==
  /\ job[t] = "engineer" /\ holds(buildGate, t)
  /\ \/ withRetry(t)
     \/ /\ buildGate' = gateLeave(buildGate) /\ attempts' = [attempts EXCEPT ![t] = 0]
        /\ \/ /\ job' = [job EXCEPT ![t] = "integrate"]
              /\ rootChain' = Append(rootChain, t)
              /\ writeUnit(t, "in_progress")
           \/ /\ job' = [job EXCEPT ![t] = "blocked"]
              /\ writeUnit(t, "blocked") /\ UNCHANGED rootChain
        /\ UNCHANGED <<phasesDone, openOf, merged, leg, layer, fixes, agentGate, doneTasks,
                       donePhases, register, over, launches, verdict, ran, converged>>

(* Integration, one at a time.  The agent may die after its merge.         *)
integrate(t) ==
  /\ job[t] = "integrate" /\ rootChain[1] = t
  /\ rootChain' = Tail(rootChain)
  /\ \E landed \in BOOLEAN : merged' = IF landed THEN merged \cup {t} ELSE merged
  /\ \/ /\ t \in merged'
        /\ job' = [job EXCEPT ![t] = "review"]
        /\ agentGate' = gateEnter(agentGate, MaxParallel, t) /\ UNCHANGED unitsDone
     \/ /\ job' = [job EXCEPT ![t] = "blocked"]
        /\ writeUnit(t, "blocked") /\ UNCHANGED agentGate
  /\ UNCHANGED <<phasesDone, openOf, leg, layer, attempts, fixes, buildGate, doneTasks, donePhases,
                 register, over, launches, verdict, ran, converged>>

(* The slice review, and its fix loop: a verdict that fails is fixed while *)
(* it names findings in scope and rounds are left.                         *)
sliceReview(t) ==
  /\ job[t] = "review" /\ holds(agentGate, t)
  /\ \/ withRetry(t)
     \/ /\ agentGate' = gateLeave(agentGate) /\ attempts' = [attempts EXCEPT ![t] = 0]
        /\ \/ /\ verdict' = [verdict EXCEPT ![t] = "pass"]
              /\ job' = [job EXCEPT ![t] = "done"] /\ doneTasks' = doneTasks \cup {t}
              /\ writeUnit(t, "done") /\ UNCHANGED rootChain
           \/ /\ fixes[t] < MaxFix
              /\ verdict' = [verdict EXCEPT ![t] = "fail"]
              /\ job' = [job EXCEPT ![t] = "fix"] /\ rootChain' = Append(rootChain, t)
              /\ UNCHANGED <<unitsDone, doneTasks>>
           \/ /\ verdict' = [verdict EXCEPT ![t] = "fail"]
              /\ job' = [job EXCEPT ![t] = "blocked"]
              /\ writeUnit(t, "blocked") /\ UNCHANGED <<rootChain, doneTasks>>
        /\ UNCHANGED <<phasesDone, openOf, merged, leg, layer, fixes, buildGate, donePhases,
                       register, over, launches, ran, converged>>

fix(t) ==
  /\ job[t] = "fix" /\ rootChain[1] = t
  /\ rootChain' = Tail(rootChain)
  /\ fixes' = [fixes EXCEPT ![t] = @ + 1]
  /\ job' = [job EXCEPT ![t] = "review"]
  /\ agentGate' = gateEnter(agentGate, MaxParallel, t)
  /\ UNCHANGED <<diskVars, leg, layer, attempts, buildGate, doneTasks, donePhases, register,
                 over, launches, verdict, ran, converged>>

(* The layers are over, or the budget broke the walk: what is blocked and  *)
(* what was never reached goes into the register.                          *)
buildPhase ==
  /\ leg = "layers" /\ LayerOver
  /\ "build" \in donePhases \/ over \/ layer \notin DOMAIN Layers
  /\ leg' = "simplify" /\ attempts' = Zero /\ fixes' = Zero
  /\ IF "build" \in donePhases
       THEN UNCHANGED <<register, phasesDone, openOf>>
       ELSE LET stopped == IF over /\ layer \in DOMAIN Layers THEN budgetStop("build") ELSE {}
                undone == {t \in Tasks : t \notin doneTasks}
            IN /\ register' = register \cup stopped \cup {<<"build", t>> : t \in undone}
               /\ persistPhase("build", IF undone = {} THEN "done" ELSE "blocked")
  /\ UNCHANGED <<unitsDone, merged, layer, job, buildGate, agentGate, rootChain, doneTasks, donePhases, over, launches, verdict,
                 ran, converged>>

-----------------------------------------------------------------------------
(* The phases after the build.  A phase ends in one of five ways: skipped  *)
(* as done, skipped by the config, stopped by the budget, died, answered.  *)
Following == [simplify |-> "test", test |-> "review", review |-> "performance",
              performance |-> "ship_prep", ship_prep |-> "finalize"]
someBlocked == \E t \in Tasks : job[t] \in {"blocked", "dep_blocked"}
reviewOpen == \E i \in register : i[1] = "review"
switchedOn(p) ==
  CASE p = "simplify" -> p \in Enabled /\ ~someBlocked
    [] p = "ship_prep" -> p \in Enabled /\ ~reviewOpen
    [] OTHER -> p \in Enabled \cup {"test", "review"}

skipped(p) ==
  /\ p \in donePhases \/ ~switchedOn(p)
  /\ IF p = "ship_prep" /\ p \in Enabled /\ reviewOpen
       THEN /\ register' = register \cup gateFail(p)
            /\ IF p \in donePhases THEN UNCHANGED <<phasesDone, openOf>>
                                   ELSE persistPhase(p, "blocked")
       ELSE UNCHANGED <<register, phasesDone, openOf>>
  /\ UNCHANGED ran

\* Mutant: a phase the budget stopped is recorded like one that was skipped.
stoppedDone(p) ==
  /\ p \notin donePhases /\ switchedOn(p) /\ over
  /\ register' = register \cup budgetStop(p)
  /\ persistPhase(p, "done") /\ UNCHANGED ran
stopped(p) ==
  /\ p \notin donePhases /\ switchedOn(p) /\ over
  /\ register' = register \cup budgetStop(p)
  /\ persistPhase(p, "blocked") /\ UNCHANGED ran

diedOrRed(p) ==
  /\ p \notin donePhases /\ switchedOn(p) /\ ~over
  /\ \E found \in Reports[p] :
       register' = register \cup gateFail(p) \cup recordFindings(p, found)
  /\ persistPhase(p, "blocked") /\ UNCHANGED ran

answered(p) ==
  /\ p \notin donePhases /\ switchedOn(p) /\ ~over
  /\ \E found \in Reports[p] : register' = register \cup recordFindings(p, found)
  /\ persistPhase(p, "done") /\ ran' = ran \cup {p}

phaseAgent(p) ==
  /\ leg = p
  /\ skipped(p) \/ stopped(p) \/ diedOrRed(p) \/ answered(p)
  /\ leg' = Following[p]
  /\ UNCHANGED <<unitsDone, merged, buildVars, doneTasks, donePhases, over, launches, verdict,
                 converged>>

(* The end-state gate.  The checkpoint stays open for the outer skill.     *)
finalizeFlow ==
  /\ leg = "finalize"
  /\ \E red \in {{}, gateFail("final_validation")} : converged' = (register \cup red = {})
  /\ register' = {}
  /\ leg' = "returned" /\ blankBuild
  /\ doneTasks' = {} /\ donePhases' = {} /\ over' = FALSE
  /\ UNCHANGED <<diskVars, launches, verdict, ran>>

-----------------------------------------------------------------------------
(* The world: tokens run out, and the launch may die at any point.         *)
Up == leg \notin {"down", "returned"}
spendTokens == /\ Up /\ ~over /\ over' = TRUE
               /\ UNCHANGED <<diskVars, buildVars, leg, doneTasks, donePhases, register,
                              launches, verdict, ran, converged>>
crashFlow == /\ Up /\ leg' = "down" /\ blankBuild
             /\ doneTasks' = {} /\ donePhases' = {} /\ register' = {} /\ over' = FALSE
             /\ UNCHANGED <<diskVars, launches, verdict, ran, converged>>

FlowStep == \/ startLayer \/ buildPhase \/ finalizeFlow
            \/ leg = "layers" /\ \E t \in Tasks : engineer(t) \/ integrate(t) \/ sliceReview(t) \/ fix(t)
            \/ \E p \in PhaseKeys : phaseAgent(p)
FlowNext == preflight \/ FlowStep \/ spendTokens \/ crashFlow

FlowSpec == FlowInit /\ [][FlowNext]_flowVars

-----------------------------------------------------------------------------
(* Engineers and reviewers stay within their caps, no waiter is left behind *)
(* a free slot, and whoever writes the shared tree waits in the root chain. *)
SlotsAreBounded ==
  LET engineers == {t \in Tasks : job[t] = "engineer"}
      reviewers == {t \in Tasks : job[t] = "review"}
      fits(g, limit, who) ==
        /\ ToSet(g.queue) \subseteq who /\ g.busy = Cardinality(who \ ToSet(g.queue))
        /\ g.busy <= limit
        /\ g.queue # <<>> => g.busy = limit
  IN leg = "layers" =>
       /\ fits(buildGate, MaxBuildParallel, engineers)
       /\ fits(agentGate, MaxParallel, reviewers)
       /\ ToSet(rootChain) = {t \in Tasks : job[t] \in {"integrate", "fix"}}

(* A launch that reports converged has every task on the branch, and every *)
(* phase that is switched on was finished by an agent, in this launch or   *)
(* in one whose record it skips: a gate that did not run is not clean.     *)
NothingSkippedIsGreen ==
  converged => merged = Tasks /\ {"test", "review"} \cup Enabled \subseteq ran

(* What SKILL.md says of the gates: a task whose review is red blocks the   *)
(* build, a resume re-enters it, and no false green is handed forward.     *)
NoFalseGreen == converged => \A t \in Tasks : verdict[t] # "fail"
=============================================================================
