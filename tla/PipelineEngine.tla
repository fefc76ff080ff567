--------------------------- MODULE PipelineEngine ---------------------------
(***************************************************************************)
(* The life of one run, command by command: approve, start, resume and     *)
(* authorize of pipeline-engine.mjs, with the pieces of checkpoint-store,  *)
(* authorization, phase-engine and git-integration they are made of.       *)
(*                                                                         *)
(* A session executes one command at a time.  A step is one durable write, *)
(* or one read that is acted on later; a session can die between any two,  *)
(* and nothing but the checkpoint lock and the atomic renames keeps two    *)
(* sessions apart.  Build and phases appear by their outcome, BuildEngine  *)
(* has the rest; a plan stands for plan, config and intake together.       *)
(*                                                                         *)
(* Commits are numbered in the order the integration ref gets them; the    *)
(* config names the target branch as its base, so what approve resolves    *)
(* and preflight compares is where the target is by then.                  *)
(***************************************************************************)
EXTENDS Naturals, FiniteSets

CONSTANTS
  Sessions,
  Plans,         \* contents the plan file can have
  MaxCommands,   \* bound on the commands given
  NoPlan

ASSUME PipelineAssumption == MaxCommands \in Nat /\ Plans # {} /\ NoPlan \notin Plans

VARIABLES
  status,        \* status of the checkpoint, "none" when there is no file
  meta, nonce,   \* pipeline block: plan hash or NoPlan; approvalNonce stamped
  base,          \* pipeline block: approvedBaseSha
  budget,        \* "none", "open" or "stopped"
  units, phases, validation,
  stage, bound,  \* plan capability: stage of its life, the plan it is bound to
  planFile,      \* what the plan file says
  tip, target,   \* commits of the integration ref and of the target ref
  approved,      \* history: the bases an approve has stamped
  pc, plan, known, ok,   \* sessions: step, plan read, nonce read, outcome so far
  from, to,      \* sessions: base read, integration commit read for publication
  commands

docVars == <<status, meta, nonce, base, budget, units, phases, validation>>
capVars == <<stage, bound>>
refVars == <<tip, target, approved>>
sessionVars == <<plan, known, ok, from, to>>
runVars == <<docVars, capVars, planFile, refVars, pc, sessionVars, commands>>

Live == {"running", "needs_attention", "initializing"}
Driving == {"build", "built", "closeout", "stop", "phases", "validate", "phased", "converge", "finalize", "publish", "cas"}
RunInit ==
  /\ status = "none" /\ meta = NoPlan /\ nonce = FALSE /\ base = 0 /\ budget = "none"
  /\ units = "pending" /\ phases = "open" /\ validation = "none"
  /\ stage = "missing" /\ bound = NoPlan
  /\ planFile \in Plans
  /\ tip = 0 /\ target = 0 /\ approved = {}
  /\ pc = [s \in Sessions |-> "idle"] /\ plan = [s \in Sessions |-> NoPlan]
  /\ known = [s \in Sessions |-> FALSE] /\ ok = [s \in Sessions |-> TRUE]
  /\ from = [s \in Sessions |-> 0] /\ to = [s \in Sessions |-> 0]
  /\ commands = 0

at(s, step) == pc[s] = step
goto(s, step) == pc' = [pc EXCEPT ![s] = step]
goesOn(s, guard, step) == goto(s, IF guard THEN step ELSE "idle")

\* A command begins: it reads the plan file, the nonce and the base of the checkpoint,
\* and what it checks of them (preflight) it checks on that reading.
begin(s, step, baseSha) ==
  /\ at(s, "idle") /\ commands < MaxCommands
  /\ commands' = commands + 1
  /\ plan' = [plan EXCEPT ![s] = planFile] /\ known' = [known EXCEPT ![s] = nonce]
  /\ ok' = [ok EXCEPT ![s] = TRUE]
  /\ from' = [from EXCEPT ![s] = baseSha] /\ to' = [to EXCEPT ![s] = baseSha]
  /\ goto(s, step)
  /\ UNCHANGED <<docVars, capVars, planFile, refVars>>

loadRunCtx(s, step) == begin(s, step, base)

-----------------------------------------------------------------------------
\* approve resolves the base anew, whatever was approved and published before.
approve(s) == begin(s, "init", target)

\* checkpoint-store init: a live checkpoint is refused, any other overwritten.
ckInit(s) ==
  /\ at(s, "init")
  /\ goesOn(s, status \notin Live, "bind")
  /\ IF status \in Live
       THEN UNCHANGED docVars
       ELSE /\ status' = "running" /\ meta' = NoPlan /\ nonce' = FALSE /\ base' = 0
            /\ budget' = "none"
            /\ units' = "pending" /\ phases' = "open" /\ validation' = "none"
  /\ UNCHANGED <<capVars, planFile, refVars, sessionVars, commands>>

openBudget(s) ==
  /\ at(s, "bind")
  /\ goesOn(s, status # "none", "meta")
  /\ budget' = IF status # "none" /\ budget = "none" THEN "open" ELSE budget
  /\ UNCHANGED <<status, meta, nonce, base, units, phases, validation, capVars, planFile,
                 refVars, sessionVars, commands>>

stampMeta(s) ==
  /\ at(s, "meta")
  /\ goesOn(s, status # "none", "prepare")
  /\ IF status # "none"
       THEN meta' = plan[s] /\ base' = from[s] /\ approved' = approved \cup {from[s]}
       ELSE UNCHANGED <<meta, base, approved>>
  /\ UNCHANGED <<status, nonce, budget, units, phases, validation, capVars, planFile, tip,
                 target, sessionVars, commands>>

markPrepared(s) ==
  LET quiet == status # "none" /\ units # "in_progress"
  IN  /\ at(s, "prepare")
      /\ goesOn(s, quiet, "issue")
      /\ status' = IF quiet THEN "prepared" ELSE status
      /\ UNCHANGED <<meta, nonce, base, budget, units, phases, validation, capVars, planFile,
                     refVars, sessionVars, commands>>

\* issuePlanApproval: from prepared, with no executor, and ONE per run.  Looking for an
\* earlier token and creating the new one are one step: one operator approves at a time,
\* as in Authorization.
issuePlanApproval(s) ==
  LET mints == status = "prepared" /\ units # "in_progress" /\ stage = "missing"
  IN  /\ at(s, "issue")
      /\ goesOn(s, mints, "nonce")
      /\ stage' = IF mints THEN "issued" ELSE stage
      /\ bound' = IF mints THEN plan[s] ELSE bound
      /\ UNCHANGED <<docVars, planFile, refVars, sessionVars, commands>>

stampNonce(s) ==
  /\ at(s, "nonce") /\ goto(s, "idle")
  /\ nonce' = (status # "none" \/ nonce)
  /\ UNCHANGED <<status, meta, base, budget, units, phases, validation, capVars, planFile,
                 refVars, sessionVars, commands>>

-----------------------------------------------------------------------------
\* The live plan, config and intake are those stamped at approval, and the base too.
preflight == meta = planFile /\ base = target

\* Mutant: the approval is not required to be consumed before a resume.
resumeUnstarted(s) ==
  /\ status \notin {"none", "done"} /\ preflight
  /\ loadRunCtx(s, "reconcile")

\* start: preflight, and resume: preflight and the consumed approval.
start(s) ==
  /\ status = "prepared" /\ preflight
  /\ loadRunCtx(s, "consume")

resume(s) ==
  /\ status \notin {"none", "done"} /\ preflight
  /\ stage = "consumed"
  /\ loadRunCtx(s, "reconcile")

consumePlanApproval(s) ==
  LET wins == stage = "issued" /\ bound = plan[s] /\ known[s]
  IN  /\ at(s, "consume")
      /\ goesOn(s, wins, "stamp")
      /\ stage' = IF wins THEN "consumed" ELSE stage
      /\ UNCHANGED <<docVars, bound, planFile, refVars, sessionVars, commands>>

\* reconcileOpenSegments, and the stop check of resume.
reconcileSegments(s) ==
  /\ at(s, "reconcile")
  /\ goesOn(s, status # "none" /\ budget # "stopped", "stamp")
  /\ status' = IF status # "none" /\ budget = "stopped" THEN "needs_attention" ELSE status
  /\ UNCHANGED <<meta, nonce, base, budget, units, phases, validation, capVars, planFile,
                 refVars, sessionVars, commands>>

\* stampStatus running, over whatever status is there by now.
stampRunning(s) ==
  /\ at(s, "stamp")
  /\ goesOn(s, status # "none", "build")
  /\ status' = IF status # "none" THEN "running" ELSE status
  /\ UNCHANGED <<meta, nonce, base, budget, units, phases, validation, capVars, planFile,
                 refVars, sessionVars, commands>>

-----------------------------------------------------------------------------
\* driveToConvergence.
startBuild(s) ==
  /\ at(s, "build")
  /\ goesOn(s, status # "none", "built")
  /\ units' = IF status # "none" /\ units # "done" THEN "in_progress" ELSE units
  /\ UNCHANGED <<status, meta, nonce, base, budget, phases, validation, capVars, planFile,
                 refVars, sessionVars, commands>>

\* What a build has landed on the integration ref by the time it ends or dies: nothing,
\* or a new tip.
landed(s, grew) == tip' = IF at(s, "built") /\ grew THEN tip + 1 ELSE tip

\* runBuild returns: converged, blocked, or with the budget spent.
endBuild(s, converged, spent, grew) ==
  /\ at(s, "built")
  /\ units' = IF status # "none" /\ units # "done"
                THEN (IF converged THEN "done" ELSE "pending") ELSE units
  /\ budget' = IF status # "none" /\ spent THEN "stopped" ELSE budget
  /\ ok' = [ok EXCEPT ![s] = converged]
  /\ goesOn(s, status # "none",
            IF budget' = "stopped" THEN "stop" ELSE IF converged THEN "phases" ELSE "closeout")
  /\ landed(s, grew)
  /\ UNCHANGED <<status, meta, nonce, base, phases, validation, capVars, planFile, target,
                 approved, plan, known, from, to, commands>>

\* A blocked build still runs the closeout phases, and may leave one blocked.
closeout(s, green) ==
  /\ at(s, "closeout") /\ goto(s, "stop")
  /\ phases' = IF status # "none" /\ ~green THEN "open" ELSE phases
  /\ UNCHANGED <<status, meta, nonce, base, budget, units, validation, capVars, planFile,
                 refVars, sessionVars, commands>>

\* budgetStop and blockedRun end in the same stamp.
blockedRun(s) ==
  /\ at(s, "stop") /\ goto(s, "idle")
  /\ status' = IF status # "none" THEN "needs_attention" ELSE status
  /\ UNCHANGED <<meta, nonce, base, budget, units, phases, validation, capVars, planFile,
                 refVars, sessionVars, commands>>

\* runPhaseEngine: every phase passes through running, then all are done, or one
\* is blocked.
startPhases(s) ==
  /\ at(s, "phases")
  /\ goesOn(s, status # "none", "validate")
  /\ phases' = IF status # "none" THEN "open" ELSE phases
  /\ UNCHANGED <<status, meta, nonce, base, budget, units, validation, capVars, planFile,
                 refVars, sessionVars, commands>>

endPhases(s, green) ==
  /\ at(s, "validate")
  /\ goesOn(s, status # "none", IF green THEN "phased" ELSE "stop")
  /\ phases' = IF status # "none" /\ green THEN "done" ELSE phases
  /\ UNCHANGED <<status, meta, nonce, base, budget, units, validation, capVars, planFile,
                 refVars, sessionVars, commands>>

\* runFinalValidation: a result that cannot be recorded is swallowed.
finalValidation(s, green, recorded, spent) ==
  /\ at(s, "phased")
  /\ validation' = IF status # "none" /\ recorded
                     THEN (IF green THEN "green" ELSE "red") ELSE validation
  /\ budget' = IF status # "none" /\ spent THEN "stopped" ELSE budget
  /\ goto(s, IF budget' # "stopped" /\ green THEN "converge" ELSE "stop")
  /\ UNCHANGED <<status, meta, nonce, base, units, phases, capVars, planFile, refVars,
                 sessionVars, commands>>

convergenceFailures == units # "done" \/ phases # "done" \/ validation # "green"

\* checkpointConvergence on a fresh read of the checkpoint.
checkpointConvergence(s) ==
  /\ at(s, "converge")
  /\ goesOn(s, status # "none", IF convergenceFailures THEN "stop" ELSE "finalize")
  /\ UNCHANGED <<docVars, capVars, planFile, refVars, sessionVars, commands>>

\* finalize done re-checks every gate under the lock; a refusal leaves the status.
finalize(s) ==
  LET accepts == status # "none" /\ ~convergenceFailures
  IN  /\ at(s, "finalize")
      /\ goesOn(s, accepts, "publish")
      /\ status' = IF accepts THEN "done" ELSE status
      /\ UNCHANGED <<meta, nonce, base, budget, units, phases, validation, capVars, planFile,
                     refVars, sessionVars, commands>>

\* gatherPreconditions, and the observation of both refs: the target still at the
\* approved base, the integration ref ahead of it.
mayPublish(s) == status = "done" /\ validation = "green" /\ target = from[s] /\ tip # target

gatherPreconditions(s) ==
  /\ at(s, "publish")
  /\ goesOn(s, mayPublish(s), "cas")
  /\ to' = [to EXCEPT ![s] = tip]
  /\ UNCHANGED <<docVars, capVars, planFile, refVars, plan, known, ok, from, commands>>

\* Mutant: update-ref without the old value.
updateRefBlind(s) ==
  /\ at(s, "cas") /\ goto(s, "idle")
  /\ target' = to[s]
  /\ UNCHANGED <<docVars, capVars, planFile, tip, approved, sessionVars, commands>>

\* update-ref target new old: a compare-and-swap from the approved base.
updateRef(s) ==
  /\ at(s, "cas") /\ goto(s, "idle")
  /\ target' = IF target = from[s] THEN to[s] ELSE target
  /\ UNCHANGED <<docVars, capVars, planFile, tip, approved, sessionVars, commands>>

-----------------------------------------------------------------------------
\* authorize reads a done run, then halts whatever run is there by then.
authorize(s) == status = "done" /\ loadRunCtx(s, "halt")

haltForAuthorization(s) ==
  /\ at(s, "halt") /\ goto(s, "idle")
  /\ status' = IF status # "none" /\ units # "in_progress" THEN "awaiting_authorization" ELSE status
  /\ UNCHANGED <<meta, nonce, base, budget, units, phases, validation, capVars, planFile,
                 refVars, sessionVars, commands>>

\* checkpoint-store gc: without the lock, a status that is read, then a rename.
gc(s) == status \notin {"none", "running"} /\ loadRunCtx(s, "archive")

archive(s) ==
  /\ at(s, "archive") /\ goto(s, "idle")
  /\ status' = "none" /\ meta' = NoPlan /\ nonce' = FALSE /\ base' = 0 /\ budget' = "none"
  /\ units' = "pending" /\ phases' = "open" /\ validation' = "none"
  /\ UNCHANGED <<capVars, planFile, refVars, sessionVars, commands>>

die(s) ==
  /\ ~at(s, "idle") /\ goto(s, "idle")
  /\ \E grew \in BOOLEAN : landed(s, grew)
  /\ UNCHANGED <<docVars, capVars, planFile, target, approved, sessionVars, commands>>

\* Someone edits the plan file.
edit ==
  /\ \E other \in Plans \ {planFile} : planFile' = other
  /\ UNCHANGED <<docVars, capVars, refVars, pc, sessionVars, commands>>

command(s) == approve(s) \/ start(s) \/ resume(s) \/ authorize(s) \/ gc(s)

approving(s) ==
  \/ ckInit(s) \/ openBudget(s) \/ stampMeta(s)
  \/ markPrepared(s) \/ issuePlanApproval(s) \/ stampNonce(s)

driving(s) ==
  \/ startBuild(s) \/ startPhases(s) \/ checkpointConvergence(s) \/ blockedRun(s)
  \/ \E c, b, g \in BOOLEAN : endBuild(s, c, b, g)
  \/ \E g \in BOOLEAN : closeout(s, g) \/ endPhases(s, g)
  \/ \E g, r, b \in BOOLEAN : finalValidation(s, g, r, b)
  \/ finalize(s) \/ gatherPreconditions(s) \/ updateRef(s)

RunNext ==
  \/ \E s \in Sessions :
       \/ command(s) \/ approving(s)
       \/ consumePlanApproval(s) \/ reconcileSegments(s) \/ stampRunning(s)
       \/ driving(s)
       \/ haltForAuthorization(s) \/ archive(s) \/ die(s)
  \/ edit

RunSpec == RunInit /\ [][RunNext]_runVars

-----------------------------------------------------------------------------
\* The target moves at most once from any base an approve has stamped: it leaves only
\* such a base, and only forward, so it never stands there again, however many drivers
\* of however many approvals reach publication together.
OneMovePerApprovedBase ==
  [][ target' # target => target \in approved /\ target' > target ]_runVars

\* Nothing is driven, and nothing published, before a plan approval is consumed.
ExecutorsNeedApproval ==
  (target > 0 \/ \E s \in Sessions : pc[s] \in Driving) => stage = "consumed"

\* Claimed by pipeline-engine.mjs:587: an edited plan never runs.  What is driven
\* is the plan the consumed approval was bound to.
DrivesApprovedPlan ==
  \A s \in Sessions : pc[s] \in Driving => plan[s] = bound
=============================================================================
