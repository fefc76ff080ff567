---------------------------- MODULE PhaseEngine ----------------------------
(***************************************************************************)
(* phase-engine.mjs: the phases after the build, in order and fail-closed, *)
(* by a coordinator that can die and be resumed; its review phase is       *)
(* ReviewPanel.                                                            *)
(*                                                                         *)
(* What a drive has done so far is in its memory (results); what outlives  *)
(* it is in the checkpoint (phases, finalValidation, the register), where  *)
(* records of an earlier drive stay until they are overwritten.  A write   *)
(* can be refused, and the engine looks at few of the refusals.            *)
(***************************************************************************)
EXTENDS ReviewPanel

CONSTANTS
  PhaseDefs,     \* sequence of the phases after the build
  Optional, Closeout,   \* those that may be omitted, those that run after a block
  SkipSets,      \* configured omissions
  MaxDrives      \* bound on the drives

ASSUME PhaseAssumption ==
  /\ \E i \in DOMAIN PhaseDefs : \A j \in DOMAIN PhaseDefs :
       PhaseDefs[j] \in Closeout <=> j >= i
  /\ Optional \cap Closeout = {} /\ "review" \notin Optional \cup Closeout
  /\ MaxDrives \in Nat

VARIABLES
  step,          \* what the coordinator does
  next,          \* index of the phase
  whole,         \* all phases, or closeout only after a build that did not converge
  skip,
  results,       \* phase -> result in memory, "none" before
  terminal,      \* final validation in memory
  phases, finalValidation,   \* in the checkpoint
  observed,      \* history: phases the coordinator saw pass in this drive
  validated,     \* history: a green final validation saw the worktree as it is
  drives

memory == <<next, whole, results, terminal, observed>>
records == <<phases, finalValidation>>
phaseVars == <<panelVars, step, memory, skip, records, validated, drives>>

Phases == {PhaseDefs[i] : i \in DOMAIN PhaseDefs}
PhaseInit ==
  /\ PanelInit
  /\ step = "down" /\ next = 1 /\ whole = TRUE /\ skip \in SkipSets
  /\ results = [p \in Phases |-> "none"] /\ terminal = "none"
  /\ phases = [p \in Phases |-> "none"] /\ finalValidation = "none"
  /\ observed = {} /\ validated = FALSE /\ drives = 0

-----------------------------------------------------------------------------
current == PhaseDefs[next]
atPhase == step = "next" /\ next <= Len(PhaseDefs)

\* The latches gated and closeoutBlocked, read off the results.
gated == \E p \in Phases : results[p] = "blocked"
closeoutBlocked == \E p \in Closeout : results[p] = "blocked"
isGated == IF current \in Closeout THEN closeoutBlocked ELSE gated
isSkipped == whole /\ current \in skip

\* tryCheckpoint: a refused write leaves what is there.
tryCheckpoint(status, ok) ==
  /\ accepted(ok)
  /\ phases' = IF ok THEN [phases EXCEPT ![current] = status] ELSE phases

\* The phase ends with a result in memory.
result(state) ==
  /\ results' = [results EXCEPT ![current] = state]
  /\ next' = next + 1 /\ step' = "next"
  /\ UNCHANGED <<whole, terminal>>

\* Whether the record was written is not looked at.
blockedResult(ok) ==
  /\ tryCheckpoint("blocked", ok) /\ result("blocked")
  /\ UNCHANGED observed

\* Done and skipped count only when they were recorded.
recordedResult(status, ok) ==
  /\ tryCheckpoint(status, ok) /\ result(IF ok THEN status ELSE "blocked")

panelAside == UNCHANGED <<panel, reviewVars, registerVars>>
others == UNCHANGED <<skip, finalValidation, drives>>

\* An agent may have changed the worktree, whatever it answers.
mayEdit == validated' \in {validated, FALSE}

-----------------------------------------------------------------------------
\* A drive: on a resume the open reservations are charged, then the build runs, and
\* may edit, up to here.  A stopped budget or a converged run is not driven.
convergenceFailures ==
  {p \in Phases : results[p] # "done" /\ ~(p \in Optional /\ results[p] = "skipped")}
converged == step = "returned" /\ whole /\ convergenceFailures = {} /\ terminal = "green"
checkpointConverges ==
  /\ \A p \in Phases : phases[p] = "done" \/ (p \in Optional /\ phases[p] = "skipped")
  /\ openItems = {} /\ finalValidation = "green"
mayFinalize == converged /\ ~stopped /\ checkpointConverges

\* The closeout of a build that did not converge begins at the first of its phases.
driveToConvergence(all) ==
  /\ step \in {"down", "returned"} /\ ~mayFinalize /\ ~stopped
  /\ drives < MaxDrives /\ drives' = drives + 1
  /\ whole' = all /\ step' = "next" /\ terminal' = "none" /\ observed' = {}
  /\ next' = IF all THEN 1 ELSE CHOOSE i \in DOMAIN PhaseDefs :
               PhaseDefs[i] \in Closeout /\ \A j \in 1 .. i - 1 : PhaseDefs[j] \notin Closeout
  /\ results' = [p \in Phases |-> "none"]
  /\ held' = 0
  /\ mayEdit
  /\ UNCHANGED <<panel, reviewVars, registerVars, stopped, refusals, skip, records>>

\* Upstream blocked: recorded as blocked, never run.
gatePhase(ok) ==
  /\ atPhase /\ isGated
  /\ blockedResult(ok)
  /\ panelAside /\ others /\ UNCHANGED <<held, stopped, validated>>

skipPhase(ok) ==
  /\ atPhase /\ ~isGated /\ isSkipped
  /\ IF current \in Optional
       THEN recordedResult("skipped", ok) /\ UNCHANGED observed
       ELSE blockedResult(ok)
  /\ panelAside /\ others /\ UNCHANGED <<held, stopped, validated>>

mustRun == atPhase /\ ~isGated /\ ~isSkipped

-----------------------------------------------------------------------------
\* One phase of an agent.
refusePhase(ok) ==
  /\ mustRun /\ current # "review"
  /\ blockedResult(ok)
  /\ panelAside /\ others /\ UNCHANGED <<held, stopped, validated>>

invokeAgent(ok) ==
  /\ mustRun /\ current # "review"
  /\ ~stopped
  /\ held' = held + 1 /\ step' = "agent"
  /\ tryCheckpoint("running", ok)
  /\ panelAside /\ others /\ UNCHANGED <<stopped, memory, validated>>

\* It threw, is missing, or returned no valid output: settled, and blocked.
agentFails(ok) ==
  /\ step = "agent"
  /\ held' = held - 1
  /\ mayEdit
  /\ blockedResult(ok)
  /\ panelAside /\ others /\ UNCHANGED stopped

agentReturns ==
  /\ step = "agent" /\ step' = "validate"
  /\ held' = held - 1
  /\ mayEdit
  /\ panelAside /\ others /\ UNCHANGED <<stopped, refusals, memory, phases>>

\* The validation of the coordinator is red or missing.
validationFails(ok) ==
  /\ step = "validate"
  /\ blockedResult(ok)
  /\ panelAside /\ others /\ UNCHANGED <<held, stopped, validated>>

\* It is green; then the ledger decides.  A stop for lack of progress blocks this
\* phase, a stop for an exhausted limit does not.
validationPasses(exhausted, noProgress, ok) ==
  /\ step = "validate"
  /\ stopped' = (stopped \/ exhausted \/ noProgress)
  /\ IF noProgress
       THEN blockedResult(ok)
       ELSE recordedResult("done", ok) /\ observed' = observed \cup {current}
  /\ panelAside /\ others /\ UNCHANGED <<held, validated>>

-----------------------------------------------------------------------------
\* The review phase.
refuseReview(ok) ==
  /\ mustRun /\ current = "review"
  /\ blockedResult(ok)
  /\ panelAside /\ others /\ UNCHANGED <<held, stopped, validated>>

startReview(ok) ==
  /\ mustRun /\ current = "review"
  /\ tryCheckpoint("running", ok)
  /\ step' = "review" /\ panel' = "dimensions"
  /\ others /\ UNCHANGED <<reviewVars, registerVars, held, stopped, memory, validated>>

reviewStep ==
  /\ step = "review"
  /\ PanelNext
  /\ UNCHANGED <<step, memory, skip, records, validated, drives>>

reviewReturns(ok) ==
  /\ step = "review" /\ panel \in {"reviewed", "threw"}
  /\ IF canAdvanceShipPrep
       THEN recordedResult("done", ok) /\ observed' = observed \cup {current}
       ELSE blockedResult(ok)
  /\ panel' = "idle" /\ forgetReview
  /\ others /\ UNCHANGED <<registerVars, held, stopped, validated>>

-----------------------------------------------------------------------------
\* The end of a drive.
allRun == step = "next" /\ next > Len(PhaseDefs)

\* Mutant: the final validation is not run again when an earlier one was green.
runFinalValidationOnce(outcome, ok) ==
  /\ allRun /\ ~gated /\ whole
  /\ terminal' = IF outcome = "missing" THEN "red" ELSE outcome
  /\ outcome = "missing" => ok
  /\ accepted(ok)
  /\ IF finalValidation = "green"
       THEN outcome = "green" /\ UNCHANGED <<finalValidation, validated>>
       ELSE /\ finalValidation' = IF ok /\ outcome # "missing" THEN outcome ELSE finalValidation
            /\ validated' = IF outcome = "missing" THEN validated ELSE outcome = "green"
  /\ step' = "returned"
  /\ panelAside
  /\ UNCHANGED <<held, stopped, next, whole, results, observed, skip, phases, drives>>

\* A validation that is missing is not recorded; for one that is red or green the
\* record may be refused, and the drive goes on.
runFinalValidation(outcome, ok) ==
  /\ allRun /\ ~gated /\ whole
  /\ terminal' = IF outcome = "missing" THEN "red" ELSE outcome
  /\ outcome = "missing" => ok
  /\ accepted(ok)
  /\ finalValidation' = IF ok /\ outcome # "missing" THEN outcome ELSE finalValidation
  /\ validated' = IF outcome = "missing" THEN validated ELSE outcome = "green"
  /\ step' = "returned"
  /\ panelAside
  /\ UNCHANGED <<held, stopped, next, whole, results, observed, skip, phases, drives>>

returnBlocked ==
  /\ allRun /\ (gated \/ ~whole)
  /\ step' = "returned"
  /\ UNCHANGED <<panelVars, memory, skip, records, validated, drives>>

\* The coordinator dies; its memory is gone, a reservation may stay open.
coordinatorDies ==
  /\ step \notin {"down", "returned"}
  /\ step' = "down" /\ panel' = "idle"
  /\ next' = 1 /\ whole' = TRUE /\ terminal' = "none" /\ observed' = {}
  /\ results' = [p \in Phases |-> "none"]
  /\ forgetReview
  /\ UNCHANGED <<registerVars, held, stopped, refusals, skip, records, validated, drives>>

PhaseNext ==
  \/ \E all \in BOOLEAN : driveToConvergence(all)
  \/ \E ok \in BOOLEAN :
       \/ gatePhase(ok) \/ skipPhase(ok)
       \/ refusePhase(ok) \/ invokeAgent(ok) \/ agentFails(ok)
       \/ validationFails(ok)
       \/ \E exhausted, noProgress \in BOOLEAN : validationPasses(exhausted, noProgress, ok)
       \/ refuseReview(ok) \/ startReview(ok) \/ reviewReturns(ok)
       \/ \E outcome \in {"green", "red", "missing"} : runFinalValidation(outcome, ok)
  \/ agentReturns
  \/ reviewStep
  \/ returnBlocked
  \/ coordinatorDies

PhaseSpec == PhaseInit /\ [][PhaseNext]_phaseVars

-----------------------------------------------------------------------------
\* A run is only finalized on what its last drive saw: the final validation saw the
\* worktree as it is, and every phase that was not configured away passed under the
\* eyes of the coordinator in this drive, whatever records earlier drives left.
ConvergesOnItsOwnEvidence ==
  mayFinalize => /\ validated
                 /\ \A p \in Phases : p \in observed \/ p \in skip \cap Optional

\* The review is done only when it is answered: every required dimension reported, and
\* every finding was resolved by the coordinator, refuted by a quorum of independent
\* skeptics with one ballot each, or is confirmed and not a blocker.
answered(f) ==
  LET independent == {v \in {VerifierPanel[i] : i \in DOMAIN VerifierPanel} :
                        \A r \in rawFindings : r.finding = f => r.dimension # v.origin}
      ballots(b) == {v.id : v \in {x \in independent : [verifier |-> x.id, refuted |-> b] \in votes[f]}}
      refutes == Cardinality(ballots(TRUE))
      confirms == Cardinality(ballots(FALSE))
  IN  \/ verdict[f] = "resolved"
      \/ /\ 2 * Cardinality(ballots(TRUE) \cup ballots(FALSE)) >= Len(VerifierPanel)
         /\ \/ refutes > confirms
            \/ /\ refutes < confirms
               /\ \A r \in rawFindings : r.finding = f => r.severity # "blocker"
AdvanceIsAnswered ==
  [][ "review" \notin observed /\ "review" \in observed' =>
        /\ \A i \in DOMAIN Dimensions : Dimensions[i].required => Dimensions[i].name \in coverage
        /\ \A r \in rawFindings : answered(r.finding) ]_phaseVars
=============================================================================
