------------------------------- MODULE MC_Run -------------------------------
(***************************************************************************)
(* One run from the outside, and what is kept about it.  The parts share   *)
(* no state, so a behaviour follows one of them:                           *)
(*  - "commands": two sessions, two versions of the plan, four commands;   *)
(*  - "budget": two termination sets that differ in every cap, timeouts    *)
(*    that fit and that overrun the wall, measurements below, at and above *)
(*    the slice;                                                           *)
(*  - "learn": three runs of the router over two directories, one edit;    *)
(*  - "job": two keys, one of them also written with a blank, and jobs     *)
(*    that are not valid.                                                  *)
(***************************************************************************)
EXTENDS BudgetLedger, PipelineEngine, Learnings, RecurringJob

CONSTANTS s1, s2, planA, planB, t1, t2, build, test, f1, f2, drift

MCSessions == {s1, s2}
MCPlans == {planA, planB}

tight == [maxCodexCalls |-> 2, maxActiveWallMs |-> 3, maxAttemptsPerTask |-> 1,
          maxAttemptsPerPhase |-> 2, maxNoProgressBarriers |-> 2,
          escalationTriggers |-> {drift}]
loose == [maxCodexCalls |-> 3, maxActiveWallMs |-> 4, maxAttemptsPerTask |-> 2,
          maxAttemptsPerPhase |-> 2, maxNoProgressBarriers |-> 2,
          escalationTriggers |-> {}]

MCTasks == {t1, t2}
MCPhases == {build, test}
MCLimitSets == {tight, loose}
MCCallTimeouts == {2, 5}
MCMeasured == {0, 1, 2, 5}
MCFingerprints == {f1, f2}
MCTriggers == {drift}

MCDirs == {"root", "api"}
parent == [d \in MCDirs |-> "root"]
Lesson(id, rule, evidence, scope, flaws) ==
  [id |-> id, rule |-> rule, evidence |-> evidence, verification |-> "seen", scope |-> scope,
   flaws |-> flaws]
X(rule, e, scope) == Lesson("x", rule, {e}, scope, {})
MCInputs ==
  {<<X(r, "e1", d)>> : r \in {"line", "lines"}, d \in MCDirs}
  \cup {<<X("line", e, "root")>> : e \in {"e2", "e lines"}}
  \cup {<<X("line", "e1", "api"), X("lines", "e2", "root"), Lesson("y", "line", {"e1"}, "root", {})>>,
        <<X("line", "e1", "gone"), Lesson("y", "$&", {"e2"}, "api", {})>>,
        <<Lesson("x", "line", {"e1"}, "root", {"unverified", "secret"})>>,
        <<X("line", "e1", "api"), Lesson("y", "line", {"e1"}, "api", {}),
          Lesson("z", "line", {"e1"}, "root", {})>>}

Key(name, blanks) == [name |-> name, blanks |-> blanks]
MCJobs ==
  {[key |-> k, fields |-> Required] :
     k \in {Key("daily", FALSE), Key("daily", TRUE), Key("weekly", FALSE), Key("unsafe", FALSE)}}
  \cup {[key |-> Key("daily", FALSE), fields |-> Required \ {f}] : f \in {"dedup", "perRunCap"}}

VARIABLE focus
allVars == <<focus, vars, runVars, learnVars, jobVars>>

MCInit ==
  /\ focus \in {"commands", "budget", "learn", "job"}
  /\ Init /\ LearnInit /\ JobInit
  /\ RunInit /\ (focus = "commands" \/ planFile = planA)

MCNext ==
  /\ UNCHANGED focus
  /\ \/ focus = "commands" /\ RunNext /\ UNCHANGED <<vars, learnVars, jobVars>>
     \/ focus = "budget" /\ Next /\ UNCHANGED <<runVars, learnVars, jobVars>>
     \/ focus = "learn" /\ LearnNext /\ UNCHANGED <<vars, runVars, jobVars>>
     \/ focus = "job" /\ JobNext /\ UNCHANGED <<vars, runVars, learnVars>>

MCSpec == MCInit /\ [][MCNext]_allVars

\* The router alone, and the commands alone.
LearnSpec == MCInit /\ focus = "learn" /\ [][MCNext]_allVars
CommandSpec == MCInit /\ focus = "commands" /\ [][MCNext]_allVars
=============================================================================
