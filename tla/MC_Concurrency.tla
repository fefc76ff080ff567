--------------------------- MODULE MC_Concurrency ---------------------------
(***************************************************************************)
(* The parts where several processes or async functions are under way at   *)
(* once.  They share no state, so a behaviour follows one of them, and the *)
(* others stay where they have nothing to do:                              *)
(*  - "lock": two callers, one of which may die, two updates each;         *)
(*  - "task": one codex task, whose child may leave one descendant;        *)
(*  - "watch": two pollers, one of which may die, up to two polls;         *)
(*  - "workflow": two tasks of one layer behind one slot of each kind, one *)
(*    fix round, two launches; status writes of one task and of the review *)
(*    may be lost;                                                         *)
(*  - "review": two lenses over one place.                                 *)
(***************************************************************************)
EXTENDS CheckpointLock, CodexExecutor, WatchState, PipelineWorkflow, ReviewWorkflow

CONSTANTS a, b, t1, t2

MCProc == {a, b}
MCMortal == {a}
MCLayers == << <<t1, t2>> >>
MCDependsOn == [t \in {t1, t2} |-> {}]
MCReports == [p \in PhaseKeys |-> IF p = "review" THEN {{}, {"scopedNote", "note"}} ELSE {{}}]
MCLossy == {t1, "review"}
MCLenses == <<"correctness", "security">>

VARIABLE focus
allVars == <<focus, vars, execVars, watchVars, flowVars, reviewVars>>

\* A lock nobody will call for.
LockAtRest ==
  /\ lock = Nobody /\ age = 0 /\ doc = 0 /\ written = 0
  /\ pc = [p \in Proc |-> "idle"] /\ tries = [p \in Proc |-> MaxTries]
  /\ left = [p \in Proc |-> 0] /\ seen = [p \in Proc |-> 0]

MCInit ==
  /\ focus \in {"lock", "task", "watch", "workflow", "review"}
  /\ IF focus = "lock" THEN Init ELSE LockAtRest
  /\ ExecInit /\ (focus = "task" \/ output = "absent")
  /\ WatchInit /\ (focus = "watch" \/ watch = NoFile)
  /\ FlowInit /\ ReviewInit

MCNext ==
  /\ UNCHANGED focus
  /\ \/ focus = "lock" /\ Next /\ UNCHANGED <<execVars, watchVars, flowVars, reviewVars>>
     \/ focus = "task" /\ ExecNext /\ UNCHANGED <<vars, watchVars, flowVars, reviewVars>>
     \/ focus = "watch" /\ WatchNext /\ UNCHANGED <<vars, execVars, flowVars, reviewVars>>
     \/ focus = "workflow" /\ FlowNext /\ UNCHANGED <<vars, execVars, watchVars, reviewVars>>
     \/ focus = "review" /\ ReviewNext /\ UNCHANGED <<vars, execVars, watchVars, flowVars>>

MCSpec == MCInit /\ [][MCNext]_allVars /\ Fairness /\ ExecFairness

\* The workflow alone.
WorkflowSpec == (MCInit /\ focus = "workflow") /\ [][MCNext]_allVars
=============================================================================
