------------------------------ MODULE MC_Drive ------------------------------
(***************************************************************************)
(* The two halves of a drive.  They share no state, so a behaviour follows *)
(* one of them:                                                            *)
(*  - "build": two tasks side by side and one that depends on both and     *)
(*    shares a path with the first;                                        *)
(*  - "phases": an optional, a required and the review phase, and the two  *)
(*    of closeout; a required and an optional dimension; two skeptics, of  *)
(*    which one is declared twice and one comes from a dimension.          *)
(***************************************************************************)
EXTENDS BuildEngine, PhaseEngine

CONSTANTS a, b, c, p, q, r, f, g, s1, s2

MCTasks == {a, b, c}
MCPaths == {p, q, r}
MCLayers == <<{a, b}, {c}>>
\* A branch with no earlier run, and one whose earlier run had a task of the same name.
MCHistories == {{}, {a}, {c}}
MCFreshHistories == {{}}
MCWriteScope == [t \in MCTasks |-> CASE t = a -> {p} [] t = b -> {q, r} [] t = c -> {p}]

MCPhaseDefs == <<"simplify", "test", "review", "auto_learn", "auto_map">>
MCOptional == {"simplify"}
MCCloseout == {"auto_learn", "auto_map"}
MCSkipSets == {{}, {"simplify"}, {"review"}}
MCFindings == {f, g}
MCReported == {{}, {g}}
MCDimensions == <<[name |-> "security", required |-> TRUE],
                  [name |-> "style", required |-> FALSE]>>
MCOutputs == {{}, {[finding |-> f, severity |-> "nit"]},
              {[finding |-> f, severity |-> "blocker"], [finding |-> g, severity |-> "nit"]}}
MCVerifierPanel == <<[id |-> s1, origin |-> "none"], [id |-> s2, origin |-> "style"],
                     [id |-> s1, origin |-> "none"]>>

VARIABLE focus
allVars == <<focus, vars, phaseVars>>

PhasesAtRest == skip = {} /\ openItems = {}

MCInit ==
  /\ focus \in {"build", "phases"}
  /\ Init /\ PhaseInit /\ (IF focus = "phases" THEN earlier = {} ELSE PhasesAtRest)

MCNext ==
  /\ UNCHANGED focus
  /\ \/ focus = "build" /\ Next /\ UNCHANGED phaseVars
     \/ focus = "phases" /\ PhaseNext /\ UNCHANGED vars

MCSpec == MCInit /\ [][MCNext]_allVars

\* The build alone.
BuildSpec == MCInit /\ focus = "build" /\ [][MCNext]_allVars
=============================================================================
