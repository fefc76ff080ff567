---------------------------- MODULE PipelineState ----------------------------
(***************************************************************************)
(* The lifecycle of pipeline-state.mjs: the legal transitions of a phase,  *)
(* the gates between phases, and which phases a run may enter now.  The    *)
(* module is the single source of truth for legality and resume selection, *)
(* so it is driven here by a coordinator that does exactly what it allows: *)
(* it enters runnable phases, ends them well or badly, and skips optional  *)
(* ones.  A crash leaves a phase running, which changes nothing on disk.   *)
(***************************************************************************)
EXTENDS Naturals, Sequences, FiniteSets, SequencesExt

CONSTANT PhaseDefs   \* names of the phases in execution order, each with its two marks

Phase(name, optional, closeout) == [name |-> name, optional |-> optional, closeout |-> closeout]

States == {"pending", "running", "done", "blocked", "skipped"}
TerminalStates == {"done", "skipped"}
Transitions == [pending |-> {"running", "skipped"}, running |-> {"done", "blocked"},
                blocked |-> {"running"}, done |-> {}, skipped |-> {}]

Indices == DOMAIN PhaseDefs
Closeout == {i \in Indices : PhaseDefs[i].closeout}
Optional == {i \in Indices : PhaseDefs[i].optional}

VARIABLE phaseState   \* index of a phase -> its state

StateInit == phaseState = [i \in Indices |-> "pending"]

-----------------------------------------------------------------------------
\* isLegalTransition and applyTransition: only an optional phase is skipped.
isLegalTransition(from, to, optional) ==
  to \in Transitions[from] /\ (to = "skipped" => optional)

\* Optional phases never gate, and closeout is gated by closeout only.
requiredUpstream(i) == {j \in Indices : /\ j < i /\ j \notin Optional
                                        /\ i \in Closeout => j \in Closeout}
requiredUpstreamCleared(i) == \A j \in requiredUpstream(i) : phaseState[j] = "done"

\* Closeout waits until every ordinary phase has reached a boundary.
settled(j) == phaseState[j] \in {"done", "skipped", "blocked"}
isPhaseRunnable(i) ==
  /\ phaseState[i] \notin TerminalStates
  /\ i \in Closeout => \A j \in Indices : j < i /\ j \notin Closeout => settled(j)
  /\ requiredUpstreamCleared(i)
runnablePhases == {i \in Indices : isPhaseRunnable(i)}

-----------------------------------------------------------------------------
applyTransition(i, to) ==
  /\ isLegalTransition(phaseState[i], to, i \in Optional)
  /\ to \in {"running", "done", "blocked"} => i \in runnablePhases
  /\ phaseState' = [phaseState EXCEPT ![i] = to]

StateNext == \E i \in Indices, to \in States : applyTransition(i, to)

-----------------------------------------------------------------------------
\* What the comment on closeout says: it is independent of ordinary success and must
\* run after a bumpy pass, that is, once nothing but re-entering what is blocked is left.
OrdinaryPassOver ==
  \A i \in runnablePhases \ Closeout : phaseState[i] = "blocked"
CloseoutRunsAfterBumpyPass ==
  OrdinaryPassOver /\ (\E i \in Closeout : phaseState[i] # "done")
    => runnablePhases \cap Closeout # {}
=============================================================================
