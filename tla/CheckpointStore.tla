-------------------------- MODULE CheckpointStore --------------------------
(***************************************************************************)
(* checkpoint-store.mjs: the operations on the document of one run, and    *)
(* what resume and finalize compute from it.                               *)
(*                                                                         *)
(* Every operation reads, changes and writes the document under the lock   *)
(* of CheckpointLock and is one step here.  Time stamps and notes are left *)
(* out.  An intake and a coverage receipt are sequences of ids, so that    *)
(* duplicates can be told; the well-formedness of hashes, titles and       *)
(* sources, which both gates test alike, is one Boolean, and the snapshot  *)
(* path, which only finalize tests, another.  The driver's own gate,       *)
(* convergenceFailures of pipeline-state.mjs, stands beside finalize's.    *)
(***************************************************************************)
EXTENDS Naturals, Sequences, FiniteSets, SequencesExt

CONSTANTS
  Units,         \* unit ids that can be registered
  Unknown,       \* ids named as a dependency and never registered
  UnitStates,    \* of UNIT_STATES, those told apart
  PhaseStates,   \* of PHASE_STATES, those told apart for each phase
  DepLists,      \* unit -> the dependsOn lists it can be given
  Required, Optional,   \* the phases of PHASES
  Others,        \* phase names outside PHASES, which the store takes as well
  RequiredLists, \* lists of phases that --required-phases can name
  Findings,      \* findings with a stable id
  Pipelines,     \* pipeline blocks that can be stamped: intake and receipt
  Absent

ASSUME StoreAssumption ==
  /\ {"pending", "done"} \subseteq UnitStates
  /\ UnitStates \subseteq {"pending", "in_progress", "done", "blocked", "dep_blocked"}
  /\ \A p \in Required \cup Optional \cup Others :
       PhaseStates[p] \subseteq {"pending", "running", "done", "blocked", "skipped"}
  /\ Required \cap Optional = {} /\ (Required \cup Optional) \cap Others = {}
  /\ \A list \in RequiredLists : list \subseteq Required \cup Optional \cup Others
  /\ IsFiniteSet(Units \cup Unknown)
  /\ \A u \in Units : DepLists[u] \subseteq Seq(Units \cup Unknown)
  /\ Absent \notin Pipelines
  /\ \A p \in Pipelines :
       /\ p.path \in BOOLEAN /\ p.intake \in Seq(ToSet(p.intake))
       /\ p.receipt # Absent => \A group \in {"covered", "dropped", "uncovered"} :
                                 p.receipt[group] \in Seq(ToSet(p.receipt[group]))

VARIABLES
  runStatus, units, dependsOn, phases,
  openItems, resolvedItems,
  finalValidation,   \* "green", or "none" when it is absent or red
  requiredPhases, requireValidation,   \* what was given to init
  pipeline,      \* pipeline block, or Absent
  reported       \* history: every finding reported in this run

storeVars == <<runStatus, units, dependsOn, phases, openItems, resolvedItems, finalValidation,
               requiredPhases, requireValidation, pipeline, reported>>

Phases == Required \cup Optional \cup Others
gating == <<requiredPhases, requireValidation>>

StoreInit ==
  /\ runStatus = Absent /\ requiredPhases = {} /\ requireValidation = FALSE
  /\ units = [u \in Units |-> Absent] /\ dependsOn = [u \in Units |-> <<>>]
  /\ phases = [p \in Phases |-> Absent]
  /\ openItems = {} /\ resolvedItems = {} /\ reported = {}
  /\ finalValidation = "none" /\ pipeline = Absent

-----------------------------------------------------------------------------
\* Operations.  All but init need the file to be there.

\* A live checkpoint is refused; any other is replaced by a blank one.
init(initial, required, validated) ==
  /\ runStatus \notin {"running", "needs_attention", "initializing"}
  /\ runStatus' = "running"
  /\ requiredPhases' = required /\ requireValidation' = validated
  /\ units' = [u \in Units |-> IF u \in initial THEN "pending" ELSE Absent]
  /\ dependsOn' = [u \in Units |-> <<>>]
  /\ phases' = [p \in Phases |-> Absent]
  /\ openItems' = {} /\ resolvedItems' = {} /\ reported' = {}
  /\ finalValidation' = "none" /\ pipeline' = Absent

unit(u, to, deps) ==
  /\ runStatus # Absent
  /\ units[u] = "done" => to = "done"
  /\ units' = [units EXCEPT ![u] = to]
  /\ dependsOn' = [dependsOn EXCEPT ![u] = deps]
  /\ UNCHANGED <<runStatus, phases, openItems, resolvedItems, finalValidation, gating, pipeline,
                 reported>>

phase(p, to) ==
  /\ runStatus # Absent
  /\ phases' = [phases EXCEPT ![p] = to]
  /\ UNCHANGED <<runStatus, units, dependsOn, openItems, resolvedItems, finalValidation, gating,
                 pipeline, reported>>

item(f) ==
  /\ runStatus # Absent
  /\ openItems' = openItems \cup {f} /\ reported' = reported \cup {f}
  /\ UNCHANGED <<runStatus, units, dependsOn, phases, resolvedItems, finalValidation, gating,
                 pipeline>>

\* Only a finding that is open moves.
resolve(f) ==
  /\ runStatus # Absent
  /\ openItems' = openItems \ {f}
  /\ resolvedItems' = resolvedItems \cup ({f} \cap openItems)
  /\ UNCHANGED <<runStatus, units, dependsOn, phases, finalValidation, gating, pipeline, reported>>

validation(colour) ==
  /\ runStatus # Absent
  /\ finalValidation' = IF colour = "green" THEN "green" ELSE "none"
  /\ UNCHANGED <<runStatus, units, dependsOn, phases, openItems, resolvedItems, gating, pipeline,
                 reported>>

\* The store records no live children, so a unit in progress is what shows an executor.
executorActive == \E u \in Units : units[u] = "in_progress"

setStatus(to) ==
  /\ runStatus # Absent
  /\ runStatus' = to
  /\ UNCHANGED <<units, dependsOn, phases, openItems, resolvedItems, finalValidation, gating,
                 pipeline, reported>>

\* The statuses the coordinator writes around an operator's decision: approve opens the
\* window for a plan approval, authorize halts a run for an irreversible action, and
\* reads before that that it is done.
statusPrepared == ~executorActive /\ setStatus("prepared")
statusHalted ==
  runStatus = "done" /\ ~executorActive /\ setStatus("awaiting_authorization")
\* A start or a resume stamps "running", a drive that stops short "needs_attention".
statusStamped == \E to \in {"running", "needs_attention"} : setStatus(to)

\* approve stamps the binding of intake and plan into the document.
stampMeta(p) ==
  /\ runStatus # Absent
  /\ pipeline' = p
  /\ UNCHANGED <<runStatus, units, dependsOn, phases, openItems, resolvedItems, finalValidation,
                 gating, reported>>

-----------------------------------------------------------------------------
\* finalize: the end-state facts, all of them, in the document of that moment.
distinct(s) == Cardinality(ToSet(s)) = Len(s)
receiptIds(r) == r.covered \o r.dropped \o r.uncovered
registered == {u \in Units : units[u] # Absent}

\* Mutant: an id in two groups of the receipt goes unnoticed.
scopeCoverageRepeats(r) ==
  /\ r.total >= 1 /\ r.total = Cardinality(ToSet(receiptIds(r)))
  /\ r.errors = 0 /\ r.uncovered = <<>>

\* scopeCoverageProblems finds none.
scopeCovered(r) ==
  /\ r.total >= 1 /\ r.total = Cardinality(ToSet(receiptIds(r)))
  /\ distinct(receiptIds(r))
  /\ r.errors = 0 /\ r.uncovered = <<>>

\* intakeBindingProblems finds none.
intakeBound(p) ==
  /\ p.path /\ p.wellFormed /\ p.intake # <<>> /\ distinct(p.intake)
  /\ ToSet(p.intake) = ToSet(receiptIds(p.receipt))
  /\ p.receipt.total = Cardinality(ToSet(p.intake))

gatesPass ==
  /\ \A u \in registered : units[u] = "done"
  /\ \A p \in Phases : phases[p] # "blocked"
  /\ \A p \in requiredPhases : phases[p] = "done"
  /\ openItems = {}
  /\ pipeline # Absent =>
       pipeline.receipt # Absent /\ intakeBound(pipeline) /\ scopeCovered(pipeline.receipt)
  /\ requireValidation => finalValidation = "green"

finalize(to) == (to = "done" => gatesPass) /\ setStatus(to)

\* The driver's gate, written a second time over the same document.
intakeConverged(p) ==
  /\ p.wellFormed /\ p.intake # <<>> /\ distinct(p.intake)
  /\ p.receipt # Absent
  /\ p.receipt.total >= 1 /\ distinct(receiptIds(p.receipt))
  /\ p.receipt.total = Cardinality(ToSet(receiptIds(p.receipt)))
  /\ p.receipt.total = Cardinality(ToSet(p.intake))
  /\ ToSet(p.intake) = ToSet(receiptIds(p.receipt))
  /\ p.receipt.errors = 0 /\ p.receipt.uncovered = <<>>

\* Mutant: the driver forgets the register of findings.
convergedButItems ==
  /\ \A u \in registered : units[u] = "done"
  /\ \A p \in Required : phases[p] = "done"
  /\ \A p \in Optional : phases[p] \in {"done", "skipped"}
  /\ pipeline # Absent => intakeConverged(pipeline)
  /\ finalValidation = "green"

converged ==
  /\ \A u \in registered : units[u] = "done"
  /\ \A p \in Required : phases[p] = "done"
  /\ \A p \in Optional : phases[p] \in {"done", "skipped"}
  /\ openItems = {}
  /\ pipeline # Absent => intakeConverged(pipeline)
  /\ finalValidation = "green"

-----------------------------------------------------------------------------
\* resume: what to skip, what can run, and the chain root of what cannot.
Ids == Units \cup Unknown

\* The places in the list of d at which something that is not done stands; an id
\* nobody registered misses nothing.
unmet(d) ==
  {k \in IF d \in registered THEN DOMAIN dependsOn[d] ELSE {} :
     LET e == dependsOn[d][k] IN e \notin registered \/ units[e] # "done"}
firstUnmet(d) == dependsOn[d][Min(unmet(d))]

\* The walk stops at an id it has seen, or at one that misses nothing.
chainRoot[seen \in SUBSET Ids] ==
  [root \in Ids |->
     IF root \in seen \/ unmet(root) = {}
       THEN root
       ELSE chainRoot[seen \cup {root}][firstUnmet(root)]]

eligible == {u \in registered : units[u] # "done" /\ unmet(u) = {}}
depBlocked == {u \in registered : units[u] # "done" /\ unmet(u) # {}}

\* Mutant: the first missing dependency is taken for the root.
rootOfFirst(u) == firstUnmet(u)

rootOf(u) == chainRoot[{}][firstUnmet(u)]

-----------------------------------------------------------------------------
Places(id, p) ==
  Cardinality({k \in DOMAIN (p.receipt.covered \o p.receipt.dropped) :
                 (p.receipt.covered \o p.receipt.dropped)[k] = id})

\* A run turns done owing nothing: what it registered is built, every finding ever
\* reported in it was resolved, what it requires is green, and every item of its intake
\* is covered or dropped exactly once by a receipt that names nothing else.
DoneOwesNothing ==
  [][ runStatus' = "done" /\ runStatus # "done" =>
        /\ \A u \in registered : units[u] = "done"
        /\ reported \subseteq resolvedItems \ openItems
        /\ requireValidation => finalValidation = "green"
        /\ \A p \in requiredPhases : phases[p] = "done"
        /\ pipeline # Absent =>
             /\ \A k \in DOMAIN pipeline.intake : Places(pipeline.intake[k], pipeline) = 1
             /\ Len(receiptIds(pipeline.receipt)) = Len(pipeline.intake) ]_storeVars

\* The two copies of the conjunction part in three places and no other.  Of a document
\* that the driver takes for converged, finalize is satisfied exactly when the snapshot's
\* path was stamped, no phase of a name outside PHASES is blocked, and every phase the
\* run requires beyond the required ones of PHASES is done.
GatesAgree ==
  runStatus # Absent /\ converged =>
    (gatesPass <=> /\ pipeline # Absent => pipeline.path
                   /\ \A p \in Others : phases[p] # "blocked"
                   /\ \A p \in requiredPhases \ Required : phases[p] = "done")

\* What the ids in S wait for, and what unit a waits for, directly or not.
waitedFor(S) == {e \in Ids : \E d \in S : \E k \in unmet(d) : e = dependsOn[d][k]}
upstream(a) ==
  {e \in Ids : \A S \in SUBSET Ids :
                waitedFor(S \cup {a}) \subseteq S => e \in S}

\* The root triage is pointed at is undone, upstream of the blocked unit, and a real
\* cause: it waits for nothing itself, or it is on a dependency cycle.
RootIsTheCause ==
  \A u \in depBlocked :
    LET root == rootOf(u)
    IN  /\ root \in upstream(u)
        /\ root \in registered => units[root] # "done"
        /\ unmet(root) = {} \/ root \in upstream(root)
=============================================================================
