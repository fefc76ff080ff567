------------------------------ MODULE PlanGate ------------------------------
(***************************************************************************)
(* A plan between its author and the build.  validate-plan.mjs judges it   *)
(* when it is written; approve and preflight of pipeline-engine.mjs judge  *)
(* it again, with a second coding of the scope rules, and bind it to the   *)
(* intake snapshot.  Plan and intake may be edited at any time in between. *)
(*                                                                         *)
(* A task's remaining fields (title, command, acceptance) are whether they *)
(* are all there and well formed; advisories and the rendering are left    *)
(* out.                                                                    *)
(***************************************************************************)
EXTENDS IntakeScope, WriteScopes

CONSTANTS Plans,         \* plans the run may begin with
          Edits,         \* plans an author may write over it
          ChangedPaths,  \* paths a task may turn out to have changed
          MaxPlans       \* bound: times the plan is written over

ASSUME PlanAssumption ==
  /\ Edits \subseteq Plans /\ MaxPlans \in Nat /\ ChangedPaths \subseteq Seq(STRING)
  /\ \A pl \in Plans :
       /\ pl.selectedScope \in Seq(ItemsOf(pl.selectedScope))
       /\ \A i \in 1..Len(pl.tasks) : pl.tasks[i].writeScope \subseteq Seq(STRING)

(* An entry of scopeItems is an id, or another value whose text is one,    *)
(* such as a list of one id.  dependsOn holds ids; complete is every field *)
(* the shape and the executable hardening ask for.                         *)
Named(id) == [text |-> id, string |-> TRUE]
InAList(id) == [text |-> id, string |-> FALSE]
Task(id, form, items, needs, writes) ==
  [id |-> id, form |-> form, declares |-> TRUE, scopeItems |-> items,
   dependsOn |-> needs, writeScope |-> writes, complete |-> TRUE]
Plan(tasks, layers, scope, drops) ==
  [executable |-> TRUE, tasks |-> tasks, layers |-> layers,
   selectedScope |-> scope, scopeDrops |-> drops]
Drop(id, reason, ack) == [scopeId |-> id, reason |-> reason, acknowledged |-> ack]

VARIABLES plan,     \* the plan file
          written,  \* times it was written over
          meta,     \* what approve bound: the plan, the snapshot, the receipt
          started   \* what a start or resume went on with

planVars == <<plan, written, meta, started>>
gateVars == <<intakeVars, planVars>>

-----------------------------------------------------------------------------
TaskIds(pl) == {pl.tasks[i].id : i \in 1..Len(pl.tasks)}
(* String(raw): validator and engine go by the text of an entry.           *)
Mapped(pl) == UNION {{t.scopeItems[k].text : k \in 1..Len(t.scopeItems)} :
                       t \in {pl.tasks[i] : i \in 1..Len(pl.tasks)}}
acknowledgedDrop(d) == d.reason /\ d.acknowledged
Dropped(pl) == {d.scopeId : d \in {x \in {pl.scopeDrops[i] : i \in 1..Len(pl.scopeDrops)} :
                                     acknowledgedDrop(x)}}

(* No owner names an item twice, also when two tasks have one id.          *)
RepeatedOwner(pl) ==
  \E i, j \in 1..Len(pl.tasks) : \E k \in 1..Len(pl.tasks[i].scopeItems) :
    \E l \in 1..Len(pl.tasks[j].scopeItems) :
      /\ <<i, k>> # <<j, l>> /\ pl.tasks[i].id = pl.tasks[j].id
      /\ pl.tasks[i].scopeItems[k].text = pl.tasks[j].scopeItems[l].text
DropsInOrder(pl, authority) ==
  /\ \A i \in 1..Len(pl.scopeDrops) :
       pl.scopeDrops[i].scopeId \in authority /\ acknowledgedDrop(pl.scopeDrops[i])
  /\ \A i, j \in 1..Len(pl.scopeDrops) :
       pl.scopeDrops[i].scopeId = pl.scopeDrops[j].scopeId => i = j

(* SAFE_ID of validate-plan bars the dot and sets no length.               *)
PlanSafeId(entry) == entry.form \in {"plain", "long"}

(* validate-plan, 6: the intake is the authority if it is given, and an    *)
(* executable plan must give it.                                           *)
planScopeIsSafe(pl, intake) ==
  LET given == intake # <<>>
      authority == IdsOf(IF given THEN intake ELSE pl.selectedScope)
      s == pl.selectedScope
  IN /\ pl.executable => given /\ s # <<>>
     /\ given => exactPlan(s, intake)
     /\ \A i \in 1..Len(s) : PlanSafeId(s[i]) /\ s[i].text # ""
     /\ Cardinality(IdsOf(s)) = Len(s)
     /\ \A i \in 1..Len(pl.tasks) : pl.executable => pl.tasks[i].declares
     /\ Mapped(pl) \subseteq authority /\ ~RepeatedOwner(pl)
     /\ DropsInOrder(pl, authority)
     /\ Mapped(pl) \cap Dropped(pl) = {}
     /\ authority \subseteq Mapped(pl) \cup Dropped(pl)

(* The second coding: errors and uncovered of the engine.                  *)
\* Mutant: the plan's own declaration is the authority.
coverageOfItself(pl, intake) ==
  LET authority == IdsOf(pl.selectedScope)
  IN [covered |-> authority \cap Mapped(pl), dropped |-> authority \cap Dropped(pl),
      uncovered |-> authority \ (Mapped(pl) \cup Dropped(pl)),
      ok |-> pl.selectedScope # <<>> /\ Mapped(pl) \subseteq authority]
selectedScopeCoverage(pl, intake) ==
  LET authority == IdsOf(intake)
      s == pl.selectedScope
  IN [covered |-> authority \cap Mapped(pl),
      dropped |-> (authority \cap Dropped(pl)) \ Mapped(pl),
      uncovered |-> authority \ (Mapped(pl) \cup Dropped(pl)),
      ok |-> /\ s # <<>> /\ \A i \in 1..Len(s) : SafeId(s[i]) /\ s[i].text # ""
             /\ exactPlan(s, intake)
             /\ \A i \in 1..Len(pl.tasks) : pl.tasks[i].declares
             /\ Mapped(pl) \subseteq authority /\ ~RepeatedOwner(pl)
             /\ DropsInOrder(pl, authority)
             /\ Mapped(pl) \cap Dropped(pl) = {}]
coverageHolds(c) == c.ok /\ c.uncovered = {}

(* The third coding, of the legacy workflow, finds no scopeErrors. It gets *)
(* the snapshot as an argument, measures coverage by the plan's own ids,   *)
(* and looks for the value of an entry, where no list is an id; a task     *)
(* that names one item twice is an error, two tasks of one id are not.     *)
NamesOnce(items) == \A k, l \in 1..Len(items) : items[k].text = items[l].text => k = l
scopeErrorsNone(pl, intake) ==
  LET s == pl.selectedScope
      ids == IdsOf(s)
      mapped == Mapped(pl) \cap ids
      found(id) == s[CHOOSE i \in 1..Len(s) : s[i].id = id /\ \A j \in 1..(i - 1) : s[j].id # id]
  IN /\ intake # <<>> /\ Cardinality(IdsOf(intake)) = Len(intake)
     /\ s # <<>> /\ Cardinality(ids) = Len(s)
     /\ \A i \in 1..Len(s) : SafeId(s[i]) /\ s[i].text # ""
     /\ \A i \in 1..Len(intake) : intake[i].id \in ids /\ found(intake[i].id) = intake[i]
     /\ ids \subseteq IdsOf(intake)
     /\ \A i \in 1..Len(pl.tasks) :
          /\ pl.tasks[i].declares /\ NamesOnce(pl.tasks[i].scopeItems)
          /\ \A k \in 1..Len(pl.tasks[i].scopeItems) :
               pl.tasks[i].scopeItems[k].string /\ pl.tasks[i].scopeItems[k].text \in ids
     /\ DropsInOrder(pl, ids)
     /\ \A id \in ids : id \in mapped <=> id \notin Dropped(pl)

-----------------------------------------------------------------------------
(* validate-plan, 1: every task once, whole, and in exactly one layer.     *)
LayerOf(pl, id) == CHOOSE i \in 1..Len(pl.layers) :
                     \E k \in 1..Len(pl.layers[i]) : pl.layers[i][k] = id
Layered(pl, id) == \E i \in 1..Len(pl.layers) : \E k \in 1..Len(pl.layers[i]) :
                     pl.layers[i][k] = id
shapeHolds(pl) ==
  /\ pl.tasks # <<>> /\ pl.layers # <<>>
  /\ \A i \in 1..Len(pl.tasks) :
       /\ pl.tasks[i].complete /\ pl.tasks[i].writeScope # {}
       /\ pl.executable => PlanSafeId(pl.tasks[i])
       /\ Layered(pl, pl.tasks[i].id)
       /\ \A j \in 1..Len(pl.tasks) : pl.tasks[i].id = pl.tasks[j].id => i = j
  /\ \A i, j \in 1..Len(pl.layers) :
       \A k \in 1..Len(pl.layers[i]), l \in 1..Len(pl.layers[j]) :
         /\ pl.layers[i][k] \in TaskIds(pl)
         /\ pl.layers[i][k] = pl.layers[j][l] => i = j /\ k = l

(* 2: dependencies exist, and the search finds no cycle: no set of tasks   *)
(* each of which needs another of the set.                                 *)
acyclic(pl) ==
  /\ \A i \in 1..Len(pl.tasks) : pl.tasks[i].dependsOn \subseteq TaskIds(pl)
  /\ \A S \in (SUBSET (1..Len(pl.tasks))) \ {{}} :
       \E i \in S : \A j \in S : pl.tasks[j].id \notin pl.tasks[i].dependsOn

(* 3: a task comes strictly after what it depends on.                      *)
topological(pl) ==
  \A i \in 1..Len(pl.tasks) : \A d \in pl.tasks[i].dependsOn :
    Layered(pl, pl.tasks[i].id) /\ Layered(pl, d)
      => LayerOf(pl, d) < LayerOf(pl, pl.tasks[i].id)

SideBySide(pl, i, j) ==
  i # j /\ \E n \in 1..Len(pl.layers) : \E k, l \in 1..Len(pl.layers[n]) :
            pl.layers[n][k] = pl.tasks[i].id /\ pl.layers[n][l] = pl.tasks[j].id

(* 4: tasks of one layer write apart; 5: no task writes in many places.    *)
disjointScopes(pl) ==
  \A i, j \in 1..Len(pl.tasks) : SideBySide(pl, i, j) =>
    \A a \in pl.tasks[i].writeScope, b \in pl.tasks[j].writeScope : ~overlaps(a, b)
atomic(pl) == \A i \in 1..Len(pl.tasks) : Cardinality(pl.tasks[i].writeScope) <= 3

noProblems(pl, intake) == /\ planScopeIsSafe(pl, intake) /\ shapeHolds(pl)
                          /\ acyclic(pl) /\ topological(pl)
                          /\ disjointScopes(pl) /\ atomic(pl)

-----------------------------------------------------------------------------
PlanInit == /\ IntakeInit
            /\ plan \in Plans /\ written = 0 /\ meta = {} /\ started = {}

author(pl) == /\ written < MaxPlans /\ plan' = pl /\ written' = written + 1
              /\ UNCHANGED <<intakeVars, meta, started>>

(* The intake is read before anything is written; what the run records is  *)
(* plan, snapshot and receipt.  A second approve is in PipelineEngine.     *)
approve ==
  /\ meta = {} /\ readable(intakeFile)
  /\ LET receipt == selectedScopeCoverage(plan, intakeFile.items)
     IN /\ coverageHolds(receipt)
        /\ meta' = {[plan |-> plan, snapshot |-> intakeFile.items, receipt |-> receipt]}
  /\ UNCHANGED <<intakeVars, plan, written, started>>

(* preflight of start and resume: plan, file and meaning are what was      *)
(* approved, and the receipt is what the live pair still gives.            *)
\* Mutant: only the plan is compared with what was approved.
preflightOfPlan(m) == plan = m.plan
preflight(m) ==
  /\ plan = m.plan /\ readable(intakeFile) /\ intakeFile.items = m.snapshot
  /\ coverageHolds(selectedScopeCoverage(plan, intakeFile.items))
  /\ selectedScopeCoverage(plan, intakeFile.items) = m.receipt
drive == \E m \in meta :
           /\ preflight(m)
           /\ started' = started \cup {[plan |-> plan, snapshot |-> intakeFile.items]}
           /\ UNCHANGED <<intakeVars, plan, written, meta>>

PlanNext == \/ IntakeNext /\ UNCHANGED planVars
            \/ (\E pl \in Edits : author(pl)) \/ approve \/ drive
PlanSpec == PlanInit /\ [][PlanNext]_gateVars

-----------------------------------------------------------------------------
OneTaskEach(pl) == \A i, j \in 1..Len(pl.tasks) : pl.tasks[i].id = pl.tasks[j].id => i = j
AllNamed(pl) == \A i \in 1..Len(pl.tasks) : \A k \in 1..Len(pl.tasks[i].scopeItems) :
                  pl.tasks[i].scopeItems[k].string
HasIds(pl, form) == \E entry \in ItemsOf(pl.selectedScope) : entry.form = form

(* The three codings of the scope rules judge alike where they read the    *)
(* same snapshot, but for what their tests of ids and entries tell apart.  *)
(* A plan the author saw pass is approved, unless it declares an extra id  *)
(* of more than 128 characters; what is approved would have passed, unless *)
(* an id has a dot.  What the workflow builds approve takes too, unless    *)
(* two tasks have one id (which the validator stops by the plan's shape);  *)
(* and what is approved the workflow builds, unless a task maps an item by *)
(* something other than a string.                                          *)
ScopeGatesAgree ==
  plan.executable /\ readable(intakeFile)
  => LET validated == planScopeIsSafe(plan, intakeFile.items)
         approved == coverageHolds(selectedScopeCoverage(plan, intakeFile.items))
         built == scopeErrorsNone(plan, intakeFile.items)
     IN /\ validated => approved \/ HasIds(plan, "long")
        /\ approved => validated \/ HasIds(plan, "dotted")
        /\ built => approved \/ ~OneTaskEach(plan)
        /\ approved => built \/ ~AllNamed(plan)

(* Whatever runs accounts for every item the user selected, each by a task *)
(* or by a drop the user acknowledged for that item, and runs as it was    *)
(* approved, however plan and intake were edited in between.               *)
ScopeNeverShrinks ==
  \A s \in started :
    /\ ItemsOf(s.plan.selectedScope) = ItemsOf(s.snapshot)
    /\ IdsOf(s.snapshot) = Mapped(s.plan) \cup Dropped(s.plan)
    /\ \A m \in meta : s = [plan |-> m.plan, snapshot |-> m.snapshot]

(* A plan without problems gives the build what it takes for granted: a    *)
(* task comes after all it needs, and no path a task may have changed      *)
(* belongs to two tasks that run side by side.                             *)
SafeToBuild ==
  \A intake \in {<<>>, intakeFile.items} :
    noProblems(plan, intake) =>
      \A i, j \in 1..Len(plan.tasks) :
        /\ plan.tasks[j].id \in plan.tasks[i].dependsOn
             => LayerOf(plan, plan.tasks[j].id) < LayerOf(plan, plan.tasks[i].id)
        /\ SideBySide(plan, i, j) =>
             \A p \in ChangedPaths : ~(/\ inScope(p, plan.tasks[i].writeScope)
                                       /\ inScope(p, plan.tasks[j].writeScope))
=============================================================================
