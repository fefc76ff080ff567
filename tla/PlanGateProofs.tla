--------------------------- MODULE PlanGateProofs ---------------------------
(***************************************************************************)
(* What stands between the user and the build, for any items, plans and    *)
(* jobs: the intake that is written once, the gates that hold a plan       *)
(* against it, the registry of recurring jobs, and the answers of the      *)
(* command line.                                                           *)
(***************************************************************************)
EXTENDS PlanGate, RecurringJob, PipelineCli, RecursionLemmas, WellFoundedInduction, FiniteSetTheorems, TLAPS

(***************************************************************************)
(* The intake for any number of captures, drafts, deaths and power         *)
(* failures: while the file is not edited, whoever is past its link finds  *)
(* it there, and whoever is past its sync finds it durable.                *)
(***************************************************************************)

Kept == /\ intakeFile.state \in {"missing", "readable"}
        /\ durable => intakeFile.state = "readable"
        /\ \A c \in Capturers : /\ at[c] \in {"sync", "readback"} => intakeFile.state = "readable"
                                /\ at[c] = "readback" => durable
        /\ captured # {} => captured = {intakeFile.items} /\ durable

CaptureInv == /\ at = [c \in Capturers |-> at[c]]
              /\ dirFsync /\ ~edited => Kept

LEMMA CaptureInit == IntakeInit => CaptureInv
BY DEF IntakeInit, CaptureInv, Kept, Missing

LEMMA CaptureNext == CaptureInv /\ [IntakeNext]_intakeVars => CaptureInv'
<1> SUFFICES ASSUME CaptureInv, [IntakeNext]_intakeVars PROVE CaptureInv'
  OBVIOUS
<1> USE DEF CaptureInv, Kept, goes, Missing, Regular
<1>1. ASSUME NEW c \in Capturers, NEW d \in Drafts, captureIntakeSnapshot(c, d)
      PROVE  CaptureInv'
  BY <1>1 DEF captureIntakeSnapshot
<1>2. ASSUME NEW c \in Capturers, linkSync(c) PROVE CaptureInv'
  <2>1. CASE intakeFile.state = "missing"
    BY <1>2, <2>1 DEF linkSync
  <2>2. CASE intakeFile.state # "missing"
    BY <1>2, <2>2 DEF linkSync
  <2> QED BY <2>1, <2>2
<1>3. ASSUME NEW c \in Capturers, fsyncDir(c) PROVE CaptureInv'
  BY <1>3 DEF fsyncDir
<1>4. ASSUME NEW c \in Capturers, readBack(c) PROVE CaptureInv'
  BY <1>4 DEF readBack
<1>5. ASSUME NEW c \in Capturers, dieCapturing(c) PROVE CaptureInv'
  BY <1>5 DEF dieCapturing
<1>6. CASE powerFailure
  BY <1>6 DEF powerFailure
<1>7. CASE editIntake
  BY <1>7 DEF editIntake
<1>8. CASE UNCHANGED intakeVars
  BY <1>8 DEF intakeVars
<1> QED BY <1>1, <1>2, <1>3, <1>4, <1>5, <1>6, <1>7, <1>8 DEF IntakeNext, capture

\* Every capture that was answered was answered with the one snapshot on disk,
\* whoever races, dies or loses power, on a platform that syncs directories.
THEOREM IntakeIsWrittenOnce == IntakeSpec => []CapturedOnce
<1>1. CaptureInv => CapturedOnce
  BY DEF CaptureInv, Kept, CapturedOnce
<1> QED BY <1>1, CaptureInit, CaptureNext, PTL DEF IntakeSpec

-----------------------------------------------------------------------------
(***************************************************************************)
(* What the validator promises the build, for any plans, intakes and       *)
(* paths.  Two entries that grant one path are prefixes of one sequence,   *)
(* so one of them is a prefix of the other and the validator sees them     *)
(* overlap, although it never looks at a path.                             *)
(***************************************************************************)

\* What can stand between two slashes.
Names == STRING \cup {""}

\* A set of positions that is not empty has a last one.
LEMMA LastPosition ==
  ASSUME NEW L \in Nat, NEW N, N \subseteq 1..L, N # {}
  PROVE  \E i \in N : \A j \in (i + 1)..L : j \in 1..L /\ j \notin N
<1> DEFINE back == {n \in 0..L : \E i \in N : n + i = L}
           less == {ss \in Nat \X Nat : ss[1] < ss[2]}
<1>1. back \subseteq Nat /\ back # {}
  <2> PICK i \in N : TRUE
    OBVIOUS
  <2> PICK n \in 0..L : n + i = L
    OBVIOUS
  <2> QED OBVIOUS
<1>2. IsWellFoundedOn(less, Nat)
  BY NatLessThanWellFounded DEF OpToRel
<1>3. PICK n \in back : \A m \in back : ~ (<<m, n>> \in less)
  <2> HIDE DEF less, back
  <2> QED BY <1>1, <1>2, WFMin
<1>4. \A m \in back : ~ (m < n)
  BY <1>1, <1>3
<1> PICK i \in N : n + i = L
  OBVIOUS
<1>5. ASSUME NEW j \in (i + 1)..L, j \in N PROVE FALSE
  <2> PICK m \in 0..L : m + j = L
    BY <1>5
  <2>1. m \in back
    BY <1>5
  <2> QED BY <1>4, <1>5, <2>1
<1> QED BY <1>5

LEMMA LengthIsNatural == ASSUME NEW S, NEW s \in Seq(S) PROVE Len(s) \in Nat
OBVIOUS

LEMMA TailIsSequence ==
  ASSUME NEW S, NEW s \in Seq(S), Len(s) > 1 PROVE Tail(s) \in Seq(S)
OBVIOUS

LEMMA PrefixIsSequence ==
  ASSUME NEW S, NEW s \in Seq(S), NEW n \in 1..Len(s) PROVE SubSeq(s, 1, n) \in Seq(S)
OBVIOUS

LEMMA WiderSequence ==
  ASSUME NEW S, NEW T, S \subseteq T, NEW s \in Seq(S) PROVE s \in Seq(T)
OBVIOUS

LEMMA Singleton == ASSUME NEW S, NEW x \in S PROVE <<x>> \in Seq(S)
OBVIOUS

\* A sequence with a name in it has a last one.
LEMMA LastName ==
  ASSUME NEW s \in Seq(Names), \E i \in 1..Len(s) : s[i] # ""
  PROVE  (CHOOSE i \in lastName(s) : TRUE) \in 1..Len(s)
<1> DEFINE names == {i \in 1..Len(s) : s[i] # ""}
<1>1. names \subseteq 1..Len(s) /\ names # {}
  BY Zenon
<1>2. Len(s) \in Nat
  BY Zenon, LengthIsNatural
<1>3. PICK i \in names : \A j \in (i + 1)..Len(s) : j \in 1..Len(s) /\ j \notin names
  <2> HIDE DEF names
  <2> QED BY Zenon, <1>1, <1>2, LastPosition
<1>4. i \in lastName(s)
  BY Zenon, <1>3 DEF lastName
<1> QED BY Zenon, <1>4 DEF lastName

LEMMA Trailing == ASSUME NEW t \in Seq(Names) PROVE trailing(t) \in Seq(Names)
<1>1. CASE \E i \in 1..Len(t) : t[i] # ""
  <2> DEFINE n == CHOOSE i \in lastName(t) : TRUE
  <2>1. n \in 1..Len(t)
    BY <1>1, LastName
  <2>2. trailing(t) = SubSeq(t, 1, n)
    BY Zenon, <1>1 DEF trailing
  <2> HIDE DEF n
  <2> QED BY Zenon, <2>1, <2>2, PrefixIsSequence
<1>2. CASE ~ \E i \in 1..Len(t) : t[i] # ""
  <2>1. trailing(t) = <<"">>
    BY Zenon, <1>2 DEF trailing
  <2> QED BY Zenon, <2>1, Singleton DEF Names
<1> QED BY <1>1, <1>2

LEMMA Normalized == ASSUME NEW s \in Seq(Names) PROVE normalizeRel(s) \in Seq(Names)
<1>1. leadingDot(s) \in Seq(Names)
  BY Zenon, TailIsSequence DEF leadingDot
<1> QED BY <1>1, Trailing DEF normalizeRel

\* Two prefixes of one sequence are comparable.
LEMMA PrefixesCompare ==
  ASSUME NEW x \in Seq(Names), NEW s \in Seq(Names), NEW t \in Seq(Names),
         StartsWith(x, s), StartsWith(x, t)
  PROVE  StartsWith(s, t) \/ StartsWith(t, s)
BY DEF StartsWith

\* What two entries both grant makes them overlap.
LEMMA GrantedOverlaps ==
  ASSUME NEW p \in Seq(Names), NEW a \in Seq(Names), NEW b \in Seq(Names),
         granted(p, a), granted(p, b)
  PROVE  overlaps(a, b)
BY Normalized, PrefixesCompare DEF granted, overlaps

\* What a task may count on in a plan without problems, whatever the intake.
SafePlan(pl) == \A i, j \in 1..Len(pl.tasks) :
  /\ pl.tasks[j].id \in pl.tasks[i].dependsOn
       => LayerOf(pl, pl.tasks[j].id) < LayerOf(pl, pl.tasks[i].id)
  /\ SideBySide(pl, i, j) =>
       \A p \in ChangedPaths : ~(/\ inScope(p, pl.tasks[i].writeScope)
                                 /\ inScope(p, pl.tasks[j].writeScope))

LEMMA NoProblemsIsSafe ==
  ASSUME NEW pl \in Plans, NEW intake, noProblems(pl, intake)
  PROVE  SafePlan(pl)
<1> SUFFICES ASSUME NEW i \in 1..Len(pl.tasks), NEW j \in 1..Len(pl.tasks)
             PROVE  /\ pl.tasks[j].id \in pl.tasks[i].dependsOn
                         => LayerOf(pl, pl.tasks[j].id) < LayerOf(pl, pl.tasks[i].id)
                    /\ SideBySide(pl, i, j) =>
                         \A p \in ChangedPaths : ~(/\ inScope(p, pl.tasks[i].writeScope)
                                                   /\ inScope(p, pl.tasks[j].writeScope))
  BY DEF SafePlan
<1>1. ASSUME pl.tasks[j].id \in pl.tasks[i].dependsOn
      PROVE  LayerOf(pl, pl.tasks[j].id) < LayerOf(pl, pl.tasks[i].id)
  <2>1. Layered(pl, pl.tasks[i].id) /\ Layered(pl, pl.tasks[j].id)
    BY DEF noProblems, shapeHolds
  <2> QED BY <1>1, <2>1 DEF noProblems, topological
<1>2. ASSUME SideBySide(pl, i, j), NEW p \in ChangedPaths,
             inScope(p, pl.tasks[i].writeScope), inScope(p, pl.tasks[j].writeScope)
      PROVE  FALSE
  <2> PICK a \in pl.tasks[i].writeScope : granted(p, a)
    BY <1>2 DEF inScope
  <2> PICK b \in pl.tasks[j].writeScope : granted(p, b)
    BY <1>2 DEF inScope
  <2>1. p \in Seq(Names) /\ a \in Seq(Names) /\ b \in Seq(Names)
    <3>1. p \in Seq(STRING) /\ a \in Seq(STRING) /\ b \in Seq(STRING)
      BY PlanAssumption
    <3>2. STRING \subseteq Names
      BY DEF Names
    <3> QED BY Zenon, <3>1, <3>2, WiderSequence
  <2>2. overlaps(a, b)
    BY <2>1, GrantedOverlaps
  <2>3. ~ overlaps(a, b)
    BY <1>2 DEF noProblems, disjointScopes
  <2> QED BY <2>2, <2>3
<1> QED BY <1>1, <1>2

PlanInv == plan \in Plans

LEMMA PlansStay == PlanInv /\ [PlanNext]_gateVars => PlanInv'
BY PlanAssumption DEF PlanInv, PlanNext, planVars, gateVars, author, approve, drive

\* In every plan without problems a task comes after all it needs, and no changed
\* path belongs to two tasks of one layer, however both are spelt.
THEOREM ValidPlansAreSafe == PlanSpec => []SafeToBuild
<1>1. PlanInit => PlanInv
  BY DEF PlanInit, PlanInv
<1>2. PlanInv => SafeToBuild
  BY NoProblemsIsSafe DEF PlanInv, SafeToBuild, SafePlan
<1> QED BY <1>1, <1>2, PlansStay, PTL DEF PlanSpec

-----------------------------------------------------------------------------
(***************************************************************************)
(* The scope of a plan against the intake.  With safe ids, exact means the *)
(* same items and no id twice, and on that the three codings meet.         *)
(***************************************************************************)

IdsApart(items) == \A i, j \in 1..Len(items) : items[i].id = items[j].id => i = j

LEMMA CountedIdsAreApart ==
  ASSUME NEW items, items \in Seq(ItemsOf(items))
  PROVE  Cardinality(IdsOf(items)) = Len(items) <=> IdsApart(items)
<1> DEFINE n == Len(items)
           f == [i \in 1..n |-> items[i].id]
<1>1. n \in Nat
  BY LengthIsNatural
<1>2. f \in Surjection(1..n, IdsOf(items))
  BY DEF Surjection, IdsOf
<1>3. IsFiniteSet(1..n) /\ Cardinality(1..n) = n
  <2> HIDE DEF n
  <2>1. IsFiniteSet(1..n) /\ Cardinality(1..n) = IF 1 > n THEN 0 ELSE n - 1 + 1
    BY <1>1, FS_Interval
  <2> QED BY <1>1, <2>1
<1>4. Cardinality(IdsOf(items)) = n <=> f \in Injection(1..n, IdsOf(items))
  <2> HIDE DEF f, n
  <2> QED BY <1>2, <1>3, FS_Surjection
<1>5. f \in Injection(1..n, IdsOf(items)) <=> IdsApart(items)
  <2>1. f \in [1..n -> IdsOf(items)]
    BY DEF IdsOf
  <2>2. \A i \in 1..n : f[i] = items[i].id
    OBVIOUS
  <2> HIDE DEF f
  <2> QED BY <2>1, <2>2 DEF Injection, IsInjective, IdsApart
<1> QED BY <1>4, <1>5

\* What exactPlan finds, one list of findings at a time.
LEMMA ExactIsTheSame ==
  ASSUME NEW s, s \in Seq(ItemsOf(s)), NEW given, given \in Seq(ItemsOf(given)),
         \A i \in 1..Len(s) : SafeId(s[i]), IdsApart(given)
  PROVE  exactPlan(s, given) <=> IdsApart(s) /\ ItemsOf(s) = ItemsOf(given)
<1> DEFINE again == {i \in 1..Len(s) : \E j \in 1..Len(s) : j < i /\ s[j].id = s[i].id}
           diff == comparePlanToIntake(s, given)
<1>1. exactPlan(s, given) <=> /\ diff.missing = {} /\ diff.changed = {}
                              /\ diff.extra = {} /\ diff.repeated = {}
  BY Zenon DEF exactPlan
<1>2. {i \in 1..Len(s) : SafeId(s[i])} = 1..Len(s)
  OBVIOUS
<1>3. diff.repeated = {s[i].id : i \in again}
  BY <1>2 DEF comparePlanToIntake
<1>4. again = {} <=> IdsApart(s)
  <2>1. Len(s) \in Nat
    BY LengthIsNatural
  <2>2. ASSUME again = {}, NEW i \in 1..Len(s), NEW j \in 1..Len(s), s[i].id = s[j].id
        PROVE  i = j
    <3>1. i \notin again /\ j \notin again
      BY <2>2
    <3>2. ~(i < j) /\ ~(j < i)
      BY <2>2, <3>1
    <3> QED BY <2>1, <3>2
  <2>3. ASSUME IdsApart(s), NEW i \in again PROVE FALSE
    <3>1. PICK j \in 1..Len(s) : j < i /\ s[j].id = s[i].id
      OBVIOUS
    <3>2. j = i
      BY <2>3, <3>1 DEF IdsApart
    <3> QED BY <2>1, <3>1, <3>2
  <2> HIDE DEF again
  <2> QED BY <2>2, <2>3 DEF IdsApart
<1>5. ASSUME again = {}
      PROVE  /\ diff.missing = IdsOf(given) \ IdsOf(s) /\ diff.extra = IdsOf(s) \ IdsOf(given)
             /\ diff.changed = {} <=> \A e \in ItemsOf(s) : e.id \in IdsOf(given) => e \in ItemsOf(given)
  <2>1. {s[i] : i \in (1..Len(s)) \ again} = ItemsOf(s)
    BY <1>5 DEF ItemsOf
  <2>2. {entry.id : entry \in ItemsOf(s)} = IdsOf(s)
    BY DEF ItemsOf, IdsOf
  <2>3. /\ diff.missing = IdsOf(given) \ {entry.id : entry \in {s[i] : i \in (1..Len(s)) \ again}}
        /\ diff.extra = {entry.id : entry \in {s[i] : i \in (1..Len(s)) \ again}} \ IdsOf(given)
        /\ diff.changed = {entry.id : entry \in {e \in {s[i] : i \in (1..Len(s)) \ again} :
                                                   e.id \in IdsOf(given)} \ ItemsOf(given)}
    BY <1>2, Zenon DEF comparePlanToIntake
  <2>4. /\ diff.missing = IdsOf(given) \ IdsOf(s) /\ diff.extra = IdsOf(s) \ IdsOf(given)
        /\ diff.changed = {entry.id : entry \in {e \in ItemsOf(s) : e.id \in IdsOf(given)}
                                                \ ItemsOf(given)}
    BY <2>1, <2>2, <2>3, Zenon
  <2> HIDE DEF diff, again
  <2>5. diff.changed = {} <=> \A e \in ItemsOf(s) : e.id \in IdsOf(given) => e \in ItemsOf(given)
    <3> DEFINE odd == {e \in ItemsOf(s) : e.id \in IdsOf(given)} \ ItemsOf(given)
    <3>1. odd = {} <=> \A e \in ItemsOf(s) : e.id \in IdsOf(given) => e \in ItemsOf(given)
      OBVIOUS
    <3>2. diff.changed = {entry.id : entry \in odd}
      BY <2>4, Zenon
    <3> HIDE DEF odd
    <3>3. diff.changed = {} <=> odd = {}
      BY <3>2
    <3> QED BY <3>1, <3>3, Zenon
  <2> QED BY <2>4, <2>5, Zenon
<1> HIDE DEF diff, again
<1>6. \A items : \A e \in ItemsOf(items) : e.id \in IdsOf(items)
  BY DEF ItemsOf, IdsOf
<1>7. ASSUME exactPlan(s, given) PROVE IdsApart(s) /\ ItemsOf(s) = ItemsOf(given)
  <2>1. again = {} /\ IdsApart(s)
    BY <1>1, <1>3, <1>4, <1>7
  <2>2. /\ IdsOf(given) = IdsOf(s)
        /\ \A e \in ItemsOf(s) : e.id \in IdsOf(given) => e \in ItemsOf(given)
    BY <1>1, <1>5, <1>7, <2>1
  <2>3. ItemsOf(s) \subseteq ItemsOf(given)
    BY <1>6, <2>2
  <2>4. ASSUME NEW k \in 1..Len(given) PROVE given[k] \in ItemsOf(s)
    <3>1. PICK i \in 1..Len(s) : s[i].id = given[k].id
      <4>1. given[k].id \in IdsOf(s)
        BY <2>2 DEF IdsOf
      <4> QED BY <4>1 DEF IdsOf
    <3>2. PICK l \in 1..Len(given) : given[l] = s[i]
      BY <2>3 DEF ItemsOf
    <3>3. l = k
      BY <3>1, <3>2 DEF IdsApart
    <3> QED BY <3>2, <3>3 DEF ItemsOf
  <2> QED BY <2>1, <2>3, <2>4 DEF ItemsOf
<1>8. ASSUME IdsApart(s), ItemsOf(s) = ItemsOf(given) PROVE exactPlan(s, given)
  <2>1. again = {} /\ diff.repeated = {}
    BY <1>3, <1>4, <1>8
  <2>2. IdsOf(s) = IdsOf(given)
    <3>1. \A items : IdsOf(items) = {e.id : e \in ItemsOf(items)}
      BY DEF IdsOf, ItemsOf
    <3> QED BY <1>8, <3>1, Zenon
  <2> QED BY <1>1, <1>5, <1>8, <2>1, <2>2
<1> QED BY <1>7, <1>8

\* The part of the scope rules that all three codings state over the ids of the authority.
Shared(pl, authority) ==
  /\ \A i \in 1..Len(pl.tasks) : pl.tasks[i].declares
  /\ Mapped(pl) \subseteq authority /\ ~RepeatedOwner(pl) /\ DropsInOrder(pl, authority)
  /\ Mapped(pl) \cap Dropped(pl) = {} /\ authority \subseteq Mapped(pl) \cup Dropped(pl)

\* What approve asks of a plan, with the comparison resolved.
Approved(pl, given) ==
  /\ pl.selectedScope # <<>>
  /\ \A i \in 1..Len(pl.selectedScope) :
       SafeId(pl.selectedScope[i]) /\ pl.selectedScope[i].text # ""
  /\ IdsApart(pl.selectedScope) /\ ItemsOf(pl.selectedScope) = ItemsOf(given)
  /\ Shared(pl, IdsOf(given))

LEMMA CoverageIsApproved ==
  ASSUME NEW pl \in Plans, NEW given, given \in Seq(ItemsOf(given)), IdsApart(given)
  PROVE  coverageHolds(selectedScopeCoverage(pl, given)) <=> Approved(pl, given)
<1> DEFINE s == pl.selectedScope
           c == selectedScopeCoverage(pl, given)
<1>1. s \in Seq(ItemsOf(s))
  BY PlanAssumption
<1>2. /\ c.ok <=> /\ s # <<>> /\ \A i \in 1..Len(s) : SafeId(s[i]) /\ s[i].text # ""
                  /\ exactPlan(s, given)
                  /\ \A i \in 1..Len(pl.tasks) : pl.tasks[i].declares
                  /\ Mapped(pl) \subseteq IdsOf(given) /\ ~RepeatedOwner(pl)
                  /\ DropsInOrder(pl, IdsOf(given))
                  /\ Mapped(pl) \cap Dropped(pl) = {}
      /\ c.uncovered = IdsOf(given) \ (Mapped(pl) \cup Dropped(pl))
  BY Zenon DEF selectedScopeCoverage
<1>3. c.uncovered = {} <=> IdsOf(given) \subseteq Mapped(pl) \cup Dropped(pl)
  <2> HIDE DEF c
  <2> QED BY <1>2
<1>4. coverageHolds(c) <=> c.ok /\ c.uncovered = {}
  BY Zenon DEF coverageHolds
<1> HIDE DEF c
<1>5. (\A i \in 1..Len(s) : SafeId(s[i])) =>
        (exactPlan(s, given) <=> IdsApart(s) /\ ItemsOf(s) = ItemsOf(given))
  BY <1>1, ExactIsTheSame
<1> QED BY <1>2, <1>3, <1>4, <1>5, Zenon DEF Approved, Shared, c

\* The first coding, of the validator, whose test of an id bars the dot and no length.
LEMMA ValidatorIsApproved ==
  ASSUME NEW pl \in Plans, NEW given, given \in Seq(ItemsOf(given)), IdsApart(given), given # <<>>,
         pl.executable
  PROVE  /\ planScopeIsSafe(pl, given) => Approved(pl, given) \/ HasIds(pl, "long")
         /\ Approved(pl, given) => planScopeIsSafe(pl, given) \/ HasIds(pl, "dotted")
<1> DEFINE s == pl.selectedScope
<1>1. s \in Seq(ItemsOf(s))
  BY PlanAssumption
<1>2. /\ ~HasIds(pl, "long") => \A i \in 1..Len(s) : PlanSafeId(s[i]) => SafeId(s[i])
      /\ ~HasIds(pl, "dotted") => \A i \in 1..Len(s) : SafeId(s[i]) => PlanSafeId(s[i])
  BY DEF SafeId, PlanSafeId, HasIds, ItemsOf
<1>3. Cardinality(IdsOf(s)) = Len(s) <=> IdsApart(s)
  BY <1>1, CountedIdsAreApart
<1>4. (\A i \in 1..Len(s) : SafeId(s[i])) =>
        (exactPlan(s, given) <=> IdsApart(s) /\ ItemsOf(s) = ItemsOf(given))
  BY <1>1, ExactIsTheSame
<1>5. planScopeIsSafe(pl, given) <=>
        /\ s # <<>> /\ exactPlan(s, given)
        /\ \A i \in 1..Len(s) : PlanSafeId(s[i]) /\ s[i].text # ""
        /\ Cardinality(IdsOf(s)) = Len(s)
        /\ Shared(pl, IdsOf(given))
  BY Zenon DEF planScopeIsSafe, Shared
<1> QED BY <1>2, <1>3, <1>4, <1>5, Zenon DEF Approved

\* The third coding, of the legacy workflow, which looks for the value of an entry and at one
\* task at a time.
LEMMA WorkflowIsApproved ==
  ASSUME NEW pl \in Plans, NEW given, given \in Seq(ItemsOf(given)), IdsApart(given), given # <<>>
  PROVE  /\ scopeErrorsNone(pl, given) => Approved(pl, given) \/ ~OneTaskEach(pl)
         /\ Approved(pl, given) => scopeErrorsNone(pl, given) \/ ~AllNamed(pl)
<1> DEFINE s == pl.selectedScope
           first(id) == CHOOSE i \in 1..Len(s) : s[i].id = id /\ \A j \in 1..(i - 1) : s[j].id # id
           wellPut == /\ s # <<>> /\ \A i \in 1..Len(s) : SafeId(s[i]) /\ s[i].text # ""
                      /\ IdsApart(s)
           same == /\ \A i \in 1..Len(given) : given[i].id \in IdsOf(s) /\ s[first(given[i].id)] = given[i]
                   /\ IdsOf(s) \subseteq IdsOf(given)
           rules == /\ \A i \in 1..Len(pl.tasks) :
                         /\ pl.tasks[i].declares /\ NamesOnce(pl.tasks[i].scopeItems)
                         /\ \A k \in 1..Len(pl.tasks[i].scopeItems) :
                              pl.tasks[i].scopeItems[k].string /\ pl.tasks[i].scopeItems[k].text \in IdsOf(s)
                    /\ DropsInOrder(pl, IdsOf(s))
                    /\ \A id \in IdsOf(s) : id \in Mapped(pl) \cap IdsOf(s) <=> id \notin Dropped(pl)
<1>1. s \in Seq(ItemsOf(s))
  BY PlanAssumption
<1>2. /\ Cardinality(IdsOf(s)) = Len(s) <=> IdsApart(s)
      /\ Cardinality(IdsOf(given)) = Len(given)
  BY <1>1, CountedIdsAreApart
<1>3. scopeErrorsNone(pl, given) <=> wellPut /\ same /\ rules
  BY <1>2, Zenon DEF scopeErrorsNone
<1>4. ASSUME wellPut PROVE same <=> ItemsOf(s) = ItemsOf(given)
  <2>1. ASSUME NEW i \in 1..Len(s) PROVE first(s[i].id) = i
    <3>1. Len(s) \in Nat
      BY <1>1, LengthIsNatural
    <3>2. \A k \in 1..Len(s) : s[k].id = s[i].id => k = i
      BY <1>4 DEF IdsApart
    <3>3. ASSUME NEW j \in 1..(i - 1) PROVE s[j].id # s[i].id
      <4>1. j \in 1..Len(s) /\ j # i
        BY <3>1
      <4> QED BY <3>2, <4>1
    <3> QED BY <3>2, <3>3
  <2> HIDE DEF first
  <2>2. ASSUME same PROVE ItemsOf(s) = ItemsOf(given)
    <3>1. ASSUME NEW k \in 1..Len(given) PROVE \E i \in 1..Len(s) : s[i] = given[k]
      <4>1. PICK i \in 1..Len(s) : s[i].id = given[k].id
        <5>1. given[k].id \in IdsOf(s)
          BY <2>2
        <5> QED BY <5>1 DEF IdsOf
      <4>2. s[first(given[k].id)] = given[k]
        BY <2>2
      <4> QED BY <2>1, <4>1, <4>2
    <3>2. ASSUME NEW i \in 1..Len(s) PROVE \E k \in 1..Len(given) : s[i] = given[k]
      <4>1. PICK k \in 1..Len(given) : given[k].id = s[i].id
        <5>1. s[i].id \in IdsOf(given)
          BY <2>2 DEF IdsOf
        <5> QED BY <5>1 DEF IdsOf
      <4>2. s[first(given[k].id)] = given[k]
        BY <2>2
      <4> QED BY <2>1, <4>1, <4>2
    <3>3. ItemsOf(given) \subseteq ItemsOf(s)
      <4> HIDE DEF s
      <4> QED BY <3>1, Zenon DEF ItemsOf
    <3>4. ItemsOf(s) \subseteq ItemsOf(given)
      BY <3>2 DEF ItemsOf
    <3> QED BY <3>3, <3>4, Zenon
  <2>3. ASSUME ItemsOf(s) = ItemsOf(given) PROVE same
    <3>1. ASSUME NEW k \in 1..Len(given)
          PROVE  given[k].id \in IdsOf(s) /\ s[first(given[k].id)] = given[k]
      <4>1. PICK i \in 1..Len(s) : s[i] = given[k]
        BY <2>3 DEF ItemsOf
      <4>2. given[k].id \in IdsOf(s)
        BY <4>1 DEF IdsOf
      <4> QED BY <2>1, <4>1, <4>2
    <3>2. IdsOf(s) \subseteq IdsOf(given)
      <4>1. ASSUME NEW i \in 1..Len(s) PROVE s[i].id \in IdsOf(given)
        <5>1. PICK k \in 1..Len(given) : given[k] = s[i]
          BY <2>3 DEF ItemsOf
        <5> QED BY <5>1 DEF IdsOf
      <4> QED BY <4>1 DEF IdsOf
    <3> QED BY <3>1, <3>2
  <2> QED BY <2>2, <2>3
<1>5. ASSUME ItemsOf(s) = ItemsOf(given) PROVE IdsOf(s) = IdsOf(given)
  <2>1. \A items : IdsOf(items) = {e.id : e \in ItemsOf(items)}
    BY DEF IdsOf, ItemsOf
  <2> QED BY <1>5, <2>1, Zenon
<1>6. /\ rules => Shared(pl, IdsOf(s)) \/ ~OneTaskEach(pl)
      /\ Shared(pl, IdsOf(s)) => rules \/ ~AllNamed(pl)
  <2>1. Mapped(pl) \subseteq IdsOf(s) <=>
          \A i \in 1..Len(pl.tasks) : \A k \in 1..Len(pl.tasks[i].scopeItems) :
            pl.tasks[i].scopeItems[k].text \in IdsOf(s)
    BY DEF Mapped
  <2>2. ~RepeatedOwner(pl) => \A i \in 1..Len(pl.tasks) : NamesOnce(pl.tasks[i].scopeItems)
    BY DEF RepeatedOwner, NamesOnce
  <2>3. OneTaskEach(pl) /\ (\A i \in 1..Len(pl.tasks) : NamesOnce(pl.tasks[i].scopeItems)) => ~RepeatedOwner(pl)
    BY DEF RepeatedOwner, NamesOnce, OneTaskEach
  <2>4. Mapped(pl) \subseteq IdsOf(s) =>
          ((\A id \in IdsOf(s) : id \in Mapped(pl) \cap IdsOf(s) <=> id \notin Dropped(pl))
           <=> /\ Mapped(pl) \cap Dropped(pl) = {}
               /\ IdsOf(s) \subseteq Mapped(pl) \cup Dropped(pl))
    OBVIOUS
  <2>5. rules => Shared(pl, IdsOf(s)) \/ ~OneTaskEach(pl)
    BY <2>1, <2>3, <2>4, Zenon DEF Shared
  <2>6. Shared(pl, IdsOf(s)) => rules \/ ~AllNamed(pl)
    BY <2>1, <2>2, <2>4, Zenon DEF Shared, AllNamed
  <2> QED BY <2>5, <2>6
<1>7. Approved(pl, given) <=> wellPut /\ ItemsOf(s) = ItemsOf(given) /\ Shared(pl, IdsOf(given))
  BY Zenon DEF Approved
<1> HIDE DEF wellPut, same, rules
<1> QED BY <1>3, <1>4, <1>5, <1>6, <1>7, Zenon

\* The snapshot in the file is a draft that somebody captured, and a run that is bound
\* or started holds to one that was accepted.
GateInv ==
  /\ plan \in Plans
  /\ intakeFile = [state |-> intakeFile.state, items |-> intakeFile.items]
  /\ intakeFile.items \in Drafts \cup {<<>>}
  /\ draft = [c \in Capturers |-> draft[c]]
  /\ \A c \in Capturers : draft[c] \in Drafts \cup {<<>>}
  /\ \A m, k \in meta : m = k
  /\ started # {} => meta # {}
  /\ \A st \in started : /\ \A m \in meta : st = [plan |-> m.plan, snapshot |-> m.snapshot]
                         /\ st.plan \in Plans /\ st.snapshot \in Drafts
                         /\ validDraft(st.snapshot)
                         /\ coverageHolds(selectedScopeCoverage(st.plan, st.snapshot))

\* A snapshot that can be read.
LEMMA ReadableIsADraft ==
  ASSUME GateInv, readable(intakeFile)
  PROVE  /\ intakeFile.items \in Drafts /\ intakeFile.items \in Seq(ItemsOf(intakeFile.items))
         /\ intakeFile.items # <<>> /\ IdsApart(intakeFile.items)
<1>1. intakeFile.items \in Drafts /\ intakeFile.items # <<>>
  BY DEF GateInv, readable, validDraft
<1>2. intakeFile.items \in Seq(ItemsOf(intakeFile.items))
  BY <1>1, IntakeAssumption
<1>3. Cardinality(IdsOf(intakeFile.items)) = Len(intakeFile.items)
  BY DEF readable, validDraft
<1> QED BY <1>1, <1>2, <1>3, CountedIdsAreApart

LEMMA GateInit == PlanInit => GateInv
BY DEF PlanInit, IntakeInit, GateInv, Missing

LEMMA GateNext == GateInv /\ [PlanNext]_gateVars => GateInv'
<1> SUFFICES ASSUME GateInv, [PlanNext]_gateVars PROVE GateInv'
  OBVIOUS
<1>1. ASSUME UNCHANGED planVars,
             intakeFile' = [state |-> intakeFile'.state, items |-> intakeFile'.items],
             intakeFile'.items \in Drafts \cup {<<>>},
             draft' = [c \in Capturers |-> draft'[c]],
             \A c \in Capturers : draft'[c] \in Drafts \cup {<<>>}
      PROVE  GateInv'
  BY <1>1 DEF GateInv, planVars
<1>2. ASSUME UNCHANGED <<intakeFile, draft, planVars>> PROVE GateInv'
  BY <1>1, <1>2 DEF GateInv
<1>3. CASE IntakeNext /\ UNCHANGED planVars
  <2>1. ASSUME NEW c \in Capturers, NEW d \in Drafts, captureIntakeSnapshot(c, d)
        PROVE  GateInv'
    BY <1>1, <1>3, <2>1 DEF captureIntakeSnapshot, GateInv
  <2>2. ASSUME NEW c \in Capturers, linkSync(c) PROVE GateInv'
    BY <1>1, <1>2, <1>3, <2>2 DEF linkSync, GateInv, Regular
  <2>3. ASSUME NEW c \in Capturers, fsyncDir(c) PROVE GateInv'
    BY <1>2, <1>3, <2>3 DEF fsyncDir
  <2>4. ASSUME NEW c \in Capturers, readBack(c) PROVE GateInv'
    BY <1>2, <1>3, <2>4 DEF readBack
  <2>5. ASSUME NEW c \in Capturers, dieCapturing(c) PROVE GateInv'
    BY <1>2, <1>3, <2>5 DEF dieCapturing
  <2>6. ASSUME powerFailure PROVE GateInv'
    BY <1>1, <1>2, <1>3, <2>6 DEF powerFailure, GateInv, Missing
  <2>7. ASSUME editIntake PROVE GateInv'
    <3>1. UNCHANGED draft
      BY <2>7 DEF editIntake
    <3>2. \/ intakeFile' = [intakeFile EXCEPT !.state = "writable"]
          \/ intakeFile' = [intakeFile EXCEPT !.state = "damaged"]
          \/ intakeFile' = Missing
          \/ \E d \in Drafts : intakeFile' = Regular(d)
      BY <2>7 DEF editIntake
    <3>3. /\ intakeFile' = [state |-> intakeFile'.state, items |-> intakeFile'.items]
          /\ intakeFile'.items \in Drafts \cup {<<>>}
      BY <3>2 DEF GateInv, Missing, Regular
    <3> QED BY <1>1, <1>3, <3>1, <3>3 DEF GateInv
  <2> QED BY <1>3, <2>1, <2>2, <2>3, <2>4, <2>5, <2>6, <2>7 DEF IntakeNext, capture
<1>4. ASSUME NEW pl \in Edits, author(pl) PROVE GateInv'
  BY <1>4, PlanAssumption DEF author, GateInv, intakeVars
<1>5. CASE approve
  BY <1>5 DEF approve, GateInv, intakeVars
<1>6. CASE drive
  <2> DEFINE new == [plan |-> plan, snapshot |-> intakeFile.items]
  <2>1. PICK m \in meta : /\ preflight(m) /\ started' = started \cup {new}
                          /\ UNCHANGED <<intakeVars, plan, written, meta>>
    BY <1>6 DEF drive
  <2>2. /\ plan = m.plan /\ intakeFile.items = m.snapshot /\ readable(intakeFile)
        /\ coverageHolds(selectedScopeCoverage(plan, intakeFile.items))
    BY <2>1 DEF preflight
  <2>3. intakeFile.items \in Drafts /\ validDraft(intakeFile.items)
    BY <2>2, ReadableIsADraft DEF readable
  <2>4. new.plan = plan /\ new.snapshot = intakeFile.items
        /\ new = [plan |-> m.plan, snapshot |-> m.snapshot]
    BY <2>2
  <2> HIDE DEF new
  <2> QED BY <2>1, <2>2, <2>3, <2>4 DEF GateInv, intakeVars
<1>7. CASE UNCHANGED gateVars
  BY <1>2, <1>7 DEF gateVars, intakeVars
<1> QED BY <1>3, <1>4, <1>5, <1>6, <1>7 DEF PlanNext

\* validate-plan.mjs, selectedScopeCoverage of pipeline-engine.mjs and the workflow's
\* preflight each code the scope rules: over one snapshot the three judge a plan alike, but
\* for a long id, a dotted one, two tasks of one id and an item named by no string.
THEOREM ThreeGatesAreOne == PlanSpec => []ScopeGatesAgree
<1>1. GateInv => ScopeGatesAgree
  <2> SUFFICES ASSUME GateInv, plan.executable, readable(intakeFile)
               PROVE  LET validated == planScopeIsSafe(plan, intakeFile.items)
                          approved == coverageHolds(selectedScopeCoverage(plan, intakeFile.items))
                          built == scopeErrorsNone(plan, intakeFile.items)
                      IN /\ validated => approved \/ HasIds(plan, "long")
                         /\ approved => validated \/ HasIds(plan, "dotted")
                         /\ built => approved \/ ~OneTaskEach(plan)
                         /\ approved => built \/ ~AllNamed(plan)
    BY Zenon DEF ScopeGatesAgree
  <2>1. plan \in Plans
    BY DEF GateInv
  <2>2. /\ intakeFile.items \in Seq(ItemsOf(intakeFile.items))
        /\ intakeFile.items # <<>> /\ IdsApart(intakeFile.items)
    BY ReadableIsADraft
  <2>3. coverageHolds(selectedScopeCoverage(plan, intakeFile.items)) <=> Approved(plan, intakeFile.items)
    BY <2>1, <2>2, CoverageIsApproved
  <2>4. /\ planScopeIsSafe(plan, intakeFile.items) => Approved(plan, intakeFile.items) \/ HasIds(plan, "long")
        /\ Approved(plan, intakeFile.items) => planScopeIsSafe(plan, intakeFile.items) \/ HasIds(plan, "dotted")
    BY <2>1, <2>2, ValidatorIsApproved
  <2>5. /\ scopeErrorsNone(plan, intakeFile.items) => Approved(plan, intakeFile.items) \/ ~OneTaskEach(plan)
        /\ Approved(plan, intakeFile.items) => scopeErrorsNone(plan, intakeFile.items) \/ ~AllNamed(plan)
    BY <2>1, <2>2, WorkflowIsApproved
  <2> QED BY <2>3, <2>4, <2>5, Zenon
<1> QED BY <1>1, GateInit, GateNext, PTL DEF PlanSpec

\* preflight of pipeline-engine.mjs: whatever is edited between approval and any start or
\* resume, what runs is what was approved, and it answers for every item of the intake.
THEOREM RunsCoverTheIntake == PlanSpec => []ScopeNeverShrinks
<1>1. GateInv => ScopeNeverShrinks
  <2> SUFFICES ASSUME GateInv, NEW st \in started
               PROVE  /\ ItemsOf(st.plan.selectedScope) = ItemsOf(st.snapshot)
                      /\ IdsOf(st.snapshot) = Mapped(st.plan) \cup Dropped(st.plan)
                      /\ \A m \in meta : st = [plan |-> m.plan, snapshot |-> m.snapshot]
    BY DEF ScopeNeverShrinks
  <2>1. /\ st.plan \in Plans /\ st.snapshot \in Drafts /\ validDraft(st.snapshot)
        /\ coverageHolds(selectedScopeCoverage(st.plan, st.snapshot))
        /\ \A m \in meta : st = [plan |-> m.plan, snapshot |-> m.snapshot]
    BY DEF GateInv
  <2>2. st.snapshot \in Seq(ItemsOf(st.snapshot)) /\ IdsApart(st.snapshot)
    BY <2>1, IntakeAssumption, CountedIdsAreApart DEF validDraft
  <2>3. Approved(st.plan, st.snapshot)
    BY <2>1, <2>2, CoverageIsApproved
  <2>4. Dropped(st.plan) \subseteq IdsOf(st.snapshot)
    <3>1. DropsInOrder(st.plan, IdsOf(st.snapshot))
      BY <2>3 DEF Approved, Shared
    <3> QED BY <3>1 DEF Dropped, DropsInOrder
  <2> QED BY <2>1, <2>3, <2>4 DEF Approved, Shared
<1> QED BY <1>1, GateInit, GateNext, PTL DEF PlanSpec

-----------------------------------------------------------------------------
(***************************************************************************)
(* The registry for any jobs and any number of calls, deaths and tear-     *)
(* downs: what a call has still to persist has a key nobody has and nobody *)
(* was told of, as long as calls do not overlap, and the list it is        *)
(* writing holds that record and everything told before.                   *)
(***************************************************************************)

Records == [key : {job.key : job \in Jobs}, capability : Capabilities]

Forms == {"absent", "garbled", "list"}
Registries == [form : Forms, records : Seq(Records)]

Holds(list, r) == \E i \in DOMAIN list.records : list.records[i] = r
OneAKey(list) ==
  \A i, j \in DOMAIN list.records : list.records[i].key = list.records[j].key => i = j

JobTypes == registry \in Registries /\ creating \subseteq Records

OneAtWork ==
  /\ \A r, q \in creating : r = q
  /\ \A r \in creating : /\ \A t \in told : t.key # r.key
                        /\ \A i \in DOMAIN registry.records : registry.records[i].key # r.key

\* Only the call at work writes, and an unreadable file shows no record.
Idle == creating = {} => filling = {}
Readable == registry.form = "garbled" => DOMAIN registry.records = {}

Drafted ==
  \A list \in filling : /\ list \in Registries /\ list.form = "list" /\ OneAKey(list)
                     /\ \A t \in told \cup creating : Holds(list, t)

JobInv == JobTypes /\ OneAtWork /\ Idle /\ Readable /\ Drafted /\ NeverStacked

LEMMA JobInvInit == JobInit => JobInv
<1> SUFFICES ASSUME JobInit PROVE JobInv
  OBVIOUS
<1>1. << >> \in Seq(Records)
  OBVIOUS
<1> QED BY <1>1 DEF JobInit, JobInv, JobTypes, OneAtWork, Drafted, Idle, Readable,
                    NeverStacked, NoRegistry, Forms, Registries

LEMMA JobInvNext == JobInv /\ [JobNext]_jobVars => JobInv'
<1> SUFFICES ASSUME JobInv, [JobNext]_jobVars PROVE JobInv'
  OBVIOUS
<1> USE DEF JobInv, JobTypes, OneAtWork, Idle, Readable, NeverStacked, Registries
<1> DEFINE recs == registry.records
<1>0. recs \in Seq(Records) /\ DOMAIN recs = 1..Len(recs) /\ Len(recs) \in Nat
  OBVIOUS
<1>g. Garbled \in Registries /\ DOMAIN Garbled.records = {} /\ Garbled.form = "garbled"
  <2> << >> \in Seq(Records) /\ DOMAIN << >> = {}
    OBVIOUS
  <2> QED BY DEF Garbled, Forms
<1>1. ASSUME NEW job \in Jobs, NEW cap \in Capabilities, NEW authorize \in BOOLEAN,
             create(job, cap, authorize)
      PROVE  JobInv'
  <2>1. /\ creating = {} /\ UNCHANGED <<registry, filling, told, stacked>>
        /\ filling = {} \/ creating' = {} \/ registry.form # "garbled"
    BY <1>1 DEF create
  <2>2. CASE creating' = {}
    BY <2>1, <2>2 DEF Drafted
  <2>3. CASE creating' # {}
    <3>1. creating' = {mint(job, cap)} /\ ~duplicate(job, cap) /\ registry.form # "garbled"
      BY <1>1, <2>3 DEF create
    <3>2. mint(job, cap) \in Records /\ mint(job, cap).key = job.key
      BY DEF mint, Records
    <3>3. \A i \in DOMAIN recs : recs[i].key # job.key
      BY <3>1 DEF duplicate
    <3>4. \A t \in told : t.key # job.key
      BY <3>1, <3>3
    <3>5. filling = {}
      BY <2>1
    <3> QED BY <2>1, <3>1, <3>2, <3>3, <3>4, <3>5 DEF Drafted
  <2> QED BY <2>2, <2>3
<1>2. CASE persistRegistry
  <2> PICK r \in creating : filling' = {Listed(Append(recs, r))}
    BY <1>2 DEF persistRegistry
  <2> DEFINE list == Listed(Append(recs, r))
  <2>1. creating = {r} /\ registry' = Garbled /\ UNCHANGED <<creating, told, stacked>>
    BY <1>2 DEF persistRegistry
  <2>2. list.records = Append(recs, r) /\ list \in Registries /\ list.form = "list" /\ filling' = {list}
    BY <1>0 DEF Listed, Forms
  <2>3. /\ DOMAIN list.records = 1..(Len(recs) + 1)
        /\ list.records[Len(recs) + 1] = r
        /\ \A i \in 1..Len(recs) : list.records[i] = recs[i]
    BY <1>0, <2>2
  <2> HIDE DEF list
  <2>4. OneAKey(list)
    <3> SUFFICES ASSUME NEW i \in DOMAIN list.records, NEW j \in DOMAIN list.records,
                        list.records[i].key = list.records[j].key
                 PROVE  i = j
      BY DEF OneAKey
    <3>1. i \in 1..Len(recs) \/ i = Len(recs) + 1
      BY <1>0, <2>3
    <3>2. j \in 1..Len(recs) \/ j = Len(recs) + 1
      BY <1>0, <2>3
    <3> QED BY <1>0, <2>3, <3>1, <3>2
  <2>5. \A t \in told \cup creating : Holds(list, t)
    <3> TAKE t \in told \cup creating
    <3>1. CASE t \in told
      <4> PICK i \in DOMAIN recs : recs[i] = t
        BY <1>2, <3>1 DEF persistRegistry
      <4> QED BY <1>0, <2>3 DEF Holds
    <3>2. CASE t = r
      BY <1>0, <2>3, <3>2 DEF Holds
    <3> QED BY <2>1, <3>1, <3>2
  <2>6. Drafted'
    <3> SUFFICES ASSUME NEW l \in filling'
                 PROVE  /\ l \in Registries /\ l.form = "list" /\ OneAKey(l)
                        /\ \A t \in told' \cup creating' : Holds(l, t)
      BY DEF Drafted
    <3>1. l = list /\ UNCHANGED <<told, creating>>
      BY <2>1, <2>2
    <3> QED BY <2>2, <2>4, <2>5, <3>1
  <2> QED BY <1>g, <2>1, <2>6
<1>3. CASE created
  <2> PICK list \in filling, r \in creating :
           /\ registry' = list /\ told' = told \cup {r}
           /\ stacked' = (stacked \/ \E t \in told : t.key = r.key)
    BY <1>3 DEF created
  <2>1. ~stacked' /\ creating' = {} /\ filling' = {}
    BY <1>3 DEF created
  <2>2. /\ list \in Registries /\ OneAKey(list) /\ \A t \in told' : Holds(list, t)
        /\ list.form # "garbled"
    BY DEF Drafted
  <2> QED BY <2>1, <2>2 DEF OneAKey, Holds, Drafted
<1>4. CASE creationFails
  <2>1. creating' = {} /\ filling' = {} /\ UNCHANGED <<told, stacked>>
    BY <1>4 DEF creationFails
  <2>2. CASE registry' = registry
    BY <2>1, <2>2 DEF Drafted
  <2>3. CASE registry' \in filling
    BY <2>1, <2>3 DEF Drafted, OneAKey, Holds
  <2> QED BY <1>4, <2>2, <2>3 DEF creationFails
<1>5. CASE tearDown
  <2>0. filling = {} /\ UNCHANGED <<creating, filling, stacked>> /\ Drafted'
    BY <1>5 DEF tearDown, Drafted
  <2>1. ASSUME NEW i \in DOMAIN recs,
               registry' = Listed([j \in 1..(Len(recs) - 1) |-> recs[IF j < i THEN j ELSE j + 1]]),
               told' = told \ {recs[i]}
        PROVE  JobInv'
    <3> DEFINE back(j) == IF j < i THEN j ELSE j + 1
               kept == [j \in 1..(Len(recs) - 1) |-> recs[back(j)]]
    <3>1. \A j \in 1..(Len(recs) - 1) : back(j) \in DOMAIN recs
      BY <1>0
    <3>2. kept \in Seq(Records) /\ DOMAIN kept = 1..(Len(recs) - 1)
      BY <1>0, <3>1
    <3>3. registry'.records = kept /\ registry' \in Registries
      BY <2>1, <3>2 DEF Listed, Forms
    <3>4. \A j, k \in DOMAIN kept : kept[j].key = kept[k].key => j = k
      <4> TAKE j, k \in DOMAIN kept
      <4>1. back(j) = back(k) => j = k
        BY <1>0, <3>2
      <4> QED BY <3>1, <3>2, <4>1
    <3>5. registry.form # "garbled"
      BY <2>1
    <3>6. \A q \in told' : \E j \in DOMAIN kept : kept[j] = q
      <4> TAKE q \in told'
      <4> PICK k \in DOMAIN recs : recs[k] = q
        BY <2>1, <3>5
      <4>1. k # i
        BY <2>1
      <4> DEFINE j == IF k < i THEN k ELSE k - 1
      <4>2. j \in DOMAIN kept /\ back(j) = k
        BY <1>0, <3>2, <4>1
      <4> QED BY <3>2, <4>2
    <3>7. \A r \in creating : \A j \in DOMAIN kept : kept[j].key # r.key
      BY <3>1, <3>2
    <3> HIDE DEF kept
    <3>8. registry'.form = "list"
      BY <2>1 DEF Listed
    <3>9. OneAtWork'
      <4>1. told' \subseteq told /\ UNCHANGED creating
        BY <2>0, <2>1
      <4>2. \A r, q \in creating : r = q
        OBVIOUS
      <4>3. \A r \in creating : \A t \in told : t.key # r.key
        OBVIOUS
      <4> QED BY <3>3, <3>7, <4>1, <4>2, <4>3, Zenon DEF OneAtWork
    <3>10. NeverStacked'
      BY <2>0, <3>3, <3>4, <3>6
    <3> QED BY <2>0, <3>3, <3>8, <3>9, <3>10
  <2>2. CASE registry' = Garbled /\ told' = told
    BY <1>g, <2>0, <2>2
  <2>3. CASE registry' = NoRegistry /\ told' = {}
    <3>1. registry' \in Registries /\ DOMAIN registry'.records = {}
      <4> << >> \in Seq(Records) /\ DOMAIN << >> = {}
        OBVIOUS
      <4> QED BY <2>3 DEF NoRegistry, Forms
    <3> QED BY <2>0, <2>3, <3>1
  <2> QED BY <1>5, <2>1, <2>2, <2>3 DEF tearDown
<1>6. CASE createUnlisted \/ UNCHANGED jobVars
  BY <1>6 DEF createUnlisted, jobVars, Drafted
<1> QED BY <1>1, <1>2, <1>3, <1>4, <1>5, <1>6 DEF JobNext

\* However often a job is created by callers that name the registry, under whatever
\* capability, wherever a call dies and whatever is torn down or spoiled in between,
\* nobody is told twice of one key, and what was told is in a registry that can be read.
THEOREM RoutinesNeverStack == JobSpec => []NeverStacked
<1>1. JobInv => NeverStacked
  BY DEF JobInv
<1> QED BY <1>1, JobInvInit, JobInvNext, PTL DEF JobSpec

-----------------------------------------------------------------------------
(***************************************************************************)
(* The command line.  --json counts wherever it stands, but parseCli may   *)
(* read it as the value of the flag before it; then the value is refused.  *)
(***************************************************************************)

Vocabulary == STRING \cup {"none", "dashed"}
Parses == [ok : BOOLEAN, wants : Vocabulary, given : SUBSET (Vocabulary \X Vocabulary)]

\* What is known of the first k tokens once they are read.
ReadSoFar(spec, tokens, acc, k) ==
  /\ acc \in Parses
  /\ acc.ok =>
       /\ acc.wants \in spec \cup {"none"} /\ \A g \in acc.given : g[1] \in spec \cup {"json"}
       /\ (\E g \in acc.given : g[1] = "json") => \E i \in 1..k : tokens[i] = Flag("json")
       /\ (\E i \in 1..k : tokens[i] = Flag("json")) =>
            \E g \in acc.given : g[1] = "json" \/ (g[1] \in spec /\ g[2] = "dashed")

LEMMA TokenIsRead ==
  ASSUME NEW spec, "none" \notin spec, "json" \notin spec,
         NEW tokens \in Seq(Tokens), NEW k \in 1..Len(tokens), NEW acc,
         ReadSoFar(spec, tokens, acc, k - 1)
  PROVE  ReadSoFar(spec, tokens, takeToken(spec, acc, tokens[k]), k)
<1> DEFINE token == tokens[k]
           new == takeToken(spec, acc, token)
<1>1. /\ token \in Tokens /\ acc \in Parses /\ k \in Nat
      /\ \A i \in 1..k : i = k \/ i \in 1..(k - 1)
      /\ \A i \in 1..(k - 1) : i \in 1..k
      /\ k \in 1..k
  BY DEF ReadSoFar
<1>2. /\ token.kind \in {"flag", "word"} /\ token.name \in Vocabulary /\ token.value \in Vocabulary
      /\ token = Flag("json") <=> token.kind = "flag" /\ token.name = "json" /\ token.value = "none"
      /\ ValueOf(token) \in Vocabulary /\ (token.kind = "flag" => ValueOf(token) = "dashed")
  <2> SUFFICES ASSUME NEW x \in Tokens
               PROVE  /\ x.kind \in {"flag", "word"} /\ x.name \in Vocabulary /\ x.value \in Vocabulary
                      /\ x = Flag("json") <=> x.kind = "flag" /\ x.name = "json" /\ x.value = "none"
                      /\ ValueOf(x) \in Vocabulary /\ (x.kind = "flag" => ValueOf(x) = "dashed")
    BY <1>1
  <2>1. x = [kind |-> x.kind, name |-> x.name, value |-> x.value]
    BY DEF Tokens
  <2>2. x.kind \in {"flag", "word"} /\ x.name \in Vocabulary /\ x.value \in Vocabulary
    BY DEF Tokens, Vocabulary
  <2>3. x = Flag("json") <=> x.kind = "flag" /\ x.name = "json" /\ x.value = "none"
    BY <2>1 DEF Flag
  <2>4. "dashed" \in Vocabulary
    BY DEF Vocabulary
  <2> QED BY <2>2, <2>3, <2>4 DEF ValueOf
<1>3. acc.ok \in BOOLEAN /\ acc.wants \in Vocabulary /\ acc.given \in SUBSET (Vocabulary \X Vocabulary)
  BY <1>1 DEF Parses
<1>4. CASE ~acc.ok
  BY <1>1, <1>4 DEF takeToken, ReadSoFar
<1>5. CASE acc.ok /\ acc.wants # "none"
  <2> DEFINE value == <<acc.wants, ValueOf(token)>>
  <2>1. new = [ok |-> acc.ok, wants |-> "none", given |-> acc.given \cup {value}]
    BY <1>1, <1>5 DEF takeToken, Parses
  <2>2. value \in Vocabulary \X Vocabulary /\ value[1] = acc.wants /\ value[2] = ValueOf(token)
        /\ value[1] \in spec /\ value[1] # "json"
    BY <1>2, <1>3, <1>5 DEF ReadSoFar
  <2>3. token = Flag("json") => value[2] = "dashed"
    BY <1>2, <2>2
  <2> HIDE DEF value
  <2>4. new \in Parses /\ new.ok /\ new.wants = "none" /\ new.given = acc.given \cup {value}
    <3>1. acc.given \cup {value} \in SUBSET (Vocabulary \X Vocabulary)
      BY <1>3, <2>2
    <3> DEFINE all == acc.given \cup {value}
    <3> HIDE DEF all, new
    <3>2. new = [ok |-> acc.ok, wants |-> "none", given |-> all] /\ all \in SUBSET (Vocabulary \X Vocabulary)
      BY <2>1, <3>1 DEF all
    <3>3. new.ok = acc.ok /\ new.wants = "none" /\ new.given = all /\ "none" \in Vocabulary
      BY <3>2 DEF Vocabulary
    <3>4. new \in Parses
      BY <1>3, <3>2, <3>3 DEF Parses
    <3> QED BY <1>5, <3>3, <3>4 DEF all
  <2> HIDE DEF new, token
  <2>5. ReadSoFar(spec, tokens, new, k)
    BY <1>1, <1>5, <2>2, <2>3, <2>4 DEF ReadSoFar, token
  <2> QED BY <2>5 DEF new, token
<1>6. CASE acc.ok /\ acc.wants = "none"
  <2>1. CASE new = Refused
    <3>1. Refused \in Parses /\ ~Refused.ok
      <4>1. "none" \in Vocabulary
        BY DEF Vocabulary
      <4> QED BY <4>1 DEF Refused, Parses
    <3> QED BY <2>1, <3>1 DEF ReadSoFar
  <2>2. CASE new # Refused
    <3>1. /\ token.kind = "flag" /\ token.name \in spec \cup {"json"}
          /\ token.name = "json" => token.value = "none"
          /\ new = IF token.value = "none" /\ token.name # "json"
                   THEN [acc EXCEPT !.wants = token.name]
                   ELSE [acc EXCEPT !.given = @ \cup {<<token.name, token.value>>}]
      BY <1>6, <2>2 DEF takeToken
    <3>2. CASE token.value = "none" /\ token.name # "json"
      <4>1. new \in Parses /\ new.ok /\ new.wants = token.name /\ new.given = acc.given
        BY <1>2, <1>3, <1>6, <1>1, <3>1, <3>2 DEF Parses
      <4>2. token # Flag("json") /\ token.name \in spec
        BY <1>2, <3>1, <3>2
      <4> HIDE DEF new, token
      <4>3. ReadSoFar(spec, tokens, new, k)
        BY <1>1, <1>6, <4>1, <4>2 DEF ReadSoFar, token
      <4> QED BY <4>3 DEF new, token
    <3>3. CASE ~ (token.value = "none" /\ token.name # "json")
      <4> DEFINE pair == <<token.name, token.value>>
      <4>1. pair \in Vocabulary \X Vocabulary /\ pair[1] = token.name
        BY <1>2
      <4>2. new = [acc EXCEPT !.given = @ \cup {pair}]
        BY <3>1, <3>3
      <4> HIDE DEF pair
      <4>3. new \in Parses /\ new.ok /\ new.wants = "none" /\ new.given = acc.given \cup {pair}
        BY <1>3, <1>6, <1>1, <4>1, <4>2 DEF Parses
      <4>4. pair[1] \in spec \cup {"json"} /\ (pair[1] = "json" <=> token = Flag("json"))
        BY <1>2, <3>1, <4>1
      <4> HIDE DEF new, token
      <4>5. ReadSoFar(spec, tokens, new, k)
        BY <1>1, <1>6, <4>3, <4>4 DEF ReadSoFar, token
      <4> QED BY <4>5 DEF new, token
    <3> QED BY <3>2, <3>3
  <2> QED BY <2>1, <2>2
<1> QED BY <1>3, <1>4, <1>5, <1>6

LEMMA TokenIsTyped ==
  ASSUME NEW spec, NEW acc \in Parses, NEW token \in Tokens
  PROVE  takeToken(spec, acc, token) \in Parses
<1>1. /\ token.name \in Vocabulary /\ token.value \in Vocabulary
      /\ ValueOf(token) \in Vocabulary /\ "none" \in Vocabulary
  BY DEF Tokens, ValueOf, Vocabulary
<1>2. acc.ok \in BOOLEAN /\ acc.wants \in Vocabulary /\ acc.given \in SUBSET (Vocabulary \X Vocabulary)
  BY DEF Parses
<1> DEFINE one == <<acc.wants, ValueOf(token)>>
           other == <<token.name, token.value>>
<1>3. one \in Vocabulary \X Vocabulary /\ other \in Vocabulary \X Vocabulary
  BY <1>1, <1>2
<1>4. takeToken(spec, acc, token) \in
        {acc, Refused, [acc EXCEPT !.wants = "none", !.given = @ \cup {one}],
         [acc EXCEPT !.wants = token.name], [acc EXCEPT !.given = @ \cup {other}]}
  BY DEF takeToken
<1> HIDE DEF one, other
<1>5. Refused \in Parses
  BY <1>1 DEF Refused, Parses
<1>6. /\ [acc EXCEPT !.wants = "none", !.given = @ \cup {one}] \in Parses
      /\ [acc EXCEPT !.wants = token.name] \in Parses
      /\ [acc EXCEPT !.given = @ \cup {other}] \in Parses
  BY <1>1, <1>2, <1>3 DEF Parses
<1> QED BY <1>4, <1>5, <1>6

LEMMA TokensAreRead ==
  ASSUME NEW spec, "none" \notin spec, "json" \notin spec,
         NEW tokens \in Seq(Tokens)
  PROVE  ReadSoFar(spec, tokens, readTokens(spec, tokens), Len(tokens))
<1> DEFINE n == Len(tokens)
           D == 0..n
           V == Parses
           start == [ok |-> TRUE, wants |-> "none", given |-> {}]
           takes == [k \in 1..n |-> [acc \in V |-> takeToken(spec, acc, tokens[k])]]
           read == CHOOSE h : h = [k \in D |->
                     IF k = 0 THEN start ELSE takeToken(spec, h[k - 1], tokens[k])]
<1>1. n \in Nat /\ \A k \in 1..n : tokens[k] \in Tokens
  OBVIOUS
<1>2. 0 \in D /\ \A k \in D : k \in Nat /\ (k # 0 => k \in 1..n /\ k - 1 \in D)
  BY <1>1
<1>3. start \in V
  BY DEF Parses, Vocabulary
<1>4. takes \in [1..n -> [V -> V]]
  <2> SUFFICES ASSUME NEW k \in 1..n, NEW acc \in V PROVE takeToken(spec, acc, tokens[k]) \in V
    OBVIOUS
  <2> QED BY <1>1, TokenIsTyped
<1>5. PICK h : Accumulates(h, V, start, n, takes)
  <2> HIDE DEF takes, n, V, start
  <2> QED BY <1>1, <1>3, <1>4, Accumulation
<1>6. read = [k \in D |-> IF k = 0 THEN start ELSE takeToken(spec, read[k - 1], tokens[k])]
  <2>1. ASSUME NEW k \in D
        PROVE  h[k] = IF k = 0 THEN start ELSE takeToken(spec, h[k - 1], tokens[k])
    <3>1. h \in [D -> V] /\ h[k] = IF k = 0 THEN start ELSE takes[k][h[k - 1]]
      <4> HIDE DEF takes, start, V
      <4> QED BY <1>5 DEF Accumulates
    <3>2. k # 0 => k \in 1..n /\ h[k - 1] \in V
      BY <1>2, <3>1
    <3> HIDE DEF start, V
    <3> QED BY <3>1, <3>2
  <2>2. h = [k \in D |-> h[k]]
    BY <1>5 DEF Accumulates
  <2> HIDE DEF start
  <2>3. h = [k \in D |-> IF k = 0 THEN start ELSE takeToken(spec, h[k - 1], tokens[k])]
    BY <2>1, <2>2
  <2> QED BY <2>3
<1>7. readTokens(spec, tokens) = read[n]
  BY DEF readTokens
<1> HIDE DEF read, takes
<1> DEFINE K == {k \in D : ReadSoFar(spec, tokens, read[k], k)}
<1>8. 0 \in K
  <2>1. read[0] = start
    <3> HIDE DEF start
    <3> QED BY <1>2, <1>6
  <2>2. start.ok /\ start.wants = "none" /\ start.given = {}
    OBVIOUS
  <2> HIDE DEF start
  <2>3. ReadSoFar(spec, tokens, start, 0)
    BY <1>3, <2>2 DEF ReadSoFar
  <2> QED BY <1>2, <2>1, <2>3
<1>9. ASSUME NEW k \in 1..n, k - 1 \in K PROVE k \in K
  <2>1. k \in D /\ k # 0
    BY <1>1
  <2>2. read[k] = takeToken(spec, read[k - 1], tokens[k])
    <3> HIDE DEF start
    <3> QED BY <1>6, <2>1
  <2>3. ReadSoFar(spec, tokens, read[k - 1], k - 1)
    BY <1>9
  <2> QED BY <2>1, <2>2, <2>3, TokenIsRead
<1>10. \A k \in 0..n : k \in K
  <2> HIDE DEF K
  <2> QED BY <1>1, <1>8, <1>9, UpTo
<1>11. n \in 0..n
  BY <1>1
<1> QED BY <1>7, <1>10, <1>11

\* main looks for --json in argv before it parses; a call that parses found it, too.
LEMMA ModesAgree ==
  ASSUME NEW tokens \in Seq(Tokens), parseCli(tokens).ok
  PROVE  jsonFlag(parseCli(tokens)) <=> includesJson(tokens)
<1> DEFINE spec == COMMAND_SPEC[tokens[1].name]
           rest == Tail(tokens)
           out == readTokens(spec, rest)
<1>1. /\ tokens # <<>> /\ tokens[1].kind # "flag" /\ tokens[1].name \in PIPELINE_COMMANDS
      /\ parseCli(tokens) = out /\ out.ok /\ \A g \in out.given : assertValue(g[1], g[2])
  BY DEF parseCli, Refused
<1>2. spec \in SUBSET {"plan", "config", "run", "action"}
  BY <1>1 DEF COMMAND_SPEC, PIPELINE_COMMANDS
<1>3. /\ rest \in Seq(Tokens) /\ Len(rest) = Len(tokens) - 1 /\ Len(tokens) \in Nat
      /\ \A i \in 1..(Len(tokens) - 1) : rest[i] = tokens[i + 1]
  BY <1>1
<1>4. includesJson(tokens) <=> \E i \in 1..Len(rest) : rest[i] = Flag("json")
  <2>1. tokens[1] # Flag("json")
    BY <1>1 DEF Flag
  <2>2. \A i \in 1..Len(tokens) : i = 1 \/ (i - 1 \in 1..Len(rest) /\ rest[i - 1] = tokens[i])
    BY <1>3
  <2>3. \A i \in 1..Len(rest) : i + 1 \in 1..Len(tokens) /\ rest[i] = tokens[i + 1]
    BY <1>3
  <2> QED BY <2>1, <2>2, <2>3 DEF includesJson
<1> HIDE DEF spec, rest, out
<1>5. "none" \notin spec /\ "json" \notin spec
  BY <1>2
<1>6. ReadSoFar(spec, rest, out, Len(rest))
  BY <1>3, <1>5, TokensAreRead DEF out
<1>7. \A g \in out.given : g[1] \in spec => g[2] # "dashed"
  BY <1>1, <1>2 DEF assertValue
<1>8. jsonFlag(out) <=> includesJson(tokens)
  BY <1>1, <1>4, <1>6, <1>7 DEF ReadSoFar, jsonFlag
<1> QED BY <1>1, <1>8

\* A caller of pipeline.mjs that asks for JSON gets one object and not a line besides, one
\* that does not gets none, however the call ends and for whatever tokens it is made of.
THEOREM OneAnswerPerCall == CliInit /\ [][main]_cliVars => []OneAnswer
<1> DEFINE AnswerInv == argv \in CommandLines /\ OneAnswer
<1>1. CliInit => AnswerInv
  BY DEF CliInit, OneAnswer
<1>2. AnswerInv /\ [main]_cliVars => AnswerInv'
  <2> SUFFICES ASSUME AnswerInv, main PROVE OneAnswer'
    BY DEF cliVars, OneAnswer, main
  <2> DEFINE json == includesJson(argv)
  <2>1. argv' = argv /\ argv \in Seq(Tokens)
    BY CliAssumption DEF main
  <2>2. \/ \E e : fail(json, e)
        \/ \E code : answer' = say(json, code)
    <3>1. CASE ~parseCli(argv).ok
      BY <3>1 DEF main
    <3>2. CASE parseCli(argv).ok
      <4>1. jsonFlag(parseCli(argv)) = json
        BY <2>1, <3>2, ModesAgree DEF jsonFlag, includesJson
      <4> QED BY <3>2, <4>1 DEF main
    <3> QED BY <3>1, <3>2
  <2>3. answer'.objects = (IF json THEN 1 ELSE 0) /\ (json => answer'.lines = 0)
    <3> HIDE DEF json
    <3>1. CASE \E code : answer' = say(json, code)
      BY <3>1 DEF say
    <3>2. CASE \E e : fail(json, e)
      <4>1. PICK x : answer' = [say(json, x) EXCEPT !.lines = 0]
        BY <3>2 DEF fail
      <4> QED BY <4>1 DEF say
    <3> QED BY <2>2, <3>1, <3>2
  <2> QED BY <2>1, <2>3 DEF OneAnswer
<1>3. AnswerInv => OneAnswer
  OBVIOUS
<1> QED BY <1>1, <1>2, <1>3, PTL

=============================================================================
