------------------------------ MODULE RunProofs ------------------------------
(***************************************************************************)
(* What a run lives by, each for any number of whatever it deals with: the *)
(* budget ledger, the approval and the publication of the run, and what is *)
(* learned from it.                                                        *)
(***************************************************************************)
EXTENDS BudgetLedger, PipelineEngine, Learnings, FiniteSetTheorems, SequenceTheorems, TLAPS

-----------------------------------------------------------------------------
(***************************************************************************)
(* The budget ledger for any number of tasks, phases, termination sets and *)
(* timeouts.  The wall held by open reservations is the cardinality of     *)
(* heldMs, the set of the held milliseconds tagged by their reservation,   *)
(* so opening or closing one reservation moves it by exactly that          *)
(* reservation's slice (HeldSlice); everything else is arithmetic.         *)
(***************************************************************************)
\* Before the termination set is bound nothing has been spent or held.
UnboundIsIdle ==
  limits = Unbound =>
    /\ codexCalls = 0 /\ activeWallMs = 0 /\ open = {}
    /\ \A t \in Tasks : attemptsByTask[t] = 0
    /\ \A p \in Phases : attemptsByPhase[p] = 0

Inv == TypeOK /\ UnboundIsIdle /\ NeverOversubscribed /\ EveryCallChargedOnce

-----------------------------------------------------------------------------
\* A finite set of reservations with natural slices holds finitely many
\* milliseconds.
LEMMA HeldFinite ==
  ASSUME NEW r, IsFiniteSet(DOMAIN r), \A id \in DOMAIN r : r[id].reservedMs \in Nat
  PROVE  IsFiniteSet(heldMs(r))
<1> DEFINE Slice(id) == {id} \X (1..r[id].reservedMs)
           Slices == {Slice(id) : id \in DOMAIN r}
<1>1. \A T \in Slices : IsFiniteSet(T)
  <2> SUFFICES ASSUME NEW id \in DOMAIN r PROVE IsFiniteSet(Slice(id))
    OBVIOUS
  <2>1. IsFiniteSet({id})
    BY FS_Singleton
  <2>2. IsFiniteSet(1..r[id].reservedMs)
    <3>1. r[id].reservedMs \in Int
      OBVIOUS
    <3> QED BY <3>1, FS_Interval
  <2> QED BY <2>1, <2>2, FS_Product
<1>2. IsFiniteSet(Slices)
  <2> DEFINE f == [id \in DOMAIN r |-> Slice(id)]
  <2>1. f \in Surjection(DOMAIN r, Slices)
    BY DEF Surjection
  <2> HIDE DEF f, Slices
  <2> QED BY <2>1, FS_Surjection
<1> HIDE DEF Slices
<1>3. IsFiniteSet(UNION Slices)
  BY <1>1, <1>2, FS_UNION
<1> QED BY <1>3 DEF heldMs, Slices

\* Adding one reservation to r adds exactly its slice to the wall held.
LEMMA HeldSlice ==
  ASSUME NEW r, NEW more, NEW id \in DOMAIN more,
         IsFiniteSet(DOMAIN r),
         DOMAIN r = DOMAIN more \ {id},
         \A x \in DOMAIN r : r[x] = more[x],
         \A x \in DOMAIN more : more[x].reservedMs \in Nat
  PROVE  Cardinality(heldMs(more)) = Cardinality(heldMs(r)) + more[id].reservedMs
<1> DEFINE slice == {id} \X (1..more[id].reservedMs)
<1>1. heldMs(more) = heldMs(r) \cup slice
  BY DEF heldMs
<1>2. heldMs(r) \cap slice = {}
  BY DEF heldMs
<1>3. IsFiniteSet(heldMs(r))
  <2>1. \A x \in DOMAIN r : r[x].reservedMs \in Nat
    OBVIOUS
  <2> QED BY <2>1, HeldFinite
<1>4. IsFiniteSet(slice) /\ Cardinality(slice) = more[id].reservedMs
  <2>1. IsFiniteSet({id}) /\ Cardinality({id}) = 1
    BY FS_Singleton
  <2>2. more[id].reservedMs \in Nat
    OBVIOUS
  <2>3. /\ IsFiniteSet(1..more[id].reservedMs)
        /\ Cardinality(1..more[id].reservedMs) = more[id].reservedMs
    <3> HIDE DEF slice
    <3> DEFINE n == more[id].reservedMs
    <3>1. n \in Nat
      BY <2>2
    <3> HIDE DEF n
    <3>2. IsFiniteSet(1..n) /\ Cardinality(1..n) = IF 1 > n THEN 0 ELSE n - 1 + 1
      BY <3>1, FS_Interval
    <3>3. Cardinality(1..n) = n
      BY <3>1, <3>2
    <3> QED BY <3>2, <3>3 DEF n
  <2>4. IsFiniteSet(slice) /\ Cardinality(slice) = 1 * more[id].reservedMs
    BY <2>1, <2>3, FS_Product
  <2> QED BY <2>2, <2>4
<1> HIDE DEF slice
<1>5. Cardinality(heldMs(more)) =
        Cardinality(heldMs(r)) + Cardinality(slice) - Cardinality(heldMs(r) \cap slice)
  BY <1>1, <1>3, <1>4, FS_Union
<1>6. Cardinality(heldMs(r) \cap slice) = 0
  BY <1>2, FS_EmptySet
<1>7. Cardinality(heldMs(r)) \in Nat
  BY <1>3, FS_CardinalityType
<1> QED BY <1>4, <1>5, <1>6, <1>7

-----------------------------------------------------------------------------
\* The ids of open reservations are finitely many: they were all handed out.
LEMMA OpenFinite == TypeOK => IsFiniteSet(open)
<1> SUFFICES ASSUME TypeOK PROVE IsFiniteSet(open)
  OBVIOUS
<1>1. codexCalls \in Int /\ open \subseteq 1..codexCalls
  BY DEF TypeOK, open
<1>2. IsFiniteSet(1..codexCalls)
  BY <1>1, FS_Interval
<1> QED BY <1>1, <1>2, FS_Subset

\* The slices of open reservations and their sum are naturals.
LEMMA HeldType ==
  TypeOK => /\ \A id \in open : openReservations[id].reservedMs \in Nat \ {0}
            /\ sumOpenReserved \in Nat
            /\ Cardinality(open) \in Nat
<1> SUFFICES ASSUME TypeOK
             PROVE  /\ \A id \in open : openReservations[id].reservedMs \in Nat \ {0}
                    /\ sumOpenReserved \in Nat
                    /\ Cardinality(open) \in Nat
  OBVIOUS
<1>1. \A id \in open : openReservations[id].reservedMs \in Nat \ {0}
  BY DEF TypeOK, open, Reservation, Limit
<1>2. IsFiniteSet(open)
  BY OpenFinite
<1>3. IsFiniteSet(heldMs(openReservations))
  BY <1>1, <1>2, HeldFinite DEF open
<1>4. sumOpenReserved \in Nat
  BY <1>3, FS_CardinalityType DEF sumOpenReserved
<1> QED BY <1>1, <1>2, <1>4, FS_CardinalityType

\* With no reservation open no wall is held.
LEMMA HeldNone == \A r : DOMAIN r = {} => heldMs(r) = {} /\ Cardinality(heldMs(r)) = 0
<1> SUFFICES ASSUME NEW r, DOMAIN r = {} PROVE heldMs(r) = {}
  BY FS_EmptySet
<1> QED BY DEF heldMs

\* The termination set in force is well formed.
LEMMA LimitsType ==
  TypeOK /\ limits # Unbound => limits \in TerminationSet
BY BudgetAssumption DEF TypeOK

LEMMA InitInv == Init => Inv
<1> SUFFICES ASSUME Init PROVE Inv
  OBVIOUS
<1>1. DOMAIN openReservations = {} /\ open = {}
  BY DEF Init, open
<1>2. TypeOK
  <2>1. barriers \in Seq(Fingerprints)
    BY EmptySeq DEF Init
  <2>2. /\ attemptsByTask \in [Tasks -> Nat]
        /\ attemptsByPhase \in [Phases -> Nat]
    BY DEF Init
  <2>3. stopped \subseteq Reasons /\ pause \in BOOLEAN /\ limits = Unbound
    BY DEF Init
  <2>4. /\ codexCalls \in Nat /\ settledCalls \in Nat /\ crashCharges \in Nat
        /\ activeWallMs \in Nat /\ observedReports \in Nat
    BY DEF Init
  <2> QED BY <1>1, <2>1, <2>2, <2>3, <2>4 DEF TypeOK
<1>3. UnboundIsIdle
  BY <1>1 DEF Init, UnboundIsIdle
<1>4. EveryCallChargedOnce
  BY <1>1, FS_EmptySet DEF Init, EveryCallChargedOnce
<1>5. NeverOversubscribed
  BY DEF Init, NeverOversubscribed
<1> QED BY <1>2, <1>3, <1>4, <1>5 DEF Inv

\* A step that leaves spend, limits and open reservations alone keeps Inv when
\* it keeps the types of what it changes.
LEMMA IdleStep ==
  ASSUME Inv, UNCHANGED <<limits, spend, openReservations>>,
         barriers' \in Seq(Fingerprints), observedReports' \in Nat, pause' \in BOOLEAN,
         stopped' \subseteq Reasons
  PROVE  Inv'
<1>1. TypeOK'
  BY DEF Inv, TypeOK, spend
<1>2. open' = open /\ sumOpenReserved' = sumOpenReserved
  BY DEF open, sumOpenReserved
<1>3. UnboundIsIdle'
  BY <1>2 DEF Inv, UnboundIsIdle, spend
<1>4. EveryCallChargedOnce'
  BY <1>2 DEF Inv, EveryCallChargedOnce, spend
<1>5. NeverOversubscribed'
  BY <1>2 DEF Inv, NeverOversubscribed, WallWithinCap, CountsWithinCaps, spend
<1> QED BY <1>1, <1>3, <1>4, <1>5 DEF Inv

\* Binding the termination set: nothing was spent before.
LEMMA InitBudgetStep ==
  ASSUME Inv, NEW l \in LimitSets, initBudget(l)
  PROVE  Inv'
<1>1. l \in TerminationSet /\ l # Unbound
  BY BudgetAssumption
<1>2. TypeOK'
  BY DEF Inv, TypeOK, initBudget, spend
<1>3. open' = open /\ open = {} /\ sumOpenReserved' = 0
  BY HeldNone DEF Inv, UnboundIsIdle, initBudget, open, sumOpenReserved
<1>4. UnboundIsIdle'
  BY <1>1 DEF UnboundIsIdle, initBudget
<1>5. EveryCallChargedOnce'
  BY <1>3 DEF Inv, EveryCallChargedOnce, initBudget, spend
<1>6. NeverOversubscribed'
  <2>1. /\ codexCalls' = 0 /\ activeWallMs' = 0
        /\ \A t \in Tasks : attemptsByTask'[t] = 0
        /\ \A p \in Phases : attemptsByPhase'[p] = 0
    BY DEF Inv, UnboundIsIdle, initBudget, spend
  <2>2. limits' \in TerminationSet
    BY <1>1 DEF initBudget
  <2>3. /\ limits'.maxActiveWallMs \in Nat /\ limits'.maxCodexCalls \in Nat
        /\ limits'.maxAttemptsPerTask \in Nat /\ limits'.maxAttemptsPerPhase \in Nat
    BY <2>2 DEF TerminationSet, Limit
  <2> QED BY <1>3, <2>1, <2>3 DEF NeverOversubscribed, WallWithinCap, CountsWithinCaps
<1> QED BY <1>2, <1>4, <1>5, <1>6 DEF Inv

\* Reserving opens one id and holds at most the wall that remained.
LEMMA ReserveStep ==
  ASSUME Inv, NEW t \in Tasks, NEW p \in Phases, NEW ms \in CallTimeouts, reserve(t, p, ms)
  PROVE  Inv'
<1> DEFINE id == codexCalls + 1
           slice == Smaller(ms, remainingWall)
<1>1. /\ limits \in TerminationSet /\ TypeOK
      /\ limits.maxActiveWallMs \in Nat /\ limits.maxCodexCalls \in Nat
      /\ limits.maxAttemptsPerTask \in Nat /\ limits.maxAttemptsPerPhase \in Nat
  BY LimitsType DEF Inv, reserve, TerminationSet, Limit
<1>2. /\ activeWallMs \in Nat /\ sumOpenReserved \in Nat /\ codexCalls \in Nat
      /\ Cardinality(open) \in Nat /\ IsFiniteSet(open) /\ settledCalls \in Nat
      /\ crashCharges \in Nat
  BY <1>1, HeldType, OpenFinite DEF TypeOK
<1>3. remainingWall \in Int /\ remainingWall > 0 /\ ms \in Nat \ {0}
  BY <1>1, <1>2, BudgetAssumption DEF remainingWall, reserve, mayReserve, Limit
<1>4. slice \in Limit /\ slice <= remainingWall
  BY <1>3 DEF Smaller, Limit
<1>5. id \notin open /\ id \in 1..id
  BY <1>1, <1>2 DEF TypeOK, open
<1>6. /\ DOMAIN openReservations' = open \cup {id}
      /\ open' = open \cup {id}
      /\ \A x \in open : openReservations'[x] = openReservations[x]
      /\ openReservations'[id] = [task |-> t, phase |-> p, reservedMs |-> slice]
  BY <1>5 DEF reserve, open
<1> HIDE DEF slice
<1>7. openReservations'[id] \in Reservation /\ openReservations'[id].reservedMs = slice
  BY <1>4, <1>6 DEF Reservation
<1>8. TypeOK'
  <2>1. open' \subseteq 1..codexCalls'
    BY <1>1, <1>2, <1>6 DEF TypeOK, reserve, open
  <2>2. \A x \in DOMAIN openReservations' : openReservations'[x] \in Reservation
    BY <1>1, <1>6, <1>7 DEF TypeOK, open
  <2>3. /\ attemptsByTask' \in [Tasks -> Nat]
        /\ attemptsByPhase' \in [Phases -> Nat]
    BY <1>1 DEF TypeOK, reserve
  <2>4. /\ limits' \in LimitSets \cup {Unbound} /\ settledCalls' \in Nat
        /\ crashCharges' \in Nat /\ activeWallMs' \in Nat
        /\ barriers' \in Seq(Fingerprints) /\ observedReports' \in Nat
        /\ pause' \in BOOLEAN /\ stopped' \subseteq Reasons
    BY <1>1 DEF TypeOK, reserve
  <2>5. codexCalls' \in Nat
    BY <1>2 DEF reserve
  <2> QED BY <2>1, <2>2, <2>3, <2>4, <2>5 DEF TypeOK, open
<1>9. sumOpenReserved' = sumOpenReserved + slice
  <2>1. \A x \in DOMAIN openReservations' : openReservations'[x].reservedMs \in Nat
    BY <1>8 DEF TypeOK, Reservation, Limit
  <2>2. DOMAIN openReservations = DOMAIN openReservations' \ {id}
    BY <1>5, <1>6 DEF open
  <2>3. \A x \in DOMAIN openReservations : openReservations[x] = openReservations'[x]
    BY <1>6 DEF open
  <2>4. id \in DOMAIN openReservations' /\ IsFiniteSet(DOMAIN openReservations)
    BY <1>2, <1>6 DEF open
  <2>5. Cardinality(heldMs(openReservations')) =
          Cardinality(heldMs(openReservations)) + openReservations'[id].reservedMs
    BY <2>1, <2>2, <2>3, <2>4, HeldSlice
  <2> QED BY <1>7, <2>5 DEF sumOpenReserved
<1>10. UnboundIsIdle'
  BY DEF UnboundIsIdle, reserve
<1>11. EveryCallChargedOnce'
  <2>1. Cardinality(open') = Cardinality(open) + 1
    BY <1>2, <1>5, <1>6, FS_AddElement
  <2> QED BY <1>2, <2>1 DEF Inv, EveryCallChargedOnce, reserve
<1>12. NeverOversubscribed'
  <2>1. WallWithinCap'
    BY <1>1, <1>2, <1>3, <1>4, <1>9 DEF WallWithinCap, reserve, remainingWall, Limit
  <2>2. CountsWithinCaps /\ mayReserve(t, p)
    BY DEF Inv, NeverOversubscribed, reserve
  <2>3. codexCalls' <= limits'.maxCodexCalls
    BY <1>1, <1>2, <2>2 DEF reserve, mayReserve
  <2>4. \A u \in Tasks : attemptsByTask'[u] <= limits'.maxAttemptsPerTask
    BY <1>1, <2>2 DEF reserve, mayReserve, CountsWithinCaps, TypeOK
  <2>5. \A q \in Phases : attemptsByPhase'[q] <= limits'.maxAttemptsPerPhase
    BY <1>1, <2>2 DEF reserve, mayReserve, CountsWithinCaps, TypeOK
  <2> QED BY <2>1, <2>3, <2>4, <2>5 DEF NeverOversubscribed, CountsWithinCaps
<1> QED BY <1>8, <1>10, <1>11, <1>12 DEF Inv

\* Settling closes one id and charges at most the slice it held.
LEMMA SettleStep ==
  ASSUME Inv, NEW id \in 1..codexCalls, NEW ms \in Measured, settle(id, ms)
  PROVE  Inv'
<1> DEFINE slice == openReservations[id].reservedMs
           charge == Smaller(ms, slice)
<1>1. TypeOK /\ id \in open /\ limits # Unbound
  BY DEF Inv, settle, UnboundIsIdle
<1>2. /\ activeWallMs \in Nat /\ sumOpenReserved \in Nat /\ codexCalls \in Nat
      /\ Cardinality(open) \in Nat /\ IsFiniteSet(open) /\ settledCalls \in Nat
      /\ crashCharges \in Nat /\ slice \in Nat \ {0}
      /\ \A x \in open : openReservations[x].reservedMs \in Nat
  BY <1>1, HeldType, OpenFinite DEF TypeOK
<1>3. ms \in Nat
  BY BudgetAssumption
<1>4. charge \in Nat /\ charge <= slice
  BY <1>2, <1>3 DEF Smaller
<1>5. /\ open' = open \ {id}
      /\ DOMAIN openReservations' = open \ {id}
      /\ \A x \in open' : openReservations'[x] = openReservations[x]
  BY DEF settle, Without, open
<1>6. activeWallMs' = activeWallMs + charge
  BY DEF settle
<1> HIDE DEF charge
<1>7. TypeOK'
  <2>1. \A x \in DOMAIN openReservations' : openReservations'[x] \in Reservation
    BY <1>1, <1>5 DEF TypeOK, open
  <2>2. DOMAIN openReservations' \subseteq 1..codexCalls'
    BY <1>1, <1>5 DEF TypeOK, settle, open
  <2>3. activeWallMs' \in Nat /\ settledCalls' \in Nat
    BY <1>2, <1>4, <1>6 DEF settle
  <2>4. /\ limits' \in LimitSets \cup {Unbound} /\ codexCalls' \in Nat
        /\ crashCharges' \in Nat /\ attemptsByTask' \in [Tasks -> Nat]
        /\ attemptsByPhase' \in [Phases -> Nat] /\ barriers' \in Seq(Fingerprints)
        /\ observedReports' \in Nat
        /\ pause' \in BOOLEAN /\ stopped' \subseteq Reasons
    BY <1>1 DEF TypeOK, settle
  <2> QED BY <2>1, <2>2, <2>3, <2>4 DEF TypeOK
<1>8. sumOpenReserved = sumOpenReserved' + slice
  <2>1. Cardinality(heldMs(openReservations)) =
          Cardinality(heldMs(openReservations')) + openReservations[id].reservedMs
    <3>1. IsFiniteSet(DOMAIN openReservations')
      BY <1>2, <1>5, FS_RemoveElement
    <3>2. /\ id \in DOMAIN openReservations
          /\ DOMAIN openReservations' = DOMAIN openReservations \ {id}
          /\ \A x \in DOMAIN openReservations' : openReservations'[x] = openReservations[x]
          /\ \A x \in DOMAIN openReservations : openReservations[x].reservedMs \in Nat
      BY <1>1, <1>2, <1>5 DEF open
    <3> QED BY <3>1, <3>2, HeldSlice
  <2> QED BY <2>1 DEF sumOpenReserved
<1>9. sumOpenReserved' \in Nat
  <2>1. /\ IsFiniteSet(DOMAIN openReservations')
        /\ \A x \in DOMAIN openReservations' : openReservations'[x].reservedMs \in Nat
    BY <1>2, <1>5, FS_RemoveElement DEF open
  <2>2. IsFiniteSet(heldMs(openReservations'))
    BY <2>1, HeldFinite
  <2> QED BY <2>2, FS_CardinalityType DEF sumOpenReserved
<1>10. UnboundIsIdle'
  BY <1>1 DEF UnboundIsIdle, settle
<1>11. EveryCallChargedOnce'
  <2>1. Cardinality(open') = Cardinality(open) - 1
    BY <1>1, <1>2, <1>5, FS_RemoveElement
  <2> QED BY <1>2, <2>1 DEF Inv, EveryCallChargedOnce, settle
<1>12. NeverOversubscribed'
  <2>1. limits.maxActiveWallMs \in Nat
    BY <1>1, LimitsType DEF TerminationSet, Limit
  <2>2. WallWithinCap'
    BY <1>1, <1>2, <1>4, <1>6, <1>8, <1>9, <2>1
       DEF Inv, NeverOversubscribed, WallWithinCap, settle
  <2>3. CountsWithinCaps'
    BY <1>1 DEF Inv, NeverOversubscribed, CountsWithinCaps, settle
  <2> QED BY <2>2, <2>3 DEF NeverOversubscribed
<1> QED BY <1>7, <1>10, <1>11, <1>12 DEF Inv

\* Reconciling turns everything held into charged wall.
LEMMA ReconcileStep ==
  ASSUME Inv, reconcileOpenSegments
  PROVE  Inv'
<1>1. TypeOK /\ limits # Unbound
  BY DEF Inv, reconcileOpenSegments, UnboundIsIdle
<1>2. /\ activeWallMs \in Nat /\ sumOpenReserved \in Nat /\ codexCalls \in Nat
      /\ Cardinality(open) \in Nat /\ settledCalls \in Nat /\ crashCharges \in Nat
  BY <1>1, HeldType DEF TypeOK
<1>3. DOMAIN openReservations' = {} /\ open' = {}
  BY DEF reconcileOpenSegments, open
<1>4. sumOpenReserved' = 0 /\ Cardinality(open') = 0
  BY <1>3, HeldNone, FS_EmptySet DEF sumOpenReserved
<1>5. TypeOK'
  BY <1>1, <1>2, <1>3 DEF TypeOK, reconcileOpenSegments
<1>6. UnboundIsIdle'
  BY <1>1 DEF UnboundIsIdle, reconcileOpenSegments
<1>7. EveryCallChargedOnce'
  BY <1>2, <1>4 DEF Inv, EveryCallChargedOnce, reconcileOpenSegments
<1>8. NeverOversubscribed'
  BY <1>1, <1>2, <1>4 DEF Inv, NeverOversubscribed, WallWithinCap, CountsWithinCaps,
                          reconcileOpenSegments
<1> QED BY <1>5, <1>6, <1>7, <1>8 DEF Inv

\* evaluate touches the barriers and the stop only.
LEMMA EvaluateStep ==
  ASSUME Inv, NEW f \in Fingerprints \cup {Absent}, NEW e \in Triggers \cup {Absent},
         evaluate(f, e)
  PROVE  Inv'
<1>1. /\ UNCHANGED <<limits, spend, openReservations>>
      /\ pause' \in BOOLEAN /\ observedReports' \in Nat
  BY DEF evaluate, Inv, TypeOK
<1>2. barriers' \in Seq(Fingerprints)
  BY DEF evaluate, Inv, TypeOK
<1>3. stopped' \subseteq Reasons
  <2>1. exhaustedReasons \subseteq Reasons
    BY DEF exhaustedReasons
  <2>2. {"max-no-progress-barriers", "escalation"} \subseteq Reasons
    BY DEF Reasons
  <2> QED BY <2>1, <2>2 DEF evaluate, Inv, TypeOK
<1> QED BY <1>1, <1>2, <1>3, IdleStep

LEMMA NextInv == Inv /\ [Next]_vars => Inv'
<1> SUFFICES ASSUME Inv, [Next]_vars PROVE Inv'
  OBVIOUS
<1>1. ASSUME NEW l \in LimitSets, initBudget(l) PROVE Inv'
  BY <1>1, InitBudgetStep
<1>2. ASSUME NEW t \in Tasks, NEW p \in Phases, NEW ms \in CallTimeouts, reserve(t, p, ms)
      PROVE  Inv'
  BY <1>2, ReserveStep
<1>3. ASSUME NEW id \in 1..codexCalls, NEW ms \in Measured, settle(id, ms) PROVE Inv'
  BY <1>3, SettleStep
<1>4. CASE reconcileOpenSegments
  BY <1>4, ReconcileStep
<1>9. CASE reportTokens
  BY <1>9, IdleStep DEF reportTokens, Inv, TypeOK
<1>5. CASE pauseForAuthorization
  BY <1>5, IdleStep DEF pauseForAuthorization, Inv, TypeOK
<1>6. CASE resumeFromAuthorization
  BY <1>6, IdleStep DEF resumeFromAuthorization, Inv, TypeOK
<1>7. ASSUME NEW f \in Fingerprints \cup {Absent}, NEW e \in Triggers \cup {Absent},
             evaluate(f, e)
      PROVE  Inv'
  BY <1>7, EvaluateStep
<1>8. CASE UNCHANGED vars
  BY <1>8, IdleStep DEF vars, Inv, TypeOK
<1> QED BY <1>1, <1>2, <1>3, <1>4, <1>5, <1>6, <1>7, <1>8, <1>9 DEF Next

-----------------------------------------------------------------------------
\* The ledger's fields keep their types, for every set of tasks and limits.
THEOREM TypeCorrect == Spec => []TypeOK
<1>1. Inv => TypeOK
  BY DEF Inv
<1> QED BY <1>1, InitInv, NextInv, PTL DEF Spec

\* Every reserved call is accounted for exactly once: open, settled by its
\* child, or charged by a reconcile after a crash.
THEOREM CallsAccounted == Spec => []EveryCallChargedOnce
<1>1. Inv => EveryCallChargedOnce
  BY DEF Inv
<1> QED BY <1>1, InitInv, NextInv, PTL DEF Spec

\* No interleaving of reservations, settlements and crash charges passes any
\* cap of the termination set.
THEOREM CapsHold == Spec => []NeverOversubscribed
<1>1. Inv => NeverOversubscribed
  BY DEF Inv
<1> QED BY <1>1, InitInv, NextInv, PTL DEF Spec

\* A recorded stop is final: nothing is granted after it and nothing reopens.
THEOREM StopIsFinal == Spec => StopDrains
<1>1. Inv /\ [Next]_vars =>
        [isStopped => /\ stopped' = stopped
                      /\ codexCalls' = codexCalls
                      /\ DOMAIN openReservations' \subseteq open]_vars
  <2> SUFFICES ASSUME Inv, Next, isStopped
               PROVE  /\ stopped' = stopped
                      /\ codexCalls' = codexCalls
                      /\ DOMAIN openReservations' \subseteq open
    OBVIOUS
  <2>1. ASSUME NEW l \in LimitSets, initBudget(l)
        PROVE  stopped' = stopped /\ codexCalls' = codexCalls /\ openReservations' = openReservations
    BY <2>1 DEF initBudget, spend
  <2>2. ASSUME NEW t \in Tasks, NEW p \in Phases, NEW ms \in CallTimeouts, reserve(t, p, ms)
        PROVE  FALSE
    BY <2>2 DEF reserve, mayReserve
  <2>3. ASSUME NEW id \in 1..codexCalls, NEW ms \in Measured, settle(id, ms)
        PROVE  /\ stopped' = stopped /\ codexCalls' = codexCalls
               /\ DOMAIN openReservations' \subseteq open
    BY <2>3 DEF settle, Without, open
  <2>4. CASE reconcileOpenSegments
    BY <2>4 DEF reconcileOpenSegments
  <2>5. CASE reportTokens \/ pauseForAuthorization \/ resumeFromAuthorization
    BY <2>5 DEF reportTokens, pauseForAuthorization, resumeFromAuthorization, spend, open
  <2>6. ASSUME NEW f \in Fingerprints \cup {Absent}, NEW e \in Triggers \cup {Absent},
               evaluate(f, e)
        PROVE  stopped' = stopped /\ codexCalls' = codexCalls /\ openReservations' = openReservations
    BY <2>6 DEF evaluate, spend
  <2> QED BY <2>1, <2>2, <2>3, <2>4, <2>5, <2>6 DEF Next, open
<1> QED BY <1>1, InitInv, NextInv, PTL DEF Spec, StopDrains

-----------------------------------------------------------------------------
\* A streak of k is k equal entries at the end: had one of the last k another
\* value, only the entries behind it would count, and they are fewer.
LEMMA StreakIsAtTheEnd ==
  ASSUME NEW S, NEW s \in Seq(S), NEW k \in Limit, noProgressStreak(s) >= k
  PROVE  Len(s) >= k /\ \A i \in (Len(s) - k + 1)..Len(s) : s[i] = s[Len(s)]
<1> DEFINE n == Len(s)
           streak == {i \in DOMAIN s : \A j \in i..n : s[j] = s[n]}
<1>1. n \in Nat /\ DOMAIN s = 1..n /\ k \in Nat /\ Cardinality(streak) >= k
  BY LenProperties DEF Limit, noProgressStreak
<1>2. ASSUME NEW a \in 1..(n + 1), streak \subseteq a..n PROVE n - a + 1 >= k
  <2>1. a \in Int /\ n \in Int
    BY <1>1
  <2>2. IsFiniteSet(a..n) /\ Cardinality(a..n) = IF a > n THEN 0 ELSE n - a + 1
    BY <2>1, FS_Interval
  <2>3. Cardinality(streak) \in Nat /\ Cardinality(streak) <= Cardinality(a..n)
    BY <1>2, <2>2, FS_Subset, FS_CardinalityType
  <2> HIDE DEF streak, n
  <2> QED BY <1>1, <2>1, <2>2, <2>3
<1>3. n >= k
  <2>1. streak \subseteq 1..n /\ 1 \in 1..(n + 1)
    BY <1>1
  <2>2. n - 1 + 1 >= k
    BY <1>2, <2>1
  <2> QED BY <1>1, <2>2
<1>4. ASSUME NEW i \in (n - k + 1)..n, s[i] # s[n] PROVE FALSE
  <2>1. i \in 1..n /\ i + 1 \in 1..(n + 1)
    BY <1>1, <1>3
  <2>2. streak \subseteq (i + 1)..n
    <3> SUFFICES ASSUME NEW m \in streak PROVE m \in (i + 1)..n
      OBVIOUS
    <3>1. m \in 1..n /\ \A j \in m..n : s[j] = s[n]
      BY <1>1
    <3>2. i \notin m..n
      BY <1>4, <3>1
    <3> QED BY <1>1, <2>1, <3>1, <3>2
  <2>3. n - (i + 1) + 1 >= k
    BY <1>2, <2>1, <2>2
  <2> QED BY <1>1, <2>1, <2>3
<1> QED BY <1>3, <1>4

\* A stop for lack of progress was earned: the last barriers, as many as the
\* limit says, all had one fingerprint when evaluate recorded it.
THEOREM StopIsEarned == Spec => NoProgressStopIsEarned
<1> DEFINE Earned ==
      /\ Len(barriers') >= limits.maxNoProgressBarriers
      /\ \A i \in (Len(barriers') - limits.maxNoProgressBarriers + 1)..Len(barriers') :
           barriers'[i] = barriers'[Len(barriers')]
<1>1. Inv /\ [Next]_vars =>
        [~isStopped /\ "max-no-progress-barriers" \in stopped' => Earned]_vars
  <2> SUFFICES ASSUME Inv, Next, ~isStopped, "max-no-progress-barriers" \in stopped'
               PROVE  Earned
    OBVIOUS
  <2>1. stopped = {}
    BY DEF isStopped
  <2>2. PICK f \in Fingerprints \cup {Absent}, e \in Triggers \cup {Absent} : evaluate(f, e)
    BY <2>1 DEF Next, initBudget, reserve, settle, reconcileOpenSegments, reportTokens,
                pauseForAuthorization, resumeFromAuthorization
  <2>3. "max-no-progress-barriers" \notin exhaustedReasons \cup {"escalation"}
    BY DEF exhaustedReasons
  <2>4. noProgressStreak(barriers') >= limits.maxNoProgressBarriers
    BY <2>1, <2>2, <2>3 DEF evaluate, isStopped
  <2>5. limits.maxNoProgressBarriers \in Limit
    BY <2>2, LimitsType DEF Inv, evaluate, TerminationSet
  <2>6. barriers' \in Seq(Fingerprints)
    BY <2>2, EvaluateStep DEF Inv, TypeOK
  <2> QED BY <2>4, <2>5, <2>6, StreakIsAtTheEnd
<1> QED BY <1>1, InitInv, NextInv, PTL DEF Spec, NoProgressStopIsEarned

-----------------------------------------------------------------------------
(***************************************************************************)
(* The run for any number of sessions and commands, whatever the plan file *)
(* is edited to.  The approval never leaves "consumed" once it is there,   *)
(* and nobody passes the two gates of start and resume before that.  Every *)
(* base that a driver holds was stamped by an approve, and the commit it   *)
(* goes on to publish is ahead of that base.                               *)
(***************************************************************************)
\* Steps reached only behind the consumed approval.
Behind == Driving \cup {"stamp", "reconcile"}

Armed == target > 0 \/ \E s \in Sessions : pc[s] \in Behind

Gated == /\ pc = [s \in Sessions |-> pc[s]]
         /\ Armed => stage = "consumed"

\* The refs are numbers, and only "cas" holds a commit to publish.
RefsType ==
  /\ tip \in Nat /\ target \in Nat /\ base \in Nat /\ target <= tip
  /\ pc = [s \in Sessions |-> pc[s]]
  /\ from \in [Sessions -> Nat] /\ to \in [Sessions -> Nat]
  /\ planFile \in Plans

BasesApproved ==
  /\ meta # NoPlan => base \in approved
  /\ \A s \in Sessions :
       /\ pc[s] \in Behind \cup {"consume"} => from[s] \in approved
       /\ pc[s] = "cas" => from[s] < to[s] /\ to[s] <= tip

RefsInv == RefsType /\ BasesApproved

LEMMA GatedInit == RunInit => Gated
BY DEF RunInit, Gated, Armed, Behind, Driving

LEMMA GatedNext == Gated /\ [RunNext]_runVars => Gated'
<1> SUFFICES ASSUME Gated, [RunNext]_runVars PROVE Gated'
  OBVIOUS
<1> USE DEF Gated, Armed, Behind, Driving, at, goto, goesOn, capVars, refVars
<1>1. ASSUME NEW s \in Sessions, command(s) PROVE Gated'
  BY <1>1 DEF command, approve, start, resume, authorize, gc, loadRunCtx, begin
<1>2. ASSUME NEW s \in Sessions, approving(s) PROVE Gated'
  <2>1. CASE issuePlanApproval(s)
    BY <2>1 DEF issuePlanApproval
  <2>2. CASE ckInit(s) \/ openBudget(s) \/ stampMeta(s) \/ markPrepared(s) \/ stampNonce(s)
    BY <2>2 DEF ckInit, openBudget, stampMeta, markPrepared, stampNonce
  <2> QED BY <1>2, <2>1, <2>2 DEF approving
<1>3. ASSUME NEW s \in Sessions, consumePlanApproval(s) PROVE Gated'
  BY <1>3 DEF consumePlanApproval
<1>4. ASSUME NEW s \in Sessions, reconcileSegments(s) \/ stampRunning(s) PROVE Gated'
  BY <1>4 DEF reconcileSegments, stampRunning
<1>5. ASSUME NEW s \in Sessions, driving(s) PROVE Gated'
  <2>1. pc[s] \in Driving /\ UNCHANGED stage /\ pc' = [pc EXCEPT ![s] = pc'[s]]
    <3>1. CASE startBuild(s) \/ startPhases(s) \/ checkpointConvergence(s) \/ blockedRun(s)
      BY <3>1 DEF startBuild, startPhases, checkpointConvergence, blockedRun
    <3>2. ASSUME NEW c \in BOOLEAN, NEW b \in BOOLEAN, NEW g \in BOOLEAN, endBuild(s, c, b, g)
          PROVE <2>1!:
      BY <3>2 DEF endBuild
    <3>3. ASSUME NEW g \in BOOLEAN, closeout(s, g) \/ endPhases(s, g)
          PROVE <2>1!:
      BY <3>3 DEF closeout, endPhases
    <3>4. ASSUME NEW g \in BOOLEAN, NEW r \in BOOLEAN, NEW b \in BOOLEAN,
                 finalValidation(s, g, r, b)
          PROVE <2>1!:
      BY <3>4 DEF finalValidation
    <3>5. CASE finalize(s) \/ gatherPreconditions(s) \/ updateRef(s)
      BY <3>5 DEF finalize, gatherPreconditions, updateRef
    <3> QED BY <1>5, <3>1, <3>2, <3>3, <3>4, <3>5 DEF driving
  <2> QED BY <2>1
<1>6. ASSUME NEW s \in Sessions, haltForAuthorization(s) \/ archive(s) \/ die(s) PROVE Gated'
  BY <1>6 DEF haltForAuthorization, archive, die
<1>7. CASE edit \/ UNCHANGED runVars
  BY <1>7 DEF edit, runVars
<1> QED BY <1>1, <1>2, <1>3, <1>4, <1>5, <1>6, <1>7 DEF RunNext

LEMMA GatedAlways == RunSpec => []Gated
BY GatedInit, GatedNext, PTL DEF RunSpec

LEMMA RefsInit == RunInit => RefsInv
BY PipelineAssumption DEF RunInit, RefsInv, RefsType, BasesApproved, Behind, Driving

\* A step of a driver that lands nothing, publishes nothing and reads no ref.
LEMMA RefsRest ==
  ASSUME RefsInv, NEW s \in Sessions, NEW step,
         pc' = [pc EXCEPT ![s] = step],
         step \in Behind \cup {"consume"} => pc[s] \in Behind \cup {"consume"},
         step # "cas", UNCHANGED <<refVars, meta, base, from, to, planFile>>
  PROVE  RefsInv'
BY DEF RefsInv, RefsType, BasesApproved, refVars

LEMMA RefsNext == RefsInv /\ [RunNext]_runVars => RefsInv'
<1> SUFFICES ASSUME RefsInv, [RunNext]_runVars PROVE RefsInv'
  OBVIOUS
<1> USE DEF at, goto, goesOn, Behind, Driving
<1>1. ASSUME NEW s \in Sessions, command(s) PROVE RefsInv'
  <2>1. CASE approve(s) \/ authorize(s) \/ gc(s)
    BY <2>1 DEF approve, authorize, gc, loadRunCtx, begin, docVars, refVars, RefsInv, RefsType,
                BasesApproved
  <2>2. CASE start(s) \/ resume(s)
    <3>1. base \in approved
      BY <2>2, PipelineAssumption
         DEF start, resume, preflight, RefsInv, RefsType, BasesApproved
    <3> QED BY <2>2, <3>1 DEF start, resume, loadRunCtx, begin, docVars, refVars, RefsInv,
                              RefsType, BasesApproved
  <2> QED BY <1>1, <2>1, <2>2 DEF command
<1>2. ASSUME NEW s \in Sessions, approving(s) PROVE RefsInv'
  <2>1. CASE ckInit(s)
    BY <2>1 DEF ckInit, docVars, refVars, sessionVars, RefsInv, RefsType, BasesApproved
  <2>2. CASE stampMeta(s)
    BY <2>2 DEF stampMeta, sessionVars, RefsInv, RefsType, BasesApproved
  <2>3. CASE openBudget(s) \/ markPrepared(s) \/ issuePlanApproval(s) \/ stampNonce(s)
    BY <2>3, RefsRest DEF openBudget, markPrepared, issuePlanApproval, stampNonce, docVars,
                          sessionVars
  <2> QED BY <1>2, <2>1, <2>2, <2>3 DEF approving
<1>3. ASSUME NEW s \in Sessions,
             consumePlanApproval(s) \/ reconcileSegments(s) \/ stampRunning(s)
      PROVE  RefsInv'
  BY <1>3, RefsRest DEF consumePlanApproval, reconcileSegments, stampRunning, docVars, sessionVars
<1>4. ASSUME NEW s \in Sessions, driving(s) PROVE RefsInv'
  <2>1. CASE startBuild(s) \/ startPhases(s) \/ checkpointConvergence(s) \/ blockedRun(s)
    BY <2>1, RefsRest DEF startBuild, startPhases, checkpointConvergence, blockedRun, docVars,
                          sessionVars
  <2>2. ASSUME NEW c \in BOOLEAN, NEW b \in BOOLEAN, NEW g \in BOOLEAN, endBuild(s, c, b, g)
        PROVE RefsInv'
    BY <2>2 DEF endBuild, landed, RefsInv, RefsType, BasesApproved
  <2>3. ASSUME NEW g \in BOOLEAN, closeout(s, g) \/ endPhases(s, g)
        PROVE RefsInv'
    BY <2>3, RefsRest DEF closeout, endPhases, sessionVars
  <2>4. ASSUME NEW g \in BOOLEAN, NEW r \in BOOLEAN, NEW b \in BOOLEAN,
               finalValidation(s, g, r, b)
        PROVE RefsInv'
    BY <2>4, RefsRest DEF finalValidation, sessionVars
  <2>5. CASE finalize(s)
    BY <2>5, RefsRest DEF finalize, sessionVars
  <2>6. CASE gatherPreconditions(s)
    BY <2>6 DEF gatherPreconditions, mayPublish, docVars, refVars, RefsInv, RefsType,
                BasesApproved
  <2>7. CASE updateRef(s)
    BY <2>7 DEF updateRef, docVars, sessionVars, RefsInv, RefsType, BasesApproved
  <2> QED BY <1>4, <2>1, <2>2, <2>3, <2>4, <2>5, <2>6, <2>7 DEF driving
<1>5. ASSUME NEW s \in Sessions, haltForAuthorization(s) PROVE RefsInv'
  BY <1>5, RefsRest DEF haltForAuthorization, sessionVars
<1>6. ASSUME NEW s \in Sessions, archive(s) PROVE RefsInv'
  BY <1>6 DEF archive, refVars, sessionVars, RefsInv, RefsType, BasesApproved
<1>7. ASSUME NEW s \in Sessions, die(s) PROVE RefsInv'
  BY <1>7 DEF die, landed, docVars, sessionVars, RefsInv, RefsType, BasesApproved
<1>8. CASE edit \/ UNCHANGED runVars
  BY <1>8 DEF edit, runVars, docVars, refVars, sessionVars, RefsInv, RefsType, BasesApproved
<1> QED BY <1>1, <1>2, <1>3, <1>4, <1>5, <1>6, <1>7, <1>8 DEF RunNext

\* The target leaves only a base that an approve has stamped, and only forward, so it
\* leaves none twice: for any number of drivers of any number of approvals, whatever the
\* plan is edited to and wherever sessions die.
THEOREM TargetMovesByApproval == RunSpec => OneMovePerApprovedBase
<1>1. RefsInv /\ [RunNext]_runVars =>
        [target' # target => target \in approved /\ target' > target]_runVars
  <2> SUFFICES ASSUME RefsInv, RunNext, target' # target
               PROVE  target \in approved /\ target' > target
    OBVIOUS
  <2>1. PICK s \in Sessions : updateRef(s)
    BY DEF RunNext, command, approve, start, resume, authorize, gc, loadRunCtx, begin, approving,
       ckInit, openBudget, stampMeta, markPrepared, issuePlanApproval, stampNonce,
       consumePlanApproval, reconcileSegments, stampRunning, driving, startBuild, startPhases,
       checkpointConvergence, blockedRun, endBuild, closeout, endPhases, finalValidation,
       finalize, gatherPreconditions, haltForAuthorization, archive, die, edit, refVars
  <2> QED BY <2>1 DEF updateRef, at, RefsInv, RefsType, BasesApproved, Behind, Driving
<1> QED BY <1>1, RefsInit, RefsNext, PTL DEF RunSpec, OneMovePerApprovedBase

\* No session builds, runs a phase, finalizes or publishes, and nothing has been
\* published, before a plan approval is consumed, however sessions interleave and die.
THEOREM ApprovalComesFirst == RunSpec => []ExecutorsNeedApproval
<1>1. Gated => ExecutorsNeedApproval
  BY DEF Gated, Armed, Behind, ExecutorsNeedApproval
<1> QED BY <1>1, GatedAlways, PTL

-----------------------------------------------------------------------------
(***************************************************************************)
(* What a run learned, in the files its router writes: any directories,    *)
(* any inputs, any number of runs, deaths and edits.  The write under way  *)
(* carries what it will leave, and that keeps what was there unless replace *)
(* has expanded a pattern in it.                                           *)
(***************************************************************************)
Keeps(old, new) ==
  /\ \A i \in DOMAIN old.block : OneLine(i, old.block[i]) =>
       i \in DOMAIN new.block /\ old.block[i].evidence \subseteq new.block[i].evidence
  /\ old.text = "human" => new.text = "human"

FilesInv ==
  /\ agentsMd = [d \in Dirs |-> agentsMd[d]]
  /\ \A v, w \in rewriting : v = w
  /\ \A w \in rewriting : w.dir \in Dirs /\ (~w.expands => Keeps(w.before, w.after))

\* A block built on another keeps its one-line learnings, and their evidence.
LEMMA BlocksGrow ==
  ASSUME NEW block, NEW group, NEW i \in DOMAIN block, OneLine(i, block[i])
  PROVE  /\ i \in DOMAIN buildBlock(block, group)
         /\ block[i].evidence \subseteq buildBlock(block, group)[i].evidence
<1> DEFINE prior == parseBlock(block)
<1>1. i \in DOMAIN prior /\ prior[i] = block[i]
  BY DEF parseBlock
<1> HIDE DEF prior
<1>2. CASE \A s \in group : s.id # i
  BY <1>1, <1>2 DEF buildBlock, prior
<1>3. CASE ~\A s \in group : s.id # i
  <2> DEFINE s == CHOOSE x \in group : x.id = i
             line == lineFor(s, s.evidence \cup prior[i].evidence)
  <2>1. i \in DOMAIN buildBlock(block, group) /\ buildBlock(block, group)[i] = line
    BY <1>1, <1>3 DEF buildBlock, prior
  <2>2. line.evidence = s.evidence \cup prior[i].evidence
    BY DEF lineFor
  <2> QED BY <1>1, <2>1, <2>2
<1> QED BY <1>2, <1>3

\* What is written into a file keeps what is in it, but for a pattern.
LEMMA SpliceKeeps ==
  ASSUME NEW file, NEW group, NEW after \in splices(file, group),
         ~expands(file, buildBlock(file.block, group))
  PROVE  Keeps(file, after)
<1> DEFINE text == IF file = NoFile THEN "none" ELSE file.text
<1>1. after = File(text, buildBlock(file.block, group))
  BY DEF splices
<1>2. after.block = buildBlock(file.block, group) /\ after.text = text
  BY <1>1 DEF File
<1>3. file.text = "human" => text = "human"
  BY DEF NoFile, File
<1> HIDE DEF text
<1> QED BY <1>2, <1>3, BlocksGrow DEF Keeps

LEMMA FilesAreInvariant == LearnInit /\ [][LearnNext]_learnVars => []FilesInv
<1>1. LearnInit => FilesInv
  BY DEF LearnInit, FilesInv
<1>2. FilesInv /\ [LearnNext]_learnVars => FilesInv'
  <2> SUFFICES ASSUME FilesInv, [LearnNext]_learnVars PROVE FilesInv'
    OBVIOUS
  <2>1. CASE UNCHANGED <<agentsMd, rewriting>>
    BY <2>1 DEF FilesInv
  <2>2. ASSUME NEW d \in Dirs, patch(d) PROVE FilesInv'
    <3>1. CASE \E after \in splices(agentsMd[d], patches[d]) : applies /\ after # agentsMd[d]
                 /\ rewriting' = {[dir |-> d, before |-> agentsMd[d], after |-> after,
                                   expands |-> expands(agentsMd[d],
                                                 buildBlock(agentsMd[d].block, patches[d]))]}
                 /\ agentsMd' = [agentsMd EXCEPT ![d] = File("none", NoBlock)]
      BY <3>1, SpliceKeeps DEF FilesInv
    <3> QED BY <2>1, <2>2, <3>1 DEF patch
  <2>3. ASSUME NEW d \in Dirs, written(d) PROVE FilesInv'
    BY <2>3 DEF written, FilesInv
  <2>4. ASSUME NEW d \in Dirs, humanEdit(d) PROVE FilesInv'
    BY <2>4 DEF humanEdit, FilesInv
  <2>5. CASE dieRouting
    BY <2>5 DEF dieRouting, FilesInv
  <2> QED BY <2>1, <2>2, <2>3, <2>4, <2>5 DEF LearnNext, learnVars, route
<1> QED BY <1>1, <1>2, PTL

\* What a file has learned in one line stays learned with all its evidence, and
\* what people wrote stays theirs: for any project tree, any learnings, any
\* number of runs of the router; only a death in the write of that file, or a pattern
\* in its new block, can lose it.
THEOREM LearningsAddUp == LearnInit /\ [][LearnNext]_learnVars => OneLinersAreKept
<1> DEFINE Kept(d) ==
      /\ \A i \in DOMAIN contentOf(d).block : OneLine(i, contentOf(d).block[i]) =>
           /\ i \in DOMAIN contentOf(d)'.block
           /\ contentOf(d).block[i].evidence \subseteq contentOf(d)'.block[i].evidence
      /\ contentOf(d).text = "human" => contentOf(d)'.text = "human"
<1>1. FilesInv /\ [LearnNext]_learnVars => [\A d \in Dirs : ~Lossy(d) => Kept(d)]_learnVars
  <2> SUFFICES ASSUME FilesInv, LearnNext, NEW d \in Dirs, ~Lossy(d) PROVE Kept(d)
    OBVIOUS
  <2>k. ASSUME Keeps(contentOf(d), contentOf(d)') PROVE Kept(d)
    BY <2>k DEF Keeps
  <2>0. CASE contentOf(d)' = contentOf(d)
    BY <2>0
  <2>1. ASSUME NEW e \in Dirs, patch(e) PROVE Kept(d)
    <3>1. rewriting = {} /\ contentOf(d) = agentsMd[d]
      BY <2>1 DEF patch, contentOf
    <3>2. CASE UNCHANGED <<agentsMd, rewriting>>
      BY <2>0, <3>2 DEF contentOf
    <3>3. CASE ~UNCHANGED <<agentsMd, rewriting>>
      <4> PICK after \in splices(agentsMd[e], patches[e]) :
             /\ rewriting' = {[dir |-> e, before |-> agentsMd[e], after |-> after,
                                expands |-> expands(agentsMd[e],
                                                    buildBlock(agentsMd[e].block, patches[e]))]}
             /\ agentsMd' = [agentsMd EXCEPT ![e] = File("none", NoBlock)]
        BY <2>1, <3>3 DEF patch
      <4>1. CASE e = d
        <5>1. contentOf(d)' = agentsMd[d]
          <6> DEFINE w == [dir |-> e, before |-> agentsMd[e], after |-> after,
                           expands |-> expands(agentsMd[e],
                                               buildBlock(agentsMd[e].block, patches[e]))]
          <6>1. rewriting' = {w} /\ w.dir = d /\ w.before = agentsMd[d]
            BY <4>1
          <6> HIDE DEF w
          <6> QED BY <6>1 DEF contentOf
        <5> QED BY <2>0, <3>1, <5>1
      <4>2. CASE e # d
        <5>1. contentOf(d)' = agentsMd[d]
          BY <4>2 DEF contentOf, FilesInv
        <5> QED BY <2>0, <3>1, <5>1
      <4> QED BY <4>1, <4>2
    <3> QED BY <3>2, <3>3
  <2>2. ASSUME NEW e \in Dirs, written(e) PROVE Kept(d)
    <3> PICK w \in rewriting : w.dir = e /\ agentsMd' = [agentsMd EXCEPT ![e] = w.after]
      BY <2>2 DEF written
    <3>1. rewriting' = {} /\ contentOf(d)' = agentsMd'[d]
      BY <2>2 DEF written, contentOf
    <3>2. CASE e = d
      <4>1. contentOf(d) = w.before /\ contentOf(d)' = w.after
        BY <3>1, <3>2 DEF contentOf, FilesInv
      <4>2. Keeps(w.before, w.after)
        BY <3>2 DEF Lossy, FilesInv
      <4> QED BY <2>k, <4>1, <4>2
    <3>3. CASE e # d
      <4>1. contentOf(d) = agentsMd[d] /\ contentOf(d)' = agentsMd[d]
        BY <3>1, <3>3 DEF contentOf, FilesInv
      <4> QED BY <2>0, <4>1
    <3> QED BY <3>2, <3>3
  <2>3. ASSUME NEW e \in Dirs, humanEdit(e) PROVE Kept(d)
    <3>1. UNCHANGED rewriting /\ agentsMd' = [agentsMd EXCEPT ![e] = File("human", agentsMd[e].block)]
      BY <2>3 DEF humanEdit
    <3>2. CASE \E w \in rewriting : w.dir = d
      BY <2>0, <3>1, <3>2 DEF contentOf
    <3>3. CASE ~\E w \in rewriting : w.dir = d
      <4>1. contentOf(d) = agentsMd[d] /\ contentOf(d)' = agentsMd'[d]
        BY <3>1, <3>3 DEF contentOf
      <4>2. CASE e = d
        <5>1. contentOf(d)' = File("human", agentsMd[d].block)
          BY <3>1, <4>1, <4>2 DEF FilesInv
        <5> QED BY <2>k, <4>1, <5>1 DEF Keeps, File
      <4>3. CASE e # d
        BY <2>0, <3>1, <4>1, <4>3 DEF FilesInv
      <4> QED BY <4>2, <4>3
    <3> QED BY <3>2, <3>3
  <2>4. CASE dieRouting
    <3>1. \A w \in rewriting : w.dir # d
      BY <2>4 DEF Lossy
    <3>2. contentOf(d) = agentsMd[d] /\ contentOf(d)' = agentsMd'[d]
      BY <2>4, <3>1 DEF contentOf, dieRouting
    <3>3. agentsMd'[d] = agentsMd[d]
      BY <2>4, <3>1 DEF dieRouting, FilesInv
    <3> QED BY <2>0, <3>2, <3>3
  <2>5. CASE \E input \in Inputs, apply \in BOOLEAN : route(input, apply)
    BY <2>0, <2>5 DEF route, contentOf
  <2> QED BY <2>1, <2>2, <2>3, <2>4, <2>5 DEF LearnNext
<1> QED BY <1>1, FilesAreInvariant, PTL DEF OneLinersAreKept
=============================================================================
