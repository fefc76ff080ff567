---------------------------- MODULE BudgetLedger ----------------------------
(***************************************************************************)
(* The budget block of a run's checkpoint: budget-ledger.mjs.              *)
(*                                                                         *)
(* Every operation is a read-modify-write of one JSON document under the   *)
(* checkpoint lock (module CheckpointLock), so each is one atomic action   *)
(* here, whoever calls it: a build task, a review reader, the phase        *)
(* engine, or a second coordinator.  A refused operation writes nothing    *)
(* and is a stuttering step, so it has no action of its own.  A crash of   *)
(* the coordinator loses no state of this module; it only leaves           *)
(* reservations open, which ReconcileOpenSegments charges later.           *)
(*                                                                         *)
(* Durations are small naturals standing for milliseconds.  Of the tokens  *)
(* observed only the number of reports is kept, and pausedMs is left out:  *)
(* nothing but a status line reads either.                                 *)
(***************************************************************************)
EXTENDS Integers, Sequences, FiniteSets

CONSTANTS
  Tasks,           \* task names passed to reserve
  Phases,          \* phase names passed to reserve
  LimitSets,       \* termination sets an operator may ask initBudget for
  CallTimeouts,    \* values of callTimeoutMs
  Measured,        \* values of actualWallMs
  Fingerprints,    \* progress fingerprints
  Triggers,        \* escalation trigger names
  MaxBarriers,     \* bound on the recorded barriers (the code has none)
  MaxReports,      \* bound on the token reports made apart from a settle
  Unbound,         \* limits before initBudget
  Absent           \* an argument evaluate was called without

Limit == Nat \ {0}
TerminationSet ==
  [maxCodexCalls : Limit, maxActiveWallMs : Limit, maxAttemptsPerTask : Limit,
   maxAttemptsPerPhase : Limit, maxNoProgressBarriers : Limit,
   escalationTriggers : SUBSET Triggers]

ASSUME BudgetAssumption ==
  /\ LimitSets \subseteq TerminationSet
  /\ CallTimeouts \subseteq Limit
  /\ Measured \subseteq Nat
  /\ Unbound \notin TerminationSet
  /\ Absent \notin Fingerprints \cup Triggers
  /\ MaxBarriers \in Nat /\ MaxReports \in Nat

VARIABLES
  limits,             \* the immutable termination set, or Unbound
  codexCalls,         \* calls ever reserved; the last id handed out
  settledCalls, crashCharges, activeWallMs,
  attemptsByTask, attemptsByPhase,
  openReservations,   \* reservation id -> [task, phase, reservedMs]
  barriers,           \* fingerprints, oldest first
  observedReports,    \* observedTokens.reports
  pause,              \* an authorization pause is in force
  stopped             \* the reasons of the durable stop; {} while not stopped

spend == <<codexCalls, settledCalls, crashCharges, activeWallMs,
           attemptsByTask, attemptsByPhase>>
vars == <<limits, spend, openReservations, barriers, observedReports, pause, stopped>>

Reservation == [task : Tasks, phase : Phases, reservedMs : Limit]
Reasons == {"max-codex-calls", "max-active-wall", "max-attempts-per-task",
            "max-attempts-per-phase", "max-no-progress-barriers", "escalation"}

TypeOK ==
  /\ limits \in LimitSets \cup {Unbound}
  /\ codexCalls \in Nat /\ settledCalls \in Nat /\ crashCharges \in Nat
  /\ activeWallMs \in Nat
  /\ attemptsByTask \in [Tasks -> Nat]
  /\ attemptsByPhase \in [Phases -> Nat]
  /\ DOMAIN openReservations \subseteq 1..codexCalls
  /\ \A id \in DOMAIN openReservations : openReservations[id] \in Reservation
  /\ barriers \in Seq(Fingerprints) /\ observedReports \in Nat
  /\ pause \in BOOLEAN
  /\ stopped \subseteq Reasons

open == DOMAIN openReservations
isStopped == stopped # {}
Smaller(a, b) == IF a <= b THEN a ELSE b

\* The wall held by the reservations still open, one element a millisecond.
heldMs(reservations) ==
  UNION {{id} \X (1..reservations[id].reservedMs) : id \in DOMAIN reservations}
sumOpenReserved == Cardinality(heldMs(openReservations))

\* Mutant: the wall held by open reservations is forgotten.
remainingWallForgettingHeld == limits.maxActiveWallMs - activeWallMs

remainingWall == limits.maxActiveWallMs - activeWallMs - sumOpenReserved

\* The part of f outside S: `delete b.openReservations[id]`.
Without(f, S) == [x \in DOMAIN f \ S |-> f[x]]

-----------------------------------------------------------------------------
Init ==
  /\ limits = Unbound
  /\ codexCalls = 0 /\ settledCalls = 0 /\ crashCharges = 0 /\ activeWallMs = 0
  /\ attemptsByTask = [t \in Tasks |-> 0]
  /\ attemptsByPhase = [p \in Phases |-> 0]
  /\ openReservations = <<>>
  /\ barriers = <<>>
  /\ observedReports = 0
  /\ pause = FALSE
  /\ stopped = {}

\* initBudget binds the termination set once; the same set again is a no-op
\* and a different one is refused.
initBudget(l) ==
  /\ limits = Unbound
  /\ limits' = l
  /\ UNCHANGED <<spend, openReservations, barriers, observedReports, pause, stopped>>

\* Mutant: the stop is not consulted.
mayReserveWhileStopped(task, phase) ==
  /\ codexCalls < limits.maxCodexCalls
  /\ attemptsByTask[task] < limits.maxAttemptsPerTask
  /\ attemptsByPhase[phase] < limits.maxAttemptsPerPhase
  /\ remainingWall > 0

\* The refusals of reserve: a stop, or any exhausted limit.
mayReserve(task, phase) ==
  /\ ~isStopped
  /\ codexCalls < limits.maxCodexCalls
  /\ attemptsByTask[task] < limits.maxAttemptsPerTask
  /\ attemptsByPhase[phase] < limits.maxAttemptsPerPhase
  /\ remainingWall > 0

reserve(task, phase, callTimeoutMs) ==
  /\ limits # Unbound
  /\ mayReserve(task, phase)
  /\ codexCalls' = codexCalls + 1
  /\ attemptsByTask' = [attemptsByTask EXCEPT ![task] = @ + 1]
  /\ attemptsByPhase' = [attemptsByPhase EXCEPT ![phase] = @ + 1]
  /\ openReservations' =
       [id \in open \cup {codexCalls + 1} |->
          IF id = codexCalls + 1
            THEN [task |-> task, phase |-> phase,
                  reservedMs |-> Smaller(callTimeoutMs, remainingWall)]
            ELSE openReservations[id]]
  /\ UNCHANGED <<limits, settledCalls, crashCharges, activeWallMs, barriers,
                 observedReports, pause, stopped>>

\* Mutant: the unknown-id refusal of settle is gone, so a call charged by a
\* reconcile is charged again when its child reports late.
settleLate(id, measured) ==
  /\ id \in 1..codexCalls
  /\ activeWallMs' = activeWallMs + measured
  /\ settledCalls' = settledCalls + 1
  /\ observedReports' \in {observedReports, observedReports + 1}
  /\ openReservations' = Without(openReservations, {id})
  /\ UNCHANGED <<limits, codexCalls, crashCharges, attemptsByTask,
                 attemptsByPhase, barriers, pause, stopped>>

\* settle charges the measured wall, clamped to the reserved slice; an id that
\* is not open is refused.  A missing measurement arrives as the full slice, and
\* the caller may pass tokens along.
settle(id, measured) ==
  /\ id \in open
  /\ activeWallMs' = activeWallMs + Smaller(measured, openReservations[id].reservedMs)
  /\ settledCalls' = settledCalls + 1
  /\ observedReports' \in {observedReports, observedReports + 1}
  /\ openReservations' = Without(openReservations, {id})
  /\ UNCHANGED <<limits, codexCalls, crashCharges, attemptsByTask,
                 attemptsByPhase, barriers, pause, stopped>>

\* reconcileOpenSegments charges every open slice in full.
reconcileOpenSegments ==
  /\ open # {}
  /\ activeWallMs' = activeWallMs + sumOpenReserved
  /\ crashCharges' = crashCharges + Cardinality(open)
  /\ openReservations' = <<>>
  /\ UNCHANGED <<limits, codexCalls, settledCalls, attemptsByTask,
                 attemptsByPhase, barriers, observedReports, pause, stopped>>

\* reportTokens: visibility only, so a stop or a spent budget does not matter.
reportTokens ==
  /\ limits # Unbound
  /\ observedReports < MaxReports /\ observedReports' = observedReports + 1
  /\ UNCHANGED <<limits, spend, openReservations, barriers, pause, stopped>>

pauseForAuthorization ==
  /\ limits # Unbound
  /\ open = {}
  /\ ~pause
  /\ pause' = TRUE
  /\ UNCHANGED <<limits, spend, openReservations, barriers, observedReports, stopped>>

resumeFromAuthorization ==
  /\ pause
  /\ pause' = FALSE
  /\ UNCHANGED <<limits, spend, openReservations, barriers, observedReports, stopped>>

-----------------------------------------------------------------------------
\* exhaustedReasons: open reserved wall counts against the cap.
exhaustedReasons ==
  {r \in Reasons :
     \/ r = "max-codex-calls" /\ codexCalls >= limits.maxCodexCalls
     \/ r = "max-active-wall" /\ activeWallMs + sumOpenReserved >= limits.maxActiveWallMs
     \/ r = "max-attempts-per-task"
          /\ \E t \in Tasks : attemptsByTask[t] >= limits.maxAttemptsPerTask
     \/ r = "max-attempts-per-phase"
          /\ \E p \in Phases : attemptsByPhase[p] >= limits.maxAttemptsPerPhase}

\* Mutant: every equal fingerprint counts, consecutive or not.
noProgressStreakAnywhere(s) == Cardinality({i \in DOMAIN s : s[i] = s[Len(s)]})

\* The number of equal fingerprints at the end of s: noProgressStreak.
noProgressStreak(s) ==
  Cardinality({i \in DOMAIN s : \A j \in i..Len(s) : s[j] = s[Len(s)]})

\* evaluate records the barrier when it is given a fingerprint, then decides
\* the stop; the first stop is kept and later ones do not overwrite it.
evaluate(fingerprint, escalation) ==
  /\ limits # Unbound
  /\ escalation \in limits.escalationTriggers \cup {Absent}
  /\ fingerprint # Absent => Len(barriers) < MaxBarriers
  /\ barriers' = IF fingerprint = Absent THEN barriers ELSE Append(barriers, fingerprint)
  /\ LET noProgress == /\ fingerprint # Absent
                       /\ noProgressStreak(barriers') >= limits.maxNoProgressBarriers
         reasons == exhaustedReasons
                      \cup (IF noProgress THEN {"max-no-progress-barriers"} ELSE {})
                      \cup (IF escalation # Absent THEN {"escalation"} ELSE {})
     IN  stopped' = IF isStopped THEN stopped ELSE reasons
  /\ UNCHANGED <<limits, spend, openReservations, observedReports, pause>>

Next ==
  \/ \E l \in LimitSets : initBudget(l)
  \/ \E t \in Tasks, p \in Phases, ms \in CallTimeouts : reserve(t, p, ms)
  \/ \E id \in 1..codexCalls, ms \in Measured : settle(id, ms)
  \/ reconcileOpenSegments
  \/ reportTokens
  \/ pauseForAuthorization
  \/ resumeFromAuthorization
  \/ \E f \in Fingerprints \cup {Absent}, e \in Triggers \cup {Absent} : evaluate(f, e)

Spec == Init /\ [][Next]_vars

-----------------------------------------------------------------------------
\* The anti-oversubscription core of reserve: whatever mix of concurrent
\* reservations, settlements and crash charges happened, the wall charged plus
\* the wall still held never exceeds the cap the run was started with.
WallWithinCap == activeWallMs + sumOpenReserved <= limits.maxActiveWallMs

\* The discrete caps: calls and attempts consumed never pass their limit.
CountsWithinCaps ==
  /\ codexCalls <= limits.maxCodexCalls
  /\ \A t \in Tasks : attemptsByTask[t] <= limits.maxAttemptsPerTask
  /\ \A p \in Phases : attemptsByPhase[p] <= limits.maxAttemptsPerPhase

\* Both together: concurrent reservations can never oversubscribe the immutable
\* termination set (the header of budget-ledger.mjs).
NeverOversubscribed == limits # Unbound => WallWithinCap /\ CountsWithinCaps

\* Every call ever reserved is open, settled or crash-charged, and never two of
\* these: a late settle after a reconcile cannot charge a slice again.
EveryCallChargedOnce ==
  codexCalls = settledCalls + crashCharges + Cardinality(open)

\* The safe boundary behind a stop: once evaluate has recorded one, no further
\* executor is granted, and what is open can only drain.
StopDrains ==
  [][ isStopped => /\ stopped' = stopped
                   /\ codexCalls' = codexCalls
                   /\ DOMAIN openReservations' \subseteq open ]_vars

\* A run stopped for lack of progress saw its last fingerprint at least as often
\* as the limit says, in a row, at the moment it stopped.
NoProgressStopIsEarned ==
  [][ (~isStopped /\ "max-no-progress-barriers" \in stopped') =>
        /\ Len(barriers') >= limits.maxNoProgressBarriers
        /\ \A i \in (Len(barriers') - limits.maxNoProgressBarriers + 1)..Len(barriers') :
             barriers'[i] = barriers'[Len(barriers')] ]_vars
=============================================================================
