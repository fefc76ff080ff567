------------------------ MODULE CheckpointLockProofs ------------------------
(***************************************************************************)
(* The mkdir lock for any number of processes, any of which may die while  *)
(* it waits or holds.  As long as no section outlasts the stale threshold, *)
(* there is one way left to break the lock: two callers that both found a  *)
(* dead holder's directory stale, the slower of which renames away what    *)
(* the next owner made.  Without that, sections exclude each other and no  *)
(* update is lost; two processes cannot do it, as one of them is the dead  *)
(* holder.  With a dead holder and two survivors TLC finds two inside.     *)
(*                                                                         *)
(* The watch, whose pollers meet behind such a lock: what is on disk       *)
(* follows from what the polls saw, and each caller was told that.         *)
(***************************************************************************)
EXTENDS CheckpointLock, WatchState, SequenceTheorems, TLAPS

Waiting == {"mkdir", "stat", "steal", "sleep"}

\* A waiting process has a poll left, or it would have failed.
TypeInv == TypeOK /\ \A p \in Proc : pc[p] \in Waiting => tries[p] > 0

\* Whoever is inside owns the directory, it is young as long as its owner lives, whoever
\* is about to steal has a dead owner's directory before it, and whoever is about to
\* write has read the current document.
Serialized ==
  /\ \A p \in Proc : pc[p] \in Inside => lock = p
  /\ lock # Nobody /\ pc[lock] # "dead" => age <= HoldAtMost
  /\ \A p \in Proc : pc[p] = "steal" => lock # Nobody /\ pc[lock] = "dead"
  /\ \A p \in Proc : pc[p] = "write" => seen[p] = doc
  /\ doc = written

\* No two callers are between the stat that found the directory stale and the rename
\* decided on it.
OneStealer == \A p, q \in Proc : pc[p] = "steal" /\ pc[q] = "steal" => p = q

\* The dead are mortal.
Unhurt == \A p \in Proc : pc[p] = "dead" => p \in Mortal

LEMMA TypeInit == Init => TypeInv
BY LockAssumption DEF Init, TypeInv, TypeOK, PC, Waiting

LEMMA TypeNext == TypeInv /\ [Next]_vars => TypeInv'
<1> SUFFICES ASSUME TypeInv, [Next]_vars PROVE TypeInv'
  OBVIOUS
<1> USE LockAssumption DEF TypeInv, TypeOK, PC, Waiting, Inside, go
<1>1. CASE tick
  <2>1. pc' \in [Proc -> PC]
    BY <1>1 DEF tick
  <2>2. tries' \in [Proc -> 0..MaxTries]
    BY <1>1 DEF tick
  <2>3. \A p \in Proc : pc'[p] \in Waiting => tries'[p] > 0
    BY <1>1 DEF tick
  <2>4. age' \in 0..(StaleAfter + 1)
    BY <1>1 DEF tick
  <2>5. lock' # Nobody => pc'[lock'] \in Inside \cup {"dead"}
    BY <1>1 DEF tick
  <2> QED BY <1>1, <2>1, <2>2, <2>3, <2>4, <2>5 DEF tick
<1>2. ASSUME NEW p \in Proc, withLock(p) PROVE TypeInv'
  BY <1>2 DEF withLock
<1>3. ASSUME NEW p \in Proc, mkdir(p) PROVE TypeInv'
  BY <1>3 DEF mkdir
<1>4. ASSUME NEW p \in Proc, stat(p) PROVE TypeInv'
  BY <1>4 DEF stat, foundStale
<1>5. ASSUME NEW p \in Proc, steal(p) PROVE TypeInv'
  BY <1>5 DEF steal
<1>6. ASSUME NEW p \in Proc, read(p) PROVE TypeInv'
  BY <1>6 DEF read
<1>7. ASSUME NEW p \in Proc, write(p) PROVE TypeInv'
  BY <1>7 DEF write
<1>8. ASSUME NEW p \in Proc, release(p) PROVE TypeInv'
  BY <1>8 DEF release
<1>9. ASSUME NEW p \in Proc, die(p) PROVE TypeInv'
  BY <1>9 DEF die
<1>10. CASE UNCHANGED vars
  BY <1>10 DEF vars
<1> QED BY <1>1, <1>2, <1>3, <1>4, <1>5, <1>6, <1>7, <1>8, <1>9, <1>10 DEF Next, step

\* The lock's variables keep their types, whoever dies or is slow.
THEOREM LockTypeCorrect == Spec => []TypeOK
<1>1. TypeInv => TypeOK
  BY DEF TypeInv
<1> QED BY <1>1, TypeInit, TypeNext, PTL DEF Spec

-----------------------------------------------------------------------------
LEMMA SerializedInit == Init => Serialized
BY LockAssumption DEF Init, Serialized, Inside

LEMMA SerializedNext ==
  ASSUME HoldAtMost <= StaleAfter
  PROVE  TypeInv /\ Serialized /\ OneStealer /\ [Next]_vars => Serialized'
<1> SUFFICES ASSUME TypeInv, Serialized, OneStealer, [Next]_vars PROVE Serialized'
  OBVIOUS
<1> USE LockAssumption DEF TypeInv, TypeOK, PC, Inside, go, Serialized
<1>1. CASE tick
  BY <1>1 DEF tick
<1>2. ASSUME NEW p \in Proc, withLock(p) PROVE Serialized'
  BY <1>2 DEF withLock
<1>3. ASSUME NEW p \in Proc, mkdir(p) PROVE Serialized'
  BY <1>3 DEF mkdir
<1>4. ASSUME NEW p \in Proc, stat(p) PROVE Serialized'
  BY <1>4 DEF stat, foundStale
<1>5. ASSUME NEW p \in Proc, steal(p) PROVE Serialized'
  <2>1. \A q \in Proc : pc[q] \notin Inside
    BY <1>5 DEF steal
  <2>2. \A q \in Proc : pc'[q] # "steal"
    BY <1>5 DEF steal, OneStealer
  <2>3. lock' = Nobody /\ \A q \in Proc : pc'[q] \in Inside => pc[q] \in Inside
    BY <1>5 DEF steal
  <2> QED BY <1>5, <2>1, <2>2, <2>3 DEF steal
<1>6. ASSUME NEW p \in Proc, read(p) PROVE Serialized'
  BY <1>6 DEF read
<1>7. ASSUME NEW p \in Proc, write(p) PROVE Serialized'
  BY <1>7 DEF write
<1>8. ASSUME NEW p \in Proc, release(p) PROVE Serialized'
  BY <1>8 DEF release
<1>9. ASSUME NEW p \in Proc, die(p) PROVE Serialized'
  BY <1>9 DEF die
<1>10. CASE UNCHANGED vars
  BY <1>10 DEF vars
<1> QED BY <1>1, <1>2, <1>3, <1>4, <1>5, <1>6, <1>7, <1>8, <1>9, <1>10 DEF Next, step

\* withLock of checkpoint-store.mjs: whoever dies, and wherever, no two processes are
\* inside at once and no completed update is lost, unless a section outlasts the stale
\* threshold or two callers steal one directory.
THEOREM LockExcludes ==
  ASSUME HoldAtMost <= StaleAfter
  PROVE  Spec /\ []OneStealer => [](MutualExclusion /\ NoLostUpdate)
<1>1. Serialized => MutualExclusion /\ NoLostUpdate
  BY DEF Serialized, MutualExclusion, NoLostUpdate
<1> QED BY <1>1, TypeInit, TypeNext, SerializedInit, SerializedNext, PTL DEF Spec

\* Of two processes one is the dead holder, so that only the other can steal; and where
\* nobody dies nobody steals.
LEMMA PairStealsAlone ==
  ASSUME Mortal = {} \/ \A p, q, r \in Proc : p = q \/ q = r \/ p = r
  PROVE  TypeInv /\ Serialized /\ Unhurt => OneStealer
BY DEF TypeInv, TypeOK, Serialized, OneStealer, Unhurt

\* Only the mortal die.
LEMMA UnhurtNext == TypeInv /\ Unhurt /\ [Next]_vars => Unhurt'
BY DEF Unhurt, TypeInv, TypeOK, Next, step, vars, go, tick, withLock, mkdir, stat, steal, read,
       write, release, die

\* withLock of checkpoint-store.mjs: two processes that share a file, each of which may die
\* between any two steps, lose no update that was completed, and neither do any number of
\* processes of which none dies, as long as no section outlasts the stale threshold.
THEOREM LockLosesNoUpdate ==
  ASSUME HoldAtMost <= StaleAfter,
         Mortal = {} \/ \A p, q, r \in Proc : p = q \/ q = r \/ p = r
  PROVE  Spec => []NoLostUpdate
<1>1. Init => Unhurt
  BY DEF Init, Unhurt
<1>2. Serialized => NoLostUpdate
  BY DEF Serialized, NoLostUpdate
<1> QED BY <1>1, <1>2, TypeInit, TypeNext, SerializedInit, SerializedNext, PairStealsAlone,
           UnhurtNext, PTL DEF Spec

-----------------------------------------------------------------------------
(***************************************************************************)
(* The watch of watch-state.mjs, which relies on that lock: one state file *)
(* that any number of short-lived pollers share.                           *)
(***************************************************************************)

Statuses == TERMINAL \cup {"watching"}
Watches == [kind : {"watch"}, status : Statuses, maxPolls : Nat,
            observations : Seq(OBSERVE_STATES)]
Standings == {"idle", "init", "observe", "write", "written", "refused", "dead"}

WatchTypes ==
  /\ watch \in Watches \cup {NoFile, Foreign}
  /\ holder \in Pollers \cup {"free"}
  /\ standing \in [Pollers -> Standings]
  /\ arg \in [Pollers -> [cap : Nat, state : OBSERVE_STATES \cup {"none"}]]
  /\ mine \in [Pollers -> Watches \cup {NoFile, Foreign}]
  /\ late \in BOOLEAN /\ acked \in Nat

\* PollsAreAccounted of a document, k answered observations and a clock.
Accounted(d, k, passed) ==
  /\ k <= Len(d.observations) /\ Len(d.observations) <= d.maxPolls
  /\ \A i \in 1..(Len(d.observations) - 1) : d.observations[i] = "pending"
  /\ d.status = "watching" =>
       /\ Len(d.observations) < d.maxPolls
       /\ Len(d.observations) > 0 => d.observations[Len(d.observations)] = "pending"
  /\ d.status \in {"success", "failure"} =>
       Len(d.observations) > 0 /\ d.observations[Len(d.observations)] = d.status
  /\ d.status = "deadline" => passed

\* A poll in a document that its caller was not answered yet.
Unanswered(d) == d.observations # <<>> => acked < Len(d.observations)

\* What a call has behind it: its arguments were checked, inside the lock it is the
\* holder, what it is about to write continues a watch that has not ended, and what it
\* wrote is still there.
CallsInv ==
  \A p \in Pollers :
    /\ standing[p] = "init" => arg[p].cap > 0
    /\ standing[p] = "observe" => arg[p].state \in OBSERVE_STATES
    /\ standing[p] \in {"write", "written", "refused"} => holder = p
    /\ standing[p] = "write" =>
         /\ mine[p] \in Watches /\ Accounted(mine[p], acked, late) /\ Unanswered(mine[p])
         /\ OutcomeOf(watch) = {}
    /\ standing[p] = "written" => mine[p] = watch /\ watch \in Watches /\ Unanswered(watch)

\* The watch on disk is accounted for, and nothing was answered or told without one.
FileInv == /\ IsWatch(watch) => Accounted(watch, acked, late)
           /\ ~IsWatch(watch) => acked = 0
           /\ OneOutcome

WatchInv == WatchTypes /\ CallsInv /\ FileInv

LEMMA WatchesAreFiles ==
  /\ \A d \in Watches \cup {NoFile, Foreign} : IsWatch(d) <=> d \in Watches
  /\ NoFile \notin Watches /\ Foreign \notin Watches
BY DEF Watches, IsWatch, NoFile, Foreign

\* One more poll of a watch that has not ended is accounted for again.
LEMMA PollIsAccounted ==
  ASSUME NEW d \in Watches, NEW k \in Nat, NEW s \in OBSERVE_STATES,
         Accounted(d, k, late), d.status \notin TERMINAL, late \in BOOLEAN
  PROVE  /\ observed(d, s) \in Watches /\ Accounted(observed(d, s), k, late)
         /\ observed(d, s).observations # <<>> /\ k < Len(observed(d, s).observations)
<1> DEFINE n == Len(d.observations)
           o == observed(d, s)
<1>1. d.status = "watching" /\ d.observations \in Seq(OBSERVE_STATES) /\ d.maxPolls \in Nat
      /\ n \in Nat
  BY DEF Watches, Statuses
<1>2. n < d.maxPolls /\ (n > 0 => d.observations[n] = "pending") /\ k <= n
      /\ \A i \in 1..(n - 1) : d.observations[i] = "pending"
  BY <1>1 DEF Accounted
<1>3. o.observations = Append(d.observations, s) /\ o.maxPolls = d.maxPolls /\ o.kind = "watch"
      /\ o.status = IF s = "pending" THEN boundedStatus(n + 1, d.maxPolls) ELSE s
  BY DEF observed, Watches
<1>4. o \in [kind : {"watch"}, status : {o.status}, maxPolls : Nat,
             observations : Seq(OBSERVE_STATES)]
  <2> DEFINE to == IF s = "pending" THEN boundedStatus(n + 1, d.maxPolls) ELSE s
             noted == Append(d.observations, s)
  <2>1. o = [d EXCEPT !.observations = noted, !.status = to]
    BY DEF observed
  <2>2. noted \in Seq(OBSERVE_STATES)
    BY <1>1
  <2> HIDE DEF to, noted, o
  <2>3. o = [kind |-> "watch", status |-> to, maxPolls |-> d.maxPolls, observations |-> noted]
    BY <2>1 DEF Watches
  <2> QED BY <1>1, <2>2, <2>3
<1>5. /\ Len(o.observations) = n + 1 /\ o.observations \in Seq(OBSERVE_STATES)
      /\ o.observations[n + 1] = s
      /\ \A i \in 1..n : o.observations[i] = d.observations[i]
  BY <1>1, <1>3, AppendProperties
<1>6. o.status \in Statuses
  BY <1>3 DEF boundedStatus, Statuses, TERMINAL, OBSERVE_STATES
<1> HIDE DEF o
<1>7. o \in Watches
  BY <1>4, <1>6 DEF Watches
<1>8. \A i \in 1..n : o.observations[i] = "pending"
  BY <1>1, <1>2, <1>5
<1>9. /\ o.status = "watching" => n + 1 < d.maxPolls /\ s = "pending"
      /\ o.status \in {"success", "failure"} => s = o.status
      /\ o.status = "deadline" => late
  BY <1>1, <1>3 DEF boundedStatus, OBSERVE_STATES
<1> HIDE DEF n
<1>10. Accounted(o, k, late)
  BY <1>1, <1>2, <1>3, <1>5, <1>8, <1>9 DEF Accounted
<1>11. o.observations # <<>> /\ k < Len(o.observations)
  BY <1>1, <1>2, <1>5
<1> QED BY <1>7, <1>10, <1>11 DEF o

LEMMA WatchStarts == WatchInit => WatchInv
<1> SUFFICES ASSUME WatchInit PROVE WatchInv
  OBVIOUS
<1>1. WatchTypes
  BY DEF WatchInit, WatchTypes, Standings, Given
<1>2. ~IsWatch(watch)
  BY DEF WatchInit, IsWatch, NoFile, Foreign
<1> QED BY <1>1, <1>2 DEF WatchInit, WatchInv, CallsInv, FileInv, OneOutcome

\* Only what a step changes of the file, the holder and the calls matters.
LEMMA WatchSteps == WatchInv /\ [WatchNext]_watchVars => WatchInv'
<1> SUFFICES ASSUME WatchInv, [WatchNext]_watchVars PROVE WatchInv'
  OBVIOUS
<1>1. CASE UNCHANGED watchVars
  BY <1>1 DEF watchVars, WatchInv, WatchTypes, CallsInv, FileInv, OneOutcome, Unanswered
<1>2. ASSUME NEW p \in Pollers, NEW where \in {"init", "observe"},
             NEW what \in [cap : Nat, state : OBSERVE_STATES \cup {"none"}],
             call(p, where, what),
             where = "init" => what.cap > 0,
             where = "observe" => what.state \in OBSERVE_STATES
      PROVE  WatchInv'
  <2>1. WatchTypes'
    BY <1>2 DEF call, WatchInv, WatchTypes, Standings
  <2>2. CallsInv'
    BY <1>2 DEF call, WatchInv, WatchTypes, CallsInv, Unanswered
  <2>3. FileInv'
    BY <1>2 DEF call, WatchInv, FileInv, OneOutcome
  <2> QED BY <2>1, <2>2, <2>3 DEF WatchInv
<1>3. ASSUME NEW p \in Pollers, callInit(p) PROVE WatchInv'
  <2>1. PICK a \in InitArgs : initAccepts(a) /\ call(p, "init", Given(a.maxPolls, "none"))
    BY <1>3 DEF callInit
  <2>2. a.maxPolls \in Nat /\ a.maxPolls > 0
    BY <2>1, WatchAssumption DEF InitArgs, initAccepts, validateMaxPolls
  <2> QED BY <1>2, <2>1, <2>2 DEF Given
<1>4. ASSUME NEW p \in Pollers, callObserve(p) PROVE WatchInv'
  <2>1. PICK s \in OBSERVE_STATES : call(p, "observe", Given(0, s))
    BY <1>4 DEF callObserve
  <2> QED BY <1>2, <2>1 DEF Given
\* Whoever gets in found the lock free, so nobody else is inside.
<1>5. ASSUME NEW p \in Pollers, enter(p), standing[p] \in {"init", "observe"}
      PROVE  \A q \in Pollers : standing[q] \notin {"write", "written", "refused"}
  BY <1>5, WatchAssumption DEF enter, WatchInv, CallsInv
<1>6. ASSUME NEW p \in Pollers, enter(p), refuse(p), standing[p] \in {"init", "observe"}
      PROVE  WatchInv'
  <2>1. WatchTypes'
    BY <1>6 DEF enter, refuse, WatchInv, WatchTypes, Standings
  <2>2. CallsInv'
    BY <1>5, <1>6 DEF enter, refuse, WatchInv, WatchTypes, CallsInv, Unanswered
  <2>3. FileInv'
    BY <1>6 DEF enter, refuse, WatchInv, FileInv, OneOutcome
  <2> QED BY <2>1, <2>2, <2>3 DEF WatchInv
<1>7. ASSUME NEW p \in Pollers, NEW d \in Watches, enter(p), toWrite(p, d),
             standing[p] \in {"init", "observe"},
             Accounted(d, acked, late), Unanswered(d), OutcomeOf(watch) = {}
      PROVE  WatchInv'
  <2>1. WatchTypes'
    BY <1>7 DEF enter, toWrite, WatchInv, WatchTypes, Standings
  <2>2. CallsInv'
    BY <1>5, <1>7 DEF enter, toWrite, WatchInv, WatchTypes, CallsInv, Unanswered
  <2>3. FileInv'
    BY <1>7 DEF enter, toWrite, WatchInv, FileInv, OneOutcome
  <2> QED BY <2>1, <2>2, <2>3 DEF WatchInv
<1>8. ASSUME NEW p \in Pollers, init(p) PROVE WatchInv'
  <2>1. standing[p] = "init" /\ enter(p)
    BY <1>8 DEF init
  <2>2. CASE IsWatch(watch)
    BY <1>6, <1>8, <2>1, <2>2 DEF init
  <2>3. CASE ~IsWatch(watch)
    <3> DEFINE d == Watch("watching", arg[p].cap, <<>>)
    <3>1. toWrite(p, d)
      BY <1>8, <2>3 DEF init
    <3>2. arg[p].cap \in Nat /\ arg[p].cap > 0 /\ acked = 0 /\ OutcomeOf(watch) = {}
      BY <2>1, <2>3 DEF WatchInv, WatchTypes, CallsInv, FileInv, OutcomeOf
    <3>3. d \in Watches /\ d.observations = <<>> /\ d.status = "watching"
          /\ d.maxPolls = arg[p].cap
      BY <3>2, EmptySeq DEF Watch, Watches, Statuses
    <3> HIDE DEF d
    <3>4. Accounted(d, acked, late) /\ Unanswered(d)
      BY <3>2, <3>3, EmptySeq DEF Accounted, Unanswered
    <3> QED BY <1>7, <2>1, <3>1, <3>2, <3>3, <3>4
  <2> QED BY <2>2, <2>3
<1>9. ASSUME NEW p \in Pollers, observe(p) PROVE WatchInv'
  <2>1. standing[p] = "observe" /\ enter(p)
    BY <1>9 DEF observe
  <2>2. CASE ~IsWatch(watch) \/ watch.status \in TERMINAL
    BY <1>6, <1>9, <2>1, <2>2 DEF observe
  <2>3. CASE IsWatch(watch) /\ watch.status \notin TERMINAL
    <3> DEFINE d == observed(watch, arg[p].state)
    <3>1. toWrite(p, d)
      BY <1>9, <2>3 DEF observe
    <3>2. /\ watch \in Watches /\ arg[p].state \in OBSERVE_STATES /\ late \in BOOLEAN
          /\ acked \in Nat /\ Accounted(watch, acked, late) /\ OutcomeOf(watch) = {}
      BY <2>1, <2>3, WatchesAreFiles DEF WatchInv, WatchTypes, CallsInv, FileInv, OutcomeOf
    <3>3. d \in Watches /\ Accounted(d, acked, late) /\ Unanswered(d)
      BY <2>3, <3>2, PollIsAccounted DEF Unanswered
    <3> HIDE DEF d
    <3> QED BY <1>7, <2>1, <3>1, <3>2, <3>3
  <2> QED BY <2>2, <2>3
<1>10. ASSUME NEW p \in Pollers, writeDoc(p) PROVE WatchInv'
  <2>1. /\ holder = p /\ mine[p] \in Watches /\ Accounted(mine[p], acked, late)
        /\ Unanswered(mine[p]) /\ OutcomeOf(watch) = {}
    BY <1>10 DEF writeDoc, WatchInv, CallsInv
  <2>2. told = {}
    BY <2>1 DEF WatchInv, FileInv, OneOutcome
  <2>3. WatchTypes'
    BY <1>10, <2>1 DEF writeDoc, WatchInv, WatchTypes, Standings
  <2>4. CallsInv'
    <3> SUFFICES ASSUME NEW q \in Pollers
                 PROVE  /\ standing'[q] = "init" => arg'[q].cap > 0
                        /\ standing'[q] = "observe" => arg'[q].state \in OBSERVE_STATES
                        /\ standing'[q] \in {"write", "written", "refused"} => holder' = q
                        /\ standing'[q] = "write" =>
                             /\ mine'[q] \in Watches /\ Accounted(mine'[q], acked', late')
                             /\ Unanswered(mine[q])' /\ OutcomeOf(watch)' = {}
                        /\ standing'[q] = "written" =>
                             mine'[q] = watch' /\ watch' \in Watches /\ Unanswered(watch)'
      BY DEF CallsInv
    <3>1. CASE q = p
      BY <1>10, <2>1, <3>1 DEF writeDoc, WatchInv, WatchTypes, Unanswered
    <3>2. CASE q # p
      <4>1. standing'[q] = standing[q] /\ standing[q] \notin {"write", "written", "refused"}
        BY <1>10, <2>1, <3>2 DEF writeDoc, WatchInv, WatchTypes, CallsInv
      <4> QED BY <1>10, <4>1 DEF writeDoc, WatchInv, CallsInv
    <3> QED BY <3>1, <3>2
  <2>5. FileInv'
    BY <1>10, <2>1, <2>2, WatchesAreFiles DEF writeDoc, WatchInv, FileInv, OneOutcome
  <2> QED BY <2>3, <2>4, <2>5 DEF WatchInv
<1>11. ASSUME NEW p \in Pollers, return(p) PROVE WatchInv'
  <2>1. /\ \A q \in Pollers : standing[q] \in {"write", "written", "refused"} => q = p
        /\ standing' = [standing EXCEPT ![p] = "idle"] /\ holder' = "free"
        /\ UNCHANGED <<watch, arg, mine, late>>
    BY <1>11 DEF return, WatchInv, CallsInv
  <2>2. CASE standing[p] = "written" /\ mine[p].observations # <<>>
    <3>1. /\ mine[p] = watch /\ watch \in Watches /\ acked < Len(watch.observations)
          /\ acked' = acked + 1 /\ told' = told \cup OutcomeOf(watch)
      BY <1>11, <2>2 DEF return, WatchInv, CallsInv, Unanswered
    <3>2. /\ IsWatch(watch) /\ Accounted(watch, acked, late) /\ acked \in Nat
          /\ Len(watch.observations) \in Nat
      BY <3>1, WatchesAreFiles DEF WatchInv, WatchTypes, FileInv, Watches
    <3>3. Accounted(watch, acked', late)
      BY <3>1, <3>2 DEF Accounted
    <3>4. OneOutcome'
      BY <2>1, <3>1, <3>2 DEF WatchInv, FileInv, OneOutcome, OutcomeOf
    <3>5. FileInv'
      BY <2>1, <3>2, <3>3, <3>4 DEF FileInv
    <3>6. WatchTypes'
      BY <2>1, <3>1, <3>2 DEF WatchInv, WatchTypes, Standings
    <3>7. CallsInv'
      BY <2>1 DEF WatchInv, WatchTypes, CallsInv
    <3> QED BY <3>5, <3>6, <3>7 DEF WatchInv
  <2>3. CASE ~(standing[p] = "written" /\ mine[p].observations # <<>>)
    <3>1. UNCHANGED <<acked, told>>
      BY <1>11, <2>3 DEF return
    <3>2. FileInv'
      BY <2>1, <3>1 DEF WatchInv, FileInv, OneOutcome
    <3>3. WatchTypes'
      BY <2>1, <3>1 DEF WatchInv, WatchTypes, Standings
    <3>4. CallsInv'
      BY <2>1, <3>1 DEF WatchInv, WatchTypes, CallsInv
    <3> QED BY <3>2, <3>3, <3>4 DEF WatchInv
  <2> QED BY <2>2, <2>3
<1>12. ASSUME NEW p \in Pollers, next(p) PROVE WatchInv'
  <2>1. OneOutcome'
    BY <1>12 DEF next, WatchInv, FileInv, OneOutcome, OutcomeOf
  <2>2. FileInv'
    BY <1>12, <2>1 DEF next, WatchInv, FileInv
  <2>3. WatchTypes' /\ CallsInv'
    BY <1>12 DEF next, WatchInv, WatchTypes, CallsInv, Unanswered
  <2> QED BY <2>2, <2>3 DEF WatchInv
<1>13. ASSUME NEW p \in Pollers, dieWatching(p) PROVE WatchInv'
  <2>1. WatchTypes'
    BY <1>13 DEF dieWatching, WatchInv, WatchTypes, Standings
  <2>2. CallsInv'
    BY <1>13 DEF dieWatching, WatchInv, WatchTypes, CallsInv, Unanswered
  <2>3. FileInv'
    BY <1>13 DEF dieWatching, WatchInv, FileInv, OneOutcome
  <2> QED BY <2>1, <2>2, <2>3 DEF WatchInv
<1>14. CASE stealLock
  <2>1. WatchTypes'
    BY <1>14 DEF stealLock, WatchInv, WatchTypes
  <2>2. CallsInv'
    BY <1>14 DEF stealLock, WatchInv, CallsInv, Unanswered, Died
  <2>3. FileInv'
    BY <1>14 DEF stealLock, WatchInv, FileInv, OneOutcome
  <2> QED BY <2>1, <2>2, <2>3 DEF WatchInv
<1>15. CASE clock
  <2>1. WatchTypes'
    BY <1>15 DEF clock, WatchInv, WatchTypes
  <2>2. \A d \in Watches : Accounted(d, acked, late) => Accounted(d, acked, late')
    BY <1>15 DEF clock, Accounted
  <2>3. CallsInv'
    BY <1>15, <2>2 DEF clock, WatchInv, CallsInv, Unanswered
  <2>4. FileInv'
    BY <1>15, <2>2, WatchesAreFiles DEF clock, WatchInv, WatchTypes, FileInv, OneOutcome
  <2> QED BY <2>1, <2>3, <2>4 DEF WatchInv
<1> QED BY <1>1, <1>3, <1>4, <1>8, <1>9, <1>10, <1>11, <1>12, <1>13, <1>14, <1>15
        DEF WatchNext, command

LEMMA WatchIsInvariant == WatchSpec => []WatchInv
BY WatchStarts, WatchSteps, PTL DEF WatchSpec

\* cmdObserve of watch-state.mjs: no poll that a caller was answered is missing from the
\* file, the cap is never passed, and the status follows from what was noted.
THEOREM PollsAreCounted == WatchSpec => []PollsAreAccounted
<1>1. WatchInv => PollsAreAccounted
  BY DEF WatchInv, FileInv, Accounted, PollsAreAccounted
<1> QED BY <1>1, WatchIsInvariant, PTL

\* A terminal watch is answered and never reopened: whichever process asked, and whenever,
\* it was told the one outcome that is on disk.
THEOREM WatchEndsOnce == WatchSpec => []OneOutcome
<1>1. WatchInv => OneOutcome
  BY DEF WatchInv, FileInv
<1> QED BY <1>1, WatchIsInvariant, PTL
=============================================================================
