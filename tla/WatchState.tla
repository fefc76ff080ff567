----------------------------- MODULE WatchState -----------------------------
(***************************************************************************)
(* watch-state.mjs: one durable watch on a signal outside, polled by fresh *)
(* processes that share nothing but the state file.  Every init and every  *)
(* observe is a read-modify-write under the checkpoint lock, which           *)
(* CheckpointLock models step by step and which is one step here; next and *)
(* status read without it.  A process may die anywhere, also with the      *)
(* lock, which is then stolen.                                               *)
(*                                                                         *)
(* Time is whether the one deadline that watches are given has passed.     *)
(* Identifiers, stamps and evidence are left out.                          *)
(***************************************************************************)
EXTENDS Naturals, Sequences, FiniteSets

CONSTANTS Pollers,   \* the processes that call the script
          MaxPolls,  \* bound: the largest --max-polls that is tried
          MaxDeaths  \* bound: processes that die inside a call

ASSUME WatchAssumption == MaxPolls \in Nat \ {0} /\ MaxDeaths \in Nat /\ "free" \notin Pollers

TERMINAL == {"success", "failure", "deadline", "exhausted"}
OBSERVE_STATES == {"pending", "success", "failure"}
OUTCOME_ACTION == [success |-> "proceed", failure |-> "diagnose-or-escalate",
                   deadline |-> "report-timeout", exhausted |-> "report-exhausted"]

(* What may be at the path of the state file. *)
NoFile == [kind |-> "absent"]
Foreign == [kind |-> "foreign"]
Watch(status, cap, noted) ==
  [kind |-> "watch", status |-> status, maxPolls |-> cap, observations |-> noted]
IsWatch(d) == d.kind = "watch"

\* What a call was given: a cap, or what was seen.
Given(cap, state) == [cap |-> cap, state |-> state]

VARIABLES watch,   \* the state file
          holder,    \* who is in withLock, or "free"
          standing, \* where each process is in its call
          arg,     \* what its call was given
          mine,    \* the document it is about to write
          late,    \* the clock has passed the deadline
          acked,   \* observe calls that were answered
          told     \* actions that a caller was given for an outcome

watchVars == <<watch, holder, standing, arg, mine, late, acked, told>>

WatchInit == /\ watch \in {NoFile, Foreign}
             /\ holder = "free" /\ late = FALSE /\ acked = 0 /\ told = {}
             /\ standing = [p \in Pollers |-> "idle"]
             /\ arg = [p \in Pollers |-> Given(0, "none")]
             /\ mine = [p \in Pollers |-> NoFile]

-----------------------------------------------------------------------------
(* The refusals of init that come before any file is touched: work the     *)
(* harness tracks, no target, a deadline that is absent, relative or past, *)
(* no positive cap, and an interval that is none or in the cache trap.     *)
validateDeadline(d) == d = "absolute" /\ ~late
validateMaxPolls(n) == n # 0
validateInterval(i) == i \in {"active", "idle"}
InitArgs == [harnessTracked : BOOLEAN, target : BOOLEAN,
             deadline : {"absent", "relative", "absolute"},
             maxPolls : 0..MaxPolls, interval : {"none", "active", "trap", "idle"}]
initAccepts(a) == /\ ~a.harnessTracked /\ a.target
                  /\ validateDeadline(a.deadline)
                  /\ validateMaxPolls(a.maxPolls) /\ validateInterval(a.interval)

call(p, where, what) == /\ standing[p] = "idle"
                        /\ standing' = [standing EXCEPT ![p] = where]
                        /\ arg' = [arg EXCEPT ![p] = what]
                        /\ UNCHANGED <<watch, holder, mine, late, acked, told>>
callInit(p) == \E a \in InitArgs : initAccepts(a) /\ call(p, "init", Given(a.maxPolls, "none"))
callObserve(p) == \E s \in OBSERVE_STATES : call(p, "observe", Given(0, s))

(* withLock: the process gets in, and either leaves with a refusal or goes *)
(* on to write d.                                                          *)
enter(p) == /\ holder = "free" /\ holder' = p
            /\ UNCHANGED <<watch, arg, late, acked, told>>
toWrite(p, d) == /\ standing' = [standing EXCEPT ![p] = "write"]
                 /\ mine' = [mine EXCEPT ![p] = d]
refuse(p) == /\ standing' = [standing EXCEPT ![p] = "refused"] /\ UNCHANGED mine

(* A watch that is there, terminal or live, is not clobbered; any other    *)
(* file, one that cannot be read included, is.                             *)
init(p) ==
  /\ standing[p] = "init" /\ enter(p)
  /\ IF IsWatch(watch) THEN refuse(p)
                       ELSE toWrite(p, Watch("watching", arg[p].cap, <<>>))

(* A pending observation is counted first and then held against the bounds *)
(* on disk.                                                                *)
boundedStatus(polls, cap) == IF late THEN "deadline"
                             ELSE IF polls >= cap THEN "exhausted" ELSE "watching"
\* Mutant: the cap is not looked at.
observedUnbounded(d, s) ==
  [d EXCEPT !.observations = Append(@, s),
            !.status = IF s = "pending" /\ ~late THEN "watching"
                       ELSE IF s = "pending" THEN "deadline" ELSE s]
observed(d, s) ==
  [d EXCEPT !.observations = Append(@, s),
            !.status = IF s = "pending"
                       THEN boundedStatus(Len(d.observations) + 1, d.maxPolls)
                       ELSE s]

\* Mutant: a watch that has ended may be observed again.
observeRestarting(p) ==
  /\ standing[p] = "observe" /\ enter(p)
  /\ IF ~IsWatch(watch) THEN refuse(p) ELSE toWrite(p, observed(watch, arg[p].state))
observe(p) ==
  /\ standing[p] = "observe" /\ enter(p)
  /\ IF ~IsWatch(watch) \/ watch.status \in TERMINAL THEN refuse(p)
     ELSE toWrite(p, observed(watch, arg[p].state))

(* writeDoc puts the whole document in place at once. *)
writeDoc(p) == /\ standing[p] = "write"
               /\ watch' = mine[p] /\ standing' = [standing EXCEPT ![p] = "written"]
               /\ UNCHANGED <<holder, arg, mine, late, acked, told>>

(* withLock gives the lock back and   the command prints the document. *)
OutcomeOf(d) == IF IsWatch(d) /\ d.status \in TERMINAL THEN {OUTCOME_ACTION[d.status]} ELSE {}
return(p) ==
  /\ standing[p] \in {"written", "refused"} /\ holder = p
  /\ holder' = "free" /\ standing' = [standing EXCEPT ![p] = "idle"]
  /\ IF standing[p] = "written" /\ mine[p].observations # <<>>
     THEN acked' = acked + 1 /\ told' = told \cup OutcomeOf(mine[p])
     ELSE UNCHANGED <<acked, told>>
  /\ UNCHANGED <<watch, arg, mine, late>>

(* next and status: a report from the file as it is.  A watch that is not  *)
(* terminal is reported resumable with the polls left, whether or not      *)
(* anything can wake the caller; the call never waits.                     *)
next(p) == /\ standing[p] = "idle" /\ IsWatch(watch)
           /\ told' = told \cup OutcomeOf(watch)
           /\ UNCHANGED <<watch, holder, standing, arg, mine, late, acked>>

-----------------------------------------------------------------------------
Died == {p \in Pollers : standing[p] = "dead"}
dieWatching(p) == /\ standing[p] \notin {"idle", "dead"} /\ Cardinality(Died) < MaxDeaths
          /\ standing' = [standing EXCEPT ![p] = "dead"]
          /\ UNCHANGED <<watch, holder, arg, mine, late, acked, told>>

(* A dead holder outlasts no other caller. *)
stealLock == /\ holder \in Died /\ holder' = "free"
         /\ UNCHANGED <<watch, standing, arg, mine, late, acked, told>>

clock == /\ ~late /\ late' = TRUE
         /\ UNCHANGED <<watch, holder, standing, arg, mine, acked, told>>

command(p) == callInit(p) \/ init(p) \/ callObserve(p) \/ observe(p)
              \/ writeDoc(p) \/ return(p) \/ next(p)
WatchNext == (\E p \in Pollers : command(p) \/ dieWatching(p)) \/ stealLock \/ clock

WatchSpec == WatchInit /\ [][WatchNext]_watchVars

-----------------------------------------------------------------------------
(* The observations on disk are what the status follows from: only the     *)
(* last can have ended the watch, the cap of the first init is never       *)
(* passed, and no answered observation is missing, whoever made it.        *)
PollsAreAccounted ==
  IsWatch(watch) =>
    LET noted == watch.observations
        n == Len(noted)
    IN /\ acked <= n /\ n <= watch.maxPolls
       /\ \A i \in 1..(n - 1) : noted[i] = "pending"
       /\ watch.status = "watching" => n < watch.maxPolls /\ (n > 0 => noted[n] = "pending")
       /\ watch.status \in {"success", "failure"} => n > 0 /\ noted[n] = watch.status
       /\ watch.status = "deadline" => late

(* All callers that were ever told an outcome were told the same one, and  *)
(* it is the one on disk: a durable watch is never reopened.               *)
OneOutcome == told # {} => IsWatch(watch) /\ told = OutcomeOf(watch)
=============================================================================
