--------------------------- MODULE CheckpointLock ---------------------------
(***************************************************************************)
(* The mkdir lock around every read-modify-write of a checkpoint:          *)
(* withLock in checkpoint-store.mjs, and withIntegrationLock, the same     *)
(* algorithm around an integration branch, in git-integration.mjs.         *)
(*                                                                         *)
(* Each file-system call is one step.  mkdir and rename are atomic; a stat *)
(* and the rename decided on it are two steps.  One tick of the clock is   *)
(* the sleep between two polls; a process that is not Slow takes its steps *)
(* within a tick, a Slow one may be preempted between any two of them.     *)
(* The critical section is the read and the write of a document,           *)
(* abstracted to the number of updates it holds.                           *)
(***************************************************************************)
EXTENDS Naturals, FiniteSets

CONSTANTS
  Proc,        \* processes contending for one file
  Mortal,      \* the processes that may die between two steps
  Slow,        \* the processes that may be preempted for ticks
  HoldAtMost,  \* the age at which a live holder is done with its section
  Updates,     \* bound on the operations each process performs
  MaxTries,    \* polls before withLock gives up (800 of 10 ms in the code)
  StaleAfter,  \* ticks after which a directory is stale (5 s in the code)
  Nobody       \* no lock directory

ASSUME LockAssumption ==
  /\ Mortal \subseteq Proc /\ Slow \subseteq Proc
  /\ Updates \in Nat /\ MaxTries \in Nat \ {0}
  /\ StaleAfter \in Nat /\ HoldAtMost \in Nat
  /\ Nobody \notin Proc

VARIABLES
  lock,     \* the process that made the lock directory, or Nobody
  age,      \* its age in ticks, capped once it is stale
  pc,       \* where each process is
  tries,    \* polls left to each process
  left,     \* operations each process still has to perform
  seen,     \* the document each process has read
  doc,      \* the document in the file: the number of updates in it
  written   \* history: the updates whose write completed

vars == <<lock, age, pc, tries, left, seen, doc, written>>

PC == {"idle", "mkdir", "stat", "steal", "sleep", "read", "write", "release",
       "failed", "dead"}
Inside == {"read", "write", "release"}

TypeOK ==
  /\ lock \in Proc \cup {Nobody}
  /\ age \in 0..(StaleAfter + 1)
  /\ pc \in [Proc -> PC]
  /\ tries \in [Proc -> 0..MaxTries]
  /\ left \in [Proc -> 0..Updates]
  /\ seen \in [Proc -> Nat]
  /\ doc \in Nat /\ written \in Nat
  /\ lock # Nobody => pc[lock] \in Inside \cup {"dead"}

go(p, to) == pc' = [pc EXCEPT ![p] = to]

Init ==
  /\ lock = Nobody /\ age = 0
  /\ pc = [p \in Proc |-> "idle"]
  /\ tries = [p \in Proc |-> MaxTries]
  /\ left = [p \in Proc |-> Updates]
  /\ seen = [p \in Proc |-> 0]
  /\ doc = 0 /\ written = 0

withLock(p) ==
  /\ pc[p] = "idle" /\ left[p] > 0
  /\ go(p, "mkdir")
  /\ tries' = [tries EXCEPT ![p] = MaxTries]
  /\ left' = [left EXCEPT ![p] = @ - 1]
  /\ UNCHANGED <<lock, age, seen, doc, written>>

mkdir(p) ==
  /\ pc[p] = "mkdir"
  /\ IF lock = Nobody
       THEN lock' = p /\ age' = 0 /\ go(p, "read")
       ELSE UNCHANGED <<lock, age>> /\ go(p, "stat")
  /\ UNCHANGED <<tries, left, seen, doc, written>>

\* Mutant: no lock is ever taken for stale.
staleNever == FALSE

\* statSync: an absent directory throws and is polled again.
foundStale == lock # Nobody /\ age > StaleAfter

stat(p) ==
  /\ pc[p] = "stat"
  /\ go(p, IF foundStale THEN "steal" ELSE "sleep")
  /\ UNCHANGED <<lock, age, tries, left, seen, doc, written>>

\* renameSync moves whatever directory has the name now, or throws ENOENT; the
\* tomb is removed at once.  Either way the loop sleeps and retries.
steal(p) ==
  /\ pc[p] = "steal"
  /\ lock' = Nobody
  /\ age' = 0
  /\ go(p, "sleep")
  /\ UNCHANGED <<tries, left, seen, doc, written>>

\* Mutant: the lock is released between the read and the write.
readThenUnlock(p) ==
  /\ pc[p] = "read"
  /\ seen' = [seen EXCEPT ![p] = doc]
  /\ lock' = Nobody
  /\ age' = 0
  /\ go(p, "write")
  /\ UNCHANGED <<tries, left, doc, written>>

\* The critical section: readDoc, mutate, writeDoc.
read(p) ==
  /\ pc[p] = "read"
  /\ seen' = [seen EXCEPT ![p] = doc]
  /\ go(p, "write")
  /\ UNCHANGED <<lock, age, tries, left, doc, written>>

write(p) ==
  /\ pc[p] = "write"
  /\ doc' = seen[p] + 1
  /\ written' = written + 1
  /\ go(p, "release")
  /\ UNCHANGED <<lock, age, tries, left, seen>>

\* rmdirSync in the finally: it removes the directory of that name, if any.
release(p) ==
  /\ pc[p] = "release"
  /\ lock' = Nobody
  /\ age' = 0
  /\ go(p, "idle")
  /\ UNCHANGED <<tries, left, seen, doc, written>>

\* A process is killed; the exit handler that would remove its directory does
\* not run.
die(p) ==
  /\ p \in Mortal /\ pc[p] \notin {"idle", "failed", "dead"}
  /\ go(p, "dead")
  /\ UNCHANGED <<lock, age, tries, left, seen, doc, written>>

\* Ten milliseconds pass: the directory ages, the sleepers poll again or, after
\* their last try, give up.  No live process but a slow one is in mid-step, and
\* no live holder keeps the lock past HoldAtMost.
tick ==
  /\ \A p \in Proc \ Slow : pc[p] \in {"idle", "sleep", "failed", "dead"}
  /\ \E p \in Proc : pc[p] = "sleep"
  /\ lock # Nobody /\ pc[lock] # "dead" => age < HoldAtMost
  /\ age' = IF lock # Nobody /\ age <= StaleAfter THEN age + 1 ELSE age
  /\ pc' = [p \in Proc |-> IF pc[p] # "sleep" THEN pc[p]
                           ELSE IF tries[p] = 1 THEN "failed" ELSE "mkdir"]
  /\ tries' = [p \in Proc |-> IF pc[p] = "sleep" THEN tries[p] - 1 ELSE tries[p]]
  /\ UNCHANGED <<lock, left, seen, doc, written>>

step(p) ==
  \/ withLock(p) \/ mkdir(p) \/ stat(p) \/ steal(p)
  \/ read(p) \/ write(p) \/ release(p)

Next == tick \/ \E p \in Proc : step(p) \/ die(p)

\* The scheduler runs every live process, and time passes.
Fairness == WF_vars(tick) /\ \A p \in Proc : WF_vars(step(p))
Spec == Init /\ [][Next]_vars /\ Fairness

-----------------------------------------------------------------------------
\* "concurrent writers are SERIALIZED by an atomic mkdir lock (stale locks
\* stolen via atomic rename)" (checkpoint-store.mjs:7).
MutualExclusion == \A p, q \in Proc : pc[p] \in Inside /\ pc[q] \in Inside => p = q

\* No update is lost: the document holds every write that completed.
NoLostUpdate == doc = written

\* A dead holder does not lock the others out: the poll outlasts the stale
\* threshold (checkpoint-store.mjs:72), so whoever asks for the lock enters.
EveryLiveCallEnters ==
  \A p \in Proc : pc[p] = "mkdir" ~> pc[p] \in {"read", "dead"}
=============================================================================
