------------------------------ MODULE EventLog ------------------------------
(***************************************************************************)
(* The opt-in transition log of a checkpoint: event-log.mjs.               *)
(*                                                                         *)
(* Every operation runs under withLock, so at most one call is in progress *)
(* and its local state is kept in pc, doc and next; what the model adds is *)
(* the crash of that call at every write, and the fragment such a crash    *)
(* may leave at the end of the log.  The lock itself is CheckpointLock.    *)
(*                                                                         *)
(* A document is a function from keys to values, a digest is the document  *)
(* itself (SHA-256 is taken to be injective), and set, merge and delete    *)
(* are one event that gives a key a value or removes it.                   *)
(***************************************************************************)
EXTENDS Naturals, Sequences, SequencesExt

CONSTANTS Keys, Values, Unset, NoDoc,
          MaxRecords     \* bound on the length of the log (the code has none)

Docs == [Keys -> Values \cup {Unset}]
Events == [key : Keys, value : Values \cup {Unset}]

VARIABLES
  snapshotFile,   \* the .json file readers use, NoDoc when there is none
  logFile,    \* the lines of the .events.jsonl file; NoDoc when there is none
  pc,         \* where the call holding the lock is; "idle" when none is
  doc,        \* its document, read back or replayed
  event       \* the transition it was asked to append

logVars == <<snapshotFile, logFile, pc, doc, event>>

\* A line is a complete record, or the torn fragment of one; a fragment that a
\* later write ran into is a corrupt complete line.
Record == [before : Docs \cup {NoDoc}, event : Events \cup {NoDoc}, after : Docs]
Torn == [fragment |-> TRUE]
Corrupt == [fragment |-> FALSE]

\* That there is no file is told apart from any document, transition and list of lines.
ASSUME LogAssumption ==
  /\ NoDoc \notin Docs \cup Events
  /\ NoDoc \notin Seq(Record \cup {Torn, Corrupt})

apply(d, e) == [d EXCEPT ![e.key] = e.value]

isTorn(lines) == lines # <<>> /\ Last(lines) = Torn

\* O_APPEND of one whole line, and the fragment a crash leaves of it.
appendLine(lines, line) ==
  IF isTorn(lines) THEN Append(Front(lines), Corrupt) ELSE Append(lines, line)

\* What the append hands to the file system: the file as it was, with a
\* fragment, or with the whole line but not yet answered.
cutShort(lines) == {lines, appendLine(lines, Torn)}

\* trimTornTail: the final fragment without a newline is truncated.
trimTornTail(lines) == IF isTorn(lines) THEN Front(lines) ELSE lines

\* replayUnlocked refuses a log without a complete init record, a corrupt line
\* and a broken chain; a torn final fragment is ignored.
complete(lines) == trimTornTail(lines)
replayable(lines) ==
  LET ls == complete(lines)
  IN  /\ ls # <<>>
      /\ \A i \in DOMAIN ls : ls[i] \in Record
      /\ ls[1].event = NoDoc
      /\ \A i \in 2..Len(ls) :
           /\ ls[i].event # NoDoc
           /\ ls[i].before = ls[i - 1].after
           /\ ls[i].after = apply(ls[i].before, ls[i].event)
replay(lines) == Last(complete(lines)).after

-----------------------------------------------------------------------------
LogInit ==
  /\ snapshotFile \in Docs \cup {NoDoc}
  /\ logFile = NoDoc
  /\ pc = "idle"
  /\ doc = NoDoc
  /\ event \in Events

\* A call that is refused throws out of withLock and leaves the files as they are.
give(next) == pc' = next /\ UNCHANGED <<snapshotFile, doc, event>>

\* initializeEventLog with an explicit document, whatever snapshot is there, or with the
\* snapshot's.
initializeEventLog(d) ==
  /\ pc = "idle"
  /\ logFile = NoDoc
  /\ pc' = "init.append"
  /\ doc' = d
  /\ UNCHANGED <<snapshotFile, logFile, event>>

initAppend ==
  /\ pc = "init.append"
  /\ logFile' = <<[before |-> NoDoc, event |-> NoDoc, after |-> doc]>>
  /\ give("init.snapshot")

initSnapshot ==
  /\ pc = "init.snapshot"
  /\ snapshotFile' = doc
  /\ pc' = "idle"
  /\ UNCHANGED <<logFile, doc, event>>

\* appendTransition: trim, read the tail, compare digests, append, snapshot.
appendTransition(e) ==
  /\ pc = "idle"
  /\ logFile # NoDoc
  /\ Len(logFile) < MaxRecords
  /\ pc' = "append.trim"
  /\ event' = e
  /\ UNCHANGED <<snapshotFile, logFile, doc>>

appendTrim ==
  /\ pc = "append.trim"
  /\ logFile' = trimTornTail(logFile)
  /\ give("append.load")

\* Mutant: the repaired snapshot is not written before the next append.
loadWithoutRepair(tail) ==
  /\ pc' = "append.write"
  /\ doc' = IF snapshotFile = tail.after THEN snapshotFile ELSE replay(logFile)

\* The snapshot is current when its digest is the tail's afterHash; otherwise
\* the log is replayed and the snapshot repaired first.
load(tail) ==
  IF snapshotFile = tail.after
    THEN pc' = "append.write" /\ doc' = snapshotFile
    ELSE pc' = "append.repair" /\ doc' = replay(logFile)

\* An empty log, a corrupt tail, or a stale snapshot over a broken chain refuses.
appendable(lines) ==
  /\ lines # <<>>
  /\ Last(lines) \in Record
  /\ snapshotFile = Last(lines).after \/ replayable(lines)

appendLoad ==
  /\ pc = "append.load"
  /\ appendable(logFile)
  /\ load(Last(logFile))
  /\ UNCHANGED <<snapshotFile, logFile, event>>

appendRefuse ==
  /\ pc = "append.load"
  /\ ~appendable(logFile)
  /\ UNCHANGED logFile
  /\ give("idle")

appendRepair ==
  /\ pc = "append.repair"
  /\ snapshotFile' = doc
  /\ pc' = "append.write"
  /\ UNCHANGED <<logFile, doc, event>>

appendWrite ==
  /\ pc = "append.write"
  /\ LET next == apply(doc, event)
     IN  /\ logFile' = appendLine(logFile, [before |-> doc, event |-> event, after |-> next])
         /\ doc' = next
  /\ pc' = "append.snapshot"
  /\ UNCHANGED <<snapshotFile, event>>

appendSnapshot ==
  /\ pc = "append.snapshot"
  /\ snapshotFile' = doc
  /\ pc' = "idle"
  /\ UNCHANGED <<logFile, doc, event>>

\* rebuildSnapshot: trim, replay, snapshot.
rebuildSnapshot ==
  /\ pc = "idle"
  /\ logFile # NoDoc
  /\ UNCHANGED logFile
  /\ give("rebuild.trim")

rebuildTrim ==
  /\ pc = "rebuild.trim"
  /\ logFile' = trimTornTail(logFile)
  /\ give("rebuild.replay")

rebuildReplay ==
  /\ pc = "rebuild.replay"
  /\ \/ /\ replayable(logFile)
        /\ doc' = replay(logFile)
        /\ pc' = "rebuild.snapshot"
     \/ /\ ~replayable(logFile)
        /\ doc' = doc
        /\ pc' = "idle"
  /\ UNCHANGED <<snapshotFile, logFile, event>>

rebuildSnap ==
  /\ pc = "rebuild.snapshot"
  /\ snapshotFile' = doc
  /\ pc' = "idle"
  /\ UNCHANGED <<logFile, doc, event>>

\* The process dies before its next step (or the afterAppend hook throws): a
\* write in progress may leave a fragment of its line, an empty new log file
\* included; the tmp + rename of a snapshot leaves the old one.
crash ==
  /\ pc # "idle"
  /\ logFile' \in CASE pc = "init.append" -> {NoDoc, <<>>, <<Torn>>}
                    [] pc = "append.write" -> cutShort(logFile)
                    [] OTHER -> {logFile}
  /\ give("idle")

LogNext ==
  \/ \E d \in Docs : initializeEventLog(d)
  \/ initAppend
  \/ initSnapshot
  \/ \E e \in Events : appendTransition(e)
  \/ appendTrim
  \/ appendLoad
  \/ appendRefuse
  \/ appendRepair
  \/ appendWrite
  \/ appendSnapshot
  \/ rebuildSnapshot
  \/ rebuildTrim
  \/ rebuildReplay
  \/ rebuildSnap
  \/ crash

LogSpec == LogInit /\ [][LogNext]_logVars

-----------------------------------------------------------------------------
initialized == logFile # NoDoc /\ complete(logFile) # <<>>

\* What is promised of the log: the document it replays to, and the call on it.
docBar == IF initialized /\ replayable(logFile) THEN replay(logFile) ELSE NoDoc
callBar == IF pc \in {"append.trim", "append.load", "append.repair", "append.write"} THEN "pending"
           ELSE IF pc = "append.snapshot" THEN "applied" ELSE "none"

\* The log and the snapshot implement one durable document: a transition takes effect
\* when its line is complete, and at most once, whatever crashes.  The document can be
\* read back at any time (a log that does not replay would be none), readers of the snapshot
\* are one transition behind at most, or see what was there before the log, and no append
\* goes on over a snapshot that is behind.
Promise == INSTANCE DurableDoc WITH doc <- docBar, view <- snapshotFile, call <- callBar
ImplementsDurableDoc == Promise!DDSpec
=============================================================================
