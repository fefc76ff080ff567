-------------------------- MODULE CheckpointProofs --------------------------
(***************************************************************************)
(* What a run leaves on disk, for any units, findings, items and events:   *)
(* the event log with its snapshot, the document that finalize judges and  *)
(* resume reads, and the journal of the workflow that run-status overlays. *)
(***************************************************************************)
EXTENDS RunStatus, EventLog, WorkflowJournal, FiniteSetTheorems, SequenceTheorems, RecursionLemmas, TLAPS

-----------------------------------------------------------------------------
(***************************************************************************)
(* The event log.  Whatever the log holds replays to one document, but for *)
(* a fragment behind the last record; a snapshot is that document, or the  *)
(* one before it while a call is between its two writes.  So the abstract  *)
(* document is read off the log, and each write of a call is a step or a   *)
(* stutter of DurableDoc.                                                  *)
(***************************************************************************)
\* A log that a crash may have left: records that chain, and perhaps a fragment.
Whole(lines) == lines \in Seq(Record) /\ replayable(lines)
Sound(lines) ==
  LET records == complete(lines)
  IN  /\ records \in Seq(Record)
      /\ lines \in {records, Append(records, Torn)}
      /\ records = <<>> \/ replayable(records)

LogTypes ==
  /\ snapshotFile \in Docs \cup {NoDoc}
  /\ doc \in Docs \cup {NoDoc}
  /\ event \in Events
  /\ logFile = NoDoc \/ Sound(logFile)

\* What a call has behind it, by where it is.
CallInv ==
  /\ pc = "init.append" => logFile = NoDoc /\ doc \in Docs
  /\ pc \in {"append.trim", "rebuild.trim"} => logFile # NoDoc
  /\ pc \in {"append.load", "rebuild.replay"} => logFile \in Seq(Record)
  /\ pc \in {"init.snapshot", "append.repair", "append.write", "append.snapshot",
             "rebuild.snapshot"} => Whole(logFile) /\ doc = Last(logFile).after
  /\ pc = "append.write" => snapshotFile = doc

LogInv == LogTypes /\ CallInv

LEMMA FragmentIsNoRecord == Torn \notin Record
BY DEF Torn, Record

\* What the reader takes of a list of records, and of one with a fragment behind it.
LEMMA RecordsAreComplete ==
  ASSUME NEW ls \in Seq(Record)
  PROVE  trimTornTail(ls) = ls /\ complete(ls) = ls /\ ~isTorn(ls)
<1>1. ls # <<>> => Last(ls) \in Record
  BY ElementOfSeq, EmptySeq DEF Last
<1> QED BY <1>1, FragmentIsNoRecord DEF trimTornTail, complete, isTorn

LEMMA FragmentIsTrimmed ==
  ASSUME NEW ls \in Seq(Record)
  PROVE  /\ trimTornTail(Append(ls, Torn)) = ls /\ complete(Append(ls, Torn)) = ls
         /\ appendLine(ls, Torn) = Append(ls, Torn)
         /\ replayable(Append(ls, Torn)) <=> replayable(ls)
         /\ replay(Append(ls, Torn)) = replay(ls)
<1> DEFINE t == Append(ls, Torn)  L == Record \cup {Torn}
<1>1. ls \in Seq(L)
  BY SeqMonotonic
<1>2. t \in Seq(L) /\ t # <<>> /\ Len(t) = Len(ls) + 1 /\ t[Len(t)] = Torn
      /\ \A i \in 1..Len(ls) : t[i] = ls[i]
  BY <1>1, AppendProperties
<1>3. Len(ls) \in Nat /\ \A i \in 1..Len(ls) : ls[i] \in Record
  BY ElementOfSeq, LenProperties
<1>4. Front(t) = SubSeq(t, 1, Len(ls))
  BY <1>2, <1>3 DEF Front
<1>5. /\ Front(t) \in Seq(Record) /\ Len(Front(t)) = Len(ls)
      /\ \A i \in 1..Len(ls) : Front(t)[i] = ls[i]
  <2>1. \A i \in 1..Len(ls) : t[i] \in Record
    BY <1>2, <1>3
  <2>2. /\ SubSeq(t, 1, Len(ls)) \in Seq(Record)
        /\ Len(SubSeq(t, 1, Len(ls))) = IF 1 <= Len(ls) THEN Len(ls) - 1 + 1 ELSE 0
        /\ \A i \in 1..(Len(ls) - 1 + 1) : SubSeq(t, 1, Len(ls))[i] = t[1 + i - 1]
    BY <2>1, <1>3, SubSeqProperties, 1 \in Int, Len(ls) \in Int
  <2> QED BY <2>2, <1>2, <1>3, <1>4
<1>6. Front(t) = ls
  BY <1>5, SeqEqual
<1>7. isTorn(t)
  BY <1>2 DEF isTorn, Last
<1>8. trimTornTail(t) = ls /\ complete(t) = ls
  BY <1>6, <1>7 DEF trimTornTail, complete
<1>9. complete(ls) = ls /\ ~isTorn(ls)
  BY RecordsAreComplete
<1> QED BY <1>8, <1>9 DEF replayable, replay, appendLine

\* One more record over the last document keeps a log replayable.
LEMMA ChainGrows ==
  ASSUME NEW ls, Whole(ls), NEW e \in Events, Last(ls).after \in Docs
  PROVE  LET d == Last(ls).after
             line == [before |-> d, event |-> e, after |-> apply(d, e)]
         IN  /\ appendLine(ls, line) = Append(ls, line)
             /\ Whole(Append(ls, line))
             /\ Last(Append(ls, line)).after = apply(d, e)
<1> DEFINE d == Last(ls).after
           line == [before |-> d, event |-> e, after |-> apply(d, e)]
           t == Append(ls, line)
<1>1. line \in Record
  BY DEF Record, apply, Docs, Events
<1>2. /\ t \in Seq(Record) /\ t # <<>> /\ Len(t) = Len(ls) + 1 /\ t[Len(ls) + 1] = line
      /\ \A i \in 1..Len(ls) : t[i] = ls[i]
  BY <1>1, AppendProperties DEF Whole
<1>3. complete(t) = t /\ complete(ls) = ls /\ ~isTorn(ls)
  BY <1>2, RecordsAreComplete DEF Whole
<1>4. Len(ls) \in Nat \ {0} /\ DOMAIN ls = 1..Len(ls) /\ DOMAIN t = 1..Len(t)
  BY <1>2, <1>3, LenProperties, EmptySeq DEF Whole, replayable
<1>5. e # NoDoc
  BY LogAssumption
<1>6. \A i \in DOMAIN t : t[i] \in Record
  BY <1>2, <1>4, ElementOfSeq
<1>7. t[1].event = NoDoc
  BY <1>2, <1>3, <1>4 DEF Whole, replayable
<1>8. ASSUME NEW i \in 2..Len(t)
      PROVE  t[i].event # NoDoc /\ t[i].before = t[i - 1].after
             /\ t[i].after = apply(t[i].before, t[i].event)
  <2>1. CASE i = Len(ls) + 1
    <3>1. t[i] = line /\ i - 1 = Len(ls) /\ Len(ls) \in 1..Len(ls)
      BY <2>1, <1>2, <1>4
    <3>2. t[i - 1].after = d
      BY <3>1, <1>2 DEF Last
    <3>3. line.event = e /\ line.before = d /\ line.after = apply(d, e)
      OBVIOUS
    <3> HIDE DEF line, d, t
    <3> QED BY <3>1, <3>2, <3>3, <1>5
  <2>2. CASE i \in 2..Len(ls)
    <3>1. i \in 1..Len(ls) /\ i - 1 \in 1..Len(ls)
      BY <2>2, <1>4
    <3> QED BY <3>1, <2>2, <1>2, <1>3 DEF Whole, replayable
  <2> QED BY <2>1, <2>2, <1>2, <1>4
<1>9. replayable(t)
  BY <1>2, <1>3, <1>6, <1>7, <1>8 DEF replayable
<1>10. Last(t) = line
  BY <1>2 DEF Last
<1>11. line.after = apply(d, e)
  OBVIOUS
<1> QED BY <1>2, <1>3, <1>9, <1>10, <1>11 DEF appendLine, Whole

\* A whole log is sound, and so is one with a fragment behind it.
LEMMA WholeIsSound ==
  ASSUME NEW ls, Whole(ls)
  PROVE  /\ Sound(ls) /\ ls # NoDoc /\ ls # <<>>
         /\ complete(ls) = ls /\ trimTornTail(ls) = ls /\ ~isTorn(ls)
         /\ ls \in Seq(Record) /\ Last(ls) \in Record
<1>1. ls \in Seq(Record) /\ complete(ls) = ls /\ trimTornTail(ls) = ls /\ ~isTorn(ls)
  BY RecordsAreComplete DEF Whole
<1>2. ls # <<>>
  BY <1>1 DEF Whole, replayable
<1>3. ls # NoDoc
  BY <1>1, SeqMonotonic, LogAssumption
<1>4. Last(ls) \in Record
  BY <1>1, <1>2, EmptySeq, ElementOfSeq DEF Last
<1> QED BY <1>1, <1>2, <1>3, <1>4 DEF Sound, Whole

LEMMA SoundParts ==
  ASSUME NEW ls, Sound(ls)
  PROVE  /\ trimTornTail(ls) = complete(ls) /\ ls # NoDoc
         /\ complete(ls) \in Seq(Record) /\ complete(ls) # NoDoc
         /\ complete(complete(ls)) = complete(ls)
         /\ Sound(complete(ls))
         /\ complete(ls) # <<>> => Whole(complete(ls)) /\ replayable(ls)
         /\ replay(ls) = Last(complete(ls)).after
<1>1. trimTornTail(ls) = complete(ls)
  BY DEF complete
<1>2. complete(ls) \in Seq(Record) /\ complete(complete(ls)) = complete(ls)
  BY RecordsAreComplete DEF Sound
<1>3. ls \in Seq(Record \cup {Torn, Corrupt}) /\ complete(ls) \in Seq(Record \cup {Torn, Corrupt})
  <2>1. complete(ls) \in Seq(Record \cup {Torn, Corrupt})
    BY <1>2, SeqMonotonic
  <2> QED BY <2>1, AppendProperties DEF Sound
<1>4. complete(ls) # <<>> => Whole(complete(ls)) /\ replayable(ls)
  BY <1>2 DEF Sound, Whole, replayable
<1>5. Sound(complete(ls))
  BY <1>2 DEF Sound
<1> QED BY <1>1, <1>2, <1>3, <1>4, <1>5, LogAssumption DEF replay

\* A fragment behind complete records.
LEMMA FragmentIsSound ==
  ASSUME NEW ls \in Seq(Record), ls = <<>> \/ replayable(ls)
  PROVE  Sound(Append(ls, Torn))
BY FragmentIsTrimmed DEF Sound

-----------------------------------------------------------------------------
LEMMA LogInvInit == LogInit => LogInv
BY DEF LogInit, LogInv, LogTypes, CallInv

LEMMA LogInvNext == LogInv /\ [LogNext]_logVars => LogInv'
<1> SUFFICES ASSUME LogInv, [LogNext]_logVars PROVE LogInv'
  OBVIOUS
<1> USE DEF LogInv, LogTypes, CallInv, give
<1>1. ASSUME NEW d \in Docs, initializeEventLog(d) PROVE LogInv'
  BY <1>1 DEF initializeEventLog
<1>2. CASE initAppend
  <2> DEFINE first == [before |-> NoDoc, event |-> NoDoc, after |-> doc]
  <2>1. doc \in Docs
    BY <1>2 DEF initAppend
  <2>2. first \in Record /\ first.event = NoDoc /\ first.after = doc
    BY <2>1 DEF Record
  <2>3. /\ <<first>> \in Seq(Record) /\ <<first>> # <<>> /\ Len(<<first>>) = 1
        /\ <<first>>[1] = first /\ DOMAIN <<first>> = 1..1
    <3> HIDE DEF first
    <3> QED BY <2>2
  <2>4. complete(<<first>>) = <<first>>
    BY <2>3, RecordsAreComplete
  <2>5. Whole(<<first>>)
    <3>1. \A i \in 1..1 : <<first>>[i] \in Record
      BY <2>3, <2>2
    <3>2. 2..1 = {}
      OBVIOUS
    <3> HIDE DEF first
    <3> QED BY <2>2, <2>3, <2>4, <3>1, <3>2 DEF Whole, replayable
  <2>6. Last(<<first>>).after = doc
    BY <2>2, <2>3 DEF Last
  <2>7. logFile' = <<first>>
    BY <1>2 DEF initAppend
  <2> HIDE DEF first
  <2> QED BY <1>2, <2>1, <2>5, <2>6, <2>7, WholeIsSound DEF initAppend
<1>3. CASE initSnapshot
  BY <1>3, WholeIsSound DEF initSnapshot, Whole, Record
<1>4. ASSUME NEW e \in Events, appendTransition(e) PROVE LogInv'
  BY <1>4 DEF appendTransition
<1>5. CASE appendTrim
  BY <1>5, SoundParts DEF appendTrim
<1>6. CASE appendLoad
  <2>1. logFile \in Seq(Record) /\ logFile # <<>> /\ Sound(logFile)
    BY <1>6, EmptySeq, SeqMonotonic, LogAssumption DEF appendLoad, appendable
  <2>2. complete(logFile) = logFile
    BY <2>1, RecordsAreComplete
  <2>3. Whole(logFile) /\ replay(logFile) = Last(logFile).after
    BY <2>1, <2>2, SoundParts
  <2>4. Last(logFile).after \in Docs
    BY <2>3, WholeIsSound DEF Record
  <2> QED BY <1>6, <2>3, <2>4 DEF appendLoad, load
<1>7. CASE appendRefuse
  BY <1>7 DEF appendRefuse
<1>8. CASE appendRepair
  BY <1>8, WholeIsSound DEF appendRepair, Record
<1>9. CASE appendWrite
  <2>1. Whole(logFile) /\ doc = Last(logFile).after /\ doc \in Docs
    BY <1>9, WholeIsSound DEF appendWrite, Record
  <2>2. Whole(logFile') /\ Last(logFile').after = doc' /\ doc' \in Docs
    <3>1. apply(doc, event) \in Docs
      BY <2>1 DEF apply, Docs, Events
    <3>2. LET line == [before |-> doc, event |-> event, after |-> apply(doc, event)]
          IN  /\ logFile' = Append(logFile, line) /\ Whole(Append(logFile, line))
              /\ Last(Append(logFile, line)).after = apply(doc, event)
      BY <1>9, <2>1, ChainGrows DEF appendWrite
    <3> QED BY <1>9, <3>1, <3>2 DEF appendWrite
  <2> QED BY <1>9, <2>2, WholeIsSound DEF appendWrite
<1>10. CASE appendSnapshot
  BY <1>10, WholeIsSound DEF appendSnapshot, Record
<1>11. CASE rebuildSnapshot
  BY <1>11 DEF rebuildSnapshot
<1>12. CASE rebuildTrim
  BY <1>12, SoundParts DEF rebuildTrim
<1>13. CASE rebuildReplay
  <2>1. CASE replayable(logFile)
    <3>1. Whole(logFile) /\ replay(logFile) = Last(logFile).after
      BY <2>1, <1>13, RecordsAreComplete DEF rebuildReplay, Whole, replay
    <3>2. Last(logFile).after \in Docs
      BY <3>1, WholeIsSound DEF Record
    <3> QED BY <1>13, <2>1, <3>1, <3>2 DEF rebuildReplay
  <2>2. CASE ~replayable(logFile)
    BY <1>13, <2>2 DEF rebuildReplay
  <2> QED BY <2>1, <2>2
<1>14. CASE rebuildSnap
  BY <1>14, WholeIsSound DEF rebuildSnap, Record
<1>15. CASE crash
  <2>1. CASE pc = "init.append"
    <3>1. Sound(<<>>)
      BY RecordsAreComplete, EmptySeq DEF Sound
    <3>2. <<Torn>> = Append(<<>>, Torn) /\ <<>> \in Seq(Record)
      OBVIOUS
    <3>3. Sound(<<Torn>>)
      BY <3>2, FragmentIsSound
    <3> QED BY <1>15, <2>1, <3>1, <3>3 DEF crash
  <2>2. CASE pc = "append.write"
    <3>1. Whole(logFile) /\ logFile' \in {logFile, appendLine(logFile, Torn)}
      BY <1>15, <2>2 DEF crash, cutShort
    <3>2. logFile \in Seq(Record) /\ replayable(logFile) /\ Sound(logFile)
      BY <3>1, WholeIsSound DEF Whole
    <3>3. appendLine(logFile, Torn) = Append(logFile, Torn) /\ Sound(Append(logFile, Torn))
      BY <3>2, FragmentIsTrimmed, FragmentIsSound
    <3> QED BY <1>15, <3>1, <3>2, <3>3 DEF crash
  <2>3. CASE pc \notin {"init.append", "append.write"}
    BY <1>15, <2>3 DEF crash
  <2> QED BY <2>1, <2>2, <2>3
<1>16. CASE UNCHANGED logVars
  BY <1>16 DEF logVars
<1> QED BY <1>1, <1>2, <1>3, <1>4, <1>5, <1>6, <1>7, <1>8, <1>9, <1>10, <1>11, <1>12, <1>13,
           <1>14, <1>15, <1>16 DEF LogNext

LEMMA LogInvAlways == LogSpec => []LogInv
BY LogInvInit, LogInvNext, PTL DEF LogSpec

-----------------------------------------------------------------------------
\* What is promised of a list of lines.
promised(lines) == IF lines # NoDoc /\ complete(lines) # <<>> /\ replayable(lines)
                     THEN replay(lines) ELSE NoDoc

LEMMA Promised ==
  ASSUME NEW ls, Sound(ls)
  PROVE  /\ promised(ls) = IF complete(ls) = <<>> THEN NoDoc ELSE Last(complete(ls)).after
         /\ promised(complete(ls)) = promised(ls)
         /\ complete(ls) # <<>> => promised(ls) \in Docs
<1>1. complete(ls) # <<>> => Last(complete(ls)).after \in Docs
  BY SoundParts, WholeIsSound DEF Record
<1>2. promised(ls) = IF complete(ls) = <<>> THEN NoDoc ELSE Last(complete(ls)).after
  BY SoundParts DEF promised
<1>3. promised(complete(ls)) = IF complete(ls) = <<>> THEN NoDoc ELSE Last(complete(ls)).after
  BY SoundParts DEF promised
<1> QED BY <1>1, <1>2, <1>3

LEMMA WholePromised ==
  ASSUME NEW ls, Whole(ls)
  PROVE  promised(ls) = Last(ls).after /\ promised(ls) \in Docs /\ promised(ls) # NoDoc
BY WholeIsSound, Promised, LogAssumption

\* Every step of the log is one of the abstract document, or none.
LEMMA StepsRefine ==
  LogInv /\ LogInv' /\ [LogNext]_logVars => [Promise!DDNext]_Promise!ddVars
<1> SUFFICES ASSUME LogInv, LogInv', [LogNext]_logVars
             PROVE  [Promise!DDNext]_Promise!ddVars
  OBVIOUS
<1>a. docBar = promised(logFile) /\ docBar' = promised(logFile')
  BY DEF docBar, promised, initialized
<1>b. promised(NoDoc) = NoDoc
  BY DEF promised
<1>c. Promise!apply(doc, event) = apply(doc, event)
  BY DEF Promise!apply, apply
<1> USE DEF LogInv, LogTypes, CallInv, give, callBar, Promise!ddVars
<1>1. ASSUME NEW d \in Docs, initializeEventLog(d) PROVE UNCHANGED Promise!ddVars
  BY <1>1, <1>a DEF initializeEventLog
<1>2. CASE initAppend
  <2>1. docBar = NoDoc /\ doc \in Docs
    BY <1>2, <1>a, <1>b DEF initAppend
  <2>2. docBar' = doc
    BY <1>2, <1>a, WholePromised DEF initAppend
  <2>3. Promise!create(doc)
    BY <1>2, <2>1, <2>2 DEF initAppend, Promise!create
  <2>4. doc \in Promise!Docs
    BY <2>1 DEF Docs, Promise!Docs
  <2> QED BY <2>3, <2>4 DEF Promise!DDNext
<1>3. CASE initSnapshot
  BY <1>3, <1>a, WholePromised DEF initSnapshot, Promise!show, Promise!DDNext
<1>4. ASSUME NEW e \in Events, appendTransition(e) PROVE Promise!DDNext
  <2>1. Promise!invoke(e)
    BY <1>4, <1>a DEF appendTransition, Promise!invoke
  <2> QED BY <2>1 DEF Promise!DDNext, Events, Promise!Events
<1>5. CASE appendTrim
  BY <1>5, <1>a, SoundParts, Promised DEF appendTrim
<1>6. CASE appendLoad
  BY <1>6, <1>a DEF appendLoad, load
<1>7. CASE appendRefuse
  BY <1>7, <1>a DEF appendRefuse, Promise!refuseOrCrash, Promise!DDNext
<1>8. CASE appendRepair
  BY <1>8, <1>a, WholePromised DEF appendRepair, Promise!show, Promise!DDNext
<1>9. CASE appendWrite
  <2>1. docBar = doc /\ docBar # NoDoc /\ snapshotFile = docBar
    BY <1>9, <1>a, WholePromised DEF appendWrite
  <2>2. docBar' = doc' /\ doc' = apply(doc, event)
    BY <1>9, <1>a, WholePromised DEF appendWrite
  <2> QED BY <1>9, <1>c, <2>1, <2>2 DEF appendWrite, Promise!take, Promise!DDNext
<1>10. CASE appendSnapshot
  BY <1>10, <1>a, WholePromised DEF appendSnapshot, Promise!answer, Promise!DDNext
<1>11. CASE rebuildSnapshot
  BY <1>11, <1>a DEF rebuildSnapshot
<1>12. CASE rebuildTrim
  BY <1>12, <1>a, SoundParts, Promised DEF rebuildTrim
<1>13. CASE rebuildReplay
  BY <1>13, <1>a DEF rebuildReplay
<1>14. CASE rebuildSnap
  BY <1>14, <1>a, WholePromised DEF rebuildSnap, Promise!show, Promise!DDNext
<1>15. CASE crash
  <2>1. docBar' = docBar
    <3>1. CASE pc = "init.append"
      <4>1. complete(<<>>) = <<>> /\ complete(<<Torn>>) = <<>>
        <5>1. <<Torn>> = Append(<<>>, Torn) /\ <<>> \in Seq(Record)
          OBVIOUS
        <5> QED BY <5>1, FragmentIsTrimmed, RecordsAreComplete
      <4>2. logFile' \in {NoDoc, <<>>, <<Torn>>}
        BY <1>15, <3>1 DEF crash
      <4> QED BY <3>1, <4>1, <4>2, <1>a DEF promised
    <3>2. CASE pc = "append.write"
      <4>1. Whole(logFile) /\ logFile' \in {logFile, Append(logFile, Torn)}
        BY <1>15, <3>2, FragmentIsTrimmed DEF crash, cutShort, Whole
      <4>a. logFile \in Seq(Record) /\ replayable(logFile) /\ Sound(logFile)
            /\ complete(logFile) = logFile
        BY <4>1, WholeIsSound DEF Whole
      <4>b. Sound(Append(logFile, Torn)) /\ complete(Append(logFile, Torn)) = logFile
        BY <4>a, FragmentIsTrimmed, FragmentIsSound
      <4>2. Sound(logFile') /\ Sound(logFile) /\ complete(logFile') = complete(logFile)
        BY <4>1, <4>a, <4>b
      <4> QED BY <4>2, Promised, <1>a
    <3>3. CASE pc \notin {"init.append", "append.write"}
      BY <1>15, <1>a, <3>3 DEF crash
    <3> QED BY <3>1, <3>2, <3>3
  <2>2. callBar' = "none" /\ UNCHANGED <<snapshotFile, event>>
    BY <1>15 DEF crash
  <2>3. CASE callBar = "none"
    BY <2>1, <2>2, <2>3
  <2>4. CASE callBar # "none"
    BY <2>1, <2>2, <2>4 DEF Promise!refuseOrCrash, Promise!DDNext
  <2> QED BY <2>3, <2>4
<1>16. CASE UNCHANGED logVars
  BY <1>16, <1>a DEF logVars
<1> QED BY <1>1, <1>2, <1>3, <1>4, <1>5, <1>6, <1>7, <1>8, <1>9, <1>10, <1>11, <1>12, <1>13,
           <1>14, <1>15, <1>16 DEF LogNext

\* The log with its snapshot is one durable document, for any keys and values, any
\* number of transitions, and a crash at any write.
THEOREM LogIsDurable == LogSpec => ImplementsDurableDoc
<1>1. LogInit => Promise!DDInit
  BY DEF LogInit, docBar, callBar, initialized, Promise!DDInit, Docs, Promise!Docs, Events,
         Promise!Events
<1> QED BY <1>1, LogInvAlways, StepsRefine, PTL DEF LogSpec, ImplementsDurableDoc, Promise!DDSpec

-----------------------------------------------------------------------------
(***************************************************************************)
(* The document of a run, written by the commands of checkpoint.mjs.       *)
(***************************************************************************)

\* A list without duplicates has each of its members at one place.
LEMMA DistinctIsInjective ==
  ASSUME NEW s, s \in Seq(ToSet(s)), distinct(s)
  PROVE  \A i, j \in DOMAIN s : s[i] = s[j] => i = j
<1>1. Len(s) \in Nat /\ DOMAIN s = 1..Len(s) /\ s \in [1..Len(s) -> ToSet(s)]
  OBVIOUS
<1>2. IsFiniteSet(1..Len(s)) /\ Cardinality(1..Len(s)) = Len(s)
  <2>1. /\ IsFiniteSet(1..Len(s))
        /\ Cardinality(1..Len(s)) = IF 1 > Len(s) THEN 0 ELSE Len(s) - 1 + 1
    BY <1>1, FS_Interval
  <2> QED BY <2>1, <1>1
<1>3. s \in Surjection(1..Len(s), ToSet(s))
  BY <1>1 DEF Surjection, ToSet
<1>4. Cardinality(1..Len(s)) = Cardinality(ToSet(s))
  BY <1>2 DEF distinct
<1>5. s \in Injection(1..Len(s), ToSet(s))
  BY <1>2, <1>3, <1>4, FS_SurjSameCardinalityImpliesInj
<1> QED BY <1>1, <1>5 DEF Injection, IsInjective

\* When finalize finds nothing wrong with intake and receipt, every item of the intake
\* stands in the receipt exactly once, and nothing else does.
LEMMA AcceptedReceiptPlacesAll ==
  ASSUME NEW p \in Pipelines, p.receipt # Absent, intakeBound(p), scopeCovered(p.receipt)
  PROVE  /\ \A k \in DOMAIN p.intake : Places(p.intake[k], p) = 1
         /\ Len(receiptIds(p.receipt)) = Len(p.intake)
<1> DEFINE r == p.receipt
           kept == r.covered \o r.dropped
           S == ToSet(r.covered) \cup ToSet(r.dropped)
<1>1. /\ p.intake \in Seq(ToSet(p.intake))
      /\ r.covered \in Seq(ToSet(r.covered)) /\ r.dropped \in Seq(ToSet(r.dropped))
  BY StoreAssumption
<1>2. r.uncovered = <<>> /\ distinct(receiptIds(r)) /\ distinct(p.intake)
      /\ ToSet(p.intake) = ToSet(receiptIds(r))
  BY DEF intakeBound, scopeCovered
<1>3. kept \in Seq(S)
  <2>1. r.covered \in Seq(S)
    BY <1>1
  <2>2. r.dropped \in Seq(S)
    BY <1>1
  <2> HIDE DEF S, r
  <2> QED BY <2>1, <2>2, ConcatProperties
<1>4. receiptIds(r) = kept
  BY <1>2, <1>3 DEF receiptIds
<1>5. kept \in Seq(ToSet(kept))
  <2>1. ASSUME NEW T, NEW t \in Seq(T) PROVE t \in Seq(ToSet(t))
    BY <2>1 DEF ToSet
  <2> QED BY <1>3, <2>1
<1>6. \A i, j \in DOMAIN kept : kept[i] = kept[j] => i = j
  BY <1>2, <1>4, <1>5, DistinctIsInjective
<1> HIDE DEF kept
<1>7. ASSUME NEW k \in DOMAIN p.intake
      PROVE  Places(p.intake[k], p) = 1
  <2>1. PICK i \in DOMAIN kept : kept[i] = p.intake[k]
    <3>1. p.intake[k] \in ToSet(kept)
      BY <1>2, <1>4 DEF ToSet
    <3> QED BY <3>1 DEF ToSet
  <2>2. {j \in DOMAIN kept : kept[j] = p.intake[k]} = {i}
    BY <2>1, <1>6
  <2>3. Cardinality({i}) = 1
    BY FS_Singleton
  <2>4. Places(p.intake[k], p) = Cardinality({j \in DOMAIN kept : kept[j] = p.intake[k]})
    BY DEF Places, kept
  <2> QED BY <2>2, <2>3, <2>4
<1>8. Len(receiptIds(r)) = Len(p.intake)
  BY <1>2 DEF distinct
<1> QED BY <1>7, <1>8

\* No finding that was reported in this run is forgotten, and the pipeline block, when
\* there is one, is one that approve can have stamped.
FindingsInv == /\ reported \subseteq openItems \cup resolvedItems
               /\ pipeline \in Pipelines \cup {Absent}

Statuses == {"running", "needs_attention", "prepared", "awaiting_authorization", "done", "aborted"}

\* The operation that a command comes down to.
LEMMA CommandsAreOperations ==
  ASSUME CliNext
  PROVE  \/ \E initial, required, validated : init(initial, required, validated)
         \/ \E u, to, deps : unit(u, to, deps)
         \/ \E p, to : phase(p, to)
         \/ \E f : item(f) \/ resolve(f)
         \/ \E colour : validation(colour)
         \/ \E p \in Pipelines : stampMeta(p)
         \/ \E to \in Statuses \ {"done"} : setStatus(to)
         \/ \E to \in Statuses : finalize(to)
BY DEF CliNext, initCommand, unitCommand, phaseCommand, itemCommand, resolveCommand,
       validationCommand, finalizeCommand, statusPrepared, statusHalted, statusStamped, Statuses

LEMMA FindingsAreInvariant == CliSpec => []FindingsInv
<1>1. StoreInit => FindingsInv
  BY DEF StoreInit, FindingsInv
<1>2. FindingsInv /\ [CliNext]_storeVars => FindingsInv'
  <2> SUFFICES ASSUME FindingsInv, [CliNext]_storeVars PROVE FindingsInv'
    OBVIOUS
  <2> USE DEF FindingsInv
  <2>1. CASE UNCHANGED storeVars
    BY <2>1 DEF storeVars
  <2>2. ASSUME NEW initial, NEW required, NEW validated, init(initial, required, validated)
        PROVE  FindingsInv'
    BY <2>2 DEF init
  <2>3. ASSUME NEW u, NEW to, NEW deps, unit(u, to, deps) PROVE FindingsInv'
    BY <2>3 DEF unit
  <2>4. ASSUME NEW p, NEW to, phase(p, to) PROVE FindingsInv'
    BY <2>4 DEF phase
  <2>5. ASSUME NEW f, item(f) PROVE FindingsInv'
    BY <2>5 DEF item
  <2>6. ASSUME NEW f, resolve(f) PROVE FindingsInv'
    BY <2>6 DEF resolve
  <2>7. ASSUME NEW colour, validation(colour) PROVE FindingsInv'
    BY <2>7 DEF validation
  <2>8. ASSUME NEW p \in Pipelines, stampMeta(p) PROVE FindingsInv'
    BY <2>8 DEF stampMeta
  <2>9. ASSUME NEW to, setStatus(to) \/ finalize(to) PROVE FindingsInv'
    BY <2>9 DEF finalize, setStatus
  <2> QED BY <2>1, <2>2, <2>3, <2>4, <2>5, <2>6, <2>7, <2>8, <2>9, CommandsAreOperations
<1> QED BY <1>1, <1>2, PTL DEF CliSpec

\* finalize accepts no debt (checkpoint-store.mjs): a run turns done only when every unit
\* it registered is built, every finding that was ever reported in it was resolved, a
\* required phase and validation is green, and each item of a bound intake is in the receipt just once.
THEOREM DoneIsPaidFor == CliSpec => DoneOwesNothing
<1>1. FindingsInv /\ [CliNext]_storeVars =>
        [ runStatus' = "done" /\ runStatus # "done" =>
            /\ \A u \in registered : units[u] = "done"
            /\ reported \subseteq resolvedItems \ openItems
            /\ requireValidation => finalValidation = "green"
            /\ \A p \in requiredPhases : phases[p] = "done"
            /\ pipeline # Absent =>
                 /\ \A k \in DOMAIN pipeline.intake : Places(pipeline.intake[k], pipeline) = 1
                 /\ Len(receiptIds(pipeline.receipt)) = Len(pipeline.intake) ]_storeVars
  <2> SUFFICES ASSUME FindingsInv, CliNext, runStatus' = "done", runStatus # "done"
               PROVE  /\ \A u \in registered : units[u] = "done"
                      /\ reported \subseteq resolvedItems \ openItems
                      /\ requireValidation => finalValidation = "green"
                      /\ \A p \in requiredPhases : phases[p] = "done"
                      /\ pipeline # Absent =>
                           /\ \A k \in DOMAIN pipeline.intake :
                                Places(pipeline.intake[k], pipeline) = 1
                           /\ Len(receiptIds(pipeline.receipt)) = Len(pipeline.intake)
    BY Zenon DEF storeVars
  <2>1. PICK to : finalize(to)
    BY CommandsAreOperations DEF init, unit, phase, item, resolve, validation, stampMeta, setStatus
  <2>2. gatesPass
    BY <2>1 DEF finalize, setStatus
  <2>3. pipeline # Absent =>
          /\ \A k \in DOMAIN pipeline.intake : Places(pipeline.intake[k], pipeline) = 1
          /\ Len(receiptIds(pipeline.receipt)) = Len(pipeline.intake)
    <3> SUFFICES ASSUME pipeline # Absent
                 PROVE  /\ \A k \in DOMAIN pipeline.intake :
                             Places(pipeline.intake[k], pipeline) = 1
                        /\ Len(receiptIds(pipeline.receipt)) = Len(pipeline.intake)
      OBVIOUS
    <3>1. pipeline \in Pipelines
      BY DEF FindingsInv
    <3>2. pipeline.receipt # Absent /\ intakeBound(pipeline) /\ scopeCovered(pipeline.receipt)
      BY <2>2 DEF gatesPass
    <3> QED BY <3>1, <3>2, AcceptedReceiptPlacesAll
  <2>4. reported \subseteq resolvedItems \ openItems
    BY <2>2 DEF gatesPass, FindingsInv
  <2> QED BY <2>2, <2>3, <2>4, Zenon DEF gatesPass
<1> QED BY <1>1, FindingsAreInvariant, PTL DEF CliSpec, DoneOwesNothing

\* The conjunction of pipeline-state.mjs and the one of finalize, written in two files,
\* part on every document in the same three places and no other.
THEOREM GatesNeverDisagree == CliSpec => []GatesAgree
<1>1. ASSUME runStatus # Absent, converged
      PROVE  gatesPass <=> /\ pipeline # Absent => pipeline.path
                           /\ \A p \in Others : phases[p] # "blocked"
                           /\ \A p \in requiredPhases \ Required : phases[p] = "done"
  <2>1. /\ \A u \in registered : units[u] = "done"
        /\ \A p \in Required : phases[p] = "done"
        /\ \A p \in Optional : phases[p] # "blocked"
        /\ openItems = {} /\ finalValidation = "green"
    BY <1>1 DEF converged
  <2>2. (\A p \in Phases : phases[p] # "blocked") <=> \A p \in Others : phases[p] # "blocked"
    BY <2>1 DEF Phases
  <2>3. (\A p \in requiredPhases : phases[p] = "done")
          <=> \A p \in requiredPhases \ Required : phases[p] = "done"
    BY <2>1
  <2>4. ASSUME pipeline # Absent
        PROVE  /\ pipeline.receipt # Absent /\ scopeCovered(pipeline.receipt)
               /\ intakeBound(pipeline) <=> pipeline.path
    <3>1. intakeConverged(pipeline)
      BY <1>1, <2>4 DEF converged
    <3> QED BY <3>1 DEF intakeConverged, intakeBound, scopeCovered
  <2> QED BY <2>1, <2>2, <2>3, <2>4, Zenon DEF gatesPass
<1>2. GatesAgree
  BY <1>1 DEF GatesAgree
<1> QED BY <1>2, PTL

-----------------------------------------------------------------------------
(***************************************************************************)
(* The walk to the chain root.  Each call of chainRoot has seen one id     *)
(* more, so the number of ids not seen bounds the recursion: the function  *)
(* exists (WalkIsDefined), and what holds of every end of the walk follows *)
(* by the least number of unseen ids for which it would fail (WalkEnds).   *)
(***************************************************************************)
\* The number of ids the walk has not seen.
unseen(seen) == Cardinality(Ids \ seen)

LEMMA UnseenFalls ==
  ASSUME NEW seen \in SUBSET Ids
  PROVE  /\ unseen(seen) \in Nat
         /\ \A root \in Ids \ seen :
              seen \cup {root} \in SUBSET Ids /\ unseen(seen \cup {root}) < unseen(seen)
<1>1. IsFiniteSet(Ids \ seen) /\ Cardinality(Ids \ seen) \in Nat
  BY StoreAssumption, FS_Subset, FS_CardinalityType DEF Ids
<1>2. ASSUME NEW root \in Ids \ seen
      PROVE  unseen(seen \cup {root}) = unseen(seen) - 1
  <2>1. Ids \ (seen \cup {root}) = (Ids \ seen) \ {root}
    OBVIOUS
  <2> QED BY <1>1, <2>1, FS_RemoveElement DEF unseen
<1> QED BY <1>1, <1>2 DEF unseen

DepsInv == dependsOn \in [Units -> Seq(Ids)]

\* What an id waits for first is an id, not done, and among those it waits for.
LEMMA FirstUnmetIsUnmet ==
  ASSUME DepsInv, NEW d, unmet(d) # {}
  PROVE  /\ firstUnmet(d) \in Ids
         /\ firstUnmet(d) \in registered => units[firstUnmet(d)] # "done"
         /\ \E k \in unmet(d) : firstUnmet(d) = dependsOn[d][k]
<1>1. /\ d \in registered /\ unmet(d) \subseteq DOMAIN dependsOn[d]
      /\ \A k \in unmet(d) : dependsOn[d][k] \notin registered \/ units[dependsOn[d][k]] # "done"
  BY DEF unmet
<1>2. dependsOn[d] \in Seq(Ids)
  BY <1>1 DEF DepsInv, registered
<1>3. \A k \in DOMAIN dependsOn[d] : k \in Nat /\ dependsOn[d][k] \in Ids
  BY <1>2
<1>4. Min(unmet(d)) \in unmet(d)
  <2>1. unmet(d) \in SUBSET Nat
    BY <1>1, <1>3
  <2>2. \E m \in unmet(d) : \A k \in unmet(d) : m <= k
    BY <2>1, LeastOf
  <2> QED BY <2>2 DEF Min
<1> QED BY <1>1, <1>3, <1>4 DEF firstUnmet

\* One round of the walk, with the walk from the next id on as g.
round(g, seen) ==
  [root \in Ids |-> IF root \in seen \/ unmet(root) = {}
                      THEN root ELSE g[seen \cup {root}][firstUnmet(root)]]

LEMMA WalkIsDefined ==
  ASSUME DepsInv
  PROVE  \A seen \in SUBSET Ids : chainRoot[seen] = round(chainRoot, seen)
<1> DEFINE D == SUBSET Ids
           V == [Ids -> Ids]
           rank == [seen \in D |-> unseen(seen)]
           F == [g \in [D -> V] |-> [seen \in D |-> round(g, seen)]]
<1>1. rank \in [D -> Nat] /\ unseen({}) \in Nat
  BY UnseenFalls
<1>2. \E bound \in Nat : \A seen \in D : rank[seen] <= bound
  <2> SUFFICES ASSUME NEW seen \in D PROVE unseen(seen) <= unseen({})
    BY <1>1
  <2>1. Ids \ seen \subseteq Ids \ {} /\ IsFiniteSet(Ids \ {})
    BY StoreAssumption, FS_Subset DEF Ids
  <2> QED BY <2>1, FS_Subset DEF unseen
<1>3. \A g \in [D -> V], seen \in D : round(g, seen) \in V
  BY FirstUnmetIsUnmet DEF round
<1>4. F \in [[D -> V] -> [D -> V]]
  BY <1>3
<1>5. [seen \in D |-> [root \in Ids |-> root]] \in [D -> V]
  OBVIOUS
<1>6. ASSUME NEW f \in [D -> V], NEW g \in [D -> V], NEW seen \in D,
             \A y \in D : rank[y] < rank[seen] => f[y] = g[y]
      PROVE  F[f][seen] = F[g][seen]
  <2>1. \A root \in Ids \ seen : f[seen \cup {root}] = g[seen \cup {root}]
    BY <1>6, UnseenFalls
  <2>2. round(f, seen) = round(g, seen)
    BY <2>1 DEF round
  <2> QED BY <2>2
<1>7. PICK g \in [D -> V] : g = F[g]
  <2> HIDE DEF D, V, rank, F
  <2>1. ReadsBelow(F, D, V, rank)
    BY <1>1, <1>2, <1>4, <1>5, <1>6 DEF ReadsBelow
  <2> QED BY <2>1, FixedPoint
<1>8. g = [seen \in SUBSET Ids |-> round(g, seen)]
  BY <1>7
<1>9. chainRoot = [seen \in SUBSET Ids |-> round(chainRoot, seen)]
  BY <1>8, Zenon DEF chainRoot, round
<1> QED BY <1>9

\* What is upstream: what an id waits for, and what that waits for in turn.
LEMMA UpstreamIsClosed ==
  ASSUME NEW a \in Ids, NEW e \in Ids
  PROVE  /\ (\E k \in unmet(a) : e = dependsOn[a][k]) => e \in upstream(a)
         /\ \A c \in upstream(a) :
              (\E k \in unmet(c) : e = dependsOn[c][k]) => e \in upstream(a)
         /\ \A c \in upstream(a) : e \in upstream(c) => e \in upstream(a)
<1>1. (\E k \in unmet(a) : e = dependsOn[a][k]) => e \in upstream(a)
  BY DEF upstream, waitedFor
<1>2. ASSUME NEW c \in upstream(a), NEW S \in SUBSET Ids, waitedFor(S \cup {a}) \subseteq S
      PROVE  c \in S /\ waitedFor(S \cup {c}) \subseteq S
  <2>1. c \in S
    BY <1>2 DEF upstream
  <2>2. S \cup {c} \subseteq S \cup {a}
    BY <2>1
  <2> QED BY <1>2, <2>1, <2>2 DEF waitedFor
<1>3. ASSUME NEW c \in upstream(a), \E k \in unmet(c) : e = dependsOn[c][k]
      PROVE  e \in upstream(a)
  <2> SUFFICES ASSUME NEW S \in SUBSET Ids, waitedFor(S \cup {a}) \subseteq S PROVE e \in S
    BY DEF upstream
  <2>1. waitedFor(S \cup {c}) \subseteq S
    BY <1>2
  <2> QED BY <1>3, <2>1 DEF waitedFor
<1>4. ASSUME NEW c \in upstream(a), e \in upstream(c) PROVE e \in upstream(a)
  <2> SUFFICES ASSUME NEW S \in SUBSET Ids, waitedFor(S \cup {a}) \subseteq S PROVE e \in S
    BY DEF upstream
  <2>1. waitedFor(S \cup {c}) \subseteq S
    BY <1>2
  <2> QED BY <1>4, <2>1 DEF upstream
<1> QED BY <1>1, <1>3, <1>4

\* Of a walk that has come to root: everything it has seen waits for root, and root is
\* not done.
Underway(seen, root) ==
  /\ root \in registered => units[root] # "done"
  /\ \A x \in seen : root \in upstream(x)

\* Where it ends: at something that is not done, at root or upstream of it, that waits
\* for nothing, or for itself.
EndsWell(seen, root) ==
  LET end == chainRoot[seen][root]
  IN  /\ end \in Ids /\ end \in {root} \cup upstream(root)
      /\ end \in registered => units[end] # "done"
      /\ unmet(end) = {} \/ end \in upstream(end)

LEMMA WalkEnds ==
  ASSUME DepsInv
  PROVE  \A seen \in SUBSET Ids, root \in Ids : Underway(seen, root) => EndsWell(seen, root)
<1> DEFINE Astray(seen) == \E root \in Ids : Underway(seen, root) /\ ~ EndsWell(seen, root)
           Left == {unseen(seen) : seen \in {S \in SUBSET Ids : Astray(S)}}
<1> SUFFICES ASSUME Left # {} PROVE FALSE
  OBVIOUS
<1>1. Left \in SUBSET Nat
  BY UnseenFalls
<1>2. PICK n \in Left : \A k \in Left : n <= k
  <2> HIDE DEF Left
  <2> QED BY <1>1, LeastOf
<1>3. PICK seen \in SUBSET Ids : unseen(seen) = n /\ Astray(seen)
  OBVIOUS
<1>4. PICK root \in Ids : Underway(seen, root) /\ ~ EndsWell(seen, root)
  BY <1>3
<1>5. chainRoot[seen][root] = IF root \in seen \/ unmet(root) = {}
                              THEN root ELSE chainRoot[seen \cup {root}][firstUnmet(root)]
  <2>1. chainRoot[seen] = round(chainRoot, seen)
    BY WalkIsDefined
  <2> QED BY <2>1 DEF round
<1>6. CASE root \in seen \/ unmet(root) = {}
  BY <1>4, <1>5, <1>6 DEF Underway, EndsWell
<1>7. CASE ~ (root \in seen \/ unmet(root) = {})
  <2> DEFINE joined == seen \cup {root}
             after == firstUnmet(root)
  <2>1. /\ after \in Ids
        /\ after \in registered => units[after] # "done"
        /\ \E k \in unmet(root) : after = dependsOn[root][k]
    BY <1>7, FirstUnmetIsUnmet
  <2> HIDE DEF after
  <2>2. after \in upstream(root)
    BY <2>1, UpstreamIsClosed
  <2>3. Underway(joined, after)
    <3>1. ASSUME NEW x \in seen PROVE after \in upstream(x)
      <4>1. x \in Ids /\ root \in upstream(x)
        BY <1>4 DEF Underway
      <4> QED BY <2>1, <4>1, UpstreamIsClosed
    <3> QED BY <2>1, <2>2, <3>1, Zenon DEF Underway
  <2>4. joined \in SUBSET Ids /\ unseen(joined) < n
    BY <1>3, <1>7, UnseenFalls
  <2>5. ~ Astray(joined)
    <3>1. unseen(joined) \in Nat /\ n \in Nat
      BY <1>1, <2>4, UnseenFalls
    <3>2. unseen(joined) \notin Left
      <4> HIDE DEF Left
      <4> QED BY <1>2, <2>4, <3>1
    <3> QED BY <2>4, <3>2
  <2>6. EndsWell(joined, after)
    BY <2>1, <2>3, <2>5
  <2>7. chainRoot[seen][root] = chainRoot[joined][after]
    BY <1>5, <1>7 DEF after
  <2> HIDE DEF joined
  <2>8. EndsWell(seen, root)
    BY <2>1, <2>2, <2>6, <2>7, UpstreamIsClosed DEF EndsWell
  <2> QED BY <1>4, <2>8
<1> QED BY <1>6, <1>7

LEMMA DepsAreInvariant == CliSpec => []DepsInv
<1>1. StoreInit => DepsInv
  BY DEF StoreInit, DepsInv
<1>2. DepsInv /\ [CliNext]_storeVars => DepsInv'
  <2> SUFFICES ASSUME DepsInv, [CliNext]_storeVars PROVE DepsInv'
    OBVIOUS
  <2>1. ASSUME NEW initial, NEW required, NEW validated, init(initial, required, validated)
        PROVE  DepsInv'
    BY <2>1 DEF init, DepsInv
  <2>2. ASSUME NEW u \in Units, NEW to, NEW deps \in Given, NEW list \in DepLists[u],
               unitCommand(u, to, deps, list)
        PROVE  DepsInv'
    <3>1. csv(deps, list, dependsOn[u]) \in Seq(Ids)
      BY StoreAssumption DEF csv, DepsInv, Ids
    <3> QED BY <2>2, <3>1 DEF unitCommand, unit, DepsInv
  <2>3. ASSUME UNCHANGED dependsOn PROVE DepsInv'
    BY <2>3 DEF DepsInv
  <2> QED BY <2>1, <2>2, <2>3 DEF CliNext, initCommand, phaseCommand, phase, itemCommand, item,
             resolveCommand, resolve, validationCommand, validation, stampMeta,
             finalizeCommand, finalize, statusPrepared, statusHalted, statusStamped, setStatus,
             storeVars
<1> QED BY <1>1, <1>2, PTL DEF CliSpec

\* resume of checkpoint-store.mjs points triage at the cause: for any graph of
\* dependencies, also a cyclic one or one that names ids nobody registered, the walk
\* ends, upstream of the blocked unit, at something not done that waits for nothing but
\* perhaps itself.
THEOREM WalkFindsTheCause == CliSpec => []RootIsTheCause
<1>1. DepsInv => RootIsTheCause
  <2> SUFFICES ASSUME DepsInv, NEW u \in depBlocked
               PROVE  LET root == rootOf(u)
                      IN  /\ root \in upstream(u)
                          /\ root \in registered => units[root] # "done"
                          /\ unmet(root) = {} \/ root \in upstream(root)
    BY DEF RootIsTheCause
  <2> DEFINE first == firstUnmet(u)
  <2>1. u \in Ids /\ unmet(u) # {}
    BY DEF depBlocked, registered, Ids
  <2>2. /\ first \in Ids
        /\ first \in registered => units[first] # "done"
        /\ first \in upstream(u)
    BY <2>1, FirstUnmetIsUnmet, UpstreamIsClosed
  <2>3. EndsWell({}, first)
    <3>1. Underway({}, first)
      BY <2>2 DEF Underway
    <3> QED BY <2>2, <3>1, WalkEnds
  <2> HIDE DEF first
  <2>4. rootOf(u) = chainRoot[{}][first]
    BY DEF rootOf, first
  <2> QED BY <2>1, <2>2, <2>3, <2>4, UpstreamIsClosed DEF EndsWell
<1> QED BY <1>1, DepsAreInvariant, PTL

-----------------------------------------------------------------------------
(***************************************************************************)
(* The report of run-status.mjs beside resume.  The report walks in        *)
(* rounds, resume by recursion on what it has seen; each round keeps what  *)
(* the recursion would answer from where the loop stands, and adds an id   *)
(* to the seen ones until it ends, so as many rounds as there are ids are  *)
(* enough.  The counts add up as every unit is in one of five buckets.     *)
(***************************************************************************)
DocTypes ==
  /\ runStatus \in Statuses \cup {Absent}
  /\ units \in [Units -> UnitStates \cup {Absent}]

LEMMA DocTypesHold == CliSpec => []DocTypes
<1>1. StoreInit => DocTypes
  BY DEF StoreInit, DocTypes
<1>2. DocTypes /\ [CliNext]_storeVars => DocTypes'
  <2> SUFFICES ASSUME DocTypes, [CliNext]_storeVars PROVE DocTypes'
    OBVIOUS
  <2>1. ASSUME NEW initial, NEW required, NEW validated, init(initial, required, validated)
        PROVE  DocTypes'
    <3>1. "pending" \in UnitStates
      BY StoreAssumption
    <3> QED BY <2>1, <3>1 DEF init, DocTypes, Statuses
  <2>2. ASSUME NEW u \in Units, NEW to, NEW deps, NEW list, unitCommand(u, to, deps, list)
        PROVE  DocTypes'
    BY <2>2 DEF unitCommand, unit, DocTypes
  <2>3. ASSUME NEW to \in Statuses, setStatus(to) PROVE DocTypes'
    BY <2>3 DEF setStatus, DocTypes
  <2>4. ASSUME UNCHANGED <<runStatus, units>> PROVE DocTypes'
    BY <2>4 DEF DocTypes
  <2> QED BY <2>1, <2>2, <2>3, <2>4 DEF CliNext, initCommand, phaseCommand, phase, itemCommand,
             item, resolveCommand, resolve, validationCommand, validation, stampMeta,
             finalizeCommand, finalize, statusPrepared, statusHalted, statusStamped, Statuses,
             storeVars
<1> QED BY <1>1, <1>2, PTL DEF CliSpec

\* The two files ask the same of a dependency, each in its own words.
LEMMA MissingIsUnmet ==
  ASSUME NEW d PROVE missingDeps(d) = unmet(d) /\ firstMissing(d) = firstUnmet(d)
<1>1. missingDeps(d) = unmet(d)
  BY DEF missingDeps, unmet, finished
<1> QED BY <1>1, Zenon DEF firstMissing, firstUnmet

Stands == [root : Ids, seen : SUBSET Ids]

\* A round keeps the answer of the recursion, and ends the loop or sees one more id.
LEMMA RoundKeepsAnswer ==
  ASSUME DepsInv, NEW w \in Stands
  PROVE  /\ onward(w) \in Stands
         /\ chainRoot[onward(w).seen][onward(w).root] = chainRoot[w.seen][w.root]
         /\ ended(w) => onward(w) = w /\ chainRoot[w.seen][w.root] = w.root
         /\ ~ ended(w) => Cardinality(onward(w).seen) = Cardinality(w.seen) + 1
<1>1. w.root \in Ids /\ w.seen \in SUBSET Ids
  BY DEF Stands
<1>2. chainRoot[w.seen][w.root] =
        IF w.root \in w.seen \/ unmet(w.root) = {}
          THEN w.root ELSE chainRoot[w.seen \cup {w.root}][firstUnmet(w.root)]
  <2>1. chainRoot[w.seen] = round(chainRoot, w.seen)
    BY <1>1, WalkIsDefined
  <2> QED BY <1>1, <2>1 DEF round
<1>3. CASE ended(w)
  <2>1. onward(w) = w
    BY <1>3 DEF onward
  <2>2. w.root \in w.seen \/ unmet(w.root) = {}
    BY <1>3, MissingIsUnmet, Zenon DEF ended
  <2> QED BY <1>2, <1>3, <2>1, <2>2
<1>4. CASE ~ ended(w)
  <2>1. ~ (w.root \in w.seen \/ unmet(w.root) = {})
    BY <1>4, MissingIsUnmet, Zenon DEF ended
  <2>2. onward(w) = [root |-> firstUnmet(w.root), seen |-> w.seen \cup {w.root}]
    BY <1>4, MissingIsUnmet, Zenon DEF onward
  <2>3. firstUnmet(w.root) \in Ids
    BY <2>1, FirstUnmetIsUnmet
  <2>4. Cardinality(w.seen \cup {w.root}) = Cardinality(w.seen) + 1
    <3>1. IsFiniteSet(w.seen)
      BY <1>1, StoreAssumption, FS_Subset DEF Ids
    <3> QED BY <2>1, <3>1, FS_AddElement
  <2>5. onward(w).root = firstUnmet(w.root) /\ onward(w).seen = w.seen \cup {w.root}
    BY <2>2
  <2>6. onward(w) \in Stands
    BY <1>1, <2>2, <2>3 DEF Stands
  <2> QED BY <1>2, <1>4, <2>1, <2>4, <2>5, <2>6
<1> QED BY <1>3, <1>4

LEMMA LoopIsTheWalk ==
  ASSUME DepsInv, NEW first \in Ids
  PROVE  loop(first).root = chainRoot[{}][first]
<1> DEFINE n == Cardinality(Ids)
           base == [root |-> first, seen |-> {}]
           step == [k \in 1..n |-> [w \in Stands |-> onward(w)]]
           rounds == CHOOSE f : f = [k \in 0..n |-> IF k = 0 THEN base ELSE onward(f[k - 1])]
           answer == chainRoot[{}][first]
           K == {k \in 0..n : /\ rounds[k] \in Stands
                              /\ chainRoot[rounds[k].seen][rounds[k].root] = answer
                              /\ ended(rounds[k]) \/ Cardinality(rounds[k].seen) = k}
<1>1. IsFiniteSet(Ids) /\ n \in Nat
  BY StoreAssumption, FS_CardinalityType DEF Ids
<1>2. base \in Stands /\ base.root = first /\ base.seen = {} /\ Cardinality(base.seen) = 0
  BY FS_EmptySet DEF Stands
<1>3. step \in [1..n -> [Stands -> Stands]]
  BY RoundKeepsAnswer
<1>4. PICK g : Accumulates(g, Stands, base, n, step)
  <2> HIDE DEF n, base, step
  <2> QED BY <1>1, <1>2, <1>3, Accumulation
<1>5. g = [k \in 0..n |-> IF k = 0 THEN base ELSE onward(g[k - 1])]
  <2>1. ASSUME NEW k \in 0..n, k # 0 PROVE step[k][g[k - 1]] = onward(g[k - 1])
    <3>1. k \in 1..n /\ k - 1 \in 0..n
      BY <1>1, <2>1
    <3>2. g[k - 1] \in Stands
      BY <1>4, <3>1 DEF Accumulates
    <3> QED BY <3>1, <3>2
  <2> HIDE DEF n, base, step
  <2> QED BY <1>4, <2>1 DEF Accumulates
<1>6. rounds = [k \in 0..n |-> IF k = 0 THEN base ELSE onward(rounds[k - 1])]
  <2> HIDE DEF n, base
  <2> QED BY <1>5
<1>7. loop(first) = rounds[n]
  BY Zenon DEF loop
<1> HIDE DEF rounds, answer, n, base, step
<1>8. 0 \in K
  <2>1. 0 \in 0..n /\ rounds[0] = base
    BY <1>1, <1>6
  <2>2. rounds[0] \in Stands /\ chainRoot[rounds[0].seen][rounds[0].root] = answer
    BY <1>2, <2>1 DEF answer
  <2> QED BY <1>2, <2>1, <2>2
<1>9. ASSUME NEW k \in 1..n, k - 1 \in K PROVE k \in K
  <2>1. k \in 0..n /\ k - 1 \in 0..n /\ k # 0 /\ (k - 1) + 1 = k
    BY <1>1
  <2>2. rounds[k] = onward(rounds[k - 1])
    BY <1>6, <2>1
  <2>3. /\ rounds[k - 1] \in Stands
        /\ chainRoot[rounds[k - 1].seen][rounds[k - 1].root] = answer
        /\ ended(rounds[k - 1]) \/ Cardinality(rounds[k - 1].seen) = k - 1
    BY <1>9
  <2> QED BY <2>1, <2>2, <2>3, RoundKeepsAnswer
<1>10. n \in K
  <2>1. n \in 0..n
    BY <1>1
  <2>2. \A k \in 0..n : k \in K
    <3> HIDE DEF K
    <3> QED BY <1>1, <1>8, <1>9, UpTo
  <2> QED BY <2>1, <2>2
<1>11. ended(rounds[n])
  <2> SUFFICES ASSUME Cardinality(rounds[n].seen) = n PROVE ended(rounds[n])
    BY <1>10
  <2>1. rounds[n].seen \subseteq Ids /\ rounds[n].root \in Ids
    BY <1>10 DEF Stands
  <2>2. rounds[n].seen = Ids
    BY <1>1, <2>1, FS_Subset DEF n
  <2> QED BY <2>1, <2>2 DEF ended
<1> QED BY <1>7, <1>10, <1>11, RoundKeepsAnswer DEF answer

\* Sets apart from each other count for themselves.
LEMMA BucketsAddUp ==
  ASSUME DocTypes
  PROVE  Cardinality(registered) =
           Cardinality(unitsIn("done")) + Cardinality(unitsIn("in_progress"))
             + Cardinality(unitsIn("blocked")) + Cardinality(unitsIn("dep_blocked"))
             + Cardinality(unitsIn("pending"))
<1> DEFINE D == unitsIn("done")
           P == unitsIn("in_progress")
           B == unitsIn("blocked")
           X == unitsIn("dep_blocked")
           R == unitsIn("pending")
<1>1. registered = (((D \cup P) \cup B) \cup X) \cup R
  <2>1. \A u \in registered : units[u] \in UnitStates
    BY DEF DocTypes, registered
  <2>2. UnitStates \subseteq {"pending", "in_progress", "done", "blocked", "dep_blocked"}
    BY StoreAssumption
  <2> QED BY <2>1, <2>2 DEF unitsIn
<1>2. /\ D \cap P = {} /\ (D \cup P) \cap B = {} /\ ((D \cup P) \cup B) \cap X = {}
      /\ (((D \cup P) \cup B) \cup X) \cap R = {}
  BY DEF unitsIn
<1>3. /\ IsFiniteSet(D) /\ IsFiniteSet(P) /\ IsFiniteSet(B) /\ IsFiniteSet(X) /\ IsFiniteSet(R)
  <2>1. IsFiniteSet(Units)
    BY StoreAssumption, FS_Subset
  <2> QED BY <2>1, FS_Subset DEF unitsIn, registered
<1> HIDE DEF D, P, B, X, R
<1>4. ASSUME NEW S, NEW T, IsFiniteSet(S), IsFiniteSet(T), S \cap T = {}
      PROVE  /\ IsFiniteSet(S \cup T) /\ Cardinality(S) \in Nat /\ Cardinality(T) \in Nat
             /\ Cardinality(S \cup T) = Cardinality(S) + Cardinality(T)
  <2>1. Cardinality(S \cap T) = 0
    BY <1>4, FS_EmptySet
  <2>2. Cardinality(S) \in Nat /\ Cardinality(T) \in Nat
    BY <1>4, FS_CardinalityType
  <2>3. /\ IsFiniteSet(S \cup T)
        /\ Cardinality(S \cup T) = Cardinality(S) + Cardinality(T) - Cardinality(S \cap T)
    BY <1>4, FS_Union
  <2> QED BY <2>1, <2>2, <2>3
<1>5. Cardinality(D \cup P) = Cardinality(D) + Cardinality(P) /\ IsFiniteSet(D \cup P)
  BY <1>2, <1>3, <1>4
<1>6. /\ Cardinality((D \cup P) \cup B) = Cardinality(D \cup P) + Cardinality(B)
      /\ IsFiniteSet((D \cup P) \cup B)
  BY <1>2, <1>3, <1>4, <1>5
<1>7. /\ Cardinality(((D \cup P) \cup B) \cup X) = Cardinality((D \cup P) \cup B) + Cardinality(X)
      /\ IsFiniteSet(((D \cup P) \cup B) \cup X)
  BY <1>2, <1>3, <1>4, <1>6
<1>8. Cardinality(registered) = Cardinality(((D \cup P) \cup B) \cup X) + Cardinality(R)
  BY <1>1, <1>2, <1>3, <1>4, <1>7
<1> QED BY <1>5, <1>6, <1>7, <1>8 DEF D, P, B, X, R

\* run-status.mjs and resume of checkpoint-store.mjs describe one run: the same units are
\* skipped, offered and blocked, with the same root, for any graph of dependencies; the
\* counts add up; and only the store's own verdict closes the report.
THEOREM ReportIsTrue == CliSpec => []StatusAgrees
<1>1. DepsInv /\ DocTypes => StatusAgrees
  <2> SUFFICES ASSUME DepsInv, DocTypes, runStatus # Absent PROVE StatusAgrees
    BY DEF StatusAgrees
  <2>1. /\ resumeSet.eligible = eligible /\ resumeSet.skip = finished
        /\ resumeSet.dep_blocked = {<<u, rootFound(u)>> : u \in depBlocked}
    <3>1. registered \ finished = {u \in registered : units[u] # "done"}
      BY DEF finished
    <3>2. {u \in registered \ finished : missingDeps(u) = {}} = eligible
      BY <3>1, MissingIsUnmet DEF eligible
    <3>3. {u \in registered \ finished : missingDeps(u) # {}} = depBlocked
      BY <3>1, MissingIsUnmet DEF depBlocked
    <3> QED BY <3>2, <3>3 DEF resumeSet
  <2>2. ASSUME NEW u \in depBlocked PROVE rootFound(u) = rootOf(u)
    <3>1. firstUnmet(u) \in Ids
      BY FirstUnmetIsUnmet DEF depBlocked
    <3>2. firstMissing(u) = firstUnmet(u)
      BY MissingIsUnmet
    <3> QED BY <3>1, <3>2, LoopIsTheWalk DEF rootFound, rootOf
  <2>3. {b[1] : b \in resumeSet.dep_blocked} = depBlocked
    <3>1. \A u \in depBlocked : <<u, rootFound(u)>>[1] = u
      OBVIOUS
    <3> DEFINE blocked == resumeSet.dep_blocked
    <3>2. ASSUME NEW u \in depBlocked PROVE \E b \in blocked : b[1] = u
      BY <2>1, <3>1
    <3>3. ASSUME NEW b \in blocked PROVE b[1] \in depBlocked
      BY <2>1, <3>1
    <3> HIDE DEF blocked
    <3>4. {b[1] : b \in blocked} = depBlocked
      BY <3>2, <3>3
    <3> QED BY <3>4 DEF blocked
  <2>4. \A b \in resumeSet.dep_blocked : b[2] = rootOf(b[1])
    BY <2>1, <2>2
  <2>5. registered = resumeSet.skip \cup eligible \cup depBlocked /\ unitsIn("done") = finished
    BY <2>1 DEF finished, eligible, depBlocked, unitsIn
  <2>6. ASSUME NEW recipe
        PROVE  /\ render(recipe).done = Cardinality(resumeSet.skip)
               /\ summary.done = render(recipe).done
               /\ render(recipe).total = render(recipe).done
                    + render(recipe).chips["in_progress"] + render(recipe).chips["blocked"]
                    + render(recipe).chips["dep_blocked"] + render(recipe).chips["pending"]
               /\ render(recipe).footer = "complete" =>
                    /\ runStatus \in {"prepared", "awaiting_authorization"}
                    /\ \A u \in registered : units[u] = "done"
    <3>1. /\ render(recipe).done = Cardinality(unitsIn("done"))
          /\ render(recipe).total = Cardinality(registered)
          /\ \A s \in {"in_progress", "blocked", "dep_blocked", "pending"} :
               render(recipe).chips[s] = Cardinality(unitsIn(s))
          /\ render(recipe).footer = footer(recipe)
      BY DEF render, buckets
    <3>2. summary.done = Cardinality(unitsIn("done"))
      BY DEF summary
    <3>3. ASSUME footer(recipe) = "complete"
          PROVE  /\ runStatus \in {"prepared", "awaiting_authorization"}
                 /\ \A u \in registered : units[u] = "done"
      <4>1. runStatus \notin {"done", "aborted"} /\ ~ hasOpen
        BY <3>3 DEF footer
      <4>2. runStatus \in {"prepared", "awaiting_authorization"}
        BY <2>1, <4>1 DEF DocTypes, Statuses, hasOpen, isLive
      <4>3. ASSUME NEW u \in registered PROVE units[u] = "done"
        <5>1. units[u] \in {"pending", "in_progress", "done", "blocked", "dep_blocked"}
          BY <2>1, StoreAssumption DEF DocTypes, registered
        <5>2. u \notin unitsIn("pending") /\ u \notin unitsIn("in_progress")
              /\ u \notin unitsIn("blocked") /\ u \notin unitsIn("dep_blocked")
          BY <4>1 DEF hasOpen, buckets
        <5> QED BY <5>1, <5>2 DEF unitsIn, registered
      <4> QED BY <4>2, <4>3
    <3> QED BY <2>1, <2>5, <3>1, <3>2, <3>3, BucketsAddUp
  <2> QED BY <2>1, <2>3, <2>4, <2>5, <2>6, Zenon DEF StatusAgrees
<1> QED BY <1>1, DepsAreInvariant, DocTypesHold, PTL

-----------------------------------------------------------------------------
(***************************************************************************)
(* The journal of the agents that run, and the overlay read from it.       *)
(***************************************************************************)

\* As long as every complete line of a journal is an event, the lines are what happened,
\* up to one event: a whole one that misses its newline, or one that a torn append cut.
FlowInv(w) ==
  /\ happened[w] \in Seq(Event)
  /\ journals[w].lines \in Seq(Event \cup {NoEntry})
  /\ journals[w].tail \in Event \cup {NoTail, Cut}
  /\ (\A i \in DOMAIN journals[w].lines : validEntry(journals[w].lines[i])) =>
       \/ journals[w].tail \in {NoTail, Cut} /\ happened[w] = journals[w].lines
       \/ /\ journals[w].tail \in Event
          /\ happened[w] = Append(journals[w].lines, journals[w].tail)
       \/ /\ journals[w].tail = Cut
          /\ \E e \in Event : happened[w] = Append(journals[w].lines, e)

JournalInv ==
  /\ journals \in [Flows -> [lines : Seq(Event \cup {NoEntry}), tail : Event \cup {NoTail, Cut}]]
  /\ happened \in [Flows -> Seq(Event)]
  /\ newestFlow \in Flows \cup {"none"}
  /\ \A w \in Flows : FlowInv(w)

LEMMA OnlyEventsAreValid == NoEntry \notin Event /\ NoTail \notin Event /\ Cut \notin Event
                            /\ NoTail # Cut /\ NoTail # NoEntry
BY DEF NoEntry, NoTail, Cut, Event

\* A line behind all others is as good as the worst of them.
LEMMA LastLineCounts ==
  ASSUME NEW ls \in Seq(Event \cup {NoEntry}), NEW l \in Event \cup {NoEntry},
         \A i \in DOMAIN Append(ls, l) : validEntry(Append(ls, l)[i])
  PROVE  l \in Event /\ \A i \in DOMAIN ls : validEntry(ls[i])
<1>1. /\ DOMAIN Append(ls, l) = 1..Len(ls) + 1 /\ DOMAIN ls = 1..Len(ls) /\ Len(ls) \in Nat
      /\ Append(ls, l)[Len(ls) + 1] = l
      /\ \A i \in 1..Len(ls) : Append(ls, l)[i] = ls[i]
  BY AppendProperties
<1> QED BY <1>1 DEF validEntry

LEMMA JournalIsInvariant == JournalSpec => []JournalInv
<1>1. JournalInit => JournalInv
  <2> SUFFICES ASSUME JournalInit PROVE JournalInv
    OBVIOUS
  <2> QED BY EmptySeq DEF JournalInit, JournalInv, FlowInv
<1>2. JournalInv /\ [JournalNext]_journalVars => JournalInv'
  <2> SUFFICES ASSUME JournalInv, [JournalNext]_journalVars PROVE JournalInv'
    OBVIOUS
  <2>1. CASE UNCHANGED journalVars
    BY <2>1 DEF journalVars, JournalInv, FlowInv
  <2>2. ASSUME NEW w \in Flows, NEW lines, NEW tail, NEW hist,
               journals' = [journals EXCEPT ![w] = [lines |-> lines, tail |-> tail]],
               happened' = [happened EXCEPT ![w] = hist],
               newestFlow' = w,
               lines \in Seq(Event \cup {NoEntry}), tail \in Event \cup {NoTail, Cut},
               hist \in Seq(Event),
               (\A i \in DOMAIN lines : validEntry(lines[i])) =>
                 \/ tail \in {NoTail, Cut} /\ hist = lines
                 \/ tail \in Event /\ hist = Append(lines, tail)
                 \/ tail = Cut /\ \E e \in Event : hist = Append(lines, e)
        PROVE  JournalInv'
    <3>1. /\ journals'[w].lines = lines /\ journals'[w].tail = tail /\ happened'[w] = hist
      BY <2>2 DEF JournalInv
    <3>2. FlowInv(w)'
      BY <2>2, <3>1 DEF FlowInv
    <3>3. ASSUME NEW v \in Flows \ {w} PROVE FlowInv(v)'
      <4>1. journals'[v] = journals[v] /\ happened'[v] = happened[v]
        BY <2>2 DEF JournalInv
      <4> QED BY <4>1 DEF JournalInv, FlowInv
    <3> QED BY <2>2, <3>2, <3>3 DEF JournalInv
  <2>3. ASSUME NEW w \in Flows, NEW e \in Event, appendEntry(w, e)
        PROVE  JournalInv'
    <3> DEFINE ls == journals[w].lines
               l == lineAfter(journals[w].tail, e)
               hist == Append(happened[w], e)
    <3>1. FlowInv(w) /\ ls \in Seq(Event \cup {NoEntry}) /\ happened[w] \in Seq(Event)
      BY DEF JournalInv, FlowInv
    <3>2. l \in Event \cup {NoEntry} /\ (l \in Event => journals[w].tail = NoTail /\ l = e)
      BY OnlyEventsAreValid DEF lineAfter
    <3>3. /\ journals' = [journals EXCEPT ![w] = [lines |-> Append(ls, l), tail |-> NoTail]]
          /\ happened' = [happened EXCEPT ![w] = hist] /\ newestFlow' = w
      BY <2>3 DEF appendEntry
    <3> HIDE DEF l
    <3>4. Append(ls, l) \in Seq(Event \cup {NoEntry}) /\ hist \in Seq(Event)
      BY <3>1, <3>2
    <3>5. ASSUME \A i \in DOMAIN Append(ls, l) : validEntry(Append(ls, l)[i])
          PROVE  hist = Append(ls, l)
      <4>1. l \in Event /\ \A i \in DOMAIN ls : validEntry(ls[i])
        BY <3>1, <3>2, <3>5, LastLineCounts
      <4>2. happened[w] = ls
        BY <3>1, <3>2, <4>1, OnlyEventsAreValid DEF FlowInv
      <4> QED BY <3>2, <4>1, <4>2
    <3> HIDE DEF hist, ls
    <3> QED BY <2>2, <3>3, <3>4, <3>5
  <2>4. ASSUME NEW w \in Flows, NEW e \in Event, tear(w, e)
        PROVE  JournalInv'
    <3>1. /\ FlowInv(w)
          /\ journals[w] = [lines |-> journals[w].lines, tail |-> journals[w].tail]
      BY DEF JournalInv
    <3>2. newestFlow' = w
      BY <2>4 DEF tear
    <3>3. CASE /\ journals' = [journals EXCEPT ![w].tail = Cut]
               /\ UNCHANGED happened
      <4>1. /\ journals' = [journals EXCEPT ![w] = [lines |-> journals[w].lines, tail |-> Cut]]
            /\ happened' = [happened EXCEPT ![w] = happened[w]]
        <5>1. journals' = [journals EXCEPT ![w] = [journals[w] EXCEPT !.tail = Cut]]
          BY <3>3
        <5>2. [journals[w] EXCEPT !.tail = Cut] = [lines |-> journals[w].lines, tail |-> Cut]
          BY DEF JournalInv
        <5>3. happened' = [happened EXCEPT ![w] = happened[w]]
          BY <3>3 DEF JournalInv
        <5> QED BY <5>1, <5>2, <5>3, Zenon
      <4>2. (\A i \in DOMAIN journals[w].lines : validEntry(journals[w].lines[i])) =>
              \/ happened[w] = journals[w].lines
              \/ \E d \in Event : happened[w] = Append(journals[w].lines, d)
        BY <3>1 DEF FlowInv
      <4> QED BY <2>2, <3>1, <3>2, <4>1, <4>2 DEF FlowInv
    <3>4. CASE /\ journals[w].tail = NoTail
               /\ journals' = [journals EXCEPT ![w].tail = e]
               /\ happened' = [happened EXCEPT ![w] = Append(@, e)]
      <4>1. /\ journals' = [journals EXCEPT ![w] = [lines |-> journals[w].lines, tail |-> e]]
            /\ happened' = [happened EXCEPT ![w] = Append(happened[w], e)]
        <5>1. journals' = [journals EXCEPT ![w] = [journals[w] EXCEPT !.tail = e]]
          BY <3>4
        <5>2. [journals[w] EXCEPT !.tail = e] = [lines |-> journals[w].lines, tail |-> e]
          BY DEF JournalInv
        <5> QED BY <3>4, <5>1, <5>2, Zenon
      <4>2. (\A i \in DOMAIN journals[w].lines : validEntry(journals[w].lines[i])) =>
              happened[w] = journals[w].lines
        BY <3>1, <3>4, OnlyEventsAreValid DEF FlowInv
      <4>3. Append(happened[w], e) \in Seq(Event)
        BY <3>1 DEF FlowInv
      <4> QED BY <2>2, <3>1, <3>2, <4>1, <4>2, <4>3 DEF FlowInv
    <3> QED BY <2>4, <3>3, <3>4 DEF tear
  <2>5. ASSUME NEW w \in Flows, drift(w)
        PROVE  JournalInv'
    <3> DEFINE ls == journals[w].lines
    <3>1. FlowInv(w) /\ ls \in Seq(Event \cup {NoEntry}) /\ happened[w] \in Seq(Event)
      BY DEF JournalInv, FlowInv
    <3>2. /\ journals' = [journals EXCEPT ![w] = [lines |-> Append(ls, NoEntry), tail |-> NoTail]]
          /\ happened' = [happened EXCEPT ![w] = happened[w]] /\ newestFlow' = w
      BY <2>5 DEF drift, JournalInv
    <3>3. ~ \A i \in DOMAIN Append(ls, NoEntry) : validEntry(Append(ls, NoEntry)[i])
      BY <3>1, LastLineCounts, OnlyEventsAreValid
    <3>4. Append(ls, NoEntry) \in Seq(Event \cup {NoEntry})
      BY <3>1
    <3> HIDE DEF ls
    <3> QED BY <2>2, <3>1, <3>2, <3>3, <3>4
  <2> QED BY <2>1, <2>3, <2>4, <2>5 DEF JournalNext
<1> QED BY <1>1, <1>2, PTL DEF JournalSpec

\* readWorkflowStatus of workflow-journal.mjs: whatever a killed or a newer writer left in
\* the file, the overlay, when it is shown, counts what happened, but for the last event.
THEOREM OverlayTellsTheTruth == JournalSpec => []OverlayIsHonest
<1>1. JournalInv => OverlayIsHonest
  <2> SUFFICES ASSUME JournalInv, readWorkflowStatus.shown
               PROVE  readWorkflowStatus \in
                        {overlayOf(happened[newestFlow])} \cup
                        (IF happened[newestFlow] = <<>> THEN {}
                         ELSE {overlayOf(Front(happened[newestFlow]))})
    BY DEF OverlayIsHonest
  <2> DEFINE w == newestFlow
             ls == journals[w].lines
             tl == journals[w].tail
             h == happened[w]
             entries == parseJournal(journals[w])
  <2>1. w \in Flows /\ entries # Unreadable /\ readWorkflowStatus = overlayOf(entries)
    BY DEF readWorkflowStatus, NoOverlay, JournalInv
  <2>2. FlowInv(w)
    BY <2>1 DEF JournalInv
  <2>3. /\ \A i \in DOMAIN ls : validEntry(ls[i])
        /\ entries = ls \o (IF validEntry(tl) THEN <<tl>> ELSE <<>>)
    BY <2>1 DEF parseJournal
  <2>4. /\ ls \in Seq(Event \cup {NoEntry}) /\ h \in Seq(Event)
        /\ \/ tl \in {NoTail, Cut} /\ h = ls
           \/ tl \in Event /\ h = Append(ls, tl)
           \/ tl = Cut /\ \E e \in Event : h = Append(ls, e)
    BY <2>2, <2>3 DEF FlowInv
  <2>5. entries = h \/ (h # <<>> /\ entries = Front(h))
    <3> HIDE DEF ls, tl, h, entries
    <3>1. CASE tl \in {NoTail, Cut} /\ h = ls
      <4>1. entries = ls \o <<>>
        BY <2>3, <3>1, OnlyEventsAreValid DEF validEntry
      <4> QED BY <2>4, <3>1, <4>1, ConcatEmptySeq
    <3>2. CASE tl \in Event /\ h = Append(ls, tl)
      <4>1. entries = ls \o <<tl>>
        BY <2>3, <3>2 DEF validEntry
      <4> QED BY <2>4, <3>2, <4>1
    <3>3. CASE tl = Cut /\ \E e \in Event : h = Append(ls, e)
      <4>1. PICK e \in Event : h = Append(ls, e)
        BY <3>3
      <4>2. entries = ls \o <<>>
        BY <2>3, <3>3, OnlyEventsAreValid DEF validEntry
      <4>3. entries = ls
        BY <2>4, <4>2, ConcatEmptySeq
      <4>4. Front(h) = ls /\ h # <<>>
        BY <2>4, <4>1 DEF Front
      <4> QED BY <4>3, <4>4
    <3> QED BY <2>4, <3>1, <3>2, <3>3
  <2> HIDE DEF entries
  <2> QED BY <2>1, <2>5, Zenon
<1> QED BY <1>1, JournalIsInvariant, PTL
=============================================================================
