--------------------------- MODULE WorkflowJournal ---------------------------
(***************************************************************************)
(* workflow-journal.mjs: what run-status shows of the agents that run now. *)
(* The journal belongs to another program: it appends one line for every   *)
(* start and every result of an agent, may be killed inside an append, and *)
(* goes on with the same file, whatever the last append left at its end.   *)
(* The reader must not be misled by any of that.                           *)
(*                                                                         *)
(* A line is an event, or bytes that are no entry: two events that ran     *)
(* into one another, or an entry of a format the reader does not know.     *)
(***************************************************************************)
EXTENDS Naturals, Sequences, FiniteSets, SequencesExt

CONSTANTS Flows,      \* workflows of the project, each with a journal
          Agents,
          MaxAppends  \* bound: lines one flow may append

ASSUME JournalAssumption == MaxAppends \in Nat

Event == [type : {"started", "result"}, agent : Agents]
NoEntry == [type |-> "garbled"]

\* What stands after the last newline: nothing, an event cut short, or a whole event
\* that only misses its newline.
NoTail == [type |-> "none"]
Cut == [type |-> "cut"]

VARIABLES journals,  \* flow -> its complete lines and its tail
          newestFlow,    \* the flow whose journal was written last, or "none"
          happened       \* history: flow -> the events whose bytes are all in the file

journalVars == <<journals, newestFlow, happened>>

JournalInit == /\ journals = [w \in Flows |-> [lines |-> <<>>, tail |-> NoTail]]
               /\ newestFlow = "none"
               /\ happened = [w \in Flows |-> <<>>]

-----------------------------------------------------------------------------
\* An append writes behind whatever is there: behind a tail it makes one bad line.
lineAfter(tail, entry) == IF tail = NoTail THEN entry ELSE NoEntry

\* A result follows a start of the same agent.
comes(w, e) == /\ Len(journals[w].lines) < MaxAppends
               /\ e.type = "result" =>
                    \E i \in DOMAIN happened[w] : happened[w][i] = [e EXCEPT !.type = "started"]

appendEntry(w, e) ==
  /\ comes(w, e) /\ newestFlow' = w
  /\ journals' = [journals EXCEPT ![w] =
                    [lines |-> Append(@.lines, lineAfter(@.tail, e)), tail |-> NoTail]]
  /\ happened' = [happened EXCEPT ![w] = Append(@, e)]

\* Killed inside the append; a cut tail that is written behind stays cut.
tear(w, e) ==
  /\ comes(w, e) /\ newestFlow' = w
  /\ \/ /\ journals' = [journals EXCEPT ![w].tail = Cut]
        /\ UNCHANGED happened
     \/ /\ journals[w].tail = NoTail
        /\ journals' = [journals EXCEPT ![w].tail = e]
        /\ happened' = [happened EXCEPT ![w] = Append(@, e)]

\* A newer writer uses an entry that the reader does not know.
drift(w) ==
  /\ Len(journals[w].lines) < MaxAppends /\ newestFlow' = w
  /\ journals' = [journals EXCEPT ![w] = [lines |-> Append(@.lines, NoEntry), tail |-> NoTail]]
  /\ UNCHANGED happened

JournalNext == \E w \in Flows :
                 (\E e \in Event : appendEntry(w, e) \/ tear(w, e)) \/ drift(w)

JournalSpec == JournalInit /\ [][JournalNext]_journalVars

-----------------------------------------------------------------------------
\* validEntry: exactly the keys of a start or of a result.
validEntry(line) == line \in Event

Unreadable == <<NoEntry>>

\* Mutant: a line that is no entry is skipped wherever it stands.
parseJournalSkipping(j) ==
  SelectSeq(j.lines, validEntry) \o (IF validEntry(j.tail) THEN <<j.tail>> ELSE <<>>)

\* parseJournal: only a last line without its newline may be cut short, and a whole one
\* counts; any other line that is no entry fails the whole journal.
parseJournal(j) ==
  IF \E i \in DOMAIN j.lines : ~validEntry(j.lines[i]) THEN Unreadable
  ELSE j.lines \o (IF validEntry(j.tail) THEN <<j.tail>> ELSE <<>>)

agentsOf(entries, type) ==
  {entries[i].agent : i \in {k \in DOMAIN entries : entries[k].type = type}}
countOf(entries, type) == Cardinality({k \in DOMAIN entries : entries[k].type = type})

\* readWorkflowStatus: the newest journal that exists, or nothing.
NoOverlay == [shown |-> FALSE]
overlayOf(entries) ==
  [shown |-> TRUE, spawned |-> countOf(entries, "started"), done |-> countOf(entries, "result"),
   running |-> agentsOf(entries, "started") \ agentsOf(entries, "result")]
readWorkflowStatus ==
  IF newestFlow = "none" THEN NoOverlay
  ELSE LET entries == parseJournal(journals[newestFlow])
       IN IF entries = Unreadable \/ entries = <<>> THEN NoOverlay ELSE overlayOf(entries)

-----------------------------------------------------------------------------
\* What the overlay shows, when it shows anything, is what happened in the newest flow,
\* but for the last event at most: an event that misses its newline is lost to a torn
\* append behind it, and anything that is written after that takes the overlay away.
OverlayIsHonest ==
  LET h == happened[newestFlow]
  IN readWorkflowStatus.shown =>
       readWorkflowStatus \in {overlayOf(h)} \cup (IF h = <<>> THEN {} ELSE {overlayOf(Front(h))})
=============================================================================
