----------------------------- MODULE DurableDoc -----------------------------
(***************************************************************************)
(* What the event log promises its callers: one document that survives     *)
(* crashes, changed only by whole transitions, each taking effect at one   *)
(* instant and at most once.  A caller that gets an answer knows its       *)
(* transition is in; a caller that crashes does not know.  Readers look at *)
(* a view of the document.  From the first transition on it lags by one at *)
(* most; before that it may still be what was there before the document.   *)
(***************************************************************************)
EXTENDS Naturals

CONSTANTS Keys, Values, Unset, NoDoc

Docs == [Keys -> Values \cup {Unset}]
Events == [key : Keys, value : Values \cup {Unset}]

VARIABLES
  doc,     \* the durable document, NoDoc before it is created
  view,    \* what readers see of it, NoDoc when there is nothing to see
  call,    \* "none", or the phase of the call in progress: "pending", "applied"
  event    \* the transition that call asked for

ddVars == <<doc, view, call, event>>

apply(d, e) == [d EXCEPT ![e.key] = e.value]

\* What is there to see before the document is created need not be it.
DDInit == /\ doc = NoDoc /\ view \in Docs \cup {NoDoc}
          /\ call = "none" /\ event \in Events

create(d) ==
  /\ doc = NoDoc
  /\ doc' = d
  /\ UNCHANGED <<view, call, event>>

invoke(e) ==
  /\ call = "none"
  /\ call' = "pending"
  /\ event' = e
  /\ UNCHANGED <<doc, view>>

\* No transition is taken over a view that lags already.
take ==
  /\ call = "pending"
  /\ doc # NoDoc /\ view = doc
  /\ call' = "applied"
  /\ doc' = apply(doc, event)
  /\ UNCHANGED <<view, event>>

show ==
  /\ doc # NoDoc
  /\ view' = doc
  /\ UNCHANGED <<doc, call, event>>

\* The caller that is answered can see its transition.
answer ==
  /\ call = "applied"
  /\ call' = "none"
  /\ view' = doc
  /\ UNCHANGED <<doc, event>>

\* A call that is refused has no effect; a crash may cut a call short before or
\* after it took effect.
refuseOrCrash ==
  /\ call # "none"
  /\ call' = "none"
  /\ UNCHANGED <<doc, view, event>>

DDNext ==
  \/ \E d \in Docs : create(d)
  \/ \E e \in Events : invoke(e)
  \/ take
  \/ show
  \/ answer
  \/ refuseOrCrash

DDSpec == DDInit /\ [][DDNext]_ddVars
=============================================================================
