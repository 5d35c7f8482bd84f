----------------------------- MODULE EventEngine -----------------------------
(***************************************************************************)
(* What an Akita engine promises (akita/engine.go, akita/event.go): every   *)
(* scheduled event is handled exactly once, in the order of the event       *)
(* times, and a secondary event only when no primary event of the same time *)
(* is left.  SerialEngine and ParallelEngine implement this.                *)
(***************************************************************************)
EXTENDS EngineEvents

VARIABLES
    pending,   \* scheduled events
    handled    \* handled events, in order

evars == <<pending, handled>>

\* e may be handled before f.
MayPrecede(e, f) ==
    /\ Time[e] <= Time[f]
    /\ e \in Secondary /\ f \notin Secondary => Time[e] < Time[f]

EInit == pending = Roots /\ handled = <<>>

HandleEvent(e) ==
    /\ e \in pending /\ \A f \in pending : MayPrecede(e, f)
    /\ pending' = (pending \ {e}) \cup Children[e]
    /\ handled' = Append(handled, e)

ENext == \E e \in Events : HandleEvent(e)

\* What it may do, and that it goes on while there is an event.
ESafety == EInit /\ [][ENext]_evars
ESpec   == ESafety /\ WF_evars(ENext)
=============================================================================
