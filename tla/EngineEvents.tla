----------------------------- MODULE EngineEvents -----------------------------
(* The events of a simulation, as the engines of akita see them.              *)
EXTENDS Naturals, FiniteSets, Sequences

CONSTANTS
    Events,      \* the events of a simulation
    Roots,       \* those scheduled before Run
    Time,        \* Time[e]: when e is to be handled
    Secondary,   \* the events with IsSecondary
    Children,    \* Children[e]: the events that the handler of e schedules
    NumQueues    \* queues of each kind of the parallel engine (GOMAXPROCS)

\* Finitely many events are scheduled before Run.  Handlers schedule no event in
\* the past (Schedule would panic), and the handler of a secondary event schedules
\* primary events strictly later: TickLater goes to the next cycle.
ASSUME EngineAssumption ==
    /\ Roots \subseteq Events /\ IsFiniteSet(Roots) /\ Secondary \subseteq Events
    /\ Time \in [Events -> Nat] /\ Children \in [Events -> SUBSET Events]
    /\ \A e \in Events : Children[e] \cap Roots = {}
    /\ \A e, f \in Events : e # f => Children[e] \cap Children[f] = {}
    /\ \A e \in Events : \A c \in Children[e] :
          /\ c # e /\ Time[c] >= Time[e]
          /\ e \in Secondary /\ c \notin Secondary => Time[c] > Time[e]

ASSUME QueueAssumption == NumQueues \in Nat \ {0}

\* The events that heap.Pop and Peek of an event queue may return: the heap is
\* ordered by time only.
Earliest(q) == {e \in q : \A f \in q : Time[e] <= Time[f]}
=============================================================================
