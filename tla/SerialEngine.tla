---------------------------- MODULE SerialEngine ----------------------------
(***************************************************************************)
(* The serial engine of akita/serialengine.go: two event queues ordered by  *)
(* time, and a Run loop that takes the next event and calls its handler.    *)
(***************************************************************************)
EXTENDS EngineEvents

VARIABLES
    time,            \* the engine's current time
    queue,           \* primary events
    secondaryQueue,  \* secondary events
    running,         \* {} or {the event being handled}
    todo,            \* events its handler has not scheduled yet
    finished         \* events whose handler returned, in order

vars == <<time, queue, secondaryQueue, running, todo, finished>>

Init ==
    /\ time = 0 /\ running = {} /\ todo = {} /\ finished = <<>>
    /\ queue = Roots \ Secondary /\ secondaryQueue = Roots \cap Secondary

\* nextEvent pops the primary queue unless the front of the secondary queue is
\* strictly earlier.
PrimaryFirst_Strictly(p, s) == Time[p] < Time[s]
PrimaryFirst(p, s) == Time[p] <= Time[s]

FromPrimary(e) ==
    /\ e \in Earliest(queue)
    /\ \A s \in Earliest(secondaryQueue) : PrimaryFirst(e, s)
    /\ queue' = queue \ {e} /\ UNCHANGED secondaryQueue

FromSecondary(e) ==
    /\ e \in Earliest(secondaryQueue)
    /\ \A p \in Earliest(queue) : ~PrimaryFirst(p, e)
    /\ secondaryQueue' = secondaryQueue \ {e} /\ UNCHANGED queue

\* One turn of the Run loop up to the call of the handler.
nextEvent(e) ==
    /\ running = {}
    /\ FromPrimary(e) \/ FromSecondary(e)
    /\ running' = {e} /\ todo' = Children[e] /\ time' = Time[e]
    /\ UNCHANGED finished

\* The handler schedules an event; one in the past is a panic.
Schedule(c) ==
    /\ c \in todo /\ Time[c] >= time
    /\ todo' = todo \ {c}
    /\ IF c \in Secondary
       THEN secondaryQueue' = secondaryQueue \cup {c} /\ UNCHANGED queue
       ELSE queue' = queue \cup {c} /\ UNCHANGED secondaryQueue
    /\ UNCHANGED <<time, running, finished>>

HandlerReturns(e) ==
    /\ e \in running /\ todo = {}
    /\ running' = {} /\ finished' = Append(finished, e)
    /\ UNCHANGED <<time, queue, secondaryQueue, todo>>

Next == \E e \in Events : nextEvent(e) \/ Schedule(e) \/ HandlerReturns(e)

Spec == Init /\ [][Next]_vars /\ WF_vars(Next)

-----------------------------------------------------------------------------
(* Properties. *)

\* Neither panic of the engine is reachable: Schedule is never asked for an event
\* "earlier than current time" and Run never takes an "event in the past".
NeverInPast ==
    /\ \A e \in queue \cup secondaryQueue \cup todo : Time[e] >= time
    /\ \A e \in running : Time[e] = time

\* The engine as its users see it: an event whose handler runs is still pending,
\* and what the handler schedules counts when it returns.
Engine == INSTANCE EventEngine WITH
    pending <- ((queue \cup secondaryQueue) \ UNION {Children[e] : e \in running})
               \cup running,
    handled <- finished

\* The engine handles every event once, in time order, secondary events after
\* all primary events of their time
\* (event.go: "Secondary event are handled after all same-time primary events").
ImplementsEngine == Engine!ESafety

\* The engine goes on until no event is left.
NoEventLeft == queue \cup secondaryQueue \cup running = {}
RunReturns == []<>NoEventLeft
=============================================================================
