-------------------------------- MODULE MCAkita --------------------------------
(***************************************************************************)
(* Akita for TLC: components that talk through a connection, the serial     *)
(* engine and the parallel one.  A behaviour is one unit's: the variables   *)
(* of the engines are off while the connection works, and the connection    *)
(* rests in an initial state while an engine runs.                          *)
(***************************************************************************)
EXTENDS DirectConnection, EngineEvents

CONSTANT MaxMsgs   \* messages of an agent

VARIABLES unit, time, queue, secondaryQueue, running, todo, finished,
          clock, pc, round, next, queues, queueChan, held, pushing

\* Three components tick at times 1 and 2; their connections tick at the same time
\* (secondary) and wake components one cycle later.  One handler schedules a primary event
\* for its own time.
MCEvents == {"tickA", "tickB", "tickC", "now", "conn", "link", "wakeA", "wakeB"}
MCTime == [e \in MCEvents |-> IF e \in {"wakeA", "wakeB"} THEN 2 ELSE 1]
MCChildren ==
    [e \in MCEvents |->
        CASE e = "tickA" -> {"conn", "wakeA"}
          [] e = "tickB" -> {"now"}
          [] e = "tickC" -> {"link"}
          [] e = "link"  -> {"wakeB"}
          [] OTHER       -> {}]
S == INSTANCE SerialEngine
P == INSTANCE ParallelEngine WITH now <- clock

\* Three agents, all their message lists up to a length, and several clocks.  All buffers
\* hold one message, so sends and deliveries are rejected and two senders compete for one
\* receiver.
MCTraffics ==
    LET Lists(p) == UNION {[1..n -> Ports \ {p}] : n \in 0..MaxMsgs}
    IN {t \in [Ports -> UNION {Lists(p) : p \in Ports}] :
          \A p \in Ports : t[p] \in Lists(p)}

\* One clock for all; a fast connection; a slow connection; three clocks.
MCPeriods ==
    {[t \in Tickers |-> 1],
     [t \in Tickers |-> IF t = Conn THEN 1 ELSE 2],
     [t \in Tickers |-> IF t = Conn THEN 3 ELSE 2],
     [t \in Tickers |-> CASE t = 0 -> 3 [] t = 1 -> 2 [] OTHER -> 1]}

engineVars == <<running, todo, finished>>
serialVars == <<time, queue, secondaryQueue>>
parVars    == <<clock, pc, round, next, queues, queueChan, held, pushing>>
all        == <<unit, vars, engineVars, serialVars, parVars>>

Off(x) == x = "off"
SerialOff == Off(time) /\ Off(queue) /\ Off(secondaryQueue)
ParOff == /\ Off(clock) /\ Off(pc) /\ Off(round) /\ Off(next) /\ Off(queues) /\ Off(queueChan)
          /\ Off(held) /\ Off(pushing)
AtRest == /\ Init /\ traffic = [p \in Ports |-> <<>>] /\ period = [t \in Tickers |-> 1]

InitUnit ==
    \/ /\ unit = "connection" /\ Init /\ SerialOff /\ ParOff
       /\ Off(running) /\ Off(todo) /\ Off(finished)
    \/ unit = "serial" /\ S!Init /\ AtRest /\ ParOff
    \/ unit = "parallel" /\ P!Init /\ AtRest /\ SerialOff

NextOfUnit ==
    /\ UNCHANGED unit
    /\ \/ unit = "connection" /\ Next /\ UNCHANGED <<engineVars, serialVars, parVars>>
       \/ unit = "serial" /\ S!Next /\ UNCHANGED <<vars, parVars>>
       \/ unit = "parallel" /\ P!Next /\ UNCHANGED <<vars, serialVars>>

\* The Run loop goes on as long as there is an event, and so does every goroutine that the
\* parallel engine started; every behaviour is finite, so that fairness of all of them is
\* that of their disjunction.
SpecOfUnit == InitUnit /\ [][NextOfUnit]_all /\ WF_all(NextOfUnit)

-----------------------------------------------------------------------------
\* Neither panic of an engine is reachable: Schedule is never asked for an event "earlier than
\* current time" and Run never takes an "event in the past".
NeverInPast == /\ unit = "serial" => S!NeverInPast
               /\ unit = "parallel" => P!NeverInPast

\* A queue of the parallel engine is in one place only: the channel, the hands of Run, or
\* those of one goroutine; and neither engine reaches one of its panics.
OneHolder == NeverInPast /\ (unit = "parallel" => P!TypeOK /\ P!OneHolder)

\* The engines as their users see them: an event whose handler runs is still pending, and
\* what the handler schedules counts when it returns.
Engine == INSTANCE EventEngine WITH
    pending <- CASE unit = "serial" ->
                      ((queue \cup secondaryQueue) \ UNION {Children[e] : e \in running}) \cup running
                 [] unit = "parallel" ->
                      (P!AllQueued \ UNION {Children[e] : e \in running}) \cup running
                 [] OTHER -> Roots,
    handled <- IF unit = "connection" THEN <<>> ELSE finished

\* Both engines handle every event once, in time order, secondary events after all primary
\* events of their time (event.go: "Secondary event are handled after all same-time primary
\* events").
ImplementsEngine == Engine!ESafety

AllSettled == CASE unit = "connection" -> AllQuiet
                [] unit = "serial" -> S!NoEventLeft
                [] unit = "parallel" -> P!Returned

\* Every message is received in the end, and then no event is left; an engine goes on until
\* no event is left, and Run returns: no handler blocks for ever on the queue channel.
Settles == []<>AllSettled
=============================================================================
