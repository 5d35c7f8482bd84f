--------------------------- MODULE DirectConnection ---------------------------
(***************************************************************************)
(* Components that talk through ports and one DirectConnection              *)
(* (akita/port.go, directconnection.go, ticker.go).  The components are the *)
(* agents of noc/acceptance/agent.go: each has a list of messages to send   *)
(* and takes every message that arrives.                                    *)
(*                                                                          *)
(* Nothing polls.  A ticker that made no progress has no tick scheduled     *)
(* until somebody calls TickNow or TickLater for it: Send and Retrieve do   *)
(* it for the connection, a delivery does it for the components on both     *)
(* sides.  The flags portBusy and end.busy decide who is told.              *)
(*                                                                          *)
(* Components of the same time run concurrently (the parallel engine); the  *)
(* connection ticks as a secondary event when they are all done.            *)
(***************************************************************************)
EXTENDS Integers, Sequences, FiniteSets

CONSTANTS
    NumPorts,    \* agents, one port each, numbered as they were plugged in
    Traffics,    \* traffic[p]: the destinations of the messages of p, in order
    Periods,     \* period[t]: clock period of ticker t in time units
    BufSize,     \* source-side buffer of an end (bufSize)
    PortCap,     \* buffer of a port (bufCapacity)
    PerTick      \* messages an agent sends and receives in a tick

Ports   == 0..(NumPorts - 1)
Conn    == NumPorts                  \* the connection's ticker
Tickers == Ports \cup {Conn}

ASSUME ConnAssumption ==
    /\ NumPorts \in Nat \ {0} /\ BufSize \in Nat \ {0} /\ PortCap \in Nat \ {0}
    /\ PerTick \in Nat \ {0}
    /\ \A period \in Periods : period \in [Tickers -> Nat \ {0}]
    /\ \A t \in Traffics : /\ t \in [Ports -> Seq(Ports)]
                            /\ \A p \in Ports : \A i \in 1..Len(t[p]) : t[p][i] # p

\* A message is its source, its destination and its place in the source's list.
Message == [src : Ports, dst : Ports, num : Nat]

VARIABLES
    traffic, period,  \* the simulated system, chosen in Init and then fixed
    MsgsToSend,   \* MsgsToSend[p]: what agent p still has to send
    endBuf,       \* endBuf[p]: messages of p that wait in the connection
    busy,         \* ends that rejected a Send and owe a notification
    portBuf,      \* portBuf[p]: messages that arrived at p
    portBusy,     \* ports that rejected a delivery and owe a notification
    received,     \* received[p]: messages that agent p took
    nextPortID,   \* where the next tick of the connection starts
    now,
    ticks,        \* ticks[t]: times of the scheduled tick events of ticker t
    nextTickTime, \* nextTickTime[t] + 1: the last tick scheduled for t, 0: none
    phase,        \* phase[t]: what the Tick of t does next, "idle": not ticking
    rep,          \* rep[t]: repetitions of that so far
    progress      \* tickers whose current tick made progress

dataVars == <<MsgsToSend, endBuf, busy, portBuf, portBusy, received>>
tickVars == <<ticks, nextTickTime>>
runVars  == <<now, phase, rep, progress, nextPortID>>
sysVars  == <<traffic, period>>
vars     == <<dataVars, tickVars, runVars, sysVars>>

ToSend(p) == [i \in 1..Len(traffic[p]) |-> [src |-> p, dst |-> traffic[p][i], num |-> i]]

\* Freq.NextTick.
NextTick(t, time) == (time \div period[t] + 1) * period[t]

\* All agents are told to start at time 0 (noc/acceptance: agent.TickLater(0)).
Init ==
    /\ traffic \in Traffics /\ period \in Periods
    /\ MsgsToSend = [p \in Ports |-> ToSend(p)]
    /\ endBuf = [p \in Ports |-> <<>>] /\ busy = {}
    /\ portBuf = [p \in Ports |-> <<>>] /\ portBusy = {}
    /\ received = [p \in Ports |-> <<>>]
    /\ nextPortID = 0 /\ now = 0
    /\ ticks = [t \in Tickers |-> IF t = Conn THEN {} ELSE {NextTick(t, 0)}]
    /\ nextTickTime = [t \in Tickers |-> IF t = Conn THEN 0 ELSE NextTick(t, 0) + 1]
    /\ phase = [t \in Tickers |-> "idle"] /\ rep = [t \in Tickers |-> 0]
    /\ progress = {}

-----------------------------------------------------------------------------
(* TickScheduler.  A request is dropped when a tick at that time or later is    *)
(* already scheduled.                                                           *)

ScheduleAt_RecordedFirst(T, time) ==
    /\ ticks' = ticks
    /\ nextTickTime' = [t \in Tickers |-> IF t \in T THEN time[t] + 1 ELSE nextTickTime[t]]

ScheduleAt(T, time) ==
    LET New == {t \in T : nextTickTime[t] < time[t] + 1} IN
    /\ ticks' = [t \in Tickers |-> IF t \in New THEN ticks[t] \cup {time[t]} ELSE ticks[t]]
    /\ nextTickTime' = [t \in Tickers |-> IF t \in New THEN time[t] + 1 ELSE nextTickTime[t]]

TickNow(T)   == ScheduleAt(T, [t \in Tickers |-> now])
TickLater(T) == ScheduleAt(T, [t \in Tickers |-> NextTick(t, now)])

-----------------------------------------------------------------------------
(* The engine: the earliest events, primary events first.                      *)

Idle == \A t \in Tickers : phase[t] = "idle"
Pending == UNION {ticks[t] : t \in Tickers}

\* Ticks of agents due at the same time may overlap.
StartAgent(p) ==
    \E time \in ticks[p] :
      /\ phase[p] = "idle" /\ phase[Conn] = "idle"
      /\ \A other \in Pending : time <= other
      /\ Idle \/ time = now
      /\ now' = time
      /\ ticks' = [ticks EXCEPT ![p] = @ \ {time}]
      /\ phase' = [phase EXCEPT ![p] = "send"] /\ rep' = [rep EXCEPT ![p] = 0]
      /\ progress' = progress \ {p}
      /\ UNCHANGED <<dataVars, nextTickTime, nextPortID>>

StartConn ==
    \E time \in ticks[Conn] :
      /\ Idle
      /\ \A t \in Ports : \A other \in ticks[t] : time < other
      /\ \A other \in ticks[Conn] : time <= other
      /\ now' = time
      /\ ticks' = [ticks EXCEPT ![Conn] = @ \ {time}]
      /\ phase' = [phase EXCEPT ![Conn] = "forward"] /\ rep' = [rep EXCEPT ![Conn] = 0]
      /\ progress' = progress \ {Conn}
      /\ UNCHANGED <<dataVars, nextTickTime, nextPortID>>

\* The end of TickingComponent.Handle.
Finish(t) ==
    /\ phase' = [phase EXCEPT ![t] = "idle"] /\ rep' = [rep EXCEPT ![t] = 0]
    /\ progress' = progress \ {t}
    /\ TickLater(IF t \in progress THEN {t} ELSE {})
    /\ UNCHANGED <<dataVars, now>>

-----------------------------------------------------------------------------
(* The tick of an agent: up to PerTick sends, then up to PerTick receptions.    *)

Again(t) == /\ rep' = [rep EXCEPT ![t] = @ + 1] /\ progress' = progress \cup {t}
            /\ UNCHANGED <<phase, now, nextPortID>>

EndFull(p) == Len(endBuf[p]) >= BufSize
CanSend(p) == MsgsToSend[p] # <<>> /\ rep[p] < PerTick

\* DirectConnection.Send.
Send(p) ==
    /\ phase[p] = "send" /\ CanSend(p) /\ ~EndFull(p)
    /\ endBuf' = [endBuf EXCEPT ![p] = Append(@, Head(MsgsToSend[p]))]
    /\ MsgsToSend' = [MsgsToSend EXCEPT ![p] = Tail(@)]
    /\ TickNow({Conn})
    /\ Again(p)
    /\ UNCHANGED <<busy, portBuf, portBusy, received>>

\* Nothing to send, all repetitions done, or the end is full: the end is marked.
MarkBusy(p) == IF CanSend(p) THEN busy \cup {p} ELSE busy
SendEnd(p) ==
    /\ phase[p] = "send" /\ (~CanSend(p) \/ EndFull(p))
    /\ busy' = MarkBusy(p)
    /\ phase' = [phase EXCEPT ![p] = "recv"] /\ rep' = [rep EXCEPT ![p] = 0]
    /\ UNCHANGED <<MsgsToSend, endBuf, portBuf, portBusy, received, tickVars,
                   now, progress, nextPortID>>

\* LimitNumMsgPort.Retrieve: a connection that could not deliver is told.
ToNotify_Never(p) == {}
ToNotify(p) == IF p \in portBusy THEN {Conn} ELSE {}
Retrieve(p) ==
    /\ phase[p] = "recv" /\ rep[p] < PerTick /\ portBuf[p] # <<>>
    /\ received' = [received EXCEPT ![p] = Append(@, Head(portBuf[p]))]
    /\ portBuf' = [portBuf EXCEPT ![p] = Tail(@)]
    /\ portBusy' = portBusy \ {p}
    /\ TickNow(ToNotify(p))
    /\ Again(p)
    /\ UNCHANGED <<MsgsToSend, endBuf, busy>>

RecvEnd(p) ==
    /\ phase[p] = "recv" /\ (rep[p] = PerTick \/ portBuf[p] = <<>>)
    /\ Finish(p)
    /\ UNCHANGED nextPortID

-----------------------------------------------------------------------------
(* The tick of the connection: forwardMany for every end, round robin.          *)

EndAt(i) == (i + nextPortID) % NumPorts

\* The head of the end's buffer is delivered.  The receiver is told, and so is a
\* sender that was rejected before.
ToWake_SenderForgotten(e, d) == {d}
ToWake(e, d) == {d} \cup (IF e \in busy THEN {e} ELSE {})
Delivered_Kept(buf) == buf
Delivered(buf) == Tail(buf)
Deliver ==
    LET e == EndAt(rep[Conn])
        m == Head(endBuf[e])
    IN
    /\ phase[Conn] = "forward" /\ rep[Conn] < NumPorts
    /\ endBuf[e] # <<>> /\ Len(portBuf[m.dst]) < PortCap
    /\ portBuf' = [portBuf EXCEPT ![m.dst] = Append(@, m)]
    /\ endBuf' = [endBuf EXCEPT ![e] = Delivered(@)]
    /\ busy' = busy \ {e}
    /\ TickLater(ToWake(e, m.dst))
    /\ progress' = progress \cup {Conn}
    /\ UNCHANGED <<MsgsToSend, portBusy, received, now, phase, rep, nextPortID>>

\* The end is empty, or its first message is rejected by the port (Recv).
NextEnd ==
    LET e == EndAt(rep[Conn]) IN
    /\ phase[Conn] = "forward" /\ rep[Conn] < NumPorts
    /\ \/ endBuf[e] = <<>> /\ UNCHANGED portBusy
       \/ /\ endBuf[e] # <<>> /\ Len(portBuf[Head(endBuf[e]).dst]) >= PortCap
          /\ portBusy' = portBusy \cup {Head(endBuf[e]).dst}
    /\ rep' = [rep EXCEPT ![Conn] = @ + 1]
    /\ UNCHANGED <<MsgsToSend, endBuf, busy, portBuf, received, tickVars, now,
                   phase, progress, nextPortID>>

ConnEnd ==
    /\ phase[Conn] = "forward" /\ rep[Conn] = NumPorts
    /\ nextPortID' = (nextPortID + 1) % NumPorts
    /\ Finish(Conn)

Agent(p) == StartAgent(p) \/ Send(p) \/ SendEnd(p) \/ Retrieve(p) \/ RecvEnd(p)
Connection == StartConn \/ Deliver \/ NextEnd \/ ConnEnd

Next == /\ Connection \/ \E p \in Ports : Agent(p)
        /\ UNCHANGED sysVars

\* The engine's Run loop goes on as long as there is an event.
Spec == Init /\ [][Next]_vars /\ WF_vars(Next)

-----------------------------------------------------------------------------
(* Properties. *)

TypeOK ==
    /\ MsgsToSend \in [Ports -> Seq(Message)]
    /\ endBuf \in [Ports -> Seq(Message)] /\ portBuf \in [Ports -> Seq(Message)]
    /\ \A p \in Ports : Len(endBuf[p]) <= BufSize /\ Len(portBuf[p]) <= PortCap
    /\ busy \subseteq Ports /\ portBusy \subseteq Ports
    /\ received \in [Ports -> Seq(Message)]
    /\ nextPortID \in Ports /\ now \in Nat
    /\ ticks \in [Tickers -> SUBSET Nat] /\ nextTickTime \in [Tickers -> Nat]
    /\ phase \in [Tickers -> {"idle", "send", "recv", "forward"}]
    /\ rep \in [Tickers -> Nat] /\ progress \subseteq Tickers

\* A message a ticker could move now, by the state of the buffers.
AgentCanMove(p) ==
    portBuf[p] # <<>> \/ (MsgsToSend[p] # <<>> /\ ~EndFull(p))
ConnCanMove ==
    \E p \in Ports : endBuf[p] # <<>> /\ Len(portBuf[Head(endBuf[p]).dst]) < PortCap

\* Nobody sleeps while there is something to do for them: an agent that could send
\* or receive, and a connection that could deliver, has a tick scheduled
\* (doc/component_system.md: "we never miss any opportunity to make progress").
NoMissedWakeup ==
    Idle => /\ \A p \in Ports : AgentCanMove(p) => ticks[p] # {}
            /\ ConnCanMove => ticks[Conn] # {}

\* No tick is scheduled for the past, where Schedule would panic, and nextTickTime
\* is the time of the latest one: a dropped request is one that is served anyway.
TicksAhead ==
    \A t \in Tickers :
      /\ \A time \in ticks[t] : time >= now /\ time + 1 <= nextTickTime[t]
      /\ nextTickTime[t] > now + 1 => nextTickTime[t] - 1 \in ticks[t]

\* What reached d, in the order in which it came, what p has on the way, in the order in
\* which it will go, and how many messages of p have left the connection.
Arrived(d) == received[d] \o portBuf[d]
OnTheWay(p) == endBuf[p] \o MsgsToSend[p]
Gone(p) == Len(traffic[p]) - Len(OnTheWay(p))

\* The end of its list, in order, is what p has on the way; the rest, the first Gone(p)
\* messages, reached the ports they are for; nothing else did; and of two messages of one
\* sender the one sent first came first.
RestInOrder ==
    \A p \in Ports :
      Gone(p) \in Nat /\ \A i \in 1..Len(OnTheWay(p)) : OnTheWay(p)[i] = ToSend(p)[Gone(p) + i]
NothingElse ==
    \A d \in Ports : \A j \in 1..Len(Arrived(d)) :
      LET m == Arrived(d)[j]
      IN  m.dst = d /\ m.num <= Gone(m.src) /\ m = ToSend(m.src)[m.num]
NoneLost ==
    \A p \in Ports : \A n \in 1..Gone(p) :
      \E j \in 1..Len(Arrived(traffic[p][n])) : Arrived(traffic[p][n])[j] = ToSend(p)[n]
NoneOvertaken ==
    \A d \in Ports : \A j, k \in 1..Len(Arrived(d)) :
      j < k /\ Arrived(d)[j].src = Arrived(d)[k].src => Arrived(d)[j].num < Arrived(d)[k].num

\* No message is lost, duplicated or overtaken by a later one of the same sender
\* to the same receiver, for all the rejected sends and deliveries in between.
FIFOPerPair == RestInOrder /\ NothingElse /\ NoneLost /\ NoneOvertaken

From(s, p) == SelectSeq(s, LAMBDA m : m.src = p)
To(s, d) == SelectSeq(s, LAMBDA m : m.dst = d)
AllQuiet == /\ \A p, d \in Ports : From(received[d], p) = To(ToSend(p), d)
            /\ Pending = {} /\ Idle

\* Every message is received in the end, and then the engine runs out of events
\* (doc/connection_system.md: "guarantee that the packets will arrive at the
\* destination port at some time in the future"; doc/component_system.md: "nor keep
\* repeating to retry useless operations").
DeliveredThenQuiet == []<>AllQuiet
=============================================================================
