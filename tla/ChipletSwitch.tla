---------------------------- MODULE ChipletSwitch ----------------------------
(***************************************************************************)
(* The switch between chiplets (MultiFlitChipletSwitch), the arbiter that  *)
(* reserves room for whole messages (FlitAwareXBarArbiter), and the        *)
(* connections between the switch and the devices' ports.  A tick of the   *)
(* switch or of a connection is one action; both sleep when a tick makes   *)
(* no progress and are woken as the code wakes them.  A message is a       *)
(* member of DOMAIN Msgs; a flit is named by its message.                  *)
(***************************************************************************)
EXTENDS Naturals, Sequences, FiniteSets, SequencesExt

CONSTANTS
    Msgs,      \* message -> [src, dst, flits]
    Ports,     \* the switch's ports, 1..n; a device behind each
    Chiplet,   \* port -> the chiplet its device is on
    NumReq,    \* numReqPerCycle
    Latency,   \* switchLatency
    PortCap,   \* bufferSizeInNumFlit, capacity of the switch's ports
    EndCap,    \* capacity of a connection's end
    DevCap,    \* capacity of a device's port
    MaxOutgoing \* maxOutgoingReqsPerChiplet

VARIABLES
    sw,        \* the switch
    conn,      \* port -> its connection
    dev,       \* port -> the device behind it
    received   \* port -> messages its device has taken, in order

vars == <<sw, conn, dev, received>>

NoMsg == 0
N == Cardinality(Ports)
BufCap == 2 * NumReq

Complex == [buf |-> <<>>, busy |-> FALSE, msgInBuf |-> <<>>, flitBuf |-> <<>>,
            pipeline |-> [i \in 1..Latency |-> NoMsg], routeBuffer |-> <<>>,
            forwardBuffer |-> <<>>, sendOutBuffer |-> <<>>,
            assemblingMsg |-> NoMsg, numFlitArrived |-> 0,
            reserved |-> <<>>, reservedSlots |-> 0]

Connection == [switchEnd |-> <<>>, switchBusy |-> FALSE, deviceEnd |-> <<>>,
               deviceBusy |-> FALSE, awake |-> FALSE]

\* The messages a device sends, in order.
Script(p) == SelectSeq([i \in 1..Cardinality(DOMAIN Msgs) |-> i], LAMBDA m : Msgs[m].src = p)

Init ==
    /\ sw = [at |-> [p \in Ports |-> Complex], nextPortID |-> 0, awake |-> FALSE,
             progress |-> FALSE, overflow |-> FALSE,
             sent |-> [c \in {Chiplet[p] : p \in Ports} |-> 0]]
    /\ conn = [p \in Ports |-> Connection]
    /\ dev = [p \in Ports |-> [toSend |-> Script(p), blocked |-> FALSE, buf |-> <<>>, busy |-> FALSE]]
    /\ received = [p \in Ports |-> <<>>]

-----------------------------------------------------------------------------
(* Connections: MultiFlitSwitchConnection.  A state s is [sw, conn, dev].   *)

State == [sw |-> sw, conn |-> conn, dev |-> dev]

\* Send from the switch's side, for a message to the device.
CanSendToDevice(s, p) == Len(s.conn[p].switchEnd) < EndCap
SendToDevice(s, p, m) ==
    IF CanSendToDevice(s, p)
    THEN [s EXCEPT !.conn[p].switchEnd = Append(@, m), !.conn[p].awake = TRUE]
    ELSE [s EXCEPT !.conn[p].switchBusy = TRUE]

\* forwardMany of the end of the switch's port, into the device's port.
NotifiedSwitch(s, p) ==
    IF s.conn[p].switchBusy
    THEN [s EXCEPT !.sw.awake = TRUE, !.conn[p].switchBusy = FALSE] ELSE s

ForwardToDevice(s, p) ==
    LET n == Len(s.conn[p].switchEnd)
        k == IF n <= DevCap - Len(s.dev[p].buf) THEN n ELSE DevCap - Len(s.dev[p].buf)
        moved == [s EXCEPT !.dev[p].buf = @ \o SubSeq(s.conn[p].switchEnd, 1, k),
                           !.dev[p].busy = @ \/ k < n,
                           !.conn[p].switchEnd = SubSeq(@, k + 1, n)]
    IN IF k > 0 THEN NotifiedSwitch(moved, p) ELSE moved

\* forwardMany of the end of the device's port, into the switch's port.
ForwardToSwitch(s, p) ==
    LET n == Len(s.conn[p].deviceEnd)
        room == PortCap - Len(s.sw.at[p].buf)
        k == IF n <= room THEN n ELSE room
        notify == k > 0 /\ s.conn[p].deviceBusy
    IN [s EXCEPT !.sw.at[p].buf = @ \o SubSeq(s.conn[p].deviceEnd, 1, k),
                 !.sw.at[p].busy = @ \/ k < n,
                 !.sw.awake = @ \/ k > 0,
                 !.conn[p].deviceEnd = SubSeq(@, k + 1, n),
                 !.conn[p].deviceBusy = @ /\ ~notify,
                 !.dev[p].blocked = @ /\ ~notify]

\* Tick: a connection that moved something ticks again.
ConnTick(p) ==
    /\ conn[p].awake
    /\ LET s == ForwardToSwitch(ForwardToDevice(State, p), p)
           progress == \/ s.conn[p].switchEnd # conn[p].switchEnd
                       \/ s.conn[p].deviceEnd # conn[p].deviceEnd
       IN /\ sw' = s.sw /\ dev' = s.dev
          /\ conn' = [s.conn EXCEPT ![p].awake = progress]
    /\ UNCHANGED received

-----------------------------------------------------------------------------
(* The switch.  Every step goes over all the ports.                        *)

Apply(F(_), v) == CHOOSE r \in {F(x) : x \in {v}} : TRUE
FoldEach(Op(_, _), s, seq) ==
    LET after[i \in 0..Len(seq)] == IF i = 0 THEN s ELSE Apply(LAMBDA t : Op(t, seq[i]), after[i - 1])
    IN after[Len(seq)]
EachPort(Op(_, _), s) ==
    LET after[i \in 0..N] == IF i = 0 THEN s ELSE Apply(LAMBDA t : Op(t, i), after[i - 1])
    IN after[N]
Progress(s) == [s EXCEPT !.sw.progress = TRUE]
Flits(m) == [i \in 1..Msgs[m].flits |-> m]

Complete(c) == c.numFlitArrived >= Msgs[c.assemblingMsg].flits
tryDeliver(s, p) ==
    LET c == s.sw.at[p]  m == c.assemblingMsg IN
    IF m = NoMsg THEN s
    ELSE IF ~Complete(c) THEN s
    ELSE LET t == SendToDevice(s, p, m) IN
         IF CanSendToDevice(s, p)
         THEN Progress([t EXCEPT !.sw.at[p].assemblingMsg = NoMsg, !.sw.at[p].numFlitArrived = 0])
         ELSE t

\* assemble: the flits of the message being assembled leave sendOutBuffer, the
\* first one when there is none choosing the message.
Chosen(c) == IF c.assemblingMsg # NoMsg \/ c.sendOutBuffer = <<>> THEN c.assemblingMsg
             ELSE Head(c.sendOutBuffer)
assemble(s, p) ==
    LET c == s.sw.at[p]
        rest == SelectSeq(c.sendOutBuffer, LAMBDA f : f # Chosen(c))
        n == Len(c.sendOutBuffer) - Len(rest)
    IN IF n = 0 THEN s
       ELSE Progress([s EXCEPT !.sw.at[p].sendOutBuffer = rest,
                               !.sw.at[p].assemblingMsg = Chosen(c),
                               !.sw.at[p].numFlitArrived = @ + n])

-----------------------------------------------------------------------------
(* FlitAwareXBarArbiter.                                                   *)

hasReservation(o, m) == m \in DOMAIN o.reserved

FreeSlots(o) == BufCap - Len(o.sendOutBuffer) - o.reservedSlots

makeReservation(o, m) ==
    IF FreeSlots(o) >= Msgs[m].flits
    THEN [o EXCEPT !.reserved = [x \in DOMAIN @ \cup {m} |-> IF x = m THEN 0 ELSE @[x]],
                   !.reservedSlots = @ + Msgs[m].flits]
    ELSE o

SlotsAfter_Kept(o) == o.reservedSlots
SlotsAfter(o) == o.reservedSlots - 1

markOneFlitSent(o, m) ==
    LET sent == o.reserved[m] + 1 IN
    [o EXCEPT !.reservedSlots = SlotsAfter(o),
              !.reserved = IF sent = Msgs[m].flits THEN [x \in DOMAIN @ \ {m} |-> @[x]]
                           ELSE [@ EXCEPT ![m] = sent]]

\* Arbitrate: from nextPortID on, one input per output and at most MaxOutgoing
\* flits of one chiplet.  a is [sw, selected, occupied].
Consider(a, p) ==
    LET c == a.sw.at[p] IN
    IF c.forwardBuffer = <<>> THEN a
    ELSE LET m == Head(c.forwardBuffer)
             out == Msgs[m].dst
             chiplet == Chiplet[Msgs[m].src]
             o == IF hasReservation(a.sw.at[out], m) THEN a.sw.at[out]
                  ELSE makeReservation(a.sw.at[out], m)
         IN IF \/ a.sw.sent[chiplet] >= MaxOutgoing
               \/ Len(a.sw.at[out].sendOutBuffer) >= BufCap
               \/ out \in a.occupied
               \/ ~hasReservation(o, m)
            THEN a
            ELSE [sw |-> [a.sw EXCEPT !.at[out] = markOneFlitSent(o, m), !.sent[chiplet] = @ + 1],
                  selected |-> a.selected \cup {p}, occupied |-> a.occupied \cup {out}]

Arbitrate(sws) ==
    LET order == [i \in 1..N |-> ((sws.nextPortID + i - 1) % N) + 1]
        a == FoldEach(Consider, [sw |-> sws, selected |-> {}, occupied |-> {}], order)
    IN [a EXCEPT !.sw.nextPortID = (@ + 1) % N]

forward(s) ==
    LET a == Arbitrate(s.sw)
        Move(t, p) ==
            IF p \notin a.selected THEN t
            ELSE LET m == Head(t.sw.at[p].forwardBuffer) IN
                 Progress([t EXCEPT !.sw.at[Msgs[m].dst].sendOutBuffer = Append(@, m),
                                    !.sw.overflow = @ \/ Len(t.sw.at[Msgs[m].dst].sendOutBuffer) >= BufCap])
        Popped(t) == [t EXCEPT !.sw.at = [p \in Ports |-> IF p \in a.selected
                          THEN [@[p] EXCEPT !.forwardBuffer = Tail(@)] ELSE @[p]]]
    IN Popped(EachPort(Move, [s EXCEPT !.sw = a.sw]))

\* route and assignFlitOutputBuf: the output is that of the message's Dst.
route(s, p) ==
    LET c == s.sw.at[p] IN
    IF c.routeBuffer = <<>> \/ Len(c.forwardBuffer) >= BufCap THEN s
    ELSE Progress([s EXCEPT !.sw.at[p].forwardBuffer = Append(@, Head(c.routeBuffer)),
                            !.sw.at[p].routeBuffer = Tail(@)])

\* movePipeline: from the last stage back, into the next one if it is free.
Shift(t, i) ==
    IF t.pipeline[i] = NoMsg THEN t
    ELSE IF i = Latency
         THEN IF Len(t.routeBuffer) >= BufCap THEN t
              ELSE [t EXCEPT !.routeBuffer = Append(@, t.pipeline[i]), !.pipeline[i] = NoMsg]
         ELSE IF t.pipeline[i + 1] # NoMsg THEN t
              ELSE [t EXCEPT !.pipeline[i + 1] = t.pipeline[i], !.pipeline[i] = NoMsg]
movePipeline(s, p) ==
    LET c == FoldEach(Shift, s.sw.at[p], [i \in 1..Latency |-> Latency + 1 - i]) IN
    IF c = s.sw.at[p] THEN s ELSE Progress([s EXCEPT !.sw.at[p] = c])

startProcessing(s, p) ==
    LET c == s.sw.at[p] IN
    IF c.pipeline[1] # NoMsg \/ c.flitBuf = <<>> THEN s
    ELSE Progress([s EXCEPT !.sw.at[p].pipeline[1] = Head(c.flitBuf), !.sw.at[p].flitBuf = Tail(@)])

CanCut(c) == c.flitBuf = <<>> /\ c.msgInBuf # <<>>
prepareFlits(s, p) ==
    LET c == s.sw.at[p] IN
    IF ~CanCut(c) THEN s
    ELSE Progress([s EXCEPT !.sw.at[p].msgInBuf = Tail(@),
                            !.sw.at[p].flitBuf = @ \o Flits(Head(c.msgInBuf)),
                            !.sw.overflow = @ \/ Len(c.flitBuf) + Msgs[Head(c.msgInBuf)].flits > BufCap])

\* recv, with Retrieve's notice to a connection that was refused.
Retrieved(s, p) == [s EXCEPT !.sw.at[p].buf = Tail(@), !.sw.at[p].busy = FALSE,
                             !.conn[p].awake = @ \/ s.sw.at[p].busy]
recv(s, p) ==
    LET c == s.sw.at[p] IN
    IF c.buf = <<>> \/ Len(c.msgInBuf) >= NumReq THEN s
    ELSE Progress([Retrieved(s, p) EXCEPT !.sw.at[p].msgInBuf = Append(@, Head(c.buf))])

Round(s, i) ==
    LET delivered == EachPort(assemble, EachPort(tryDeliver, s))
        forwarded == EachPort(route, forward(delivered))
        moved == EachPort(startProcessing, EachPort(movePipeline, forwarded))
    IN EachPort(recv, EachPort(prepareFlits, moved))

\* Tick: the arbiter's counts start anew, then NumReq rounds.
TickOf(s) == FoldEach(Round, [s EXCEPT !.sw.sent = [c \in DOMAIN @ |-> 0], !.sw.progress = FALSE],
                      [i \in 1..NumReq |-> i])

SwitchTick ==
    /\ sw.awake
    /\ \E s \in {TickOf(State)} :
        /\ sw' = [s.sw EXCEPT !.awake = s.sw.progress, !.progress = FALSE,
                              !.sent = [c \in DOMAIN @ |-> 0]]
        /\ conn' = s.conn /\ dev' = s.dev
    /\ UNCHANGED received

-----------------------------------------------------------------------------
(* The devices.                                                            *)

\* A device refused by its connection does not try again until it is notified.
DeviceSend(p) ==
    /\ dev[p].toSend # <<>> /\ ~dev[p].blocked
    /\ IF Len(conn[p].deviceEnd) < EndCap
       THEN /\ conn' = [conn EXCEPT ![p].deviceEnd = Append(@, Head(dev[p].toSend)), ![p].awake = TRUE]
            /\ dev' = [dev EXCEPT ![p].toSend = Tail(@)]
       ELSE /\ conn' = [conn EXCEPT ![p].deviceBusy = TRUE]
            /\ dev' = [dev EXCEPT ![p].blocked = TRUE]
    /\ UNCHANGED <<sw, received>>

DeviceTake(p) ==
    /\ dev[p].buf # <<>>
    /\ received' = [received EXCEPT ![p] = Append(@, Head(dev[p].buf))]
    /\ dev' = [dev EXCEPT ![p].buf = Tail(@), ![p].busy = FALSE]
    /\ conn' = [conn EXCEPT ![p].awake = @ \/ dev[p].busy]
    /\ UNCHANGED sw

Next == SwitchTick \/ \E p \in Ports : ConnTick(p) \/ DeviceSend(p) \/ DeviceTake(p)

\* Nothing is scheduled and no device can act.
Quiet == /\ ~sw.awake
         /\ \A p \in Ports : /\ ~conn[p].awake /\ dev[p].buf = <<>>
                             /\ dev[p].blocked \/ dev[p].toSend = <<>>

\* The engine goes on while something is scheduled, and devices take what they
\* get: weak fairness of Next, whose ENABLED is ~Quiet.  Messages are finitely
\* many and a tick without progress is not repeated, so no part of it can run
\* for ever and keep the others from running.
Fairness == []<>Quiet \/ []<><<TRUE>>_vars
Spec == Init /\ [][Next]_vars /\ Fairness

-----------------------------------------------------------------------------
(* Properties.                                                             *)

\* No buffer is ever pushed beyond its capacity (Buffer.Push panics), neither
\* by forward nor by prepareFlits, and the ends and ports respect theirs.
TypeOK ==
    /\ ~sw.overflow
    /\ \A p \in Ports : LET c == sw.at[p] IN
        /\ Len(c.buf) <= PortCap /\ Len(c.msgInBuf) <= NumReq
        /\ \A n \in {Len(c.flitBuf), Len(c.routeBuffer), Len(c.forwardBuffer), Len(c.sendOutBuffer)} :
               n <= BufCap
        /\ Len(conn[p].switchEnd) <= EndCap /\ Len(conn[p].deviceEnd) <= EndCap
        /\ Len(dev[p].buf) <= DevCap

\* What the arbiter has promised in an output buffer is exactly the flits still
\* to come of the messages it let in, and there is always room for them: the
\* panics of makeReservation and forward cannot happen.
RoomForPromised ==
    \A p \in Ports : LET o == sw.at[p] IN
        /\ Len(o.sendOutBuffer) + o.reservedSlots <= BufCap
        /\ o.reservedSlots = FoldSet(LAMBDA m, n : n + Msgs[m].flits - o.reserved[m], 0, DOMAIN o.reserved)

\* Messages from one device to another arrive once each, in the order sent,
\* and only at the port they are addressed to.
InOrderOnce ==
    \A p, q \in Ports :
        LET got == SelectSeq(received[q], LAMBDA m : Msgs[m].src = p)
            sent == SelectSeq(Script(p), LAMBDA m : Msgs[m].dst = q)
        IN IsPrefix(got, sent) /\ \A i \in DOMAIN received[q] : Msgs[received[q][i]].dst = q

\* The switch never sleeps over work: when it is not scheduled, no step of a
\* tick could move anything.
NoMissedWakeup == ~sw.awake => ~TickOf(State).sw.progress

AllArrived == \A m \in DOMAIN Msgs : m \in ToSet(received[Msgs[m].dst])

\* Every message gets to its destination.
Delivered == <>AllArrived
=============================================================================
