----------------------------- MODULE PCIeNetwork -----------------------------
(***************************************************************************)
(* The network between the CPU and the GPUs: end points cut messages into  *)
(* flits and put them together again, switches forward flits along routes  *)
(* that the PCIe connector defines while it builds the tree.  A link, a    *)
(* direct connection with the port behind it, is a bounded queue; that its *)
(* ends are woken is the subject of DirectConnection.  A tick of an end    *)
(* point or of a switch that makes progress is one action.                 *)
(***************************************************************************)
EXTENDS Naturals, Sequences, FiniteSets, SequencesExt

CONSTANTS
    Scenarios, \* [build, msgs]: what the platform asks of the connector, in
               \* order, and the messages [src, dst, flits] of device ports
    BufCap,    \* 2 * numReqPerCycle: buffers of a switch port
    LinkCap,   \* what a link holds
    OutCap,    \* msgOutBufSize
    AsmCap,    \* flitAssemblingBufferSize
    DevCap     \* capacity of a device's port

-----------------------------------------------------------------------------
(* The connector.  A switch is named by its ID, an end point by the place   *)
(* of its devices in Build; a node's port is named by the node it leads to. *)

NoNode == [ep |-> 0]
EP(i) == [ep |-> i]
SW(i) == [sw |-> i]

\* build is a sequence of [op, base, devices].
SwitchID(build, i) == Cardinality({j \in 1..i-1 : build[j].op # "device"})

\* table[s][d]: the port of switch s towards device d; parent[s], with the
\* default route.
EmptyNet == [table |-> <<>>, parent |-> <<>>, home |-> <<>>, ports |-> <<>>]
Extend(f, x, v) == [y \in DOMAIN f \cup {x} |-> IF y = x THEN v ELSE f[y]]
DefineRoutes(net, s, devices, port) ==
    [net EXCEPT !.table[s] = [d \in DOMAIN @ \cup devices |-> IF d \in devices THEN port ELSE @[d]]]

\* establishRouteToDevice: the switch and, towards the child, all above it.
Upwards(net, s) ==
    LET size == Cardinality(DOMAIN net.table)
        up[n \in 1..size] ==
            IF n = 1 THEN <<s>>
            ELSE LET parent == net.parent[Last(up[n - 1])] IN
                 IF parent = NoNode THEN up[n - 1] ELSE Append(up[n - 1], parent.sw)
    IN up[size]
establishRouteToDevice(net, s, e, devices) ==
    LET path == Upwards(net, s)
        Step(t, k) == DefineRoutes(t, path[k], devices, IF k = 1 THEN EP(e) ELSE SW(path[k - 1]))
    IN FoldLeft(Step, net, [k \in 1..Len(path) |-> k])

Plug(net, s, e, devices) ==
    [net EXCEPT !.home = [d \in DOMAIN @ \cup devices |-> IF d \in devices THEN e ELSE @[d]],
                !.ports[s] = Append(@, EP(e))]

CreateRootComplex(net, build, i) ==
    LET new == [net EXCEPT !.table = Extend(@, 0, <<>>), !.parent = Extend(@, 0, NoNode),
                           !.ports = Extend(@, 0, <<>>)]
    IN DefineRoutes(Plug(new, 0, i, build[i].devices), 0, build[i].devices, EP(i))

AddSwitch(net, build, i) ==
    LET s == SwitchID(build, i)  base == build[i].base IN
    [net EXCEPT !.table = Extend(@, s, <<>>), !.parent = Extend(@, s, SW(base)),
                !.ports = [Extend(@, s, <<SW(base)>>) EXCEPT ![base] = Append(@, SW(s))]]

PlugInDevice(net, build, i) ==
    establishRouteToDevice(Plug(net, build[i].base, i, build[i].devices), build[i].base, i,
                           build[i].devices)

Built(build) ==
    LET Step(net, i) == CASE build[i].op = "root"   -> CreateRootComplex(net, build, i)
                          [] build[i].op = "switch" -> AddSwitch(net, build, i)
                          [] build[i].op = "device" -> PlugInDevice(net, build, i)
    IN FoldLeft(Step, EmptyNet, [i \in 1..Len(build) |-> i])

-----------------------------------------------------------------------------
VARIABLES
    Net,       \* the network built
    Msgs,      \* the messages
    ep,        \* end point -> its state
    sw,        \* switch -> its buffers, per port
    link,      \* <<from, to>> -> flits on their way
    dev,       \* device port -> what it has to send, has received, has taken
    turn       \* the switch port an arbitration starts from

fixed == <<Net, Msgs>>
vars == <<Net, Msgs, ep, sw, link, dev, turn>>

Switches == DOMAIN Net.table
EndPoints == {Net.home[d] : d \in DOMAIN Net.home}
PortsOf(s) == Net.ports[s]

\* FindPort, with the default route towards the parent.
FindPort(s, d) == IF d \in DOMAIN Net.table[s] THEN Net.table[s][d] ELSE Net.parent[s]

\* The switch an end point is connected to.
BaseOf(e) == CHOOSE s \in Switches : EP(e) \in ToSet(PortsOf(s))

Links == UNION {UNION {{<<SW(s), n>>, <<n, SW(s)>>} : n \in ToSet(PortsOf(s))} : s \in Switches}
Script(d) == SelectSeq([i \in 1..Len(Msgs) |-> i], LAMBDA m : Msgs[m].src = d)

Init ==
    /\ \E c \in Scenarios : Net = Built(c.build) /\ Msgs = c.msgs
    /\ ep = [e \in EndPoints |-> [msgOutBuf |-> <<>>, flitsToSend |-> <<>>, flitsToAssemble |-> <<>>,
                                  assemblingMsg |-> 0, numFlitArrived |-> 0]]
    /\ sw = [s \in Switches |-> [i \in DOMAIN PortsOf(s) |->
                [pipeline |-> <<>>, forwardBuffer |-> <<>>, sendOutBuffer |-> <<>>]]]
    /\ link = [l \in Links |-> <<>>]
    /\ dev = [d \in DOMAIN Net.home |-> [toSend |-> Script(d), blocked |-> FALSE, buf |-> <<>>,
                                         taken |-> <<>>]]
    /\ turn = [s \in Switches |-> 0]

-----------------------------------------------------------------------------
(* End points.  A step is a function of s = [ep, link, dev] for one of them. *)

Uplink(e) == <<EP(e), SW(BaseOf(e))>>
Downlink(e) == <<SW(BaseOf(e)), EP(e)>>

\* Device ports refused by Send are notified when the last flit has gone.
Notified(devs, e) == [d \in DOMAIN devs |-> IF Net.home[d] = e THEN [devs[d] EXCEPT !.blocked = FALSE]
                                            ELSE devs[d]]
sendFlitOut(s, e) ==
    IF s.ep[e].flitsToSend = <<>> \/ Len(s.link[Uplink(e)]) >= LinkCap THEN s
    ELSE [s EXCEPT !.link[Uplink(e)] = Append(@, Head(s.ep[e].flitsToSend)),
                   !.ep[e].flitsToSend = Tail(@),
                   !.dev = IF Len(s.ep[e].flitsToSend) = 1 THEN Notified(@, e) ELSE @]

\* prepareFlits and msgToFlits
prepareFlits(s, e) ==
    IF s.ep[e].flitsToSend # <<>> \/ s.ep[e].msgOutBuf = <<>> THEN s
    ELSE LET m == Head(s.ep[e].msgOutBuf) IN
         [s EXCEPT !.ep[e].msgOutBuf = Tail(@),
                   !.ep[e].flitsToSend = [i \in 1..Msgs[m].flits |-> m]]

Complete(x) == x.numFlitArrived >= Msgs[x.assemblingMsg].flits
tryDeliver(s, e) ==
    LET x == s.ep[e]  m == x.assemblingMsg IN
    IF m = 0 THEN s
    ELSE IF ~Complete(x) \/ Len(s.dev[Msgs[m].dst].buf) >= DevCap THEN s
    ELSE [s EXCEPT !.dev[Msgs[m].dst].buf = Append(@, m),
                   !.ep[e].assemblingMsg = 0, !.ep[e].numFlitArrived = 0]

\* assemble: a message is chosen by the first flit and takes all its own.
assemble(s, e) ==
    LET x == s.ep[e] IN
    IF x.flitsToAssemble = <<>> THEN s
    ELSE LET m == IF x.assemblingMsg = 0 THEN Head(x.flitsToAssemble) ELSE x.assemblingMsg
             rest == SelectSeq(x.flitsToAssemble, LAMBDA f : f # m)
         IN [s EXCEPT !.ep[e].assemblingMsg = m, !.ep[e].flitsToAssemble = rest,
                      !.ep[e].numFlitArrived = @ + Len(x.flitsToAssemble) - Len(rest)]

recv(s, e) ==
    IF s.link[Downlink(e)] = <<>> \/ Len(s.ep[e].flitsToAssemble) >= AsmCap THEN s
    ELSE [s EXCEPT !.ep[e].flitsToAssemble = Append(@, Head(s.link[Downlink(e)])),
                   !.link[Downlink(e)] = Tail(@)]

AfterTick(e) ==
    recv(assemble(tryDeliver(prepareFlits(sendFlitOut(
        [ep |-> ep, link |-> link, dev |-> dev], e), e), e), e), e)
EndPointIdle(e) == AfterTick(e).ep = ep
EndPointTick(e) ==
    /\ \E s \in {AfterTick(e)} :
        /\ s.ep # ep
        /\ ep' = s.ep /\ link' = s.link /\ dev' = s.dev
    /\ UNCHANGED <<fixed, sw, turn>>

-----------------------------------------------------------------------------
(* Switches.  A step is a function of s = [at, link, turn] for one of them.  *)

Apply(F(_), v) == CHOOSE r \in {F(x) : x \in {v}} : TRUE
EachPort(Op(_, _), s, n) ==
    LET after[i \in 0..n] == IF i = 0 THEN s ELSE Apply(LAMBDA t : Op(t, i), after[i - 1])
    IN after[n]

Out(n, i) == <<SW(n), PortsOf(n)[i]>>
In(n, i) == <<PortsOf(n)[i], SW(n)>>

CanSendOut(n, s, i) == s.at[i].sendOutBuffer # <<>> /\ Len(s.link[Out(n, i)]) < LinkCap
sendOut(n, s, i) ==
    IF ~CanSendOut(n, s, i) THEN s
    ELSE [s EXCEPT !.link[Out(n, i)] = Append(@, Head(s.at[i].sendOutBuffer)),
                   !.at[i].sendOutBuffer = Tail(@)]

\* assignFlitOutputBuf
OutputOf(n, m) == CHOOSE i \in DOMAIN PortsOf(n) : PortsOf(n)[i] = FindPort(n, Msgs[m].dst)

\* xbarArbiter.Arbitrate: from the port whose turn it is, one input for each
\* output; forward then moves those whose output has room.
Select(n, a, i) ==
    IF a.at[i].forwardBuffer = <<>> THEN a
    ELSE LET o == OutputOf(n, Head(a.at[i].forwardBuffer)) IN
         IF o \in a.occupied THEN a
         ELSE [a EXCEPT !.selected = @ \cup {i}, !.occupied = @ \cup {o}]

forward(n, s) ==
    LET size == Len(PortsOf(n))
        a == FoldLeft(LAMBDA t, i : Select(n, t, i),
                      [at |-> s.at, selected |-> {}, occupied |-> {}],
                      [k \in 1..size |-> ((s.turn + k - 1) % size) + 1])
        To(i) == OutputOf(n, Head(s.at[i].forwardBuffer))
        moving == {i \in a.selected : Len(s.at[To(i)].sendOutBuffer) < BufCap}
    IN [s EXCEPT !.turn = (@ + 1) % size,
                 !.at = [o \in DOMAIN @ |->
                    [@[o] EXCEPT !.forwardBuffer = IF o \in moving THEN Tail(@) ELSE @,
                                 !.sendOutBuffer = IF \E i \in moving : To(i) = o
                                                   THEN Append(@, Head(s.at[CHOOSE i \in moving : To(i) = o].forwardBuffer))
                                                   ELSE @]]]

\* route, behind the pipeline, and startProcessing, in front of it.
route(n, s, i) ==
    IF s.at[i].pipeline = <<>> \/ Len(s.at[i].forwardBuffer) >= BufCap THEN s
    ELSE [s EXCEPT !.at[i].forwardBuffer = Append(@, Head(s.at[i].pipeline)),
                   !.at[i].pipeline = Tail(@)]

startProcessing(n, s, i) ==
    IF s.link[In(n, i)] = <<>> \/ Len(s.at[i].pipeline) >= BufCap THEN s
    ELSE [s EXCEPT !.at[i].pipeline = Append(@, Head(s.link[In(n, i)])),
                   !.link[In(n, i)] = Tail(@)]

TickOf(n) ==
    LET size == Len(PortsOf(n))
        sent == EachPort(LAMBDA t, i : sendOut(n, t, i), [at |-> sw[n], link |-> link, turn |-> turn[n]], size)
        routed == EachPort(LAMBDA t, i : route(n, t, i), forward(n, sent), size)
    IN EachPort(LAMBDA t, i : startProcessing(n, t, i), routed, size)

SwitchIdle(n) == \A s \in {TickOf(n)} : s.at = sw[n] /\ s.link = link
SwitchTick(n) ==
    /\ \E s \in {TickOf(n)} :
        /\ s.at # sw[n] \/ s.link # link
        /\ sw' = [sw EXCEPT ![n] = s.at] /\ link' = s.link
        /\ turn' = [turn EXCEPT ![n] = s.turn]
    /\ UNCHANGED <<fixed, ep, dev>>

-----------------------------------------------------------------------------
(* The devices.                                                            *)

\* EndPoint.Send
DeviceSend(d) ==
    /\ dev[d].toSend # <<>> /\ ~dev[d].blocked
    /\ LET e == Net.home[d] IN
       IF Len(ep[e].msgOutBuf) < OutCap
       THEN /\ ep' = [ep EXCEPT ![e].msgOutBuf = Append(@, Head(dev[d].toSend))]
            /\ dev' = [dev EXCEPT ![d].toSend = Tail(@)]
       ELSE /\ dev' = [dev EXCEPT ![d].blocked = TRUE] /\ UNCHANGED ep
    /\ UNCHANGED <<fixed, sw, link, turn>>

DeviceTake(d) ==
    /\ dev[d].buf # <<>>
    /\ dev' = [dev EXCEPT ![d].buf = Tail(@), ![d].taken = Append(@, Head(dev[d].buf))]
    /\ UNCHANGED <<fixed, ep, sw, link, turn>>

Next == \/ \E e \in EndPoints : EndPointTick(e)
        \/ \E n \in Switches : SwitchTick(n)
        \/ \E d \in DOMAIN Net.home : DeviceSend(d) \/ DeviceTake(d)

\* Every step moves a flit or a message one place on, so a run ends, and it
\* ends only where no tick would make progress and no device can act.
Quiet == /\ \A e \in EndPoints : EndPointIdle(e)
         /\ \A n \in Switches : SwitchIdle(n)
         /\ \A d \in DOMAIN dev : dev[d].buf = <<>> /\ (dev[d].toSend = <<>> \/ dev[d].blocked)
Fairness == []<>Quiet \/ []<><<TRUE>>_vars
Spec == Init /\ [][Next]_vars /\ Fairness

-----------------------------------------------------------------------------
(* Properties.                                                             *)

\* Every buffer is within its capacity and flits are where their route leads.
TypeOK ==
    /\ \A e \in EndPoints : /\ Len(ep[e].msgOutBuf) <= OutCap
                            /\ Len(ep[e].flitsToAssemble) <= AsmCap
                            /\ \A i \in DOMAIN ep[e].flitsToAssemble :
                                  Net.home[Msgs[ep[e].flitsToAssemble[i]].dst] = e
    /\ \A l \in Links : Len(link[l]) <= LinkCap
    /\ \A n \in Switches : \A i \in DOMAIN sw[n] :
           Len(sw[n][i].pipeline) <= BufCap /\ Len(sw[n][i].forwardBuffer) <= BufCap
           /\ Len(sw[n][i].sendOutBuffer) <= BufCap
    /\ \A d \in DOMAIN dev : Len(dev[d].buf) <= DevCap

\* From every switch, the routes defined by establishRouteToDevice and the
\* default routes lead to every device: they never end nowhere and never loop.
RoutesLeadHome ==
    \A d \in DOMAIN Net.home : \A s \in Switches :
        LET hop[n \in 0..Cardinality(Switches)] ==
                IF n = 0 THEN SW(s)
                ELSE IF "sw" \in DOMAIN hop[n - 1] THEN FindPort(hop[n - 1].sw, d) ELSE hop[n - 1]
        IN hop[Cardinality(Switches)] = EP(Net.home[d])

\* tryDeliver gives a device each message once, and the messages of one
\* sender to one device arrive in the order in which Send accepted them,
\* although flits of several senders interleave on the links.
Arrived(d, p) == SelectSeq(dev[d].taken \o dev[d].buf, LAMBDA m : Msgs[m].src = p)
InOrderOnce ==
    \A d, p \in DOMAIN dev :
        IsPrefix(Arrived(d, p), SelectSeq(Script(p), LAMBDA m : Msgs[m].dst = d))

AllTaken == \A m \in DOMAIN Msgs : m \in ToSet(dev[Msgs[m].dst].taken)

\* Every message is delivered, whatever else is on the links.
Delivered == []<>AllTaken
=============================================================================
