------------------------------- MODULE MCRemote -------------------------------
(***************************************************************************)
(* The way between chiplets for TLC: the remote translation units with      *)
(* their TLBs, the RDMA engines, and the switch with its connections.  A    *)
(* behaviour is one unit's; the variables another unit has are off.         *)
(***************************************************************************)
EXTENDS RDMAEngine

CONSTANT Active   \* the units a behaviour may be of

VARIABLES unit,
          chiplets, cap, load, target, mode, issued, answered, nextID, port, net, walk, cached,
          transactionsFromInside, transactionsFromOutside, asleep, busy,
          sw, conn, dev, received

\* The switch of the index moves pages 1 and 2 from chiplet 2 to chiplet 1, page 3 from
\* chiplet 2 to chiplet 3.
Owners == <<<<2, 2, 2>>, <<1, 1, 3>>>>
\* Two chiplets: two requests of one chiplet for one page in tight and in wide buffers, and
\* requests of both chiplets; three chiplets: one request whose page changes owner.
Scenarios == {<<2, 1, {1, 2}>>, <<2, 2, {1, 2}>>, <<2, 2, {2, 3}>>, <<3, 1, {4}>>}
T == INSTANCE RemoteTranslation WITH MaxChiplets <- 3, home <- <<1, 1, 2, 1>>,
        page <- <<2, 2, 1, 3>>, hash <- Owners, L2Ways <- 1, Loads <- Scenarios

\* Two accesses cross each other, and a third shares the way of the first.
TwoSrc  == <<1, 2, 1>>
TwoHome == <<2, 1, 2>>
TwoVia  == <<"ToL1", "ToL1", "PwPort">>

\* Three ports on two chiplets.  Two devices send two-flit and one-flit messages to the
\* third, whose port holds one message, and it answers.
M(s, d, n) == [src |-> s, dst |-> d, flits |-> n]
SomeMsgs == <<M(1, 3, 2), M(2, 3, 2), M(1, 3, 1), M(3, 1, 2)>>
S == INSTANCE ChipletSwitch WITH Msgs <- SomeMsgs, Ports <- {1, 2, 3}, Chiplet <- <<0, 0, 1>>,
        NumReq <- 1, Latency <- 1, PortCap <- 1, EndCap <- 1, DevCap <- 1, MaxOutgoing <- 1

rtuOnly  == <<chiplets, cap, load, target, mode, issued, answered, nextID, port, net, walk,
              cached, transactionsFromInside, transactionsFromOutside, asleep, busy>>
rdmaOnly == <<in, fromInside, fromOutside, isDraining, paused, made, got, atL2, driver, acks,
              drains>>
swOnly   == <<sw, conn, dev, received>>
all      == <<unit, end, rtuOnly, rdmaOnly, swOnly>>

Off(x) == x = "off"
RTUOff == /\ Off(chiplets) /\ Off(cap) /\ Off(load) /\ Off(target) /\ Off(mode) /\ Off(issued)
          /\ Off(answered) /\ Off(nextID) /\ Off(port) /\ Off(net) /\ Off(walk) /\ Off(cached)
          /\ Off(transactionsFromInside) /\ Off(transactionsFromOutside) /\ Off(asleep)
          /\ Off(busy)
RDMAOff == /\ Off(in) /\ Off(fromInside) /\ Off(fromOutside) /\ Off(isDraining) /\ Off(paused)
           /\ Off(made) /\ Off(got) /\ Off(atL2) /\ Off(driver) /\ Off(acks) /\ Off(drains)
SwitchOff == Off(sw) /\ Off(conn) /\ Off(dev) /\ Off(received)

InitUnit ==
    /\ unit \in Active
    /\ \/ unit = "RTU"    /\ T!Init /\ RDMAOff /\ SwitchOff
       \/ unit = "RDMA"   /\ Init /\ RTUOff /\ SwitchOff
       \/ unit = "switch" /\ S!Init /\ RTUOff /\ RDMAOff /\ Off(end)
NextUnit ==
    /\ UNCHANGED unit
    /\ \/ unit = "RTU"    /\ T!Next /\ UNCHANGED <<rdmaOnly, swOnly>>
       \/ unit = "RDMA"   /\ Next /\ UNCHANGED <<rtuOnly, swOnly>>
       \/ unit = "switch" /\ S!Next /\ UNCHANGED <<rtuOnly, rdmaOnly, end>>

CanWork == CASE unit = "RTU"    -> ENABLED <<T!Work>>_(T!vars)
             [] unit = "RDMA"   -> ENABLED <<Work>>_vars
             [] unit = "switch" -> ~S!Quiet
CanSwitch == unit = "RTU" /\ \E c \in T!ChipletIDs, u \in T!Units : mode[c][u] < target

\* Weak fairness of the work of the unit, whose inputs are bounded, and of the steps that
\* handle an index switch (the only ones to change mode): a request can circle between RTUs
\* that disagree.
UnitSpec ==
    /\ InitUnit /\ [][NextUnit]_all
    /\ []<>~CanWork \/ []<><<TRUE>>_all
    /\ []<>~CanSwitch \/ []<><<mode' # mode>>_all

-----------------------------------------------------------------------------
\* A request is in exactly one place until it is answered, and is answered once, at the unit
\* that made it under the id it gave, whatever the units' hashes disagree on and however often
\* it is redirected.  findTransactionByRspToID never panics: a response, a clone that comes
\* back to the chiplet it left and a clone the L2 TLB redirects find their transaction; until
\* an index switch no transaction outlives its request and no unit sleeps that could move one.
ExactlyOnce ==
    /\ unit = "RTU"  => /\ T!TypeOK /\ T!ExactlyOnce /\ T!TransactionFound
                        /\ T!AnswersGoHome /\ T!NoStaleTransaction /\ T!SleepsOnlyWhenBlocked
    /\ unit = "RDMA" => TypeOK /\ AnsweredOnce /\ TransactionFound

\* Messages from one device to another arrive through the switch once each, in the order
\* sent, at the port they are addressed to.  The slots the arbiter promised in an output buffer
\* are those of the flits still to come, and there is room for them (makeReservation, forward);
\* a switch that is not scheduled could not move anything in a tick.
InOrderOnce == unit = "switch" =>
    S!TypeOK /\ S!InOrderOnce /\ S!RoomForPromised /\ S!NoMissedWakeup

AllSettled == CASE unit = "RTU" -> T!AllSettled [] unit = "RDMA" -> AllTaken
                [] unit = "switch" -> S!AllArrived

\* Every translation request is answered when the buffers are wide enough for the requests
\* under way, through any index switch; every remote access is answered and every drain ends;
\* every message gets through the switch.
Answered == []<>AllSettled
=============================================================================
