------------------------------- MODULE MCControl -------------------------------
(***************************************************************************)
(* The control of the GPUs for TLC: page migration (driver, command         *)
(* processors, migration controllers), the switching of the TLBs' index,    *)
(* the DMA engine and the PCIe network the GPUs are on.  A behaviour is one *)
(* unit's; the variables another unit has are off.                          *)
(***************************************************************************)
EXTENDS Naturals, Sequences

CONSTANT Active                              \* the units a behaviour may be of

VARIABLES unit, budget, back,
          driver, table, next, cmds, cp, answers, req, rsp, pmc, wire, lmem, memory, running,
          tlb, l2, content, acked,
          cpu, ctrl, index, round, cut,
          dma, toCP, sent, store, answered, asked,
          Net, Msgs, ep, sw, link, dev, turn

\* Three GPUs, two pages on the first of them; the pages are wanted both by one GPU or by
\* two.  One migration under a program that writes, or the queues' commands.
TwoWishes == {[g \in 1..3 |-> IF g = 2 THEN <<1>> ELSE IF g = 3 THEN <<2>> ELSE <<>>],
              [g \in 1..3 |-> IF g = 2 THEN <<1, 2>> ELSE <<>>]}
Asks(r, a, c, f) == [requests |-> r, accesses |-> a, copies |-> c, flushes |-> f, asked |-> {}]
M == INSTANCE Migration WITH GPUs <- 1..3, Pages <- {1, 2}, CUs <- {"CU1", "CU2"},
        AddressTranslators <- {"AT"}, Caches <- {"L2"}, L2Cache <- "L2", TLBs <- {"TLB"},
        NumTransfers <- 2, Home <- 1, Wishes <- TwoWishes, Touches <- {<<3, 2>>},
        Budgets <- {Asks(1, 1, 0, 0), Asks(0, 1, 2, 1)}

\* Two TLBs, an MMU and a remote unit.
Indexed == {<<"TLB", 1>>, <<"TLB", 2>>, <<"MMU", 1>>, <<"RTU", 1>>}
I == INSTANCE IndexSwitching WITH MaxSwitches <- 2, MaxTriggers <- 3, MaxLaunches <- 1,
        Units <- Indexed

\* Copies of every alignment and length in a memory of three access units.
D == INSTANCE DMAEngine WITH AccessSize <- 2, Ports <- {0, 1}, PortCap <- 1, MemSize <- 5,
        Copies <- 2

\* The CPU at the root and devices behind a switch each, or behind one.  Two senders
\* interleave the flits of their messages at a device whose port holds one message.
B(op, base, devices) == [op |-> op, base |-> base, devices |-> devices]
Msg(s, d, n) == [src |-> s, dst |-> d, flits |-> n]
TwoSwitches ==
    [build |-> <<B("root", 0, {"cpu"}), B("switch", 0, {}), B("device", 1, {"a"}),
                 B("switch", 1, {}), B("device", 2, {"b"})>>,
     msgs  |-> <<Msg("a", "b", 2), Msg("cpu", "b", 2)>>]
OneSwitch ==
    [build |-> <<B("root", 0, {"cpu"}), B("switch", 0, {}), B("device", 1, {"a", "c"}),
                 B("device", 1, {"b"})>>,
     msgs  |-> <<Msg("a", "b", 1), Msg("c", "b", 2), Msg("a", "cpu", 1), Msg("a", "b", 1)>>]
P == INSTANCE PCIeNetwork WITH Scenarios <- {OneSwitch, TwoSwitches}, BufCap <- 1, LinkCap <- 1,
        OutCap <- 1, AsmCap <- 3, DevCap <- 1

migOnly  == <<driver, table, next, cmds, cp, answers, req, rsp, pmc, wire, lmem, memory, running,
              tlb, l2, content, acked>>
swOnly   == <<cpu, ctrl, index, round, cut>>
dmaOnly  == <<dma, toCP, sent, store, answered, asked>>
pcieOnly == <<Net, Msgs, ep, sw, link, dev, turn>>
vars     == <<unit, budget, back, migOnly, swOnly, dmaOnly, pcieOnly>>

Off(x) == x = "off"
MigOff == /\ Off(driver) /\ Off(table) /\ Off(next) /\ Off(cmds) /\ Off(cp) /\ Off(answers)
          /\ Off(req) /\ Off(rsp) /\ Off(pmc) /\ Off(wire) /\ Off(lmem) /\ Off(memory)
          /\ Off(running) /\ Off(tlb) /\ Off(l2) /\ Off(content) /\ Off(acked)
SwOff == Off(cpu) /\ Off(ctrl) /\ Off(index) /\ Off(round) /\ Off(cut)
DMAOff == Off(dma) /\ Off(toCP) /\ Off(sent) /\ Off(store) /\ Off(answered) /\ Off(asked)
PCIeOff == Off(Net) /\ Off(Msgs) /\ Off(ep) /\ Off(sw) /\ Off(link) /\ Off(dev) /\ Off(turn)

Init ==
    /\ unit \in Active
    /\ \/ unit = "migration" /\ M!Init /\ SwOff /\ DMAOff /\ PCIeOff /\ Off(back)
       \/ unit = "index"     /\ I!Init /\ MigOff /\ DMAOff /\ PCIeOff
       \/ unit = "DMA"       /\ D!Init /\ MigOff /\ SwOff /\ PCIeOff /\ Off(budget)
       \/ unit = "PCIe"      /\ P!Init /\ MigOff /\ SwOff /\ DMAOff /\ Off(budget) /\ Off(back)

Next ==
    /\ UNCHANGED unit
    /\ \/ unit = "migration" /\ M!Next /\ UNCHANGED <<swOnly, dmaOnly, pcieOnly, back>>
       \/ unit = "index"     /\ I!Next /\ UNCHANGED <<migOnly, dmaOnly, pcieOnly>>
       \/ unit = "DMA"       /\ D!Next /\ UNCHANGED <<migOnly, swOnly, pcieOnly, budget>>
       \/ unit = "PCIe"      /\ P!Next /\ UNCHANGED <<migOnly, swOnly, dmaOnly, budget, back>>

CanWork == CASE unit = "migration" -> M!CanWork
             [] unit = "index"     -> ~I!Idle
             [] unit = "DMA"       -> ENABLED <<D!Work>>_(D!vars)
             [] unit = "PCIe"      -> ~P!Quiet

\* Weak fairness of the work of the unit: its inputs are bounded, so that infinitely many
\* steps have infinitely many of that work among them.
Spec == Init /\ [][Next]_vars /\ ([]<>~CanWork \/ []<><<TRUE>>_vars)

-----------------------------------------------------------------------------
\* What arrives finds what waits for it.  A command processor's counters equal the
\* acknowledgements it still has coming (processShootdownCommand, processGPURestartReq and the
\* handlers of their chains); an answer of a migration controller finds its pull; a response of
\* the memory finds the request and the copy it belongs to; a PCIe device is given each message
\* once, those of one sender in order, and from every switch the routes lead to every device;
\* once the messages of a decision have arrived all units index alike (switchIndexing).
AnswersMatch ==
    CASE unit = "migration" -> M!TypeOK /\ M!AcksMatch /\ M!AnswersFindTheirPull
      [] unit = "index"     -> I!TypeOK /\ I!Agreement
      [] unit = "DMA"       -> D!TypeOK /\ D!ResponsesFindTheirCopy
      [] unit = "PCIe"      -> P!TypeOK /\ P!RoutesLeadHome /\ P!InOrderOnce

\* A program that reaches a page reaches its present frame and finds there what was last
\* written to the page: no translation and no write is left behind by a migration.  While a
\* page is being copied every RDMA engine is drained and every unit of every accessing GPU is
\* paused, and no unit runs on top of a paused one (the order of the flush and restart chains).
DataFollowsPage == unit = "migration" =>
    M!DataFollowsPage /\ M!QuietWhileCopying /\ M!DownstreamAwake

\* What ends is complete.  A decision on the index is taken on one answer of every unit, all of
\* the same round (processCollectedStats); a copy that ends is complete, byte for byte, in
\* whatever order the memories answered (processDataReadyRsp, processDoneRsp).
EndsComplete ==
    [][/\ (unit = "index" /\ cpu.statsCollectionInProgress /\ ~cpu'.statsCollectionInProgress)
             => round'.answered = Indexed \X {round.number}
       /\ (unit = "DMA" /\ Len(dma'.toSendToCP) > Len(dma.toSendToCP))
             => D!Copied(dma'.toSendToCP[Len(dma'.toSendToCP)], store)]_vars

AllSettled == CASE unit = "migration" -> M!AllSettled [] unit = "index" -> I!Settled
                [] unit = "DMA" -> D!AllAnswered      [] unit = "PCIe" -> P!AllTaken

\* Nothing waits for ever: a migration ends and the queues' commands are answered (unless the
\* driver sleeps on an answer), a round of statistics ends (unless a launch cut it), every
\* copy is answered and every PCIe message delivered.
Answered == []<>AllSettled
=============================================================================
