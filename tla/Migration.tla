------------------------------ MODULE Migration ------------------------------
(***************************************************************************)
(* A page migration from end to end: the driver, the command processor of  *)
(* every GPU (CommandProcessor), the page migration                        *)
(* controllers (PageMigrationController), and abstract units below them:   *)
(* compute units, address translators, caches, TLBs and RDMA engines that  *)
(* pause and restart.  The compute units touch pages while everything      *)
(* between them and the memory runs; a write stays in the L2 cache of the  *)
(* GPU that owns the frame until that cache is flushed.                    *)
(*                                                                         *)
(* The sender of migration requests is not part of the repository.  It is  *)
(* taken to be honest: the accessing GPUs of a request are the host, the   *)
(* GPUs that want the pages and every GPU with a translation of one of *)
(* them, and no other GPU touches the pages before the migration is over.  *)
(* A flush command of the queues is not sent while a migration is under    *)
(* way: the command processor would mix its acknowledgements with those of *)
(* the shootdown.                                                          *)
(***************************************************************************)
EXTENDS Integers, Sequences, FiniteSets, SequencesExt

CONSTANTS GPUs, Pages, CUs, AddressTranslators, Caches, L2Cache, TLBs,
          NumTransfers,
          Home,         \* the GPU on which the pages are at first
          Wishes,       \* the wanted pages of a request: [GPUs -> Seq(Pages)]
          Touches,      \* the pairs of a GPU and a page the program touches
          Budgets       \* how often the environment may do what it does

VARIABLES driver,       \* the fields of the driver
          table,        \* the page table: the frame of every page
          next,         \* the next free frame of every GPU
          cmds,         \* from the driver to each command processor
          cp, answers, req, rsp,
          pmc, wire, lmem, memory,
          running,      \* the units that run
          tlb,          \* the translations each GPU holds
          l2,           \* the dirty pieces in the L2 caches
          content,      \* what the program has written to every page
          budget,       \* what the environment may still do, and what it
                        \* has asked of the queues
          acked         \* the queues' commands answered, with how often

CP == INSTANCE CommandProcessor
Ctl == INSTANCE PageMigrationController

-----------------------------------------------------------------------------
(***************************************************************************)
(* The page-migration half of the driver (mgpusim/driver/driver.go).  One  *)
(* migration request at a time is taken from the MMU: drain every RDMA     *)
(* engine, shoot the accessing GPUs down, give the pages new frames and    *)
(* have them copied one after the other, restart the GPUs, restart the     *)
(* RDMA engines.  The driver is a ticking component: a tick does every     *)
(* step once, and a tick that reports no progress puts the driver to sleep *)
(* until a message arrives.                                                *)
(*                                                                         *)
(* A request names the GPU that hosts the pages, the GPUs that access them *)
(* and, for every GPU that wants pages, which ones.                        *)
(***************************************************************************)
NoReq == [host |-> 0, accessing |-> {}, wanted |-> [g \in GPUs |-> <<>>]]

NewDriver ==
    [requestsToSend |-> <<>>, migrationReqToSendToCP |-> <<>>,
     toSendToMMU |-> <<>>, fromGPUs |-> <<>>, fromMMU |-> <<>>,
     currentPageMigrationReq |-> NoReq,
     isCurrentlyHandlingMigrationReq |-> FALSE,
     isCurrentlyMigratingOnePage |-> FALSE,
     numRDMADrainACK |-> 0, numShootDownACK |-> 0, numPagesMigratingACK |-> 0,
     numRestartACK |-> 0, numRDMARestartACK |-> 0,
     awake |-> FALSE]

(***************************************************************************)
(* A tick works on the whole state: the driver, the page table, the free   *)
(* frames, what it sends, and whether it made progress.                    *)
(***************************************************************************)
State(d) == [d |-> d, table |-> table, next |-> next, out |-> <<>>,
             progress |-> FALSE]

Cmd(g, op, arg) == [gpu |-> g, op |-> op, arg |-> arg]

NoArg == [pages |-> {}]

InGPUOrder(S, op, arg) ==
    [i \in 1..Cardinality(S) |-> Cmd(SetToSortSeq(S, <)[i], op, arg)]

Wanting(r) == {g \in GPUs : r.wanted[g] # <<>>}

-----------------------------------------------------------------------------
sendToGPUs(s) ==
    IF s.d.requestsToSend = <<>> THEN s
    ELSE [s EXCEPT !.out = Append(@, Head(s.d.requestsToSend)),
                   !.d.requestsToSend = Tail(@), !.progress = TRUE]

(***************************************************************************)
(* The connection to the MMU is always free: one answer per request.       *)
(***************************************************************************)
sendToMMU(s) ==
    IF s.d.toSendToMMU = <<>> THEN s
    ELSE [s EXCEPT !.d.toSendToMMU = <<>>, !.progress = TRUE]

sendMigrationReqToCP(s) ==
    IF s.d.migrationReqToSendToCP = <<>> \/ s.d.isCurrentlyMigratingOnePage
    THEN s
    ELSE [s EXCEPT !.out = Append(@, Head(s.d.migrationReqToSendToCP)),
                   !.d.migrationReqToSendToCP = Tail(@),
                   !.d.isCurrentlyMigratingOnePage = TRUE,
                   !.progress = TRUE]

-----------------------------------------------------------------------------
initiateRDMADrain(d) ==
    [d EXCEPT !.requestsToSend = @ \o InGPUOrder(GPUs, "drain", NoArg),
              !.numRDMADrainACK = @ + Cardinality(GPUs)]

parseFromMMU(s) ==
    IF s.d.isCurrentlyHandlingMigrationReq \/ s.d.fromMMU = <<>> THEN s
    ELSE [s EXCEPT !.progress = TRUE,
                   !.d = initiateRDMADrain(
                           [s.d EXCEPT !.currentPageMigrationReq = Head(s.d.fromMMU),
                                       !.fromMMU = Tail(@),
                                       !.isCurrentlyHandlingMigrationReq = TRUE])]

-----------------------------------------------------------------------------
VAddrs(r) == UNION {ToSet(r.wanted[g]) : g \in Wanting(r)}

ToShootDown_FirstGPU(r) ==
    UNION {ToSet(r.wanted[g]) :
             g \in {h \in Wanting(r) : \A i \in Wanting(r) : h <= i}}

ToShootDown(r) == VAddrs(r)

sendShootDownReqs(d) ==
    LET r == d.currentPageMigrationReq
    IN [d EXCEPT !.numShootDownACK = Cardinality(r.accessing),
                 !.requestsToSend = @ \o InGPUOrder(r.accessing, "shootdown",
                                                    [pages |-> ToShootDown(r)])]

processRDMADrainRsp(s) ==
    LET t == [s EXCEPT !.d.numRDMADrainACK = @ - 1, !.progress = TRUE]
    IN IF s.d.numRDMADrainACK = 1 THEN [t EXCEPT !.d = sendShootDownReqs(@)] ELSE t

(***************************************************************************)
(* A page gets the next frame of the GPU that wants it, at once in the     *)
(* page table, and a copy of the old frame is queued.                      *)
(***************************************************************************)
preparePageForMigration(s, g, p) ==
    LET frame == <<g, s.next[g]>>
    IN [s EXCEPT !.table[p] = frame,
                 !.next[g] = @ + 1,
                 !.d.migrationReqToSendToCP =
                    Append(@, Cmd(g, "migrate",
                              [host |-> s.d.currentPageMigrationReq.host,
                               from |-> s.table[p], to |-> frame])),
                 !.d.numPagesMigratingACK = @ + 1]

(***************************************************************************)
(* Only the last shootdown answer reports progress.  Go iterates over the  *)
(* map of wanted pages in any order: order is an order of its keys.        *)
(***************************************************************************)
processShootdownCompleteRsp(s, order) ==
    LET r  == s.d.currentPageMigrationReq
        t  == [s EXCEPT !.d.numShootDownACK = @ - 1]
        gp == FlattenSeq([i \in 1..Len(order) |->
                 [j \in 1..Len(r.wanted[order[i]]) |->
                    <<order[i], r.wanted[order[i]][j]>>]])
    IN IF s.d.numShootDownACK = 1
       THEN FoldLeft(LAMBDA x, e : preparePageForMigration(x, e[1], e[2]),
                     [t EXCEPT !.progress = TRUE], gp)
       ELSE t

prepareGPURestartReqs(d) ==
    LET acc == d.currentPageMigrationReq.accessing
    IN [d EXCEPT !.requestsToSend = @ \o InGPUOrder(acc, "restart", NoArg),
                 !.numRestartACK = @ + Cardinality(acc)]

preparePageMigrationRspToMMU(d) ==
    [d EXCEPT !.toSendToMMU = <<VAddrs(d.currentPageMigrationReq)>>]

PagesDone(n) == n = 1

processPageMigrationRspFromCP(s) ==
    LET t == [s EXCEPT !.d.numPagesMigratingACK = @ - 1,
                       !.d.isCurrentlyMigratingOnePage = FALSE,
                       !.progress = TRUE]
    IN IF PagesDone(s.d.numPagesMigratingACK)
       THEN [t EXCEPT !.d = preparePageMigrationRspToMMU(prepareGPURestartReqs(@))]
       ELSE t

prepareRDMARestartReqs(d) ==
    [d EXCEPT !.requestsToSend = @ \o InGPUOrder(GPUs, "rdmaRestart", NoArg),
              !.numRDMARestartACK = @ + Cardinality(GPUs)]

handleGPURestartRsp(s) ==
    LET t == [s EXCEPT !.d.numRestartACK = @ - 1, !.progress = TRUE]
    IN IF s.d.numRestartACK = 1 THEN [t EXCEPT !.d = prepareRDMARestartReqs(@)]
       ELSE t

processRDMARestartRspToDriver(s) ==
    LET t == [s EXCEPT !.d.numRDMARestartACK = @ - 1, !.progress = TRUE]
    IN IF s.d.numRDMARestartACK = 1
       THEN [t EXCEPT !.d.currentPageMigrationReq = NoReq,
                      !.d.isCurrentlyHandlingMigrationReq = FALSE]
       ELSE t

(***************************************************************************)
(* The answers of the queues' own commands (copies and flushes) end their  *)
(* command, which CommandQueues models; here they only count as progress.  *)
(***************************************************************************)
processReturnReq(s, order) ==
    IF s.d.fromGPUs = <<>> THEN s
    ELSE LET a == Head(s.d.fromGPUs)
             t == [s EXCEPT !.d.fromGPUs = Tail(@)]
         IN CASE a.op = "drain"       -> processRDMADrainRsp(t)
              [] a.op = "shootdown"   -> processShootdownCompleteRsp(t, order)
              [] a.op = "migrate"     -> processPageMigrationRspFromCP(t)
              [] a.op = "restart"     -> handleGPURestartRsp(t)
              [] a.op = "rdmaRestart" -> processRDMARestartRspToDriver(t)
              [] OTHER                -> [t EXCEPT !.progress = TRUE]

TickWith(d, order) ==
    parseFromMMU(processReturnReq(
       sendMigrationReqToCP(sendToMMU(sendToGPUs(State(d)))), order))

(***************************************************************************)
(* One cycle of the driver.                                                *)
(***************************************************************************)
Tick ==
    /\ driver.awake
    /\ \E order \in SetToSeqs(Wanting(driver.currentPageMigrationReq)) :
       \E s \in {TickWith(driver, order)} :
          /\ driver' = [s.d EXCEPT !.awake = s.progress]
          /\ table' = s.table
          /\ next' = s.next
          /\ cmds' = [g \in GPUs |-> cmds[g] \o
                        SelectSeq(s.out, LAMBDA m : m.gpu = g)]

(***************************************************************************)
(* A message that reaches a port wakes the driver.                         *)
(***************************************************************************)
ReceiveFromGPU(a) ==
    driver' = [driver EXCEPT !.fromGPUs = Append(@, a), !.awake = TRUE]

ReceiveFromMMU(r) ==
    driver' = [driver EXCEPT !.fromMMU = Append(@, r), !.awake = TRUE]

Enqueue(c) ==
    driver' = [driver EXCEPT !.requestsToSend = Append(@, c), !.awake = TRUE]

(***************************************************************************)
(* A sleeping driver with a message waiting in its port from the GPUs:     *)
(* nothing but another message will make it look.                          *)
(***************************************************************************)
Stalled == ~driver.awake /\ driver.fromGPUs # <<>>

-----------------------------------------------------------------------------
(* The composition.                                                          *)

drvVars == <<driver, table, next>>
cpVars  == <<cp, answers, req, rsp>>
pmcVars == <<pmc, wire, lmem, memory>>
appVars == <<running, tlb, l2, content, budget, acked>>
vars    == <<drvVars, cmds, cpVars, pmcVars, appVars>>

Nowhere == <<0, 0>>

Units == CUs \cup AddressTranslators \cup Caches \cup TLBs \cup {CP!RDMA}

PageNum(p) == CHOOSE i \in 1..Cardinality(Pages) : SetToSortSeq(Pages, <)[i] = p

Frames == GPUs \X (1..(Cardinality(Pages) + 1))
Pieces == Frames \X (1..NumTransfers)

Init ==
    /\ CP!Init
    /\ driver = NewDriver
    /\ table = [p \in Pages |-> <<Home, PageNum(p)>>]
    /\ next = [g \in GPUs |-> IF g = Home THEN Cardinality(Pages) + 1 ELSE 1]
    /\ pmc = [g \in GPUs |-> Ctl!NewPMC]
    /\ wire = [g \in GPUs |-> <<>>]
    /\ lmem = [g \in GPUs |-> {}]
    /\ content = [p \in Pages |-> [i \in 1..NumTransfers |-> <<p, i, 0>>]]
    /\ memory = [x \in Pieces |->
                   IF \E p \in Pages : table[p] = x[1]
                   THEN <<CHOOSE p \in Pages : table[p] = x[1], x[2], 0>>
                   ELSE <<0, 0, 0>>]
    /\ running = GPUs \X Units
    /\ tlb = [g \in GPUs |-> [p \in Pages |-> Nowhere]]
    /\ l2 = {}
    /\ budget \in Budgets
    /\ acked = <<>>

-----------------------------------------------------------------------------
(***************************************************************************)
(* The components' own steps.                                              *)
(***************************************************************************)
DriverTick == Tick /\ UNCHANGED <<cpVars, pmcVars, appVars>>

CPStep(g) == CP!Step(g) /\ UNCHANGED <<drvVars, pmcVars, appVars>>

PMCTick(g) ==
    /\ Ctl!CanTick(g)
    /\ \E s \in {Ctl!TickOf(g)} :
       /\ pmc' = [pmc EXCEPT ![g] = s.c]
       /\ wire' = [wire EXCEPT ![g] = s.wire]
       /\ lmem' = [lmem EXCEPT ![g] = @ \cup s.lmem]
       /\ rsp' = IF s.done
                 THEN rsp \cup {CP!Request(g, CP!PMC, "migrate", CP!NoArg)}
                 ELSE rsp
       /\ UNCHANGED <<drvVars, cmds, cp, answers, req, memory, appVars>>

PMCCarry(g) ==
    /\ Ctl!Carry(g)
    /\ UNCHANGED <<drvVars, cmds, cpVars, lmem, memory, appVars>>

PMCServe(g) ==
    /\ Ctl!Serve(g)
    /\ UNCHANGED <<drvVars, cmds, cpVars, wire, appVars>>

(***************************************************************************)
(* The connections: an answer reaches the driver, a migration request the  *)
(* port of the page migration controller.                                  *)
(***************************************************************************)
DeliverAnswer(g) ==
    /\ answers[g] # <<>>
    /\ ReceiveFromGPU(Head(answers[g]))
    /\ answers' = [answers EXCEPT ![g] = Tail(@)]
    /\ acked' = LET a == Head(answers[g])
                IN IF a.op \in {"copy", "flush"} THEN Append(acked, a.arg.id)
                   ELSE acked
    /\ UNCHANGED <<table, next, cmds, cp, req, rsp, pmcVars, running, tlb, l2,
                   content, budget>>

DeliverToPMC(g) ==
    \E r \in req :
       /\ r.gpu = g /\ r.unit = CP!PMC
       /\ pmc[g].ctrlIn = <<>>
       /\ pmc' = [pmc EXCEPT ![g].ctrlIn = <<r.arg>>]
       /\ req' = req \ {r}
       /\ UNCHANGED <<drvVars, cmds, cp, answers, rsp, wire, lmem, memory, appVars>>

-----------------------------------------------------------------------------
(***************************************************************************)
(* The units.  They acknowledge what they are asked.                       *)
(***************************************************************************)
Acknowledge(r) ==
    /\ req' = req \ {r}
    /\ rsp' = rsp \cup {r}

Switch(r) == running' = IF r.op = "restart"
                        THEN running \cup {<<r.gpu, r.unit>>}
                        ELSE running \ {<<r.gpu, r.unit>>}

(***************************************************************************)
(* Compute units, address translators and RDMA engines only pause.         *)
(***************************************************************************)
PauseOrRestart(g) ==
    \E r \in req :
       /\ r.gpu = g
       /\ r.unit \in CUs \cup AddressTranslators \cup {CP!RDMA}
       /\ Acknowledge(r)
       /\ Switch(r)
       /\ UNCHANGED <<drvVars, cmds, cp, answers, pmcVars, tlb, l2, content,
                      budget, acked>>

(***************************************************************************)
(* A cache flush writes the dirty pieces of the GPU's frames back.         *)
(***************************************************************************)
CacheServes(g) ==
    \E r \in req :
       /\ r.gpu = g /\ r.unit \in Caches
       /\ Acknowledge(r)
       /\ IF r.op = "flush" THEN UNCHANGED running ELSE Switch(r)
       /\ LET out == IF r.unit = L2Cache /\ r.op # "restart"
                     THEN {e \in l2 : e.piece[1][1] = g} ELSE {}
          IN /\ memory' = [x \in Pieces |->
                             IF \E e \in out : e.piece = x
                             THEN (CHOOSE e \in out : e.piece = x).data
                             ELSE memory[x]]
             /\ l2' = l2 \ out
       /\ UNCHANGED <<drvVars, cmds, cp, answers, pmc, wire, lmem, tlb, content,
                      budget, acked>>

TLBServes(g) ==
    \E r \in req :
       /\ r.gpu = g /\ r.unit \in TLBs
       /\ Acknowledge(r)
       /\ Switch(r)
       /\ tlb' = [tlb EXCEPT ![g] = [p \in Pages |->
                    IF p \in r.arg.pages THEN Nowhere ELSE @[p]]]
       /\ UNCHANGED <<drvVars, cmds, cp, answers, pmcVars, l2, content, budget,
                      acked>>

DMAServes(g) ==
    \E r \in req :
       /\ r.gpu = g /\ r.unit = CP!DMA
       /\ Acknowledge(r)
       /\ UNCHANGED <<drvVars, cmds, cp, answers, pmcVars, appVars>>

-----------------------------------------------------------------------------
(***************************************************************************)
(* The program.                                                            *)
(***************************************************************************)
Moving(p) == /\ driver.currentPageMigrationReq # NoReq
             /\ p \in VAddrs(driver.currentPageMigrationReq)

Frame(g, p) == IF tlb[g][p] # Nowhere THEN tlb[g][p] ELSE table[p]

Runs(g, U) == \A u \in U : <<g, u>> \in running

(***************************************************************************)
(* A compute unit of g reaches page p: its units run, and so do the caches *)
(* of the frame's owner and, if that is another GPU, both RDMA engines.    *)
(***************************************************************************)
Reaches(g, p) ==
    /\ \E c \in CUs : <<g, c>> \in running
    /\ Runs(g, AddressTranslators \cup Caches \cup TLBs)
    /\ LET o == Frame(g, p)[1]
       IN /\ Runs(o, Caches)
          /\ o # g => Runs(o, {CP!RDMA}) /\ Runs(g, {CP!RDMA})

Honest(g, p) == Moving(p) => g \in driver.currentPageMigrationReq.accessing

Access(g, p) ==
    /\ budget.accesses > 0
    /\ Reaches(g, p)
    /\ Honest(g, p)
    /\ \A i \in 1..Len(driver.fromMMU) :
          p \in VAddrs(driver.fromMMU[i]) => g \in driver.fromMMU[i].accessing
    /\ tlb' = [tlb EXCEPT ![g][p] = Frame(g, p)]
    /\ LET piece == <<Frame(g, p), 1>>
           v     == <<p, 1, content[p][1][3] + 1>>
       IN /\ l2' = {e \in l2 : e.piece # piece} \cup {[piece |-> piece, data |-> v]}
          /\ content' = [content EXCEPT ![p][1] = v]
    /\ budget' = [budget EXCEPT !.accesses = @ - 1]
    /\ UNCHANGED <<drvVars, cmds, cpVars, pmcVars, running, acked>>

AskMigration ==
    /\ budget.requests > 0
    /\ driver.fromMMU = <<>>
    /\ driver.toSendToMMU = <<>>
    /\ \E w \in Wishes :
       LET pages == UNION {ToSet(w[g]) : g \in GPUs}
           acc   == {Home} \cup {g \in GPUs : \/ w[g] # <<>>
                                            \/ \E p \in pages : tlb[g][p] # Nowhere}
       IN /\ \A p \in pages : table[p][1] = Home /\ ~Moving(p)
          /\ ReceiveFromMMU([host |-> Home, accessing |-> acc, wanted |-> w])
    /\ budget' = [budget EXCEPT !.requests = @ - 1]
    /\ UNCHANGED <<table, next, cmds, cpVars, pmcVars, running, tlb, l2, content,
                   acked>>

(***************************************************************************)
(* Copies and flushes of the driver's command queues, on the Home GPU,     *)
(* numbered.                                                               *)
(***************************************************************************)
Migrating == driver.isCurrentlyHandlingMigrationReq \/ driver.fromMMU # <<>>

EnqueueCopy ==
    /\ budget.copies > 0
    /\ Enqueue(Cmd(Home, "copy", [id |-> budget.copies]))
    /\ budget' = [budget EXCEPT !.copies = @ - 1, !.asked = @ \cup {budget.copies}]
    /\ UNCHANGED <<table, next, cmds, cpVars, pmcVars, running, tlb, l2, content,
                   acked>>

FlushID == 0

FlushOutstanding == FlushID \in budget.asked \ ToSet(acked)

EnqueueFlush ==
    /\ budget.flushes > 0
    /\ ~Migrating
    /\ Enqueue(Cmd(Home, "flush", [id |-> FlushID]))
    /\ budget' = [budget EXCEPT !.flushes = @ - 1, !.asked = @ \cup {FlushID}]
    /\ UNCHANGED <<table, next, cmds, cpVars, pmcVars, running, tlb, l2, content,
                   acked>>

Ask == AskMigration /\ ~FlushOutstanding

-----------------------------------------------------------------------------
Connections == \E g \in GPUs : \/ DeliverAnswer(g) \/ DeliverToPMC(g)
                               \/ PMCCarry(g)

UnitsServe == \E g \in GPUs : \/ PauseOrRestart(g) \/ CacheServes(g)
                              \/ TLBServes(g) \/ DMAServes(g) \/ PMCServe(g)

Next == \/ DriverTick
        \/ \E g \in GPUs : CPStep(g) \/ PMCTick(g)
        \/ Connections
        \/ UnitsServe
        \/ \E t \in Touches : Access(t[1], t[2])
        \/ Ask \/ EnqueueCopy \/ EnqueueFlush

(***************************************************************************)
(* Something other than the program and the MMU can move.                  *)
(***************************************************************************)
CanWork ==
    \/ driver.awake
    \/ rsp # {}
    \/ \E r \in req : r.unit = CP!PMC => pmc[r.gpu].ctrlIn = <<>>
    \/ \E g \in GPUs :
          \/ answers[g] # <<>>
          \/ /\ cmds[g] # <<>>
             /\ Head(cmds[g]).op = "flush" => cp[g].numCacheACK = 0
             /\ Head(cmds[g]).op = "shootdown" => ~cp[g].shootDownInProcess
          \/ Ctl!CanTick(g) \/ Ctl!CanCarry(g) \/ Ctl!CanServe(g)

(***************************************************************************)
(* Every component with something to do ticks again, connections deliver,  *)
(* units serve.  The program and the MMU owe nothing: theirs are the only  *)
(* steps that change the budget.  All the work of a request is finite, so  *)
(* one condition, weak fairness of the other steps, covers it.             *)
(***************************************************************************)
Fairness == []<>~CanWork \/ []<><<budget' = budget>>_vars

Spec == Init /\ [][Next]_vars /\ Fairness

-----------------------------------------------------------------------------
(***************************************************************************)
(* Counters stay within the number of units they count, ports within one   *)
(* message, and a page never leaves the frames of the GPUs.                *)
(***************************************************************************)
TypeOK ==
    /\ \A g \in GPUs :
          /\ cp[g].numCUAck \in 0..Cardinality(CUs)
          /\ cp[g].numAddrTranslationFlushAck \in 0..Cardinality(AddressTranslators)
          /\ cp[g].numAddrTranslationRestartAck \in 0..Cardinality(AddressTranslators)
          /\ cp[g].numCacheACK \in 0..Cardinality(Caches)
          /\ cp[g].numTLBAck \in 0..Cardinality(TLBs)
          /\ pmc[g].pending \in {-1} \cup 1..NumTransfers
          /\ Len(pmc[g].remoteIn) <= 1
    /\ driver.numShootDownACK \in 0..Cardinality(GPUs)
    /\ driver.numRDMADrainACK \in 0..Cardinality(GPUs)
    /\ driver.numRDMARestartACK \in 0..Cardinality(GPUs)
    /\ driver.numPagesMigratingACK \in 0..Cardinality(Pages)
    /\ \A p \in Pages : table[p] \in Frames
    /\ running \subseteq GPUs \X Units

AcksMatch == CP!AcksMatch

AnswersFindTheirPull == Ctl!AnswersFindTheirPull

(***************************************************************************)
(* While a page is being copied (from the moment the driver has given it   *)
(* a new frame to the last acknowledgement of a copy), every RDMA engine   *)
(* is drained and every unit of every accessing GPU is paused.             *)
(***************************************************************************)
QuietWhileCopying ==
    driver.numPagesMigratingACK > 0 =>
       \A g \in GPUs :
          /\ <<g, CP!RDMA>> \notin running
          /\ g \in driver.currentPageMigrationReq.accessing =>
                \A u \in Units : <<g, u>> \notin running

(***************************************************************************)
(* No unit runs on top of a paused one: a compute unit that runs has every *)
(* address translator, cache and TLB of its GPU running, an address        *)
(* translator every cache and TLB (the order of the two chains).           *)
(***************************************************************************)
DownstreamAwake ==
    \A g \in GPUs :
       /\ \A c \in CUs : <<g, c>> \in running =>
             Runs(g, AddressTranslators \cup Caches \cup TLBs)
       /\ \A a \in AddressTranslators : <<g, a>> \in running =>
             Runs(g, Caches \cup TLBs)

Visible(x) == IF \E e \in l2 : e.piece = x
              THEN (CHOOSE e \in l2 : e.piece = x).data
              ELSE memory[x]

(***************************************************************************)
(* A program that reaches a page reaches its present frame, through        *)
(* whatever translation its GPU holds, and finds there what was last       *)
(* written to the page: no translation outlives its frame, no write is     *)
(* left behind in the old frame or in a cache.                             *)
(***************************************************************************)
DataFollowsPage ==
    \A g \in GPUs, p \in Pages :
       (Reaches(g, p) /\ Honest(g, p)) =>
          /\ Frame(g, p) = table[p]
          /\ \A i \in 1..NumTransfers : Visible(<<table[p], i>>) = content[p][i]

AllSettled ==
    \/ Stalled
    \/ /\ ~driver.isCurrentlyHandlingMigrationReq
       /\ ToSet(acked) = budget.asked
       /\ Len(acked) = Cardinality(budget.asked)

(***************************************************************************)
(* A migration the driver has taken ends, and every copy and flush of the  *)
(* queues ends up answered, once, under the identifier the driver gave it, *)
(* whatever order the DMA engine finishes the clones in - unless the       *)
(* driver has fallen asleep on an answer it has not looked at.             *)
(***************************************************************************)
Completes == []<>AllSettled

(***************************************************************************)
(* The driver never sleeps on an answer waiting in its port.               *)
(***************************************************************************)
NeverSleepsOnAnswer == ~Stalled
=============================================================================
