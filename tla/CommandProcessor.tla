-------------------------- MODULE CommandProcessor --------------------------
(***************************************************************************)
(* The command processor of each GPU (mgpusim/timing/cp/commandprocessor.  *)
(* go) as the sequencer of the units below it.  A shootdown pauses the     *)
(* compute units, then the address translators, then the caches, then the  *)
(* TLBs; a restart wakes the caches, the TLBs, the address translators and *)
(* at last the compute units; each stage starts when a counter of missing  *)
(* acknowledgements reaches zero.  Cache flushes and memory copies of the  *)
(* driver's queues pass through the same ports and, for flushes, the same  *)
(* counter.                                                                *)
(*                                                                         *)
(* Every sender of the command processor has an unlimited buffer, so a     *)
(* request is never refused: it is a member of req until its unit serves   *)
(* it, the unit's answer is a member of rsp until the command processor    *)
(* takes it.  Different units answer in any order.                         *)
(*                                                                         *)
(* Launching kernels is the subject of the module Dispatcher, the          *)
(* collection of translation statistics of IndexSwitching.                 *)
(***************************************************************************)
EXTENDS Integers, Sequences, FiniteSets, SequencesExt

CONSTANTS GPUs, CUs, AddressTranslators, Caches, TLBs

VARIABLES cp,       \* the counters and the current requests of each GPU
          cmds,     \* from the driver to each command processor
          answers,  \* from each command processor to the driver
          req, rsp  \* to and from the units of each GPU

cpVars == <<cp, cmds, answers, req, rsp>>

RDMA == "RDMA"
PMC  == "PMC"
DMA  == "DMA"

NoArg == [pages |-> {}]

NewCP == [numCUAck |-> 0, numAddrTranslationFlushAck |-> 0,
          numAddrTranslationRestartAck |-> 0, numCacheACK |-> 0,
          numTLBAck |-> 0, shootDownInProcess |-> FALSE,
          currShootdownRequest |-> NoArg, currFlushRequest |-> 0,
          bottomToTop |-> {}]

Init == /\ cp = [g \in GPUs |-> NewCP]
        /\ cmds = [g \in GPUs |-> <<>>]
        /\ answers = [g \in GPUs |-> <<>>]
        /\ req = {}
        /\ rsp = {}

Request(g, u, op, arg) == [gpu |-> g, unit |-> u, op |-> op, arg |-> arg]

ToAll(g, units, op, arg) == {Request(g, u, op, arg) : u \in units}

(***************************************************************************)
(* Taking the head of the driver's port, and an answer of a unit.          *)
(***************************************************************************)
Command(g, op) == cmds[g] # <<>> /\ Head(cmds[g]).op = op

Retrieve(g) == cmds' = [cmds EXCEPT ![g] = Tail(@)]

Answer(g, a) == answers' = [answers EXCEPT ![g] = Append(@, a)]

Rsps(g, units, op) == {r \in rsp : r.gpu = g /\ r.unit \in units /\ r.op = op}

-----------------------------------------------------------------------------
(***************************************************************************)
(* Commands that go to one unit and come back.                             *)
(***************************************************************************)
processRDMADrainCmd(g) ==
    /\ Command(g, "drain")
    /\ req' = req \cup {Request(g, RDMA, "drain", NoArg)}
    /\ Retrieve(g)
    /\ UNCHANGED <<cp, answers, rsp>>

processRDMARestartCommand(g) ==
    /\ Command(g, "rdmaRestart")
    /\ req' = req \cup {Request(g, RDMA, "restart", NoArg)}
    /\ Retrieve(g)
    /\ UNCHANGED <<cp, answers, rsp>>

processPageMigrationReq(g) ==
    /\ Command(g, "migrate")
    /\ req' = req \cup {Request(g, PMC, "migrate", Head(cmds[g]).arg)}
    /\ Retrieve(g)
    /\ UNCHANGED <<cp, answers, rsp>>

processRspFromRDMAs(g) ==
    \E r \in Rsps(g, {RDMA}, "drain") \cup Rsps(g, {RDMA}, "restart") :
       /\ rsp' = rsp \ {r}
       /\ Answer(g, [op |-> IF r.op = "drain" THEN "drain" ELSE "rdmaRestart",
                     arg |-> NoArg])
       /\ UNCHANGED <<cp, cmds, req>>

processPageMigrationRsp(g) ==
    \E r \in Rsps(g, {PMC}, "migrate") :
       /\ rsp' = rsp \ {r}
       /\ Answer(g, [op |-> "migrate", arg |-> NoArg])
       /\ UNCHANGED <<cp, cmds, req>>

(***************************************************************************)
(* Memory copies.  The request is cloned under an identifier of its own    *)
(* and the original is found again by the identifier of the clone.  The    *)
(* identifiers of the model are numbers, the next one is greater than      *)
(* those in use.                                                           *)
(***************************************************************************)
NextID(g) == CHOOSE n \in 1..(Cardinality(cp[g].bottomToTop) + 1) :
                n \notin {e.id : e \in cp[g].bottomToTop}

processMemCopyReq(g) ==
    /\ Command(g, "copy")
    /\ \E id \in {NextID(g)} :
          /\ cp' = [cp EXCEPT ![g].bottomToTop =
                        {e \in @ : e.id # id}
                          \cup {[id |-> id, top |-> Head(cmds[g]).arg.id]}]
          /\ req' = req \cup {Request(g, DMA, "copy", [id |-> id])}
    /\ Retrieve(g)
    /\ UNCHANGED <<answers, rsp>>

processMemCopyRsp(g) ==
    \E r \in Rsps(g, {DMA}, "copy") :
    \E e \in {x \in cp[g].bottomToTop : x.id = r.arg.id} :
       /\ cp' = [cp EXCEPT ![g].bottomToTop = @ \ {e}]
       /\ rsp' = rsp \ {r}
       /\ Answer(g, [op |-> "copy", arg |-> [id |-> e.top]])
       /\ UNCHANGED <<cmds, req>>

-----------------------------------------------------------------------------
(***************************************************************************)
(* A flush of the driver's queues.  Every cache flush, of a flush command  *)
(* or of a shootdown, and every cache restart is counted in numCacheACK.   *)
(***************************************************************************)
processFlushCommand(g) ==
    /\ Command(g, "flush")
    /\ cp[g].numCacheACK = 0
    /\ cp' = [cp EXCEPT ![g].numCacheACK = Cardinality(Caches),
                        ![g].currFlushRequest = Head(cmds[g]).arg.id]
    /\ req' = req \cup ToAll(g, Caches, "flush", NoArg)
    /\ Retrieve(g)
    /\ UNCHANGED <<answers, rsp>>

(***************************************************************************)
(* The shootdown chain.                                                    *)
(***************************************************************************)
processShootdownCommand(g) ==
    /\ Command(g, "shootdown")
    /\ ~cp[g].shootDownInProcess
    /\ cp' = [cp EXCEPT ![g].currShootdownRequest = Head(cmds[g]).arg,
                        ![g].shootDownInProcess = TRUE,
                        ![g].numCUAck = @ + Cardinality(CUs)]
    /\ req' = req \cup ToAll(g, CUs, "flush", NoArg)
    /\ Retrieve(g)
    /\ UNCHANGED <<answers, rsp>>

LastAck(n) == n = 1

processCUPipelineFlushRsp(g) ==
    \E r \in Rsps(g, CUs, "flush") :
       /\ rsp' = rsp \ {r}
       /\ LET last == LastAck(cp[g].numCUAck)
          IN /\ cp' = [cp EXCEPT ![g].numCUAck = @ - 1,
                                 ![g].numAddrTranslationFlushAck =
                                   IF last THEN @ + Cardinality(AddressTranslators)
                                           ELSE @]
             /\ req' = req \cup IF last
                                THEN ToAll(g, AddressTranslators, "flush", NoArg)
                                ELSE {}
       /\ UNCHANGED <<cmds, answers>>

(***************************************************************************)
(* An address translator's answer does not say what it answers: the        *)
(* command processor goes by the counter that is not zero.                 *)
(***************************************************************************)
ATCounter(c) == IF c.numAddrTranslationFlushAck > 0 THEN "flush" ELSE "restart"

processAddressTranslatorFlushRsp(g) ==
    /\ ATCounter(cp[g]) = "flush"
    /\ \E r \in {x \in rsp : x.gpu = g /\ x.unit \in AddressTranslators} :
          /\ rsp' = rsp \ {r}
          /\ LET last == cp[g].numAddrTranslationFlushAck = 1
             IN /\ cp' = [cp EXCEPT ![g].numAddrTranslationFlushAck = @ - 1,
                                    ![g].numCacheACK =
                                      IF last THEN @ + Cardinality(Caches) ELSE @]
                /\ req' = req \cup IF last THEN ToAll(g, Caches, "reset", NoArg)
                                           ELSE {}
          /\ UNCHANGED <<cmds, answers>>

(***************************************************************************)
(* The last cache acknowledgement starts the TLB flushes of a shootdown,   *)
(* if one is in process, or else ends the flush command.                   *)
(***************************************************************************)
processCacheFlushRsp(g) ==
    \E r \in Rsps(g, Caches, "flush") \cup Rsps(g, Caches, "reset") :
       /\ rsp' = rsp \ {r}
       /\ LET last  == cp[g].numCacheACK = 1
              shoot == last /\ cp[g].shootDownInProcess
          IN /\ cp' = [cp EXCEPT ![g].numCacheACK = @ - 1,
                                 ![g].numTLBAck =
                                   IF shoot THEN @ + Cardinality(TLBs) ELSE @]
             /\ req' = req \cup
                  IF shoot THEN ToAll(g, TLBs, "flush", cp[g].currShootdownRequest)
                           ELSE {}
             /\ answers' = IF last /\ ~shoot
                           THEN [answers EXCEPT ![g] = Append(@,
                                   [op |-> "flush", arg |-> [id |-> cp[g].currFlushRequest]])]
                           ELSE answers
       /\ UNCHANGED cmds

processTLBFlushRsp(g) ==
    \E r \in Rsps(g, TLBs, "flush") :
       /\ rsp' = rsp \ {r}
       /\ LET last == cp[g].numTLBAck = 1
          IN /\ cp' = [cp EXCEPT ![g].numTLBAck = @ - 1,
                                 ![g].shootDownInProcess = @ /\ ~last]
             /\ answers' = IF last
                           THEN [answers EXCEPT ![g] = Append(@,
                                   [op |-> "shootdown", arg |-> NoArg])]
                           ELSE answers
       /\ UNCHANGED <<cmds, req>>

-----------------------------------------------------------------------------
(***************************************************************************)
(* The restart chain.                                                      *)
(***************************************************************************)
restartCache_Uncounted(n) == n

restartCache(n) == n + Cardinality(Caches)

processGPURestartReq(g) ==
    /\ Command(g, "restart")
    /\ cp' = [cp EXCEPT ![g].numCacheACK = restartCache(@)]
    /\ req' = req \cup ToAll(g, Caches, "restart", NoArg)
    /\ Retrieve(g)
    /\ UNCHANGED <<answers, rsp>>

processCacheRestartRsp(g) ==
    \E r \in Rsps(g, Caches, "restart") :
       /\ rsp' = rsp \ {r}
       /\ LET last == cp[g].numCacheACK = 1
          IN /\ cp' = [cp EXCEPT ![g].numCacheACK = @ - 1,
                                 ![g].numTLBAck =
                                   IF last THEN @ + Cardinality(TLBs) ELSE @]
             /\ req' = req \cup IF last THEN ToAll(g, TLBs, "restart", NoArg)
                                        ELSE {}
       /\ UNCHANGED <<cmds, answers>>

processTLBRestartRsp(g) ==
    \E r \in Rsps(g, TLBs, "restart") :
       /\ rsp' = rsp \ {r}
       /\ LET last == cp[g].numTLBAck = 1
          IN /\ cp' = [cp EXCEPT ![g].numTLBAck = @ - 1,
                                 ![g].numAddrTranslationRestartAck =
                                   IF last THEN @ + Cardinality(AddressTranslators)
                                           ELSE @]
             /\ req' = req \cup IF last
                                THEN ToAll(g, AddressTranslators, "restart", NoArg)
                                ELSE {}
       /\ UNCHANGED <<cmds, answers>>

processAddressTranslatorRestartRsp(g) ==
    /\ ATCounter(cp[g]) = "restart"
    /\ \E r \in {x \in rsp : x.gpu = g /\ x.unit \in AddressTranslators} :
          /\ rsp' = rsp \ {r}
          /\ LET last == cp[g].numAddrTranslationRestartAck = 1
             IN /\ cp' = [cp EXCEPT ![g].numAddrTranslationRestartAck = @ - 1,
                                    ![g].numCUAck =
                                      IF last THEN @ + Cardinality(CUs) ELSE @]
                /\ req' = req \cup IF last THEN ToAll(g, CUs, "restart", NoArg)
                                           ELSE {}
          /\ UNCHANGED <<cmds, answers>>

processCUPipelineRestartRsp(g) ==
    \E r \in Rsps(g, CUs, "restart") :
       /\ rsp' = rsp \ {r}
       /\ LET last == cp[g].numCUAck = 1
          IN /\ cp' = [cp EXCEPT ![g].numCUAck = @ - 1]
             /\ answers' = IF last
                           THEN [answers EXCEPT ![g] = Append(@,
                                   [op |-> "restart", arg |-> NoArg])]
                           ELSE answers
       /\ UNCHANGED <<cmds, req>>

-----------------------------------------------------------------------------
processReqFromDriver(g) ==
    \/ processRDMADrainCmd(g) \/ processRDMARestartCommand(g)
    \/ processPageMigrationReq(g) \/ processMemCopyReq(g)
    \/ processFlushCommand(g) \/ processShootdownCommand(g)
    \/ processGPURestartReq(g)

processRspFromInternal(g) ==
    \/ processRspFromRDMAs(g) \/ processPageMigrationRsp(g)
    \/ processMemCopyRsp(g)
    \/ processCUPipelineFlushRsp(g) \/ processCUPipelineRestartRsp(g)
    \/ processAddressTranslatorFlushRsp(g)
    \/ processAddressTranslatorRestartRsp(g)
    \/ processCacheFlushRsp(g) \/ processCacheRestartRsp(g)
    \/ processTLBFlushRsp(g) \/ processTLBRestartRsp(g)

Step(g) == processReqFromDriver(g) \/ processRspFromInternal(g)

(***************************************************************************)
(* What is asked of or answered by some units of a GPU and not yet taken.  *)
(***************************************************************************)
InFlight(g, units, ops) ==
    Cardinality({r \in req \cup rsp :
                    r.gpu = g /\ r.unit \in units /\ r.op \in ops})

(***************************************************************************)
(* Every counter equals the number of acknowledgements under way, so no    *)
(* stage starts before the one above it is finished and no stage waits for *)
(* an acknowledgement that nobody owes (the num...Ack fields).             *)
(***************************************************************************)
AcksMatch ==
    \A g \in GPUs :
       /\ cp[g].numCUAck = InFlight(g, CUs, {"flush", "restart"})
       /\ cp[g].numAddrTranslationFlushAck
            = InFlight(g, AddressTranslators, {"flush"})
       /\ cp[g].numAddrTranslationRestartAck
            = InFlight(g, AddressTranslators, {"restart"})
       /\ cp[g].numCacheACK = InFlight(g, Caches, {"flush", "reset", "restart"})
       /\ cp[g].numTLBAck = InFlight(g, TLBs, {"flush", "restart"})
=============================================================================
