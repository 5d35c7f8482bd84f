---------------------------- MODULE WriteBackCache ----------------------------
(***************************************************************************)
(* The write-back cache of mem/cache/writeback (mem/cache/xcdcache is a     *)
(* copy of it).  A Tick runs the stages in a fixed order, each of them      *)
(* numReqPerCycle times: senders, MSHR stage, bank, write buffer, directory *)
(* stage, pipeline, top parser, and the flusher at the end.  Variable stage *)
(* is the place in the tick; between ticks (stage = "env") the connections  *)
(* deliver and the lower memory works.                                      *)
(*                                                                          *)
(* A transaction is the number of its request in the script; slices that    *)
(* the code shares between objects (evicted data, dirty masks) are shared   *)
(* here through the maps buf and masks.  A line has Parts, each standing    *)
(* for a sector; the value of a part is the number of the write that wrote  *)
(* it, 0 at first.                                                          *)
(***************************************************************************)
EXTENDS Naturals, Integers, Sequences, FiniteSets, SequencesExt

CONSTANTS
    Lines, NumSets, NumWays, Parts,
    Scripts,              \* the request sequences to try
    numReqPerCycle, latency, numStage,
    numMSHREntry, writeBufferCapacity, maxInflightFetch, maxInflightEviction,
    BufCap,               \* capacity of each internal buffer (2 * numReqPerCycle)
    SenderCap, PortCap,   \* sender buffers and ports
    FlushKinds,           \* what the command processor sends: "flush", "shootdown"
    MaxFlush,             \* bound: flushes in a run
    Rejects,              \* which connections may refuse: "top", "bottom"
    ShootdownWhenQuiet    \* shootdowns come only to a cache with nothing in flight

MaxReq  == CHOOSE n \in {Len(s) : s \in Scripts} : \A s \in Scripts : Len(s) <= n
Reqs    == 1..MaxReq
Sets    == 0..(NumSets - 1)
Blocks  == Sets \X (1..NumWays)
Data    == [Parts -> 0..MaxReq]
Lanes   == 1..numReqPerCycle
Zero    == [p \in Parts |-> 0]
None    == 0

\* The transaction with which the flusher evicts block b.
FlushId(b) == MaxReq + b[1] * NumWays + b[2]
Trans   == 1..(MaxReq + NumSets * NumWays)

SetOf(line) == line % NumSets

VARIABLES
    script, issued, topIn, rsp, delivered, before, discarded,     \* requester
    pipeline, lookup, dirToBank, wbToBank, bank, cycleLeft,       \* stages
    mshrBuf, processing, wbBuf, topOut, bottomOut, bottomIn,
    action, block, epochOf, evictingAddr, evictingMask,           \* transactions
    inFlight,
    blocks, LRUQueue, storage, epoch, mshr, Requests, dataRef,    \* directory, MSHR
    buf, masks,
    pendingEvictions, inflightFetch, inflightEviction,            \* write buffer
    below, memory,                                                \* lower memory
    state, processingFlush, blockToEvict, ctrlIn, ctrlOut, cp, flushes,
    stage, rep, panic

reqVars   == <<script, issued, topIn, rsp, delivered, before, discarded>>
pipeVars  == <<pipeline, lookup>>
bankVars  == <<dirToBank, wbToBank, bank, cycleLeft>>
sendVars  == <<topOut, bottomOut, bottomIn>>
mshrVars  == <<mshrBuf, processing, mshr, Requests, dataRef>>
transVars == <<action, block, epochOf, evictingAddr, evictingMask, inFlight>>
dirVars   == <<blocks, LRUQueue, storage, epoch>>
heapVars  == <<buf, masks>>
wbVars    == <<wbBuf, pendingEvictions, inflightFetch, inflightEviction>>
memVars   == <<below, memory>>
flushVars == <<state, processingFlush, blockToEvict>>
ctrlVars  == <<ctrlIn, ctrlOut, cp, flushes>>
tickVars  == <<stage, rep>>
vars == <<reqVars, pipeVars, bankVars, sendVars, mshrVars, transVars, dirVars, heapVars,
          wbVars, memVars, flushVars, ctrlVars, tickVars, panic>>

EmptyBlock == [tag |-> None, valid |-> FALSE, dirty |-> FALSE, locked |-> FALSE, reads |-> 0,
               mask |-> None, meta |-> FALSE, sectorValid |-> {}, sectorDirty |-> {}]
InitLRU == [s \in Sets |-> [w \in 1..NumWays |-> <<s, w>>]]

Init ==
    /\ script \in Scripts /\ issued = 0 /\ topIn = <<>> /\ rsp = [t \in Reqs |-> Zero]
    /\ delivered = {} /\ before = [t \in Reqs |-> {}] /\ discarded = {}
    /\ pipeline = [lane \in Lanes |-> [i \in 1..numStage |-> None]] /\ lookup = <<>>
    /\ dirToBank = <<>> /\ wbToBank = <<>> /\ bank = None /\ cycleLeft = 0
    /\ mshrBuf = <<>> /\ processing = None /\ wbBuf = <<>>
    /\ topOut = <<>> /\ bottomOut = <<>> /\ bottomIn = <<>>
    /\ action = [t \in Trans |-> "none"] /\ block = [t \in Trans |-> <<0, 1>>]
    /\ epochOf = [t \in Trans |-> 0] /\ evictingAddr = [t \in Trans |-> None]
    /\ evictingMask = [t \in Trans |-> None] /\ inFlight = {}
    /\ blocks = [b \in Blocks |-> EmptyBlock] /\ LRUQueue = InitLRU
    /\ storage = [b \in Blocks |-> Zero] /\ epoch = 0
    /\ mshr = {} /\ Requests = [t \in Trans |-> <<>>]
    /\ dataRef = [t \in Trans |-> <<"fetch", t>>]
    /\ buf = [r \in {"fetch", "evict"} \X Trans |-> Zero] /\ masks = [t \in Trans |-> {}]
    /\ pendingEvictions = <<>> /\ inflightFetch = <<>> /\ inflightEviction = <<>>
    /\ below = [l \in Lines |-> <<>>] /\ memory = [l \in Lines |-> Zero]
    /\ state = "running" /\ processingFlush = "none" /\ blockToEvict = <<>>
    /\ ctrlIn = <<>> /\ ctrlOut = <<>> /\ cp = "idle" /\ flushes = 0
    /\ stage = "env" /\ rep = 0 /\ panic = "none"

-----------------------------------------------------------------------------
\* Requests.  A request reads or writes the sectors in range; a write changes
\* those in dirty (its DirtyMask), all of range when it has no mask.
IsRead(t)   == script[t].op = "read"
LineOf(t)   == script[t].line
DirtyOf(t)  == script[t].dirty
RangeOf(t)  == script[t].range
isWritingFullLine(t) == ~IsRead(t) /\ RangeOf(t) = Parts /\ DirtyOf(t) = Parts
canCompleteWriteWithoutFetch(t) == DirtyOf(t) = RangeOf(t)

\* What data is after write t.
Overlay(data, t) == [p \in Parts |-> IF p \in DirtyOf(t) THEN t ELSE data[p]]

\* Sector metadata of a block, made from its valid and dirty bits when missing.
ensureSectorMetadata(b) ==
    IF b.meta THEN b
    ELSE [b EXCEPT !.meta = TRUE,
                   !.sectorValid = IF b.valid THEN Parts ELSE {},
                   !.sectorDirty = IF b.dirty THEN Parts ELSE {}]
sectorsValidForAccess(b, range) == range \subseteq ensureSectorMetadata(b).sectorValid
markSectorsValid_None(b, range) == ensureSectorMetadata(b)

markSectorsValid(b, range) ==
    LET e == ensureSectorMetadata(b) IN [e EXCEPT !.sectorValid = @ \cup range]
markSectorsDirty(b, range) ==
    LET e == ensureSectorMetadata(b) IN [e EXCEPT !.sectorDirty = @ \cup range]
refreshLineDirtyFromSectors(b) == [b EXCEPT !.dirty = b.sectorDirty # {}]

\* Directory and MSHR.
WaysOf(line) == {SetOf(line)} \X (1..NumWays)
Lookup(line) == {b \in WaysOf(line) : blocks[b].valid /\ blocks[b].tag = line}
FindVictim(line) ==
    LET q == LRUQueue[SetOf(line)]
        empty == SelectInSeq(q, LAMBDA b : ~blocks[b].valid /\ ~blocks[b].locked)
        free  == SelectInSeq(q, LAMBDA b : ~blocks[b].locked)
    IN  IF empty # 0 THEN q[empty] ELSE IF free # 0 THEN q[free] ELSE q[1]
Visit(b) == LRUQueue' = [LRUQueue EXCEPT ![b[1]] = Append(Remove(@, b), b)]
Query(line) == {e \in mshr : LineOf(e) = line}
MSHRFull == Cardinality(mshr) >= numMSHREntry

\* The block of t, replaced by b.  A reset of the directory makes new blocks:
\* a transaction that still points to an old one no longer changes them.
SetBlock(t, b) ==
    blocks' = IF epochOf[t] = epoch THEN [blocks EXCEPT ![block[t]] = b] ELSE blocks

Panic(why) ==
    /\ panic' = why
    /\ UNCHANGED <<reqVars, pipeVars, bankVars, sendVars, mshrVars, transVars, dirVars,
                   heapVars, wbVars, memVars, flushVars, ctrlVars, tickVars>>

\* The stage that runs next; runStage runs each stage numReqPerCycle times,
\* and one tick of the write buffer is write, processReturnRsp and
\* processNewTransaction.
Following == [top |-> "bottom", bottom |-> "mshr", mshr |-> "bank", bank |-> "write",
              write |-> "return", return |-> "new", new |-> "dir", dir |-> "pipe",
              pipe |-> "parse", parse |-> "flush"]
Again == [s \in DOMAIN Following |-> IF s = "new" THEN "write" ELSE s]
runStage ==
    LET onceMore == stage \notin {"write", "return", "pipe"} /\ rep + 1 < numReqPerCycle
        within   == stage \in {"write", "return"}
    IN  /\ stage' = IF onceMore THEN Again[stage] ELSE Following[stage]
        /\ rep' = IF onceMore THEN rep + 1 ELSE IF within THEN rep ELSE 0
At(s) == stage = s /\ panic = "none"
-----------------------------------------------------------------------------
\* The requester sends its next request; before remembers what it had been
\* told was done.  During a quiet shootdown it is silent.
Issue ==
    /\ At("env") /\ issued < Len(script) /\ Len(topIn) < PortCap
    /\ ShootdownWhenQuiet => cp \in {"idle", "flush"}
    /\ issued' = issued + 1
    /\ topIn' = Append(topIn, issued + 1)
    /\ before' = [before EXCEPT ![issued + 1] = delivered]
    /\ UNCHANGED <<script, rsp, delivered, discarded, pipeVars, bankVars, sendVars, mshrVars,
                   transVars, dirVars, heapVars, wbVars, memVars, flushVars, ctrlVars,
                   tickVars, panic>>

\* The lower module serves the oldest request for line l.  A write takes the
\* data and the mask from the slices the request carries.
Serve(l) ==
    /\ At("env") /\ below[l] # <<>> /\ Len(bottomIn) < PortCap
    /\ LET m == Head(below[l])
           written == IF evictingMask[m.t] = None THEN Parts ELSE masks[evictingMask[m.t]]
       IN  /\ bottomIn' = Append(bottomIn, m)
           /\ memory' = IF m.op = "read" THEN memory
                        ELSE [memory EXCEPT ![l] = [p \in Parts |->
                                 IF p \in written THEN buf[<<"evict", m.t>>][p] ELSE @[p]]]
           /\ buf' = IF m.op = "read" THEN [buf EXCEPT ![<<"fetch", m.t>>] = memory[l]] ELSE buf
    /\ below' = [below EXCEPT ![l] = Tail(@)]
    /\ UNCHANGED <<reqVars, pipeVars, bankVars, topOut, bottomOut, mshrVars, transVars, dirVars,
                   masks, wbVars, flushVars, ctrlVars, tickVars, panic>>

\* The command processor sends a flush when the last one is over.
SendFlush(kind) ==
    /\ At("env") /\ cp = "idle" /\ flushes < MaxFlush
    /\ (kind = "shootdown" /\ ShootdownWhenQuiet) => inFlight = {} /\ topIn = <<>> /\ topOut = <<>>
    /\ cp' = kind /\ flushes' = flushes + 1 /\ ctrlIn' = Append(ctrlIn, kind)
    /\ UNCHANGED <<ctrlOut, reqVars, pipeVars, bankVars, sendVars, mshrVars, transVars, dirVars,
                   heapVars, wbVars, memVars, flushVars, tickVars, panic>>

\* After a shootdown the cache is paused until the command processor restarts it.
SendRestart ==
    /\ At("env") /\ cp = "paused"
    /\ cp' = "restart" /\ ctrlIn' = Append(ctrlIn, "restart")
    /\ UNCHANGED <<flushes, ctrlOut, reqVars, pipeVars, bankVars, sendVars, mshrVars, transVars,
                   dirVars, heapVars, wbVars, memVars, flushVars, tickVars, panic>>

\* A tick begins: controlPortSender hands over one response, and a paused
\* cache runs the flusher only.
StartTick ==
    /\ At("env")
    /\ stage' = IF state = "paused" THEN "flush" ELSE "top"
    /\ ctrlOut' = IF ctrlOut = <<>> THEN ctrlOut ELSE Tail(ctrlOut)
    /\ cp' = IF ctrlOut = <<>> THEN cp ELSE IF Head(ctrlOut) = "shootdown" THEN "paused" ELSE "idle"
    /\ UNCHANGED <<rep, ctrlIn, flushes, reqVars, pipeVars, bankVars, sendVars, mshrVars,
                   transVars, dirVars, heapVars, wbVars, memVars, flushVars, panic>>
-----------------------------------------------------------------------------
\* topSender.Tick: the oldest response goes to its requester, which reads the
\* data from the slice the response carries.
TopSend ==
    /\ At("top") /\ runStage
    /\ \/ /\ topOut # <<>>
          /\ LET m == Head(topOut) IN
                /\ delivered' = delivered \cup {m.to}
                /\ rsp' = IF IsRead(m.to) THEN [rsp EXCEPT ![m.to] = buf[m.ref]] ELSE rsp
          /\ topOut' = Tail(topOut)
       \/ /\ topOut = <<>> \/ "top" \in Rejects
          /\ UNCHANGED <<delivered, rsp, topOut>>
    /\ UNCHANGED <<script, issued, topIn, before, discarded, pipeVars, bankVars, bottomOut,
                   bottomIn, mshrVars, transVars, dirVars, heapVars, wbVars, memVars, flushVars,
                   ctrlVars, panic>>

\* bottomSender.Tick.
BottomSend ==
    /\ At("bottom") /\ runStage
    /\ \/ /\ bottomOut # <<>>
          /\ below' = [below EXCEPT ![Head(bottomOut).line] = Append(@, Head(bottomOut))]
          /\ bottomOut' = Tail(bottomOut)
       \/ /\ bottomOut = <<>> \/ "bottom" \in Rejects
          /\ UNCHANGED <<below, bottomOut>>
    /\ UNCHANGED <<reqVars, pipeVars, bankVars, topOut, bottomIn, mshrVars, transVars, dirVars,
                   heapVars, wbVars, memory, flushVars, ctrlVars, panic>>

\* mshrStage.Tick: one request of the entry in process is answered, unless it
\* was discarded.
TopCanSend == Len(topOut) < SenderCap
MSHRStage ==
    /\ At("mshr") /\ runStage
    /\ LET e == IF processing # None THEN processing
                ELSE IF mshrBuf # <<>> THEN Head(mshrBuf) ELSE None
           t == Head(Requests[e])
       IN  /\ mshrBuf' = IF processing = None /\ mshrBuf # <<>> THEN Tail(mshrBuf) ELSE mshrBuf
           /\ IF e = None \/ ~TopCanSend
              THEN processing' = e /\ UNCHANGED <<Requests, topOut, inFlight>>
              ELSE /\ Requests' = [Requests EXCEPT ![e] = Tail(@)]
                   /\ processing' = IF Len(Requests[e]) = 1 THEN None ELSE e
                   /\ inFlight' = inFlight \ {t}
                   /\ topOut' = IF t \in inFlight
                                THEN Append(topOut, [to |-> t, ref |-> dataRef[e]]) ELSE topOut
    /\ UNCHANGED <<reqVars, pipeVars, bankVars, bottomOut, bottomIn, mshr, dataRef, action, block,
                   epochOf, evictingAddr, evictingMask, dirVars, heapVars, wbVars, memVars,
                   flushVars, ctrlVars, panic>>

-----------------------------------------------------------------------------
\* bankStage.Tick, one action per thing it can do.
WriteBufferCanPush == Len(wbBuf) < BufCap
MSHRStageCanPush   == Len(mshrBuf) < BufCap
Ready(actions) == At("bank") /\ bank # None /\ cycleLeft = 0 /\ action[bank] \in actions

\* The bank counts down its latency.
BankWait ==
    /\ At("bank") /\ bank # None /\ cycleLeft > 0 /\ runStage
    /\ cycleLeft' = cycleLeft - 1
    /\ UNCHANGED <<dirToBank, wbToBank, bank, reqVars, pipeVars, sendVars, mshrVars, transVars,
                   dirVars, heapVars, wbVars, memVars, flushVars, ctrlVars, panic>>

\* pullFromBuf: what the write buffer sends goes first; a fetch passes through
\* to the write buffer.
Pulled == IF wbToBank # <<>> THEN Head(wbToBank)
          ELSE IF WriteBufferCanPush /\ dirToBank # <<>> THEN Head(dirToBank) ELSE None
BankPull ==
    /\ At("bank") /\ bank = None /\ runStage
    /\ LET passes == Pulled # None /\ wbToBank = <<>> /\ action[Pulled] = "writeBufferFetch" IN
          /\ wbToBank' = IF wbToBank # <<>> THEN Tail(wbToBank) ELSE wbToBank
          /\ dirToBank' = IF wbToBank = <<>> /\ Pulled # None THEN Tail(dirToBank) ELSE dirToBank
          /\ wbBuf' = IF passes THEN Append(wbBuf, Pulled) ELSE wbBuf
          /\ bank' = IF passes THEN None ELSE Pulled
          /\ cycleLeft' = IF bank' = None THEN cycleLeft ELSE latency
    /\ UNCHANGED <<reqVars, pipeVars, sendVars, mshrVars, transVars, dirVars, heapVars,
                   pendingEvictions, inflightFetch, inflightEviction, memVars, flushVars,
                   ctrlVars, panic>>

\* The transaction cannot be finalized and is tried again.
Finalizable ==
    CASE action[bank] \in {"bankReadHit", "bankWriteHit"} -> TopCanSend
      [] action[bank] = "bankWriteFetched" -> MSHRStageCanPush
      [] OTHER -> WriteBufferCanPush
BankStall ==
    /\ At("bank") /\ bank # None /\ cycleLeft = 0 /\ ~Finalizable /\ runStage
    /\ UNCHANGED <<reqVars, pipeVars, bankVars, sendVars, mshrVars, transVars, dirVars, heapVars,
                   wbVars, memVars, flushVars, ctrlVars, panic>>

\* removeTransaction panics on a transaction that is not in flight.
Answer ==
    /\ bank' = None
    /\ inFlight' = inFlight \ {bank}
    /\ topOut' = Append(topOut, [to |-> bank, ref |-> <<"fetch", bank>>])

finalizeReadHit ==
    /\ Ready({"bankReadHit"}) /\ TopCanSend
    /\ IF bank \notin inFlight THEN Panic("transaction not found") ELSE
          /\ runStage /\ Answer
          /\ buf' = [buf EXCEPT ![<<"fetch", bank>>] = storage[block[bank]]]
          /\ LET b == blocks[block[bank]] IN
                SetBlock(bank, markSectorsValid([b EXCEPT !.reads = @ - 1], RangeOf(bank)))
          /\ UNCHANGED <<dirToBank, wbToBank, cycleLeft, reqVars, pipeVars, bottomOut, bottomIn,
                         mshrVars, action, block, epochOf, evictingAddr, evictingMask, LRUQueue,
                         storage, epoch, masks, wbVars, memVars, flushVars, ctrlVars, panic>>

\* The dirty mask of a block is changed in place; only a block without one
\* gets a new mask.
MaskOf(b, t) == IF b.mask = None THEN t ELSE b.mask
Written(b, range) ==
    refreshLineDirtyFromSectors(markSectorsDirty(
        markSectorsValid([b EXCEPT !.valid = TRUE, !.locked = FALSE], range), range))
finalizeWriteHit ==
    /\ Ready({"bankWriteHit"}) /\ TopCanSend
    /\ IF bank \notin inFlight THEN Panic("transaction not found") ELSE
          /\ runStage /\ Answer
          /\ storage' = [storage EXCEPT ![block[bank]] = Overlay(@, bank)]
          /\ LET b == blocks[block[bank]]
                 m == MaskOf(b, bank)
             IN  /\ SetBlock(bank, [Written(b, RangeOf(bank)) EXCEPT !.mask = m])
                 /\ masks' = [masks EXCEPT ![m] = (IF b.mask = None THEN {} ELSE @) \cup DirtyOf(bank)]
          /\ UNCHANGED <<dirToBank, wbToBank, cycleLeft, reqVars, pipeVars, bottomOut, bottomIn,
                         mshrVars, action, block, epochOf, evictingAddr, evictingMask, LRUQueue,
                         epoch, buf, wbVars, memVars, flushVars, ctrlVars, panic>>

Fetched_Locked(b) == markSectorsValid([b EXCEPT !.valid = TRUE], Parts)
Fetched(b) == markSectorsValid([b EXCEPT !.locked = FALSE, !.valid = TRUE], Parts)
finalizeBankWriteFetched ==
    /\ Ready({"bankWriteFetched"}) /\ MSHRStageCanPush /\ runStage
    /\ mshrBuf' = Append(mshrBuf, bank)
    /\ storage' = [storage EXCEPT ![block[bank]] = buf[dataRef[bank]]]
    /\ SetBlock(bank, Fetched(blocks[block[bank]]))
    /\ bank' = None
    /\ UNCHANGED <<dirToBank, wbToBank, cycleLeft, reqVars, pipeVars, sendVars, processing, mshr,
                   Requests, dataRef, transVars, LRUQueue, epoch, heapVars, wbVars, memVars,
                   flushVars, ctrlVars, panic>>

ToWriteBuffer == [bankEvict |-> "writeBufferFlush", bankEvictAndFetch |-> "writeBufferEvictAndFetch",
                  bankEvictAndWrite |-> "writeBufferEvictAndWrite"]
finalizeBankEviction ==
    /\ Ready(DOMAIN ToWriteBuffer) /\ WriteBufferCanPush /\ runStage
    /\ buf' = [buf EXCEPT ![<<"evict", bank>>] = storage[block[bank]]]
    /\ action' = [action EXCEPT ![bank] = ToWriteBuffer[@]]
    /\ wbBuf' = Append(wbBuf, bank)
    /\ bank' = None
    /\ UNCHANGED <<dirToBank, wbToBank, cycleLeft, reqVars, pipeVars, sendVars, mshrVars, block,
                   epochOf, evictingAddr, evictingMask, inFlight, dirVars, masks,
                   pendingEvictions, inflightFetch, inflightEviction, memVars, flushVars,
                   ctrlVars, panic>>
-----------------------------------------------------------------------------
\* writeBufferStage.write: the oldest pending eviction goes down.
BottomCanSend == Len(bottomOut) < SenderCap
Write ==
    /\ At("write") /\ runStage
    /\ IF pendingEvictions # <<>> /\ Len(inflightEviction) < maxInflightEviction /\ BottomCanSend
       THEN LET t == Head(pendingEvictions) IN
            /\ bottomOut' = Append(bottomOut, [op |-> "write", t |-> t, line |-> evictingAddr[t]])
            /\ pendingEvictions' = Tail(pendingEvictions)
            /\ inflightEviction' = Append(inflightEviction, t)
       ELSE UNCHANGED <<bottomOut, pendingEvictions, inflightEviction>>
    /\ UNCHANGED <<reqVars, pipeVars, bankVars, topOut, bottomIn, mshrVars, transVars, dirVars,
                   heapVars, wbBuf, inflightFetch, memVars, flushVars, ctrlVars, panic>>

\* combineData: the writes that wait in entry e are put over the data, in the
\* slice ref itself, and the block gets a new dirty mask; the entry leaves the
\* MSHR and its transaction goes to the bank.
WritesOf(e) == {t \in Range(Requests[e]) : ~IsRead(t)}
Combined_Dropped(e, data) == data
Combined(e, data) == FoldLeft(LAMBDA d, t : IF IsRead(t) THEN d ELSE Overlay(d, t), data, Requests[e])
Combine(e, ref, data) ==
    LET ranges == UNION {RangeOf(t) : t \in WritesOf(e)}
        b == ensureSectorMetadata(blocks[block[e]])
        combined == markSectorsDirty(markSectorsValid(b, ranges), ranges)
    IN  /\ buf' = [buf EXCEPT ![ref] = Combined(e, data)]
        /\ masks' = [masks EXCEPT ![e] = UNION {DirtyOf(t) : t \in WritesOf(e)}]
        /\ SetBlock(e, [refreshLineDirtyFromSectors(combined) EXCEPT !.mask = e])
EntriesAfter(e) == mshr \ {e}
ToBank(e, ref) ==
    /\ Combine(e, ref, buf[ref])
    /\ dataRef' = [dataRef EXCEPT ![e] = ref]
    /\ action' = [action EXCEPT ![e] = "bankWriteFetched"]
    /\ mshr' = EntriesAfter(e)
    /\ wbToBank' = Append(wbToBank, e)
BankCanPush(q) == Len(q) < BufCap

\* processReturnRsp: a fetched line or the end of an eviction.
processDataReadyRsp ==
    /\ At("return") /\ bottomIn # <<>> /\ Head(bottomIn).op = "read" /\ BankCanPush(wbToBank)
    /\ LET t == Head(bottomIn).t IN
          IF t \notin Range(inflightFetch) THEN Panic("inflight read not found")
          ELSE IF t \notin mshr THEN Panic("trying to remove an non-exist entry") ELSE
             /\ runStage
             /\ ToBank(t, <<"fetch", t>>)
             /\ inflightFetch' = Remove(inflightFetch, t)
             /\ bottomIn' = Tail(bottomIn)
             /\ UNCHANGED <<reqVars, pipeVars, dirToBank, bank, cycleLeft, topOut, bottomOut,
                            mshrBuf, processing, Requests, block, epochOf, evictingAddr,
                            evictingMask, inFlight, LRUQueue, storage, epoch, wbBuf,
                            pendingEvictions, inflightEviction, memVars, flushVars, ctrlVars,
                            panic>>

EvictionsAfter_Kept(t) == inflightEviction
EvictionsAfter(t) == Remove(inflightEviction, t)
processWriteDoneRsp ==
    /\ At("return") /\ bottomIn # <<>> /\ Head(bottomIn).op = "write"
    /\ LET t == Head(bottomIn).t IN
          IF t \notin Range(inflightEviction) THEN Panic("write request not found") ELSE
             /\ runStage
             /\ inflightEviction' = EvictionsAfter(t)
             /\ bottomIn' = Tail(bottomIn)
             /\ UNCHANGED <<reqVars, pipeVars, bankVars, topOut, bottomOut, mshrVars, transVars,
                            dirVars, heapVars, wbBuf, pendingEvictions, inflightFetch, memVars,
                            flushVars, ctrlVars, panic>>

NothingReturned ==
    /\ At("return") /\ runStage
    /\ IF bottomIn = <<>> THEN TRUE ELSE Head(bottomIn).op = "read" /\ ~BankCanPush(wbToBank)
    /\ UNCHANGED <<reqVars, pipeVars, bankVars, sendVars, mshrVars, transVars, dirVars, heapVars,
                   wbVars, memVars, flushVars, ctrlVars, panic>>

\* processNewTransaction works on the oldest transaction of the buffer.
WriteBufferFull == Len(pendingEvictions) + Len(inflightEviction) >= writeBufferCapacity
New(actions) == At("new") /\ wbBuf # <<>> /\ action[Head(wbBuf)] \in actions

\* findDataLocally takes the first eviction of the line, those in flight first.
LocalEvictions(t) == SelectSeq(inflightEviction \o pendingEvictions,
                               LAMBDA e : evictingAddr[e] = LineOf(t))
FoundLocally(t) == LocalEvictions(t) # <<>>
LocalData(t) == <<"evict", Head(LocalEvictions(t))>>

sendFetchedDataToBank ==
    /\ New({"writeBufferFetch"}) /\ FoundLocally(Head(wbBuf)) /\ BankCanPush(wbToBank)
    /\ LET t == Head(wbBuf) IN
          IF t \notin mshr THEN Panic("trying to remove an non-exist entry") ELSE
             /\ runStage /\ ToBank(t, LocalData(t))
             /\ wbBuf' = Tail(wbBuf)
             /\ UNCHANGED <<reqVars, pipeVars, dirToBank, bank, cycleLeft, sendVars, mshrBuf,
                            processing, Requests, block, epochOf, evictingAddr, evictingMask,
                            inFlight, LRUQueue, storage, epoch, pendingEvictions, inflightFetch,
                            inflightEviction, memVars, flushVars, ctrlVars, panic>>

FetchAllowed == Len(inflightFetch) < maxInflightFetch /\ BottomCanSend
fetchFromBottom ==
    /\ New({"writeBufferFetch"}) /\ ~FoundLocally(Head(wbBuf)) /\ FetchAllowed /\ runStage
    /\ LET t == Head(wbBuf) IN
          /\ bottomOut' = Append(bottomOut, [op |-> "read", t |-> t, line |-> LineOf(t)])
          /\ inflightFetch' = Append(inflightFetch, t)
    /\ wbBuf' = Tail(wbBuf)
    /\ UNCHANGED <<reqVars, pipeVars, bankVars, topOut, bottomIn, mshrVars, transVars, dirVars,
                   heapVars, pendingEvictions, inflightEviction, memVars, flushVars, ctrlVars,
                   panic>>

\* The eviction is queued and the transaction goes on: a full-line write to
\* the bank, a fetch stays at the head of the buffer, a flush is done.
Evicts == {"writeBufferEvictAndWrite", "writeBufferEvictAndFetch", "writeBufferFlush"}
queueEviction ==
    /\ New(Evicts) /\ ~WriteBufferFull /\ runStage
    /\ LET t == Head(wbBuf)
           writes  == action[t] = "writeBufferEvictAndWrite"
           fetches == action[t] = "writeBufferEvictAndFetch"
       IN  /\ writes => BankCanPush(wbToBank)
           /\ pendingEvictions' = Append(pendingEvictions, t)
           /\ action' = [action EXCEPT ![t] = IF writes THEN "bankWriteHit"
                                              ELSE IF fetches THEN "writeBufferFetch" ELSE @]
           /\ wbToBank' = IF writes THEN Append(wbToBank, t) ELSE wbToBank
           /\ wbBuf' = IF fetches THEN wbBuf ELSE Tail(wbBuf)
    /\ UNCHANGED <<reqVars, pipeVars, dirToBank, bank, cycleLeft, sendVars, mshrVars, block,
                   epochOf, evictingAddr, evictingMask, inFlight, dirVars, heapVars,
                   inflightFetch, inflightEviction, memVars, flushVars, ctrlVars, panic>>

NothingNew ==
    /\ At("new") /\ runStage
    /\ IF wbBuf = <<>> THEN TRUE ELSE
          LET t == Head(wbBuf) IN
             CASE action[t] = "writeBufferFetch" ->
                     IF FoundLocally(t) THEN ~BankCanPush(wbToBank) ELSE ~FetchAllowed
               [] action[t] = "writeBufferEvictAndWrite" -> WriteBufferFull \/ ~BankCanPush(wbToBank)
               [] OTHER -> WriteBufferFull
    /\ UNCHANGED <<reqVars, pipeVars, bankVars, sendVars, mshrVars, transVars, dirVars, heapVars,
                   wbVars, memVars, flushVars, ctrlVars, panic>>
-----------------------------------------------------------------------------
\* directoryStage.Tick.  Decision is what doRead or doWrite comes to for t,
\* with the block it is about.
needEviction(b) == blocks[b].valid /\ blocks[b].dirty

Busy(t, b) == blocks[b].locked \/ (~IsRead(t) /\ blocks[b].reads > 0)
OnHit(t, b) ==
    IF Busy(t, b) THEN "stall"
    ELSE IF IsRead(t) THEN IF sectorsValidForAccess(blocks[b], RangeOf(t)) THEN "read" ELSE "fetch"
    ELSE IF sectorsValidForAccess(blocks[b], RangeOf(t)) \/ canCompleteWriteWithoutFetch(t)
         THEN "write" ELSE "fetch"
OnMiss_NoMSHRCheck(t, b) ==
    IF blocks[b].locked \/ blocks[b].reads > 0 THEN "stall"
    ELSE IF needEviction(b) THEN "evict"
    ELSE IF isWritingFullLine(t) THEN "write" ELSE "fetch"

OnMiss(t, b) ==
    IF (~isWritingFullLine(t) /\ MSHRFull) \/ blocks[b].locked \/ blocks[b].reads > 0 THEN "stall"
    ELSE IF needEviction(b) THEN "evict"
    ELSE IF isWritingFullLine(t) THEN "write" ELSE "fetch"
Decision(t) ==
    LET hits == Lookup(LineOf(t))
        hit == CHOOSE b \in hits : \A c \in hits : b[2] <= c[2]
        victim == FindVictim(LineOf(t))
    IN  IF Query(LineOf(t)) # {} THEN <<"join", victim>>
        ELSE IF hits # {} THEN <<OnHit(t, hit), hit>> ELSE <<OnMiss(t, victim), victim>>

Decides(d) == /\ At("dir") /\ lookup # <<>> /\ Decision(Head(lookup))[1] = d
              /\ d # "join" => BankCanPush(dirToBank)

\* handleReadMSHRHit, doWriteMSHRHit.
JoinEntry ==
    /\ Decides("join") /\ runStage
    /\ LET e == CHOOSE e \in Query(LineOf(Head(lookup))) : TRUE IN
          Requests' = [Requests EXCEPT ![e] = Append(@, Head(lookup))]
    /\ lookup' = Tail(lookup)
    /\ UNCHANGED <<reqVars, pipeline, bankVars, sendVars, mshrBuf, processing, mshr, dataRef,
                   transVars, dirVars, heapVars, wbVars, memVars, flushVars, ctrlVars, panic>>

\* The transaction at the head of the lookup buffer goes to the bank with an
\* action and a block.
Send(act, b) ==
    LET t == Head(lookup) IN
    /\ action' = [action EXCEPT ![t] = act]
    /\ block' = [block EXCEPT ![t] = b]
    /\ epochOf' = [epochOf EXCEPT ![t] = epoch]
    /\ lookup' = Tail(lookup)
    /\ dirToBank' = Append(dirToBank, t)

readFromBank ==
    /\ Decides("read") /\ runStage
    /\ LET b == Decision(Head(lookup))[2] IN
          /\ Send("bankReadHit", b) /\ Visit(b)
          /\ blocks' = [blocks EXCEPT ![b] = [ensureSectorMetadata(@) EXCEPT !.reads = @ + 1]]
    /\ UNCHANGED <<reqVars, pipeline, wbToBank, bank, cycleLeft, sendVars, mshrVars,
                   evictingAddr, evictingMask, inFlight, storage, epoch, heapVars, wbVars,
                   memVars, flushVars, ctrlVars, panic>>

writeToBank ==
    /\ Decides("write") /\ runStage
    /\ LET b == Decision(Head(lookup))[2] IN
          /\ Send("bankWriteHit", b) /\ Visit(b)
          /\ blocks' = [blocks EXCEPT ![b] = [@ EXCEPT !.locked = TRUE, !.valid = TRUE,
                                                       !.tag = LineOf(Head(lookup))]]
    /\ UNCHANGED <<reqVars, pipeline, wbToBank, bank, cycleLeft, sendVars, mshrVars,
                   evictingAddr, evictingMask, inFlight, storage, epoch, heapVars, wbVars,
                   memVars, flushVars, ctrlVars, panic>>

\* mshr.Add, with its panic; the entry is known by the transaction that made it.
AddEntry(t) ==
    /\ mshr' = mshr \cup {t}
    /\ Requests' = [Requests EXCEPT ![t] = <<t>>]

evict ==
    /\ Decides("evict") /\ runStage
    /\ LET t == Head(lookup)
           b == Decision(t)[2]
       IN  /\ Send(IF isWritingFullLine(t) THEN "bankEvictAndWrite" ELSE "bankEvictAndFetch", b)
           /\ evictingAddr' = [evictingAddr EXCEPT ![t] = blocks[b].tag]
           /\ evictingMask' = [evictingMask EXCEPT ![t] = blocks[b].mask]
           /\ IF isWritingFullLine(t) THEN UNCHANGED <<mshr, Requests>> ELSE AddEntry(t)
           /\ blocks' = [blocks EXCEPT ![b] = [@ EXCEPT !.tag = LineOf(t), !.locked = TRUE,
                              !.dirty = FALSE, !.meta = TRUE, !.sectorValid = {},
                              !.sectorDirty = {}]]
    /\ UNCHANGED <<reqVars, pipeline, wbToBank, bank, cycleLeft, sendVars, mshrBuf, processing,
                   dataRef, inFlight, LRUQueue, storage, epoch, heapVars, wbVars, memVars,
                   flushVars, ctrlVars, panic>>

fetch ==
    /\ Decides("fetch")
    /\ LET t == Head(lookup)
           b == Decision(t)[2]
       IN  IF MSHRFull THEN Panic("MSHR is full") ELSE
              /\ runStage /\ Send("writeBufferFetch", b) /\ Visit(b) /\ AddEntry(t)
              /\ blocks' = [blocks EXCEPT ![b] = ensureSectorMetadata(
                                [@ EXCEPT !.locked = TRUE, !.tag = LineOf(t), !.valid = TRUE])]
              /\ UNCHANGED <<reqVars, pipeline, wbToBank, bank, cycleLeft, sendVars, mshrBuf,
                             processing, dataRef, evictingAddr, evictingMask, inFlight, storage,
                             epoch, heapVars, wbVars, memVars, flushVars, ctrlVars, panic>>

DirectoryStall ==
    /\ At("dir") /\ runStage
    /\ IF lookup = <<>> THEN TRUE
       ELSE LET d == Decision(Head(lookup))[1] IN
               d = "stall" \/ (d # "join" /\ ~BankCanPush(dirToBank))
    /\ UNCHANGED <<reqVars, pipeVars, bankVars, sendVars, mshrVars, transVars, dirVars, heapVars,
                   wbVars, memVars, flushVars, ctrlVars, panic>>

-----------------------------------------------------------------------------
\* pipeline.Tick: lane after lane, the last stage moves to the lookup buffer
\* while that has room, and an earlier stage to the next one when it is free.
Leaving == {lane \in Lanes : pipeline[lane][numStage] # None}
Emitting == {lane \in Leaving :
                Len(lookup) + Cardinality({k \in Leaving : k < lane}) < BufCap}
Moves(lane, i) == /\ pipeline[lane][i] # None
                  /\ lane \in Emitting \/ \E k \in (i + 1)..numStage : pipeline[lane][k] = None
PipelineTick ==
    /\ At("pipe") /\ runStage
    /\ lookup' = lookup \o [i \in 1..Cardinality(Emitting) |->
                               pipeline[SetToSortSeq(Emitting, <)[i]][numStage]]
    /\ pipeline' = [lane \in Lanes |-> [i \in 1..numStage |->
                       IF i > 1 /\ Moves(lane, i - 1) THEN pipeline[lane][i - 1]
                       ELSE IF Moves(lane, i) THEN None ELSE pipeline[lane][i]]]
    /\ UNCHANGED <<reqVars, bankVars, sendVars, mshrVars, transVars, dirVars, heapVars, wbVars,
                   memVars, flushVars, ctrlVars, panic>>

\* topParser.Tick: a running cache takes a request into the first free lane.
FreeLanes == {lane \in Lanes : pipeline[lane][1] = None}
TopParser ==
    /\ At("parse") /\ runStage
    /\ IF state = "running" /\ topIn # <<>> /\ FreeLanes # {}
       THEN LET lane == CHOOSE l \in FreeLanes : \A k \in FreeLanes : l <= k IN
            /\ pipeline' = [pipeline EXCEPT ![lane][1] = Head(topIn)]
            /\ inFlight' = inFlight \cup {Head(topIn)}
            /\ topIn' = Tail(topIn)
       ELSE UNCHANGED <<pipeline, inFlight, topIn>>
    /\ UNCHANGED <<script, issued, rsp, delivered, before, discarded, lookup, bankVars, sendVars,
                   mshrVars, action, block, epochOf, evictingAddr, evictingMask, dirVars,
                   heapVars, wbVars, memVars, flushVars, ctrlVars, panic>>
-----------------------------------------------------------------------------
\* flusher.Tick, the last thing of a tick.
FlusherTurn == At("flush") /\ stage' = "env" /\ UNCHANGED rep
InState(s) == processingFlush # "none" /\ state = s
BlockOrder == SetToSortSeq(Blocks, LAMBDA b, c : FlushId(b) < FlushId(c))

\* processPreFlushing: once nothing is in flight the dirty blocks are listed.
processPreFlushing ==
    /\ At("flush") /\ InState("preFlushing") /\ inFlight = {}
    /\ IF \E b \in Blocks : blocks[b].locked \/ blocks[b].reads > 0
       THEN Panic("all the blocks should be unlocked before flushing")
       ELSE /\ FlusherTurn
            /\ blockToEvict' = blockToEvict \o SelectSeq(BlockOrder, needEviction)
            /\ state' = "flushing"
            /\ UNCHANGED <<processingFlush, reqVars, pipeVars, bankVars, sendVars, mshrVars,
                           transVars, dirVars, heapVars, wbVars, memVars, ctrlVars, panic>>

\* processFlush: the next dirty block goes to the bank.
processFlush ==
    /\ FlusherTurn /\ InState("flushing") /\ blockToEvict # <<>> /\ BankCanPush(dirToBank)
    /\ LET b == Head(blockToEvict)
           t == FlushId(b)
       IN  /\ action' = [action EXCEPT ![t] = "bankEvict"]
           /\ block' = [block EXCEPT ![t] = b]
           /\ evictingAddr' = [evictingAddr EXCEPT ![t] = blocks[b].tag]
           /\ evictingMask' = [evictingMask EXCEPT ![t] = blocks[b].mask]
           /\ dirToBank' = Append(dirToBank, t)
    /\ blockToEvict' = Tail(blockToEvict)
    /\ UNCHANGED <<state, processingFlush, wbToBank, bank, cycleLeft, epochOf, inFlight, reqVars,
                   pipeVars, sendVars, mshrVars, dirVars, heapVars, wbVars, memVars, ctrlVars,
                   panic>>

\* finalizeFlushing: the flush is answered, MSHR and directory start afresh.
flushCompleted_NoEvictions ==
    blockToEvict = <<>> /\ dirToBank = <<>> /\ bank = None /\ wbBuf = <<>> /\ inflightFetch = <<>>

flushCompleted ==
    /\ blockToEvict = <<>> /\ dirToBank = <<>> /\ bank = None /\ wbBuf = <<>>
    /\ inflightFetch = <<>> /\ inflightEviction = <<>> /\ pendingEvictions = <<>>
CtrlCanSend == Len(ctrlOut) < SenderCap
finalizeFlushing ==
    /\ FlusherTurn /\ InState("flushing") /\ flushCompleted /\ CtrlCanSend
    /\ ctrlOut' = Append(ctrlOut, processingFlush)
    /\ mshr' = {}
    /\ blocks' = [b \in Blocks |-> EmptyBlock] /\ LRUQueue' = InitLRU /\ epoch' = epoch + 1
    /\ state' = IF processingFlush = "shootdown" THEN "paused" ELSE "running"
    /\ processingFlush' = "none"
    /\ UNCHANGED <<blockToEvict, ctrlIn, cp, flushes, mshrBuf, processing, Requests, dataRef,
                   storage, reqVars, pipeVars, bankVars, sendVars, transVars, heapVars, wbVars,
                   memVars, panic>>

\* startProcessingFlush of a flush that keeps what is in flight.
FlusherFree == ~InState("preFlushing") /\ ~InState("flushing") /\ ctrlIn # <<>>
startProcessingFlush ==
    /\ FlusherTurn /\ FlusherFree /\ Head(ctrlIn) = "flush"
    /\ processingFlush' = "flush" /\ state' = "preFlushing" /\ ctrlIn' = Tail(ctrlIn)
    /\ UNCHANGED <<blockToEvict, ctrlOut, cp, flushes, reqVars, pipeVars, bankVars, sendVars,
                   mshrVars, transVars, dirVars, heapVars, wbVars, memVars, panic>>

\* startProcessingFlush with DiscardInflight: discardInflightTransactions
\* resets the stages' buffers; the pipeline and its lookup buffer are not
\* among them.
discardInflightTransactions ==
    /\ FlusherTurn /\ FlusherFree /\ Head(ctrlIn) = "shootdown"
    /\ processingFlush' = "shootdown" /\ state' = "preFlushing" /\ ctrlIn' = Tail(ctrlIn)
    /\ blocks' = [b \in Blocks |-> [blocks[b] EXCEPT !.reads = 0, !.locked = FALSE]]
    /\ dirToBank' = <<>> /\ bank' = None /\ processing' = None /\ mshrBuf' = <<>> /\ wbBuf' = <<>>
    /\ discarded' = discarded \cup inFlight \cup Range(topIn) \cup {topOut[i].to : i \in DOMAIN topOut}
    /\ topIn' = <<>> /\ topOut' = <<>> /\ inFlight' = {}
    /\ UNCHANGED <<blockToEvict, ctrlOut, cp, flushes, wbToBank, cycleLeft, mshr, Requests,
                   dataRef, script, issued, rsp, delivered, before, pipeVars, bottomOut, bottomIn,
                   action, block, epochOf, evictingAddr, evictingMask, LRUQueue, storage, epoch,
                   heapVars, pendingEvictions, inflightFetch, inflightEviction, memVars, panic>>

\* handleCacheRestart.
handleCacheRestart ==
    /\ FlusherTurn /\ FlusherFree /\ Head(ctrlIn) = "restart" /\ CtrlCanSend
    /\ ctrlOut' = Append(ctrlOut, "restart") /\ ctrlIn' = Tail(ctrlIn) /\ state' = "running"
    /\ discarded' = discarded \cup Range(topIn)
    /\ topIn' = <<>> /\ bottomIn' = <<>>
    /\ UNCHANGED <<processingFlush, blockToEvict, cp, flushes, script, issued, rsp, delivered,
                   before, pipeVars, bankVars, topOut, bottomOut, mshrVars, transVars, dirVars,
                   heapVars, wbVars, memVars, panic>>

FlusherIdle ==
    /\ FlusherTurn
    /\ \/ InState("preFlushing") /\ inFlight # {}
       \/ /\ InState("flushing")
          /\ IF blockToEvict # <<>> THEN ~BankCanPush(dirToBank) ELSE ~(flushCompleted /\ CtrlCanSend)
       \/ /\ processingFlush = "none"
          /\ IF ctrlIn = <<>> THEN TRUE ELSE Head(ctrlIn) = "restart" /\ ~CtrlCanSend
    /\ UNCHANGED <<reqVars, pipeVars, bankVars, sendVars, mshrVars, transVars, dirVars, heapVars,
                   wbVars, memVars, flushVars, ctrlVars, panic>>
-----------------------------------------------------------------------------
Bank == \/ BankWait \/ BankPull \/ BankStall \/ finalizeReadHit \/ finalizeWriteHit
        \/ finalizeBankWriteFetched \/ finalizeBankEviction
WriteBuffer == \/ Write \/ processDataReadyRsp \/ processWriteDoneRsp \/ NothingReturned
               \/ sendFetchedDataToBank \/ fetchFromBottom \/ queueEviction \/ NothingNew
Directory == JoinEntry \/ readFromBank \/ writeToBank \/ evict \/ fetch \/ DirectoryStall
Flusher == \/ processPreFlushing \/ processFlush \/ finalizeFlushing \/ startProcessingFlush
           \/ discardInflightTransactions \/ handleCacheRestart \/ FlusherIdle
Tick == \/ StartTick \/ TopSend \/ BottomSend \/ MSHRStage \/ Bank \/ WriteBuffer \/ Directory
        \/ PipelineTick \/ TopParser \/ Flusher
Environment == \/ Issue \/ SendRestart \/ \E l \in Lines : Serve(l)
               \/ \E k \in FlushKinds : SendFlush(k)
Next == Tick \/ Environment

\* The engine always schedules the next tick (Tick returns true), the lower
\* module serves what it accepted, the connections take a message in the end
\* and the command processor restarts what it paused.
Fairness ==
    /\ WF_vars(Tick) /\ WF_vars(Issue) /\ WF_vars(SendRestart)
    /\ \A l \in Lines : SF_vars(Serve(l))
    /\ SF_vars(TopSend /\ topOut' # topOut) /\ SF_vars(BottomSend /\ bottomOut' # bottomOut)
Spec == Init /\ [][Next]_vars /\ Fairness
-----------------------------------------------------------------------------
\* Every transaction, block and buffer holds what the code's types allow, and
\* no buffer is over its capacity.
Messages == [op : {"read", "write"}, t : Trans, line : Lines]
TypeOK ==
    /\ issued \in 0..MaxReq /\ inFlight \subseteq Reqs /\ delivered \subseteq Reqs
    /\ Len(topIn) <= PortCap /\ Len(bottomIn) <= PortCap
    /\ \A q \in {lookup, dirToBank, wbToBank, mshrBuf, wbBuf} : Len(q) <= BufCap /\ Range(q) \subseteq Trans
    /\ Len(topOut) <= SenderCap /\ Len(bottomOut) <= SenderCap /\ Len(ctrlOut) <= SenderCap
    /\ Range(bottomIn) \cup Range(bottomOut) \subseteq Messages
    /\ bank \in Trans \cup {None} /\ cycleLeft \in 0..latency
    /\ \A b \in Blocks : blocks[b].reads \in 0..MaxReq /\ storage[b] \in Data
    /\ \A l \in Lines : memory[l] \in Data
    /\ Cardinality(mshr) <= numMSHREntry
    /\ state \in {"running", "preFlushing", "flushing", "paused"}

\* No panic of the cache is reachable.
NoPanic == panic = "none"

\* A value is stale for someone who has been told of the writes in done when
\* one of these began after the value's own write had ended.
Stale(v, line, part, done) ==
    \E w \in done : /\ ~IsRead(w) /\ LineOf(w) = line /\ part \in DirtyOf(w)
                    /\ v = 0 \/ v \in before[w]

\* A read returns for each part a value that was written there, or the initial
\* one, and never one that a write, over before the read was sent, had replaced.
WrittenThere(v, line, part) == v = 0 \/ (~IsRead(v) /\ LineOf(v) = line /\ part \in DirtyOf(v))
ReadsCoherent ==
    \A t \in delivered : IsRead(t) =>
        \A p \in RangeOf(t) : /\ WrittenThere(rsp[t][p], LineOf(t), p)
                              /\ ~Stale(rsp[t][p], LineOf(t), p, before[t])

\* Two reads of a part, one after the other, never see its values in the wrong
\* order: what checkReadResult of the acceptance tests' memory agent panics on.
ReadsNeverGoBack ==
    \A t \in delivered : \A r \in before[t] :
        IsRead(t) /\ IsRead(r) /\ LineOf(t) = LineOf(r) =>
            \A p \in RangeOf(t) \cap RangeOf(r) :
                rsp[r][p] # 0 /\ rsp[t][p] # rsp[r][p] =>
                    rsp[t][p] # 0 /\ rsp[t][p] \notin before[rsp[r][p]]

\* No request is answered twice: an answer on its way belongs to a request that
\* has left the in-flight list and has had no answer yet.
AnsweredOnce ==
    /\ \A i \in DOMAIN topOut : topOut[i].to \notin delivered \cup inFlight
    /\ \A i, j \in DOMAIN topOut : i # j => topOut[i].to # topOut[j].to

\* An unlocked valid block holds all of its line, so that a hit never needs a
\* fetch; no line is in two ways.
WholeLines ==
    \A b \in Blocks : (blocks[b].valid /\ ~blocks[b].locked) =>
        /\ blocks[b].meta /\ blocks[b].sectorValid = Parts
        /\ \A c \in Blocks : blocks[c].valid /\ blocks[c].tag = blocks[b].tag => c = b

\* The cache stays within its types and capacities, reaches none of its panics and answers
\* nothing twice.
Sound == TypeOK /\ NoPanic /\ AnsweredOnce

\* What a read returns, and what a hit could return, is the line as the writes left it.
Coherent == ReadsCoherent /\ WholeLines

\* When a flush is answered the lower memory has every write that the
\* requester was told of.
FlushEnds == processingFlush # "none" /\ processingFlush' = "none"
FlushWritesBack ==
    [][FlushEnds => \A l \in Lines, p \in Parts :
                        WrittenThere(memory[l][p], l, p) /\ ~Stale(memory[l][p], l, p, delivered)]_vars

\* Every request is answered in the end, unless it is discarded, and every
\* flush ends: no stage waits for ever on a full buffer of another (Tick, flusher.Tick).
EverythingEnds ==
    /\ \A t \in Reqs : (issued >= t) ~> (t \in delivered \cup discarded)
    /\ (cp = "flush") ~> (cp = "idle")
=============================================================================
