------------------------------- MODULE MCMemory -------------------------------
(***************************************************************************)
(* Memory for TLC: the allocator with its page tables, the MMU with its     *)
(* page walk cache, the L1 vector cache and the DRAM controller.  A         *)
(* behaviour is one unit's; the variables another unit has are off.         *)
(***************************************************************************)
EXTENDS Naturals, Sequences, FiniteSets

CONSTANTS Active,                              \* the units a behaviour may be of
          Kinds, FreeKinds, Pids, Counts, MaxCalls,  \* of MemoryAllocator
          l1, l2                               \* cache lines

VARIABLES unit, mem, sent, answered,
          nextGPU, tables, nextVAddr, lost, shares, panicked, calls,
          m, c, reads, table, copied, asked, script, answers,
          port, subQueue, cmdQueues, nextQueue, banks, inflight, storage, busy, program, acked,
          stale,
          log, made, dropped, owed, top, toCoalesce, trans, post, dirBuf, bank, block, lru,
          store, mshr, down, up, bottom, ctrl, isPaused

\* The devices each process selects: the first one also tries the unified device.  One or two
\* rounds of the four chiplets on each GPU, and a round of table pages where the kind sets
\* some aside.
MCSelected(pid) == IF pid = 1 THEN {1, 3} ELSE {2}
MCStorage(kind) ==
    CASE kind \in {"hugepagesinterleaved", "hugelasp", "hugehslaware"} -> 32
      [] kind \in {"pta", "xorpta"} -> 32
      [] OTHER -> 16
A == INSTANCE MemoryAllocator WITH numBankPerChiplet <- 2, HugeUnits <- 2, TableReserve <- 16,
        Interleaving <- 2, numLevels <- 4, bitsPerLevel <- 1, Selected <- MCSelected,
        Partitions <- {"mod4", "div4"}, Storage <- MCStorage

\* Pages 0 and 4 share the first level of the table only; the two processes use the same
\* page numbers.  Page 4 is allocated while walks go on.
Page(p, v) == [pid |-> p, vpn |-> v]
MCScripts == {<<Page(1, 0), Page(1, 0), Page(1, 0)>>, <<Page(1, 0), Page(2, 0)>>,
              <<Page(1, 0), Page(1, 4)>>}
W == INSTANCE PageWalk WITH numLevels <- 4, bitsPerLevel <- 1, Ways <- 2, numReqPerCycle <- 2,
        numStage <- 1, latency <- 1, EndCap <- 2, Scripts <- MCScripts, Pids <- {1, 2},
        Before <- <<<<1, 0>>, <<2, 0>>>>, maxRequestsInFlight <- 2, SenderCap <- 2,
        MemEndCap <- 3, TopEndCap <- 1

\* Two ranks of two banks with two rows of two columns; the DDR3 timing of MakeBuilder scaled
\* down, its order kept.  Unit 1 shares the row of unit 0, 2 is in the other bank, 4 and 5 in
\* the other rank and 9 in another row of the bank of 0.
Scaled == [burstLength |-> 4, tAL |-> 0, tCL |-> 3, tCWL |-> 2, tRCD |-> 3, tRP |-> 3,
           tRAS |-> 7, tCCDS |-> 1, tRTRS |-> 1, tRTP |-> 2, tWTRS |-> 2, tWR |-> 3,
           tRRDS |-> 1]
Rd(first, last) == [write |-> FALSE, first |-> first, last |-> last]
Wr(first, last) == [write |-> TRUE, first |-> first, last |-> last]
MCRequests == {<<Wr(0, 1), Rd(1, 1), Rd(2, 2), Wr(1, 1)>>, <<Wr(1, 1), Wr(9, 9), Rd(0, 1)>>,
               <<Wr(9, 9), Rd(2, 2), Wr(8, 8), Rd(0, 1)>>,
               <<Rd(4, 5), Wr(1, 1), Wr(0, 1), Rd(1, 1)>>}
D == INSTANCE DRAMController WITH P <- Scaled, RowBits <- 1, RankBits <- 1, BankBits <- 1,
        ColBits <- 1, QueueSize <- 3, CmdQueueSize <- 1, Programs <- MCRequests

\* Two lines of two words; a cache of one way, where the lines evict each other, and one of
\* two, where a line written whole and a fetched copy of it can be present together.
\* Buffers of two entries reach both ways the coalescer ends an instruction; an MSHR of one
\* entry fills.  Instructions: a read of a word, reads across both lines, a partial write, a
\* write of a whole line by two lanes.
Acc(k, l, w, last) == [kind |-> k, line |-> l, words |-> w, last |-> last]
ReadOne   == <<Acc("read", l1, {1}, TRUE)>>
ReadBoth  == <<Acc("read", l2, {1}, FALSE), Acc("read", l1, {2}, TRUE)>>
ReadMore  == <<Acc("read", l2, {1}, FALSE), Acc("read", l1, {1}, FALSE),
               Acc("read", l1, {2}, TRUE)>>
WriteOne  == <<Acc("write", l1, {1}, TRUE)>>
WriteLine == <<Acc("write", l1, {1}, FALSE), Acc("write", l1, {1, 2}, TRUE)>>
MCPrograms == {ReadOne \o WriteOne \o ReadOne \o WriteLine, ReadBoth \o WriteLine \o ReadOne,
               WriteLine \o ReadOne \o WriteOne \o ReadOne, WriteOne \o ReadOne \o ReadMore,
               ReadMore \o WriteOne \o ReadOne}
L == INSTANCE L1VCache WITH Lines <- {l1, l2}, Words <- {1, 2}, Associativity <- {1, 2},
        NumReq <- 2, BankCap <- 2, NumMSHREntry <- 1, DownCap <- 2, Programs <- MCPrograms,
        MaxFlushes <- 1

allocOnly == <<nextGPU, tables, nextVAddr, lost, shares, calls>>
walkOnly  == <<m, c, reads, table, copied, asked, script, answers>>
dramOnly  == <<port, subQueue, cmdQueues, nextQueue, banks, inflight, storage, busy, program,
               sent, acked, answered, stale>>
l1Only    == <<log, made, dropped, owed, top, toCoalesce, trans, post, dirBuf, bank, block, lru,
               store, mshr, down, up, bottom, ctrl, isPaused>>
vars == <<unit, mem, panicked, allocOnly, walkOnly, dramOnly, l1Only>>

Off(x) == x = "off"
AllocOff == Off(nextGPU) /\ Off(tables) /\ Off(nextVAddr) /\ Off(lost) /\ Off(shares) /\ Off(calls)
WalkOff == /\ Off(m) /\ Off(c) /\ Off(reads) /\ Off(table) /\ Off(copied) /\ Off(asked)
           /\ Off(script) /\ Off(answers)
DRAMOff == /\ Off(port) /\ Off(subQueue) /\ Off(cmdQueues) /\ Off(nextQueue) /\ Off(banks)
           /\ Off(inflight) /\ Off(storage) /\ Off(busy) /\ Off(program) /\ Off(sent)
           /\ Off(acked) /\ Off(answered) /\ Off(stale)
L1Off == /\ Off(log) /\ Off(made) /\ Off(dropped) /\ Off(owed) /\ Off(top) /\ Off(toCoalesce)
         /\ Off(trans) /\ Off(post) /\ Off(dirBuf) /\ Off(bank) /\ Off(block) /\ Off(lru)
         /\ Off(store) /\ Off(mshr) /\ Off(down) /\ Off(up) /\ Off(bottom) /\ Off(ctrl)
         /\ Off(isPaused)

Init ==
    /\ unit \in Active
    /\ \/ unit = "allocator" /\ A!Init /\ WalkOff /\ DRAMOff /\ L1Off
       \/ unit = "MMU"       /\ W!Init /\ AllocOff /\ DRAMOff /\ L1Off /\ Off(mem) /\ Off(panicked)
       \/ unit = "DRAM"      /\ D!Init /\ AllocOff /\ WalkOff /\ L1Off /\ Off(mem)
       \/ unit = "L1V"       /\ L!Init /\ AllocOff /\ WalkOff /\ DRAMOff /\ Off(panicked)

Next ==
    /\ UNCHANGED unit
    /\ \/ unit = "allocator" /\ A!Next /\ UNCHANGED <<walkOnly, dramOnly, l1Only>>
       \/ unit = "MMU"       /\ W!Next /\ UNCHANGED <<allocOnly, dramOnly, l1Only, mem, panicked>>
       \/ unit = "DRAM"      /\ D!Next /\ UNCHANGED <<allocOnly, walkOnly, l1Only, mem>>
       \/ unit = "L1V"       /\ L!Next /\ UNCHANGED <<allocOnly, walkOnly, dramOnly, panicked>>

CanWork == CASE unit = "allocator" -> FALSE
             [] unit = "MMU"       -> W!CanWork
             [] unit = "DRAM"      -> D!CanWork
             [] unit = "L1V"       -> ENABLED <<L!Work>>_(L!vars)

\* Weak fairness of the work of the unit: its inputs are bounded, so that infinitely many
\* steps have infinitely many of that work among them.
Spec == Init /\ [][Next]_vars /\ ([]<>~CanWork \/ []<><<TRUE>>_vars)

-----------------------------------------------------------------------------
\* On every kind of device memory state and whatever AllocateVirtualChunk, Remap, migration
\* and Free did before: two pages, a page and a table page, or anything in use and anything in
\* a free list never overlap; no page disappears except those a Remap or a migration replaced;
\* a page is on the device and the chiplet that its address, its partition or its hash names;
\* and Distribute returns the shares the GPUs really hold.
FramesAreOwned == unit = "allocator" =>
    A!TypeOK /\ A!NoAliasing /\ A!Conserved /\ A!OnNamedDevice /\ A!Placement /\ A!SharesAreReal

\* A walk ends at the address find gives: through the words the driver writes to memory
\* (the MMU panics with "addresses don't match!" otherwise), and from whichever level the
\* page walk cache let it start.  An entry of that cache that may be hit holds the table page
\* its tag stands for, in its own process's table, in one block only, and the block is not
\* given away while a read in the bank uses it.
WalksEndAtPage ==
    /\ unit = "allocator" => A!WalkFindsPage
    /\ unit = "MMU" => /\ W!TypeOK /\ W!WalksEndAtPage /\ W!OnPath /\ W!EntriesAreTrue
                       /\ W!ReadersKeepTheirBlock /\ W!OneBlockPerEntry

\* A translation request of the MMU is in one place and answered once with its page's address,
\* and a walker that waits has something to wait for, although the MMU ignores the errors of
\* its sends; a unit a DRAM transaction waits for is in one queue or bank; an access the L1
\* cache owes an answer is carried by one transaction, and its MSHR has an entry for a line
\* exactly while one transaction fetches it (mshr.Query never returns nil).
ExactlyOnce == CASE unit = "allocator" -> TRUE
                 [] unit = "MMU"  -> W!ExactlyOnce /\ W!NothingLost
                 [] unit = "DRAM" -> D!EachUnitOnce
                 [] unit = "L1V"  -> L!Carried /\ L!FetchesMatchMSHR

\* A DRAM read returns the last write acknowledged before it was sent or a later one, although
\* respond stores a write again on every retry; the map gives each unit a place of its own and
\* StartCommand never meets a busy bank.  A read of the L1 cache returns what a write to the
\* word stored, none older than the last write before it that no flush dropped; a block holds
\* what the lower level will hold once it has served the writes on their way.
FreshReads ==
    /\ unit = "DRAM" => D!TypeOK /\ D!ReadsSeeAcknowledged /\ D!MapIsOneToOne /\ D!NoBusyBank
    /\ unit = "L1V"  => L!TypeOK /\ L!FreshReads /\ L!Coherent

AllSettled == CASE unit = "allocator" -> TRUE [] unit = "MMU" -> W!AllSettled
                [] unit = "DRAM" -> D!Idle    [] unit = "L1V" -> L!Idle

\* Nothing waits for ever: every translation, every DRAM request and every access of the L1
\* cache is answered (the latter unless a flush dropped it), and every flush ends.
Answered == []<>AllSettled
=============================================================================
