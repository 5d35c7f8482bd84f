--------------------------- MODULE MemoryAllocator ---------------------------
(***************************************************************************)
(* The allocator that gives virtual and physical pages to processes         *)
(* (mem/device/memoryallocator.go, device.go), over any of the device       *)
(* memory states, with the page tables it fills and the distributor of the  *)
(* driver that calls it. Each call holds the allocator's lock, so each is   *)
(* one action. A panic ends the program: the state stays as it was.         *)
(*                                                                         *)
(* mem       the memory state of each GPU                                  *)
(* nextGPU   the GPU the unified device takes pages from next               *)
(* tables    the page table of each process                                *)
(* nextVAddr the next virtual page of each process, NoState before its      *)
(*           first allocation                                              *)
(* lost      data pages that an Update took out of a table and no list got  *)
(* shares    the last Distribute: its pages, and the count it reported for  *)
(*           each GPU                                                       *)
(***************************************************************************)
EXTENDS PageTable, SequencesExt, FiniteSetsExt

CONSTANTS numBankPerChiplet, HugeUnits, TableReserve, Interleaving
CONSTANTS Kinds, FreeKinds, Pids, Selected(_), Counts, Partitions, Storage(_), MaxCalls

-----------------------------------------------------------------------------
(* The memory of one device, as each DeviceMemoryState of mem/device keeps  *)
(* it. Addresses count units of 4 KB: a data page takes PageUnits(kind) of  *)
(* them and a page-table page takes one. A state holds its free addresses   *)
(* in lists: one list, one per chiplet, or (buddy) one per block size.      *)
(*                                                                         *)
(* An operation answers [m, as]: the state it leaves and the addresses it   *)
(* hands out. Taking from an empty list is a panic in Go: it sets m.bad.    *)

numChiplets == 4
Chiplets == 1..numChiplets

HugeKinds    == {"hugepagesinterleaved", "hugelasp", "hugehslaware"}
FlatKinds    == {"default", "interleaved", "hugepagesinterleaved", "pta", "xorpta"}
PartKinds    == {"partitioned", "partitionedpta"}
ChipletKinds == {"lasp", "laspnaivept", "lasptpp", "hslaware", "hugelasp", "hugehslaware"}
AllKinds     == FlatKinds \cup PartKinds \cup ChipletKinds \cup {"buddy"}

PageUnits(kind) == IF kind \in HugeKinds THEN HugeUnits ELSE 1

-----------------------------------------------------------------------------
\* Lists of free addresses

Flat(from, to, step) ==
    << [i \in 1..((to - from) \div step) |-> from + (i - 1) * step] >>

\* Runs of numBankPerChiplet pages go to the chiplets in turn, in whole rounds.
Round == numChiplets * numBankPerChiplet
Rounds(from, to, step) == ((to - from) + Round * step - 1) \div (Round * step)
ByChiplet(from, to, step) ==
    [c \in Chiplets |->
        [i \in 1..(Rounds(from, to, step) * numBankPerChiplet) |->
            from + step * (((i - 1) \div numBankPerChiplet) * Round
                           + (c - 1) * numBankPerChiplet + ((i - 1) % numBankPerChiplet))]]

\* The chiplet whose banks hold an address, by the interleaving of the banks.
Home(m, a) == ((a - m.initial) % Round) \div numBankPerChiplet + 1
HugeHome(m, a) == (((a - m.initial) \div HugeUnits) % Round) \div numBankPerChiplet + 1

New(kind, initial, size, avail, table) ==
    [kind |-> kind, initial |-> initial, size |-> size, avail |-> avail, table |-> table,
     lastChipletForPT |-> 0, split |-> {}, merge |-> {}, track |-> <<>>, bad |-> FALSE]

-----------------------------------------------------------------------------
\* Taking addresses

Answer(m, a) == [m |-> m, as |-> <<a>>]
Panic(m, n) == [m |-> [m EXCEPT !.bad = TRUE], as |-> [i \in 1..n |-> 0]]

Take_Kept(m, c) == Answer(m, Head(m.avail[c]))
Take(m, c) ==
    IF m.avail[c] = <<>> THEN Panic(m, 1)
    ELSE Answer([m EXCEPT !.avail[c] = Tail(@)], Head(m.avail[c]))

TakeTable(m, c) ==
    IF m.table[c] = <<>> THEN Panic(m, 1)
    ELSE Answer([m EXCEPT !.table[c] = Tail(@)], Head(m.table[c]))

TakeEach(m, cs) ==
    FoldLeft(LAMBDA acc, c : LET t == Take(acc.m, c) IN [m |-> t.m, as |-> acc.as \o t.as],
             [m |-> m, as |-> <<>>], cs)

\* allocateMultiplePages of the states that keep one list.
InOrder(m, n) == TakeEach(m, [i \in 1..n |-> 1])

\* allocateMultiplePages of the states that keep a list per chiplet: an equal share on
\* each, then one more on each of the first chiplets.
Spread(m, n) ==
    LET share == n \div numChiplets
    IN  TakeEach(m, [i \in 1..n |-> IF i <= share * numChiplets
                                    THEN (i - 1) \div share + 1
                                    ELSE i - share * numChiplets])

\* The exclusive or of the four 2-bit terms of a number.
Xor2(a, b) ==
    2 * (((a \div 2) + (b \div 2)) % 2) + ((a + b) % 2)
Terms(v) == Xor2(Xor2(v % 4, (v \div 4) % 4), Xor2((v \div 16) % 4, (v \div 64) % 4))

-----------------------------------------------------------------------------
\* setInitialAddress of each kind, the storage size being set already

default_setInitialAddress(a, size) ==
    New("default", a, size, Flat(a, a + size, 1), <<>>)
interleaved_setInitialAddress(a, size) ==
    New("interleaved", a, size, Flat(a, a + size, 1), <<>>)
hugepagesinterleaved_setInitialAddress(a, size) ==
    LET end == a + size - TableReserve
    IN  New("hugepagesinterleaved", a, size, Flat(a, end, HugeUnits), Flat(end, a + size, 1))
pta_setInitialAddress(a, size) ==
    LET end == a + size - TableReserve
    IN  New("pta", a, size, Flat(a, end, 1), ByChiplet(end, a + size, 1))
xorpta_setInitialAddress(a, size) == [pta_setInitialAddress(a, size) EXCEPT !.kind = "xorpta"]
partitioned_setInitialAddress(a, size) ==
    New("partitioned", a, size, ByChiplet(a, a + size, 1), <<>>)
partitionedpta_setInitialAddress(a, size) ==
    New("partitionedpta", a, size, ByChiplet(a, a + size, 1), <<>>)
lasp_setInitialAddress(a, size) ==
    New("lasp", a, size, ByChiplet(a, a + size, 1), <<>>)
laspnaivept_setInitialAddress(a, size) ==
    New("laspnaivept", a, size, ByChiplet(a, a + size, 1), <<>>)
lasptpp_setInitialAddress(a, size) ==
    New("lasptpp", a, size, ByChiplet(a, a + size, 1), <<>>)
hslaware_setInitialAddress(a, size) ==
    New("hslaware", a, size, ByChiplet(a, a + size, 1), <<>>)

\* The table pages begin where the rounds of data pages ended.
DataEnd(a, size) ==
    a + Rounds(a, a + size - TableReserve, HugeUnits) * Round * HugeUnits
hugelasp_setInitialAddress(a, size) ==
    New("hugelasp", a, size, ByChiplet(a, a + size - TableReserve, HugeUnits),
        ByChiplet(DataEnd(a, size), a + size, 1))
hugehslaware_setInitialAddress(a, size) ==
    New("hugehslaware", a, size, ByChiplet(a, a + size - TableReserve, HugeUnits),
        ByChiplet(DataEnd(a, size), a + size, 1))

-----------------------------------------------------------------------------
\* allocatePageTablePage of each kind: v is what is left of the address after newTreeNode
\* has shifted it, p the physical page that is being mapped (0 for the root).

default_allocatePageTablePage(m) == InOrder(m, 1)
interleaved_allocatePageTablePage(m) == InOrder(m, 1)
hugepagesinterleaved_allocatePageTablePage(m) == TakeTable(m, 1)
pta_allocatePageTablePage(m, v) == TakeTable(m, (v % 4) + 1)
xorpta_allocatePageTablePage(m, v) == TakeTable(m, Terms(v) + 1)
partitioned_allocatePageTablePage(m, p) == Take(m, Home(m, p))
partitionedpta_allocatePageTablePage(m, v) == Take(m, Terms(v) + 1)
lasp_allocatePageTablePage(m, p) == Take(m, Home(m, p))
laspnaivept_allocatePageTablePage(m) ==
    Take([m EXCEPT !.lastChipletForPT = (@ + 1) % numChiplets], m.lastChipletForPT + 1)
lasptpp_allocatePageTablePage(m, v) == Take(m, Terms(v) + 1)
hslaware_allocatePageTablePage(m, v) == Take(m, ((v \div Interleaving) % numChiplets) + 1)
hugelasp_allocatePageTablePage(m, p) == TakeTable(m, HugeHome(m, p))
hugehslaware_allocatePageTablePage(m, v) ==
    TakeTable(m, ((v \div Interleaving) % numChiplets) + 1)

-----------------------------------------------------------------------------
\* allocateMultiplePages, allocatePageOnChiplet and addSinglePAddr

default_allocateMultiplePages(m, n) == InOrder(m, n)
interleaved_allocateMultiplePages(m, n) == InOrder(m, n)
hugepagesinterleaved_allocateMultiplePages(m, n) == InOrder(m, n)
pta_allocateMultiplePages(m, n) == InOrder(m, n)
partitioned_allocateMultiplePages(m, n) == Spread(m, n)
partitionedpta_allocateMultiplePages(m, n) == Spread(m, n)
lasp_allocateMultiplePages(m, n) == Spread(m, n)
laspnaivept_allocateMultiplePages(m, n) == Spread(m, n)
lasptpp_allocateMultiplePages(m, n) == Spread(m, n)
hslaware_allocateMultiplePages(m, n) == Spread(m, n)
hugelasp_allocateMultiplePages(m, n) == Spread(m, n)
hugehslaware_allocateMultiplePages(m, n) == Spread(m, n)

-----------------------------------------------------------------------------
(***************************************************************************)
(* The buddy allocator (mem/device/devicebuddymemstate.go and               *)
(* buddystructures.go). avail[i + 1] is the free list of level i, whose      *)
(* blocks are 2^(Top - i) pages long. A bit field is the set of the indices *)
(* whose bit is set, and updateBit flips a bit. The blocks a split or a     *)
(* merge passes through all hold the address it began with, so each loop    *)
(* over the levels is written as what it does to each level.                *)
(***************************************************************************)

Top(m) == Len(m.avail) - 1
ListOf(m, i) == m.avail[i + 1]

\* setStorageSize and setInitialAddress, for a size that is a power of two.
Order(n) == CHOOSE k \in 0..n : 2 ^ k >= n /\ \A j \in 0..(k - 1) : 2 ^ j < n
buddy_setInitialAddress(a, size) ==
    New("buddy", a, size, <<<<a>>>> \o [i \in 1..Order(size) |-> <<>>], <<>>)

sizeOfLevel(m, level) == m.size \div 2 ^ level
indexInLevelOf(m, a, level) == (a - m.initial) \div sizeOfLevel(m, level)
indexOfBlock(m, a, level) == 2 ^ level + indexInLevelOf(m, a, level) - 1
buddyOf(m, a, level) ==
    IF indexInLevelOf(m, a, level) % 2 = 0
    THEN a + sizeOfLevel(m, level) ELSE a - sizeOfLevel(m, level)

\* The start of the block of a level that holds an address.
BlockAt(m, a, level) == m.initial + indexInLevelOf(m, a, level) * sizeOfLevel(m, level)

Flip(bits, indices) == SymDiff(bits, indices)

\* A block that is taken whole marks its pair; one that is split on the way does not.
MarksPair(i, level) == i = level /\ i > 0

\* The block comes from the deepest list at or above its level that has one, and is
\* halved down to its level: the second half of each split is free.
SourceLevel(m, level) == Max({i \in 0..level : ListOf(m, i) # <<>>})
Halved(m, level) ==
    LET i     == SourceLevel(m, level)
        block == Head(ListOf(m, i))
        cut   == {indexOfBlock(m, block, j) : j \in i..(level - 1)}
        pair  == IF MarksPair(i, level) THEN {indexOfBlock(m, block, i - 1)} ELSE {}
    IN  [m EXCEPT !.avail = [k \in DOMAIN @ |->
                                IF k - 1 = i THEN Tail(@[k])
                                ELSE IF k - 1 \in (i + 1)..level
                                THEN Append(@[k], buddyOf(m, block, k - 1))
                                ELSE @[k]],
                  !.split = Flip(@, cut),
                  !.merge = Flip(@, cut \cup pair)]

buddy_allocateMultiplePages(m, n) ==
    LET level == Top(m) - Order(n)
    IN  IF \A i \in 0..level : ListOf(m, i) = <<>> THEN Panic(m, n)
        ELSE LET block == Head(ListOf(m, SourceLevel(m, level)))
                 as    == [j \in 1..n |-> block + j - 1]
             IN  [m  |-> [Halved(m, level) EXCEPT
                              !.track = [a \in DOMAIN @ \cup ToSet(as) |->
                                            IF a \in ToSet(as) THEN block ELSE @[a]]],
                  as |-> as]

buddy_allocatePageTablePage(m) == buddy_allocateMultiplePages(m, 1)

levelOfBlock(m, a) ==
    Max({0} \cup {n \in 1..Top(m) : indexOfBlock(m, a, n - 1) \in m.split})

\* A block merges with its buddy, level by level, until the bit of its pair comes out set.
StopLevel(m, a) ==
    Max({0} \cup {n \in 1..levelOfBlock(m, a) : indexOfBlock(m, a, n - 1) \notin m.merge})
freeBlock(m, a) ==
    LET level == levelOfBlock(m, a)
        stop  == StopLevel(m, a)
        Pairs(levels) == {indexOfBlock(m, a, n - 1) : n \in levels \ {0}}
    IN  [m EXCEPT !.merge = Flip(@, Pairs(stop..level)),
                  !.split = Flip(@, Pairs((stop + 1)..level)),
                  !.avail = [k \in DOMAIN @ |->
                                IF k - 1 = stop THEN Append(@[k], BlockAt(m, a, stop))
                                ELSE IF k - 1 \in (stop + 1)..level
                                THEN RemoveFirst(@[k], buddyOf(m, BlockAt(m, a, k - 1), k - 1))
                                ELSE @[k]]]

\* A block is freed with the last of its pages. An address no block tracks is ignored.
buddy_addSinglePAddr(m, a) ==
    IF a \notin DOMAIN m.track THEN m
    ELSE LET left == [m EXCEPT !.track = Restrict(@, DOMAIN @ \ {a})]
         IN  IF m.track[a] \in {left.track[b] : b \in DOMAIN left.track} THEN left
             ELSE freeBlock(left, m.track[a])

-----------------------------------------------------------------------------
(* The allocator over the devices. *)

VARIABLES mem, nextGPU, tables, nextVAddr, lost, shares, panicked, calls
vars == <<mem, nextGPU, tables, nextVAddr, lost, shares, panicked, calls>>

GPUs == {1, 2}
Unified == 3
NoState == -1
NoShares == [pages |-> {}, count |-> [g \in GPUs |-> 0]]

-----------------------------------------------------------------------------
\* NewDeviceMemoryState and RegisterDevice

setInitialAddress(kind, a, size) ==
    CASE kind = "default"              -> default_setInitialAddress(a, size)
      [] kind = "interleaved"          -> interleaved_setInitialAddress(a, size)
      [] kind = "hugepagesinterleaved" -> hugepagesinterleaved_setInitialAddress(a, size)
      [] kind = "pta"                  -> pta_setInitialAddress(a, size)
      [] kind = "xorpta"               -> xorpta_setInitialAddress(a, size)
      [] kind = "partitioned"          -> partitioned_setInitialAddress(a, size)
      [] kind = "partitionedpta"       -> partitionedpta_setInitialAddress(a, size)
      [] kind = "lasp"                 -> lasp_setInitialAddress(a, size)
      [] kind = "laspnaivept"          -> laspnaivept_setInitialAddress(a, size)
      [] kind = "lasptpp"              -> lasptpp_setInitialAddress(a, size)
      [] kind = "hslaware"             -> hslaware_setInitialAddress(a, size)
      [] kind = "hugelasp"             -> hugelasp_setInitialAddress(a, size)
      [] kind = "hugehslaware"         -> hugehslaware_setInitialAddress(a, size)
      [] kind = "buddy"                -> buddy_setInitialAddress(a, size)

\* Memory begins one page after address 0, and the devices follow each other.
RegisterDevice(kind) ==
    [g \in GPUs |-> setInitialAddress(kind, PageUnits(kind) + (g - 1) * Storage(kind),
                                      Storage(kind))]

isPAddrOnDevice(p, m) == p >= m.initial /\ p < m.initial + m.size
deviceIDByPAddr(p) == CHOOSE g \in GPUs : isPAddrOnDevice(p, mem[g])

-----------------------------------------------------------------------------
\* Device: the operations of a memory state behind mustHaveSpaceLeft

noAvailablePAddrs(m) == m.kind \in FlatKinds /\ m.avail[1] = <<>>

allocateMultiplePages(m, n) ==
    CASE m.kind = "default"              -> default_allocateMultiplePages(m, n)
      [] m.kind = "interleaved"          -> interleaved_allocateMultiplePages(m, n)
      [] m.kind = "hugepagesinterleaved" -> hugepagesinterleaved_allocateMultiplePages(m, n)
      [] m.kind \in {"pta", "xorpta"}    -> pta_allocateMultiplePages(m, n)
      [] m.kind = "partitioned"          -> partitioned_allocateMultiplePages(m, n)
      [] m.kind = "partitionedpta"       -> partitionedpta_allocateMultiplePages(m, n)
      [] m.kind = "lasp"                 -> lasp_allocateMultiplePages(m, n)
      [] m.kind = "laspnaivept"          -> laspnaivept_allocateMultiplePages(m, n)
      [] m.kind = "lasptpp"              -> lasptpp_allocateMultiplePages(m, n)
      [] m.kind = "hslaware"             -> hslaware_allocateMultiplePages(m, n)
      [] m.kind = "hugelasp"             -> hugelasp_allocateMultiplePages(m, n)
      [] m.kind = "hugehslaware"         -> hugehslaware_allocateMultiplePages(m, n)
      [] m.kind = "buddy"                -> buddy_allocateMultiplePages(m, n)

popNextAvailablePAddrs(m) ==
    IF m.kind = "buddy" THEN buddy_allocateMultiplePages(m, 1) ELSE Take(m, 1)

allocatePageOnChiplet(m, c) == IF m.kind \in ChipletKinds THEN Take(m, c) ELSE Panic(m, 1)

allocatePageTablePage(m, v, p) ==
    CASE noAvailablePAddrs(m)            -> Panic(m, 1)
      [] m.kind = "default"              -> default_allocatePageTablePage(m)
      [] m.kind = "interleaved"          -> interleaved_allocatePageTablePage(m)
      [] m.kind = "hugepagesinterleaved" -> hugepagesinterleaved_allocatePageTablePage(m)
      [] m.kind = "pta"                  -> pta_allocatePageTablePage(m, v)
      [] m.kind = "xorpta"               -> xorpta_allocatePageTablePage(m, v)
      [] m.kind = "partitioned"          -> partitioned_allocatePageTablePage(m, p)
      [] m.kind = "partitionedpta"       -> partitionedpta_allocatePageTablePage(m, v)
      [] m.kind = "lasp"                 -> lasp_allocatePageTablePage(m, p)
      [] m.kind = "laspnaivept"          -> laspnaivept_allocatePageTablePage(m)
      [] m.kind = "lasptpp"              -> lasptpp_allocatePageTablePage(m, v)
      [] m.kind = "hslaware"             -> hslaware_allocatePageTablePage(m, v)
      [] m.kind = "hugelasp"             -> hugelasp_allocatePageTablePage(m, p)
      [] m.kind = "hugehslaware"         -> hugehslaware_allocatePageTablePage(m, v)
      [] m.kind = "buddy"                -> buddy_allocatePageTablePage(m)

addSinglePAddr(m, p) ==
    CASE m.kind \in {"default", "interleaved"} -> [m EXCEPT !.avail[1] = Append(@, p)]
      [] m.kind = "buddy"                      -> buddy_addSinglePAddr(m, p)
      [] OTHER                                 -> [m EXCEPT !.bad = TRUE]

\* The unified device takes all the pages of a call from one of its GPUs.
ActualGPU(dev) == IF dev = Unified THEN nextGPU ELSE dev
NextGPU(dev) == IF dev = Unified THEN 3 - nextGPU ELSE nextGPU

-----------------------------------------------------------------------------
\* PageTable.Insert, with the pages newTreeNode asks the allocator for. A working state
\* st is [mem, tables, lost].

Now == [mem |-> mem, tables |-> tables, lost |-> lost]

newTreeNode(acc, vpn, page, k) ==
    LET r == allocatePageTablePage(acc.m, Prefix(vpn, k), IF k = 0 THEN 0 ELSE page.p)
    IN  [m |-> r.m, nodes |-> (k :> r.as[1]) @@ acc.nodes]

Insert(st, pid, vpn, page) ==
    LET t    == st.tables[pid]
        made == FoldLeft(LAMBDA acc, k : newTreeNode(acc, vpn, page, k),
                         [m |-> st.mem[page.dev], nodes |-> <<>>],
                         SetToSortSeq(Missing(t, vpn), <))
    IN  [st EXCEPT !.mem[page.dev] = made.m,
                   !.tables[pid] = insert(t, vpn, page, made.nodes)]

\* Update leaves the page that was mapped to nobody.
Update(st, pid, vpn, page) ==
    [st EXCEPT !.tables[pid] = update(@, vpn, page),
               !.lost = @ \cup {find(st.tables[pid], vpn).p}]

Page(p, dev, want) == [p |-> p, dev |-> dev, want |-> want]

Alive == ~panicked /\ calls < MaxCalls
Called == calls' = calls + 1

\* A call that ran out of pages, or into a panic of a memory state, takes no effect.
Finish(st, next) ==
    /\ Called
    /\ IF \E g \in GPUs : st.mem[g].bad
       THEN panicked' = TRUE /\ UNCHANGED <<mem, tables, lost, nextVAddr, nextGPU>>
       ELSE /\ mem' = st.mem /\ tables' = st.tables /\ lost' = st.lost
            /\ nextVAddr' = next
            /\ UNCHANGED panicked

FirstVAddr(pid, first) == IF nextVAddr[pid] = NoState THEN first ELSE nextVAddr[pid]

\* Data pages first, then one Insert per page.
allocatePages(n, pid, dev) ==
    LET data == allocateMultiplePages(mem[dev], n)
        v0   == FirstVAddr(pid, 1)
    IN  /\ Finish(FoldLeft(LAMBDA st, i : Insert(st, pid, v0 + i - 1, Page(data.as[i], dev, 0)),
                           [Now EXCEPT !.mem[dev] = data.m], [i \in 1..n |-> i]),
                  [nextVAddr EXCEPT ![pid] = v0 + n])
        /\ UNCHANGED nextGPU

\* The pages a unified device hands out belong to one of its GPUs: "gpuid != deviceid".
AllocateVirtualChunk(pid, n, dev) ==
    /\ Alive
    /\ shares' = NoShares
    /\ \/ dev \in GPUs /\ allocatePages(n, pid, dev)
       \/ /\ dev = Unified
          /\ panicked' = TRUE /\ Called
          /\ UNCHANGED <<mem, tables, lost, nextVAddr, nextGPU>>

AllocateUnified(pid, n) ==
    /\ Alive
    /\ shares' = NoShares
    /\ allocatePages(n, pid, 1)

findChipletBasedOnPartition(i, n, partition) ==
    CASE partition = "div4" -> i \div ((n + 3) \div 4) + 1
      [] partition = "test" -> 2
      [] OTHER              -> (i % 4) + 1

\* allocatePagesLASP: each page is taken and inserted before the next is taken.
LASPPage(st, pid, dev, v, c) ==
    LET data == allocatePageOnChiplet(st.mem[dev], c)
    IN  Insert([st EXCEPT !.mem[dev] = data.m], pid, v, Page(data.as[1], dev, c))

AllocateVirtualChunkLASP(pid, n, dev, partition) ==
    LET v0 == FirstVAddr(pid, 0)
        One(st, i) == LASPPage(st, pid, dev, v0 + i,
                               findChipletBasedOnPartition(i, n, partition))
    IN  /\ Alive
        /\ shares' = NoShares
        /\ Finish(FoldLeft(One, Now, [i \in 1..n |-> i - 1]), [nextVAddr EXCEPT ![pid] = v0 + n])
        /\ UNCHANGED nextGPU

\* allocateMultiplePagesWithGivenVAddrs
Remapped(st, pid, v, n, dev) ==
    LET gpu  == ActualGPU(dev)
        data == allocateMultiplePages(st.mem[gpu], n)
    IN  FoldLeft(LAMBDA s, i : Update(s, pid, v + i - 1, Page(data.as[i], dev, 0)),
                 [st EXCEPT !.mem[gpu] = data.m], [i \in 1..n |-> i])

Mapped(pid, v, n) == \A i \in 0..(n - 1) : v + i \in DOMAIN tables[pid].entries

Remap(pid, v, n, dev) ==
    /\ Alive
    /\ Mapped(pid, v, n)
    /\ shares' = NoShares
    /\ Finish(Remapped(Now, pid, v, n, dev), nextVAddr)
    /\ nextGPU' = IF panicked' THEN nextGPU ELSE NextGPU(dev)

\* What the driver calls for a page that migrates.
AllocatePageWithGivenVAddr(pid, v, dev) ==
    LET gpu  == ActualGPU(dev)
        data == popNextAvailablePAddrs(mem[gpu])
    IN  /\ Alive
        /\ Mapped(pid, v, 1)
        /\ shares' = NoShares
        /\ Finish(Update([Now EXCEPT !.mem[gpu] = data.m], pid, v, Page(data.as[1], dev, 0)),
                  nextVAddr)
        /\ nextGPU' = IF panicked' THEN nextGPU ELSE NextGPU(dev)

\* Free and RemovePage: the one page at the address.
Free(pid, v) ==
    LET p == find(tables[pid], v).p
        g == deviceIDByPAddr(p)
    IN  /\ Alive
        /\ mem[g].kind \in FreeKinds
        /\ Mapped(pid, v, 1)
        /\ shares' = NoShares
        /\ Finish([Now EXCEPT !.mem[g] = addSinglePAddr(@, p), !.tables[pid] = remove(@, v)],
                  nextVAddr)
        /\ UNCHANGED nextGPU

\* The remaps the distributor makes: equal parts in order, and the remaining pages, one
\* by one, on the GPU that came last.
PerGPU(n, gpus) == n \div Len(gpus)
GPUsToUse(n, gpus) ==
    IF PerGPU(n, gpus) = 0 THEN 0 ELSE Min({n \div PerGPU(n, gpus), Len(gpus)})
LastGPU(n, gpus) == gpus[Max({1, GPUsToUse(n, gpus)})]
RestFrom(n, gpus) == PerGPU(n, gpus) * GPUsToUse(n, gpus)
Parts(v, n, gpus) ==
    [i \in 1..GPUsToUse(n, gpus) |->
        [v |-> v + (i - 1) * PerGPU(n, gpus), n |-> PerGPU(n, gpus), gpu |-> gpus[i]]]
    \o [i \in 1..(n % Len(gpus)) |->
        [v |-> v + RestFrom(n, gpus) + i - 1, n |-> 1, gpu |-> LastGPU(n, gpus)]]

PagesOn(parts, g) ==
    MapThenSumSet(LAMBDA i : IF parts[i].gpu = g THEN parts[i].n ELSE 0, DOMAIN parts)

Distribute(pid, v, n, gpus) ==
    LET parts == Parts(v, n, gpus)
        One(st, part) == Remapped(st, pid, part.v, part.n, part.gpu)
    IN  /\ Alive
        /\ Mapped(pid, v, n)
        /\ Finish(FoldLeft(One, Now, parts), nextVAddr)
        /\ shares' = [pages |-> {<<pid, v + i>> : i \in 0..(n - 1)},
                      count |-> [g \in GPUs |-> PagesOn(parts, g)]]
        /\ UNCHANGED nextGPU

-----------------------------------------------------------------------------
Init ==
    /\ \E kind \in Kinds : mem = RegisterDevice(kind)
    /\ nextGPU = 1
    /\ tables = [p \in Pids |-> EmptyTable]
    /\ nextVAddr = [p \in Pids |-> NoState]
    /\ lost = {} /\ shares = NoShares /\ panicked = FALSE /\ calls = 0

Next ==
    \E pid \in Pids :
        \/ \E n \in Counts :
            \/ \E dev \in Selected(pid) : AllocateVirtualChunk(pid, n, dev)
            \/ AllocateUnified(pid, n)
            \/ \E dev \in Selected(pid) \cap GPUs, partition \in Partitions :
                AllocateVirtualChunkLASP(pid, n, dev, partition)
        \/ \E v \in DOMAIN tables[pid].entries :
            \/ Free(pid, v)
            \/ \E dev \in GPUs \cup {Unified} : AllocatePageWithGivenVAddr(pid, v, dev)
            \/ \E n \in Counts :
                \/ \E dev \in GPUs \cup {Unified} : Remap(pid, v, n, dev)
                \/ \E gpus \in {<<1, 2>>, <<2, 1>>, <<2>>} : Distribute(pid, v, n, gpus)

Spec == Init /\ [][Next]_vars

-----------------------------------------------------------------------------
Kind == mem[1].kind

\* The claims on physical memory, each under a name of its own: the pages processes reach,
\* the pages that hold their tables, and the free pages and blocks.
Claim(who, at, len) == [who |-> who, at |-> at, len |-> len]
PageClaims ==
    UNION {{Claim(<<"page", pid, <<v>>>>, tables[pid].entries[v].p, PageUnits(Kind)) :
                v \in DOMAIN tables[pid].entries} : pid \in Pids}
TableClaims ==
    UNION {{Claim(<<"table", pid, n>>, tables[pid].tree[n], 1) : n \in Inner(tables[pid])} :
                pid \in Pids}
InLists(name, g, lists, len(_)) ==
    UNION {{Claim(<<name, g, <<k, i>>>>, lists[k][i], len(k)) : i \in DOMAIN lists[k]} :
                k \in DOMAIN lists}
FreeClaims ==
    UNION {InLists("free", g, mem[g].avail,
                   LAMBDA k : IF Kind = "buddy" THEN sizeOfLevel(mem[g], k - 1)
                              ELSE PageUnits(Kind))
           \cup InLists("reserve", g, mem[g].table, LAMBDA k : 1) : g \in GPUs}
LostClaims == {Claim(<<"lost", 0, <<p>>>>, p, PageUnits(Kind)) : p \in lost}
Claims == PageClaims \cup TableClaims \cup FreeClaims

Units(claims) == UNION {c.at..(c.at + c.len - 1) : c \in claims}
Disjoint(claims) == MapThenSumSet(LAMBDA c : c.len, claims) = Cardinality(Units(claims))

Pages(pid) == DOMAIN tables[pid].entries

TypeOK ==
    /\ \A g \in GPUs : mem[g].kind \in Kinds /\ ~mem[g].bad
    /\ nextGPU \in GPUs
    /\ \A pid \in Pids : Pages(pid) \subseteq 0..(nextVAddr[pid] - 1)
    /\ \A pid \in Pids : \A v \in Pages(pid) :
            /\ v < NumChildren ^ numLevels
            /\ tables[pid].entries[v].dev \in GPUs \cup {Unified}
    /\ panicked \in BOOLEAN /\ calls \in 0..MaxCalls

\* Two processes' pages, two pages of one process, a page and a table page, or anything in
\* use and anything still in a free list never overlap in physical memory, whatever the
\* calls that AllocateVirtualChunk, Remap, migration and Free made before, on every kind of
\* device memory state.
NoAliasing == Disjoint(Claims)

\* No page of a device disappears, except those a Remap or a migration replaced: Update
\* writes the new address over the old one and nothing returns the old page to a list.
Conserved ==
    Kind # "buddy" =>
        /\ Disjoint(Claims \cup LostClaims)
        /\ Units(Claims \cup LostClaims) =
               UNION {mem[g].initial..(mem[g].initial + mem[g].size - 1) : g \in GPUs}

\* A walk through the words the driver writes to memory arrives at the page that find
\* returns, for every mapped page: the MMU panics with "addresses don't match!" otherwise.
WalkFindsPage ==
    \A pid \in Pids :
        LET image == PageTablePagesAsBytes(tables[pid])
        IN  \A v \in Pages(pid) :
                Walk(image, tables[pid].tree[<<>>], rearrange(v), 0) = find(tables[pid], v).p

\* A page is on the device its entry names: deviceIDByPAddr, which the driver uses to send
\* copies to a GPU, and Page.DeviceID agree (a page remapped to a unified device names it).
OnNamedDevice ==
    \A pid \in Pids : \A v \in Pages(pid) :
        LET page == find(tables[pid], v)
        IN  page.dev # Unified => isPAddrOnDevice(page.p, mem[page.dev])

PageHome(g, p) == IF Kind \in HugeKinds THEN HugeHome(mem[g], p) ELSE Home(mem[g], p)

\* The number the indices on the way to a node spell: what the hash of its kind is taken of.
Spelled(n) == MapThenSumSet(LAMBDA i : n[i] * NumChildren ^ (Len(n) - i), DOMAIN n)
HashedHome(v) ==
    CASE Kind = "pta"                                     -> (v % 4) + 1
      [] Kind \in {"xorpta", "partitionedpta", "lasptpp"} -> Terms(v) + 1
      [] OTHER                                            -> ((v \div Interleaving) % 4) + 1

\* Pages are where the placement asks: a page of a LASP chunk is in the banks of the
\* chiplet its partition names, and under the kinds that hash the virtual address every
\* table page is in the banks of the chiplet its hash names.
Placement ==
    \A pid \in Pids :
        /\ \A v \in Pages(pid) :
            LET page == find(tables[pid], v)
            IN  page.want # 0 => PageHome(page.dev, page.p) = page.want
        /\ Kind \in {"pta", "xorpta", "partitionedpta", "lasptpp", "hslaware", "hugehslaware"} =>
            \A n \in Inner(tables[pid]) :
                LET p == tables[pid].tree[n]
                IN  Home(mem[deviceIDByPAddr(p)], p) = HashedHome(Spelled(n))

\* Distribute moves every page of its range to one of the GPUs, and the sizes it returns
\* are the sizes each GPU really holds of the range.
SharesAreReal ==
    ~panicked /\ shares.pages # {} =>
        /\ \A x \in shares.pages : find(tables[x[1]], x[2]).dev \in GPUs
        /\ \A g \in GPUs :
            shares.count[g] =
                Cardinality({x \in shares.pages : find(tables[x[1]], x[2]).dev = g})
=============================================================================
