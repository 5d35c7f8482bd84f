------------------------------ MODULE PageWalk -------------------------------
(***************************************************************************)
(* Page walks: the MMU (mem/vm/mmu/mmu.go), its page walk cache, the        *)
(* connection between them, and the memory that holds the table pages the   *)
(* driver writes before each kernel (processWritePageTableH2DCommand). The  *)
(* MMU, the cache and the connection run once in each cycle; memory answers *)
(* reads in any order, any number of cycles later. Every send of the MMU    *)
(* ignores the error the port returns, so a full connection loses a         *)
(* message.                                                                 *)
(***************************************************************************)
EXTENDS PageTable, SequencesExt, FiniteSets

CONSTANTS Ways, numReqPerCycle, numStage, latency, EndCap
CONSTANTS Scripts,              \* the pages the L2 TLB may ask for, in order
          Pids,                 \* processes
          Before,               \* the pages allocated, and written, at first
          maxRequestsInFlight, SenderCap, MemEndCap, TopEndCap

----------------------------------------------------------------------------
(* The cache of page-table entries beside each MMU                          *)
(* (mem/cache/writeback/pagewalkcache*.go, mem/cache/pagewalkcachedirectory *)
(* .go; the xcdcache package holds a second copy). A tick of the cache is   *)
(* a function of its state, c: the stages run from the last to the first,   *)
(* each numReqPerCycle times. An address is a virtual page number times     *)
(* four, its two low bits the level of the table an entry stands for, and   *)
(* the data of an entry is the address of a table page, a multiple of four, *)
(* with the same level in its low bits.                                     *)

NoReq == [op |-> "none"]
NoData == -1
Lanes == 1..numReqPerCycle

NewPageWalkCache ==
    [top    |-> <<>>,
     stages |-> [l \in Lanes |-> [i \in 1..numStage |-> NoReq]],
     lookup |-> <<>>,
     bankBuf |-> <<>>,
     bank   |-> [trans |-> NoReq, left |-> 0],
     block  |-> [w \in 1..Ways |->
                    [tag |-> 0, pid |-> 0, valid |-> FALSE, locked |-> FALSE,
                     readCount |-> 0, data |-> 0]],
     lru    |-> [w \in 1..Ways |-> w],
     sender |-> <<>>,
     end    |-> <<>>]

\* F of a value that is computed once, and a stage run n times.
Apply(F(_), v) == CHOOSE r \in {F(x) : x \in {v}} : TRUE
Times(n, F(_), c) ==
    LET after[i \in 0..n] == IF i = 0 THEN c ELSE Apply(F, after[i - 1]) IN after[n]

----------------------------------------------------------------------------
(* The directory. At level 0 the three lowest digits of a page number are   *)
(* masked away, at level 2 the lowest one.                                  *)

level(a) == a % 4
masked(a, l) ==
    LET unit == 4 * NumChildren ^ (3 - l) IN (a \div unit) * unit

Valid_AnyProcess(c, pid) == {w \in 1..Ways : c.block[w].valid}
Valid(c, pid) == {w \in 1..Ways : c.block[w].valid /\ c.block[w].pid = pid}

\* The valid entries of the process that an address lies under, and of them the deepest.
Match(c, pid, a) ==
    {w \in Valid(c, pid) :
        c.block[w].tag - level(c.block[w].tag) = masked(a, level(c.block[w].tag))}
Lookup(c, pid, a) ==
    {w \in Match(c, pid, a) : \A v \in Match(c, pid, a) :
        level(c.block[w].tag) >= level(c.block[v].tag)}

FormulateWriteAddress(a) == masked(a, level(a)) + level(a)
LookupExactAddress(c, pid, a) == {w \in Valid(c, pid) : c.block[w].tag = a}

FirstOf(lru, T(_)) == lru[CHOOSE i \in DOMAIN lru : T(lru[i])
                                  /\ \A j \in 1..(i - 1) : ~T(lru[j])]
FindVictim(c) ==
    LET empty(w) == ~c.block[w].valid /\ ~c.block[w].locked
        free(w)  == ~c.block[w].locked
    IN  CASE \E w \in 1..Ways : empty(w) -> FirstOf(c.lru, empty)
          [] \A w \in 1..Ways : ~free(w) -> c.lru[1]
          [] OTHER                       -> FirstOf(c.lru, free)

Visit(c, w) == [c EXCEPT !.lru = Append(SelectSeq(@, LAMBDA v : v # w), w)]

----------------------------------------------------------------------------
(* The stages. *)

Rsp(req, data) == [to |-> req.id, op |-> req.op, data |-> data]
CanSend(c) == Len(c.sender) < 4 * numReqPerCycle
Send(c, rsp) == [c EXCEPT !.sender = Append(@, rsp)]

topSenderTick(c) ==
    IF c.sender # <<>> /\ Len(c.end) < EndCap
    THEN [c EXCEPT !.end = Append(@, Head(c.sender)), !.sender = Tail(@)]
    ELSE c

finalizeReadHit(c) ==
    LET t == c.bank.trans
    IN  Send([c EXCEPT !.bank.trans = NoReq, !.block[t.way].readCount = @ - 1],
             Rsp(t, c.block[t.way].data))
finalizeWriteHit(c) ==
    LET t == c.bank.trans
    IN  Send([c EXCEPT !.bank.trans = NoReq,
                       !.block[t.way].data = t.data,
                       !.block[t.way].valid = TRUE,
                       !.block[t.way].locked = FALSE],
             Rsp(t, NoData))

finalizeTrans(c) ==
    CASE ~CanSend(c)               -> [c EXCEPT !.bank.left = 0]
      [] c.bank.trans.op = "read"  -> finalizeReadHit(c)
      [] c.bank.trans.op = "write" -> finalizeWriteHit(c)

pullFromBuf(c) ==
    IF c.bankBuf = <<>> THEN c
    ELSE [c EXCEPT !.bank = [trans |-> Head(c.bankBuf), left |-> latency],
                   !.bankBuf = Tail(@)]

bankStageTick(c) ==
    CASE c.bank.trans = NoReq -> pullFromBuf(c)
      [] c.bank.left = 0      -> finalizeTrans(c)
      [] OTHER                -> [c EXCEPT !.bank.left = @ - 1]

PopLookup(c) == [c EXCEPT !.lookup = Tail(@)]
ToBank(c, req, w) ==
    [PopLookup(Visit(c, w)) EXCEPT !.bankBuf = Append(@, [way |-> w] @@ req)]
BankFull(c) == Len(c.bankBuf) >= numReqPerCycle

readFromBank(c, req, w) ==
    [ToBank(c, req, w) EXCEPT !.block[w].readCount = @ + 1]
writeToBank(c, req, w) ==
    [ToBank(c, req, w) EXCEPT
        !.block[w] = [@ EXCEPT !.locked = TRUE, !.valid = TRUE,
                               !.tag = req.address, !.pid = req.pid]]

doRead(c) ==
    LET req == Head(c.lookup)
        hit == Lookup(c, req.pid, req.address)
    IN  IF hit = {} THEN PopLookup(Send(c, Rsp(req, NoData)))
        ELSE LET w == CHOOSE w \in hit : TRUE
             IN  IF c.block[w].locked \/ BankFull(c) THEN c
                 ELSE readFromBank(c, req, w)

MustWait(b) == b.locked \/ b.readCount > 0

doWrite(c) ==
    LET req == [Head(c.lookup) EXCEPT !.address = FormulateWriteAddress(@)]
        hit == LookupExactAddress(c, req.pid, req.address)
    IN  IF hit # {}
        THEN LET w == CHOOSE w \in hit : TRUE
             IN  IF c.block[w].locked THEN c
                 ELSE PopLookup(Send(Visit(c, w), Rsp(req, NoData)))
        ELSE LET w == FindVictim(c)
             IN  IF MustWait(c.block[w]) \/ BankFull(c) THEN c
                 ELSE writeToBank(c, req, w)

dirStageTick(c) ==
    IF c.lookup = <<>> THEN c
    ELSE IF Head(c.lookup).op = "read" THEN doRead(c) ELSE doWrite(c)

\* One slot of the pipeline: into the lookup buffer from the last stage, else one stage on.
Advance(c, l, i) ==
    LET item == c.stages[l][i]
    IN  CASE item = NoReq -> c
          [] item # NoReq /\ i = numStage /\ Len(c.lookup) < 2 * numReqPerCycle ->
                [c EXCEPT !.lookup = Append(@, item), !.stages[l][i] = NoReq]
          [] item # NoReq /\ i < numStage /\ c.stages[l][i + 1] = NoReq ->
                [c EXCEPT !.stages[l][i + 1] = item, !.stages[l][i] = NoReq]
          [] OTHER -> c
pipelineTick(c) ==
    LET slot(k) == <<1 + (k \div numStage), numStage - (k % numStage)>>
        after[k \in 0..(numReqPerCycle * numStage)] ==
            IF k = 0 THEN c
            ELSE Apply(LAMBDA x : Advance(x, slot(k - 1)[1], slot(k - 1)[2]), after[k - 1])
    IN  after[numReqPerCycle * numStage]

topParserTick(c) ==
    LET free == {l \in Lanes : c.stages[l][1] = NoReq}
    IN  IF c.top = <<>> \/ free = {} THEN c
        ELSE LET l == CHOOSE l \in free : \A k \in free : l <= k
             IN  [c EXCEPT !.stages[l][1] = Head(c.top), !.top = Tail(@)]

runPipeline(c) ==
    LET sent   == Times(numReqPerCycle, topSenderTick, c)
        banked == Times(numReqPerCycle, bankStageTick, sent)
        looked == Times(numReqPerCycle, dirStageTick, banked)
        piped  == Apply(pipelineTick, looked)
    IN  Times(numReqPerCycle, topParserTick, piped)

\* The requests the cache has taken in and not answered, and those that hold a block.
InPipe(c) ==
    {c.stages[l][i] : l \in Lanes, i \in 1..numStage} \ {NoReq}
Banked(c) == ToSet(c.bankBuf) \cup ({c.bank.trans} \ {NoReq})
Inside(c) == ToSet(c.top) \cup InPipe(c) \cup ToSet(c.lookup) \cup Banked(c)

----------------------------------------------------------------------------
(* The state of the MMU, of the cache and of what is around them. *)

VARIABLES
    m,          \* the MMU: ports, walkingTranslations, topSender
    c,          \* the page walk cache
    reads,      \* reads on their way to memory and back
    table,      \* per process, the driver's page table
    copied,     \* the tables as they were last written to GPU memory
    asked,      \* the pages of the requests made so far
    script,     \* the pages the L2 TLB asks for in this behaviour
    answers     \* per request, the addresses the L2 TLB was given
vars == <<m, c, reads, table, copied, asked, script, answers>>

----------------------------------------------------------------------------
(* The steps of MMUImpl.Tick, as functions of the MMU's state. *)

Frame(n) == 4 * n
NewMMU == [top |-> <<>>, walking |-> <<>>, topSender |-> <<>>, topEnd |-> <<>>,
           pwcIn |-> <<>>, pwcEnd |-> <<>>, memIn |-> <<>>, memEnd |-> <<>>,
           panic |-> FALSE]

\* Port.Send with the error ignored: what does not fit in the connection is lost.
Put(end, cap, msg) == IF Len(end) < cap THEN Append(end, msg) ELSE end

MMUSenderTick(s) ==
    IF s.topSender # <<>> /\ Len(s.topEnd) < TopEndCap
    THEN [s EXCEPT !.topEnd = Append(@, Head(s.topSender)), !.topSender = Tail(@)]
    ELSE s

AlignToPage(vpn) == 4 * vpn

sendToPageWalkCache(s, i) ==
    LET t == s.walking[i]
        id == <<t.req, "lookup", 0>>
    IN  [s EXCEPT !.walking[i].msgID = id,
                  !.walking[i].state = "sentToPageWalkCache",
                  !.pwcEnd = Put(@, EndCap,
                      [op |-> "read", id |-> id, pid |-> t.pid,
                       address |-> AlignToPage(t.vpn)])]

sendToMem(s, i) ==
    LET t == s.walking[i]
        id == <<t.req, "mem", t.level>>
    IN  [s EXCEPT !.walking[i].msgID = id,
                  !.walking[i].vAddr = nextLevel(@),
                  !.walking[i].state = "sentToMem",
                  !.memEnd = Put(@, MemEndCap,
                      [id |-> id, address |-> addOffset(t.PPN, t.vAddr)])]

walkPageTable(s) ==
    LET step(st, i) ==
            CASE st.walking[i].state = "newTransaction" -> sendToPageWalkCache(st, i)
              [] st.walking[i].state \in {"pageWalkCacheDone", "memDone"} -> sendToMem(st, i)
              [] OTHER -> st
        all == FoldLeft(step, s, [i \in DOMAIN s.walking |-> i])
    IN  [all EXCEPT !.walking =
            SelectSeq(@, LAMBDA t : t.state # "transactionFinished")]

\* The transactions whose last message a response answers.
Waiting(s, rsp) == {i \in DOMAIN s.walking : s.walking[i].msgID = rsp.to}

resumed(t, data) == [t EXCEPT !.PPN = data - level(data),
                              !.vAddr = MoveToLevel(@, level(data) + 1),
                              !.level = level(data) + 1]
afterLookup_HitsOnly(t, data) ==
    IF data = NoData THEN t ELSE [resumed(t, data) EXCEPT !.state = "pageWalkCacheDone"]
afterLookup(t, data) ==
    [IF data = NoData THEN t ELSE resumed(t, data) EXCEPT !.state = "pageWalkCacheDone"]

handlePageWalkCacheResponse(s, rsp) ==
    [s EXCEPT !.walking = [i \in DOMAIN @ |->
        IF i \in Waiting(s, rsp) THEN afterLookup(@[i], rsp.data) ELSE @[i]]]

parseFromPageWalkCache(s) ==
    IF s.pwcIn = <<>> THEN s
    ELSE LET rsp == Head(s.pwcIn)
         IN  [IF rsp.op = "read" THEN handlePageWalkCacheResponse(s, rsp) ELSE s
              EXCEPT !.pwcIn = Tail(@)]

FillData(t) == t.PPN + t.level
FillAddress(t) == AlignToPage(t.vpn) + t.level
fillPageWalkCache(s, i) ==
    LET t == s.walking[i]
        id == <<t.req, "fill", t.level>>
    IN  [s EXCEPT !.walking[i].msgID = id,
                  !.pwcEnd = Put(@, EndCap,
                      [op |-> "write", id |-> id, pid |-> t.pid,
                       address |-> FillAddress(t), data |-> FillData(t)])]

doPageWalkHit(s, i) ==
    IF Len(s.topSender) >= SenderCap THEN s
    ELSE [s EXCEPT !.topSender =
            Append(@, [req |-> s.walking[i].req, pAddr |-> s.walking[i].PPN])]

\* Panics when the table has no such page, or another address for it.
finalizeTransaction(s, i) ==
    LET t == s.walking[i]
        found == t.vpn \in DOMAIN table[t.pid].entries
    IN  IF ~found \/ find(table[t.pid], t.vpn).p # t.PPN
        THEN [s EXCEPT !.panic = TRUE]
        ELSE doPageWalkHit([s EXCEPT !.walking[i].state = "transactionFinished"], i)

handleMemResponse(s, rsp) ==
    LET step(st, i) ==
            LET got == [st EXCEPT !.walking[i].PPN = rsp.data,
                                  !.walking[i].state = "memDone"]
            IN  [IF st.walking[i].level + 1 = numLevels
                 THEN finalizeTransaction(got, i) ELSE fillPageWalkCache(got, i)
                 EXCEPT !.walking[i].level = @ + 1]
    IN  FoldLeft(step, s, SetToSortSeq(Waiting(s, rsp), <))

parseFromMem(s) ==
    IF s.memIn = <<>> THEN s
    ELSE [handleMemResponse(s, Head(s.memIn)) EXCEPT !.memIn = Tail(@)]

startWalking(req) ==
    [req |-> req, pid |-> asked[req].pid, vpn |-> asked[req].vpn,
     vAddr |-> rearrange(asked[req].vpn), PPN |-> table[asked[req].pid].tree[<<>>],
     level |-> 0, state |-> "newTransaction", msgID |-> <<req, "invalid", 0>>]

Walkers(s) == Len(s.walking) < maxRequestsInFlight
parseFromTop(s) ==
    IF ~Walkers(s) \/ s.top = <<>> THEN s
    ELSE [s EXCEPT !.walking = Append(@, startWalking(Head(s.top))), !.top = Tail(@)]

MMUTick(s) ==
    LET sent   == Apply(MMUSenderTick, s)
        walked == Apply(walkPageTable, sent)
        cached == Apply(parseFromPageWalkCache, walked)
        read   == Apply(parseFromMem, cached)
    IN  Apply(parseFromTop, read)

----------------------------------------------------------------------------
(* The driver's side: a page more in a table, and the tables copied to memory. *)

NextFrame(tables) ==
    Frame(Cardinality(UNION {Range(tables[p].tree) : p \in Pids}))

\* A page more in a table: the nodes it needs and then the page, in new frames.
WithPage(tables, p, v) ==
    LET next  == NextFrame(tables)
        new   == Missing(tables[p], v)
        nodes == [k \in new |-> next + Frame(Cardinality({j \in new : j < k}))]
        page  == [p |-> next + Frame(Cardinality(new))]
    IN  [tables EXCEPT ![p] = insert(@, v, page, nodes)]

MapPage(p, v) ==
    /\ v \notin DOMAIN table[p].entries
    /\ table' = WithPage(table, p, v)
    /\ UNCHANGED <<m, c, reads, copied, asked, script, answers>>

\* The words of the table pages in GPU memory.
image ==
    LET bytes == [p \in Pids |-> PageTablePagesAsBytes(copied[p])]
    IN  [w \in UNION {DOMAIN bytes[p] : p \in Pids} |->
            bytes[CHOOSE p \in Pids : w \in DOMAIN bytes[p]][w]]

processWritePageTableH2DCommand ==
    /\ copied # table
    /\ copied' = table
    /\ UNCHANGED <<m, c, reads, table, asked, script, answers>>

----------------------------------------------------------------------------
(* The system. *)

Init ==
    /\ m = NewMMU /\ c = NewPageWalkCache
    /\ reads = {} /\ asked = <<>> /\ script \in Scripts
    /\ answers = [q \in DOMAIN script |-> <<>>]
    /\ table = FoldLeft(LAMBDA ts, x : WithPage(ts, x[1], x[2]),
                        [p \in Pids |-> EmptyTable], Before)
    /\ copied = table

\* A request of the L2 TLB arrives, numbered in the order of arrival. A kernel
\* touches only pages of the tables that were written before it.
Request ==
    /\ Len(asked) < Len(script)
    /\ LET req == Len(asked) + 1 IN
       /\ script[req].vpn \in DOMAIN copied[script[req].pid].entries
       /\ asked' = Append(asked, script[req])
       /\ m' = [m EXCEPT !.top = Append(@, req)]
    /\ UNCHANGED <<c, reads, table, copied, script, answers>>

\* The connection delivers what the receiving port has room for.
Fit(from, to, cap) == IF Len(from) <= cap - Len(to) THEN Len(from) ELSE cap - Len(to)
TopCap == 2 * numReqPerCycle

\* One cycle: the MMU and the cache tick, then their connection.
Cycle ==
    \E mm \in {MMUTick(m)}, cc \in {runPipeline(c)} :
        LET k == Fit(mm.pwcEnd, cc.top, TopCap) IN
        /\ m' = [mm EXCEPT !.pwcEnd = SubSeq(@, k + 1, Len(@)),
                           !.pwcIn = @ \o cc.end, !.memEnd = <<>>, !.topEnd = <<>>]
        /\ c' = [cc EXCEPT !.top = @ \o SubSeq(mm.pwcEnd, 1, k), !.end = <<>>]
        /\ <<m', c'>> # <<m, c>>
        /\ ~m.panic
        /\ reads' = reads \cup ToSet(mm.memEnd)
        /\ answers' = FoldLeft(LAMBDA as, a : [as EXCEPT ![a.req] = Append(@, a.pAddr)],
                               answers, mm.topEnd)
        /\ UNCHANGED <<table, copied, asked, script>>

\* Memory answers a read with the word it holds.
Respond(r) ==
    /\ reads' = reads \ {r}
    /\ m' = [m EXCEPT !.memIn = Append(@, [to |-> r.id, data |-> image[r.address]])]
    /\ UNCHANGED <<c, table, copied, asked, script, answers>>

Next ==
    \/ \E i \in DOMAIN script : MapPage(script[i].pid, script[i].vpn)
    \/ Request \/ processWritePageTableH2DCommand
    \/ Cycle
    \/ \E r \in reads : Respond(r)

CanWork == reads # {} \/ ~(m.panic \/ (MMUTick(m) = m /\ runPipeline(c) = c))

\* The MMU and the cache tick while a tick changes something, and memory answers; requests
\* and allocations are finitely many.
Fairness == []<>~CanWork \/ []<><<TRUE>>_vars

Spec == Init /\ [][Next]_vars /\ Fairness

----------------------------------------------------------------------------
(* Properties. *)

\* Every buffer stays within its capacity, the cache's buffered sender among
\* them, into which the directory stage pushes without asking for room.
TypeOK ==
    /\ Len(m.walking) <= maxRequestsInFlight
    /\ Len(m.pwcEnd) <= EndCap /\ Len(m.topEnd) <= TopEndCap
    /\ Len(c.top) <= TopCap /\ Len(c.lookup) <= 2 * numReqPerCycle
    /\ Len(c.bankBuf) <= numReqPerCycle
    /\ Len(c.sender) <= 4 * numReqPerCycle
    /\ \A w \in 1..Ways : c.block[w].readCount \in Nat
    /\ asked = SubSeq(script, 1, Len(asked))

\* A walk ends at the address find gives, from whichever level the cache let
\* it start: finalizeTransaction never panics.
WalksEndAtPage == ~m.panic

\* The table page a walk is about to read, or has just been given, is the one
\* on the way to its page, and what is left of its address selects the next.
OnPath ==
    \A t \in ToSet(m.walking) :
        t.state # "transactionFinished" =>
            LET k == IF t.state = "sentToMem" THEN t.level + 1 ELSE t.level
            IN  /\ t.PPN = Node(table[t.pid], t.vpn, t.level)
                /\ t.vAddr = MoveToLevel(rearrange(t.vpn), k)

\* A cache entry that may be hit holds the table page its tag stands for, in
\* the table of its own process, however many times the block was reused and
\* the table grew since it was filled.
EntriesAreTrue ==
    \A w \in 1..Ways : LET b == c.block[w] IN
        b.valid /\ ~b.locked =>
            /\ level(b.data) = level(b.tag)
            /\ b.data - level(b.data) = Node(table[b.pid], b.tag \div 4, level(b.tag) + 1)

\* A block that a read in the bank is about to take its data from is not
\* given to another entry, and its count of readers is exact.
ReadersKeepTheirBlock ==
    /\ \A r \in Banked(c) : r.op = "read" =>
            LET b == c.block[r.way]
            IN  /\ b.valid /\ ~b.locked /\ b.pid = r.pid
                /\ b.tag = masked(r.address, level(b.tag)) + level(b.tag)
    /\ \A w \in 1..Ways :
            c.block[w].readCount =
                Cardinality({r \in Banked(c) : r.op = "read" /\ r.way = w})

\* Two blocks never stand for the same entry, so the longest match is unique.
OneBlockPerEntry ==
    \A v, w \in 1..Ways :
        c.block[v].valid /\ c.block[w].valid /\ v # w =>
            <<c.block[v].pid, c.block[v].tag>> # <<c.block[w].pid, c.block[w].tag>>

\* A walker that waits has something to wait for: its lookup or its answer is
\* in the cache or between, its read in memory or its word on the way. The
\* errors of the sends are ignored, so this is what no other step ensures.
NothingLost ==
    \A t \in ToSet(m.walking) :
        /\ t.state = "sentToPageWalkCache" =>
               t.msgID \in {x.id : x \in Inside(c) \cup ToSet(m.pwcEnd)}
                           \cup {x.to : x \in ToSet(c.sender \o c.end \o m.pwcIn)}
        /\ t.state = "sentToMem" =>
               t.msgID \in {x.id : x \in reads \cup ToSet(m.memEnd)}
                           \cup {x.to : x \in ToSet(m.memIn)}

\* Each request made is in one place, and is answered once, with the address
\* its page has in the table.
Count(q) ==
    Len(SelectSeq(m.top, LAMBDA x : x = q))
    + Len(SelectSeq(m.walking, LAMBDA t : t.req = q /\ t.state # "transactionFinished"))
    + Len(SelectSeq(m.topSender \o m.topEnd, LAMBDA a : a.req = q)) + Len(answers[q])
ExactlyOnce ==
    /\ \A q \in DOMAIN asked : Count(q) = 1
    /\ \A q \in DOMAIN asked : \A a \in ToSet(answers[q]) :
            a = table[asked[q].pid].entries[asked[q].vpn].p

AllSettled == \A q \in DOMAIN asked : answers[q] # <<>>

\* Every request is answered, as long as memory answers reads.
Answered == []<>AllSettled
==============================================================================
