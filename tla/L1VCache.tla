------------------------------ MODULE L1VCache ------------------------------
(***************************************************************************)
(* The write-through L1 vector cache: the coalescer joins the accesses of  *)
(* one wavefront instruction to one line, the directory stage looks lines  *)
(* up, the banks read and write them, the bottom parser applies what the   *)
(* lower level answers, the respond stage answers, and the control stage   *)
(* flushes and restarts.  Every stage's Tick is an action of its own: the  *)
(* order of the stages inside one cycle, the number of requests per cycle  *)
(* and the bank latency are all covered by interleaving them freely.       *)
(*                                                                         *)
(* An access is [kind, line, words, last]; its number in log is its ID.  A *)
(* write stores its own ID in the words it covers, so that data tells who  *)
(* wrote it; 0 is what memory holds at first.                              *)
(***************************************************************************)
EXTENDS Naturals, Sequences, FiniteSets, SequencesExt

CONSTANTS
    Lines,         \* cache lines of the process
    Words,         \* the words of a line
    Associativity, \* the possible numbers of ways (one set)
    NumReq,        \* numReqPerCycle: size of ports and buffers
    NumMSHREntry,
    DownCap,       \* what the connection below holds before it refuses
    BankCap,       \* what a bank's buffer and pipeline hold
    Programs,      \* the sequences of accesses a compute unit may make
    MaxFlushes     \* bound on the flushes asked for

VARIABLES
    log,      \* the accesses of the program, by ID
    made,     \* how many it has made
    dropped,  \* the accesses a flush made nobody's
    owed,     \* the accesses somebody still waits for
    top,      \* IDs in TopPort
    toCoalesce,
    trans,    \* cache.transactions: [id, done, data]
    post,     \* cache.postCoalesceTransactions, by ID of the first access
    dirBuf,
    bank,     \* what is in the banks' buffers and pipelines
    block, lru, store,
    mshr,     \* line -> the requests joined to its fetch
    down,     \* on the way to the lower level, in order
    up,       \* answers of the lower level, not yet delivered
    bottom,   \* BottomPort
    mem,      \* the lower level's data
    ctrl,     \* the control port and the requester: see Flushes
    isPaused

vars == <<log, made, dropped, owed, top, toCoalesce, trans, post, dirBuf, bank,
          block, lru, store, mshr, down, up, bottom, mem, ctrl, isPaused>>

-----------------------------------------------------------------------------
Ways == DOMAIN block
NoLine == CHOOSE l \in Lines : TRUE
Blank == [w \in Words |-> 0]
Overlay(data, new) == [w \in Words |-> IF w \in DOMAIN new THEN new[w] ELSE data[w]]

\* directory.Reset: blocks whose PID field is zero, no process's.
Reset(n) == [w \in 1..n |-> [line |-> NoLine, mine |-> FALSE, valid |-> FALSE,
                             locked |-> FALSE, readCount |-> 0]]

NoCtrl == [port |-> "none", curr |-> "none", asked |-> "none", left |-> MaxFlushes]

Init ==
    /\ log \in Programs /\ made = 0 /\ dropped = {} /\ owed = {} /\ top = <<>> /\ toCoalesce = <<>>
    /\ trans = <<>> /\ post = <<>> /\ dirBuf = <<>> /\ bank = {}
    /\ \E n \in Associativity : /\ block = Reset(n)
                                /\ lru = [i \in 1..n |-> i]
                                /\ store = [w \in 1..n |-> Blank]
    /\ mshr = <<>> /\ down = <<>> /\ up = {} /\ bottom = <<>>
    /\ mem = [l \in Lines |-> Blank]
    /\ ctrl = NoCtrl /\ isPaused = FALSE

Put(f, x, v) == [y \in DOMAIN f \cup {x} |-> IF y = x THEN v ELSE f[y]]
Cut(f, X) == [y \in DOMAIN f \ X |-> f[y]]

-----------------------------------------------------------------------------
(* The coalescer.                                                          *)

canReqCoalesce(id) == log[id].line = log[toCoalesce[1]].line
Joins(id) == IF toCoalesce = <<>> THEN TRUE ELSE canReqCoalesce(id)
isReqLastInWave(id) == log[id].last

WriteData(ids) ==
    LET Of(w) == {i \in ToSet(ids) : w \in log[i].words}
        Dirty == {w \in Words : Of(w) # {}}
    IN [w \in Dirty |-> CHOOSE i \in Of(w) : \A j \in Of(w) : j <= i]

\* coalesceRead and coalesceWrite: one transaction for the whole line.
Coalesced(ids) ==
    [line |-> log[ids[1]].line, pre |-> ids, read |-> log[ids[1]].kind = "read",
     data |-> IF log[ids[1]].kind = "read" THEN <<>> ELSE WriteData(ids),
     written |-> FALSE, fetched |-> FALSE, fetchAndWrite |-> FALSE, way |-> 0]

\* createTransaction
New(id) == [id |-> id, done |-> FALSE, data |-> <<>>]

CoalesceAndSend(seqs) ==
    /\ dirBuf' = dirBuf \o [i \in DOMAIN seqs |-> seqs[i][1]]
    /\ post' = FoldLeft(LAMBDA p, ids : Put(p, ids[1], Coalesced(ids)), post, seqs)

processReqCoalescable(id) ==
    /\ ~isReqLastInWave(id) /\ Joins(id)
    /\ toCoalesce' = Append(toCoalesce, id) /\ trans' = Append(trans, New(id))
    /\ top' = Tail(top) /\ UNCHANGED <<dirBuf, post>>

processReqNoncoalescable(id) ==
    /\ ~isReqLastInWave(id) /\ ~Joins(id)
    /\ Len(dirBuf) < NumReq
    /\ CoalesceAndSend(<<toCoalesce>>)
    /\ toCoalesce' = <<id>> /\ trans' = Append(trans, New(id)) /\ top' = Tail(top)

processReqLastInWaveCoalescable(id) ==
    /\ isReqLastInWave(id) /\ Joins(id)
    /\ Len(dirBuf) < NumReq
    /\ CoalesceAndSend(<<Append(toCoalesce, id)>>)
    /\ toCoalesce' = <<>> /\ trans' = Append(trans, New(id)) /\ top' = Tail(top)

\* With room for one only, the access itself stays in the port.
processReqLastInWaveNoncoalescable(id) ==
    /\ isReqLastInWave(id) /\ ~Joins(id)
    /\ Len(dirBuf) < NumReq
    /\ toCoalesce' = <<>>
    /\ IF Len(dirBuf) + 1 < NumReq
       THEN /\ CoalesceAndSend(<<toCoalesce, <<id>> >>)
            /\ trans' = Append(trans, New(id)) /\ top' = Tail(top)
       ELSE /\ CoalesceAndSend(<<toCoalesce>>) /\ UNCHANGED <<trans, top>>

processReq ==
    /\ ~isPaused /\ top # <<>>
    /\ \/ processReqCoalescable(Head(top)) \/ processReqNoncoalescable(Head(top))
       \/ processReqLastInWaveCoalescable(Head(top))
       \/ processReqLastInWaveNoncoalescable(Head(top))
    /\ UNCHANGED <<log, made, dropped, owed, bank, block, lru, store, mshr, down, up,
                   bottom, mem, ctrl, isPaused>>

-----------------------------------------------------------------------------
(* The directory stage.                                                    *)

\* DirectoryImpl.Lookup: the process's valid block for the line, 0 if none.
Lookup(line) ==
    LET hits == {w \in Ways : block[w].valid /\ block[w].line = line /\ block[w].mine}
    IN IF hits = {} THEN 0 ELSE CHOOSE w \in hits : \A v \in hits : w <= v

\* LRUVictimFinder.FindVictim: an empty block, or the first in the queue that
\* is not locked, or the first.
FindVictim ==
    LET First(S) == lru[CHOOSE i \in DOMAIN lru : lru[i] \in S /\ \A j \in 1..i-1 : lru[j] \notin S]
        empty == {w \in Ways : ~block[w].valid /\ ~block[w].locked}
        free == {w \in Ways : ~block[w].locked}
    IN IF empty # {} THEN First(empty) ELSE IF free # {} THEN First(free) ELSE lru[1]

BankCanPush == Cardinality(bank) < BankCap

Visit(w) == lru' = Append(SelectSeq(lru, LAMBDA v : v # w), w)

Busy(w) == block[w].locked \/ block[w].readCount > 0
CanSendDown == Len(down) < DownCap

Write(t) == [write |-> TRUE, id |-> t, line |-> post[t].line, data |-> post[t].data]
Read(t) == [write |-> FALSE, id |-> t, line |-> post[t].line, data |-> <<>>]

processMSHRHit(t, sent) ==
    /\ mshr' = [mshr EXCEPT ![post[t].line] = Append(@, post[t])]
    /\ post' = IF sent THEN [post EXCEPT ![t].written = TRUE] ELSE post
    /\ dirBuf' = Tail(dirBuf) /\ UNCHANGED <<bank, block, lru>>

processReadHit(t, w) ==
    /\ ~block[w].locked /\ BankCanPush
    /\ block' = [block EXCEPT ![w].readCount = @ + 1]
    /\ Visit(w)
    /\ bank' = bank \cup {[action |-> "readHit", id |-> t, way |-> w, pre |-> post[t].pre,
                                   data |-> <<>>]}
    /\ dirBuf' = Tail(dirBuf) /\ UNCHANGED <<post, mshr, down>>

Taken(line) == [line |-> line, mine |-> TRUE, valid |-> TRUE, locked |-> TRUE, readCount |-> 0]

fetchFromBottom(t, w) ==
    /\ post' = [post EXCEPT ![t].fetched = TRUE, ![t].way = w, ![t].written = ~post[t].read,
                            ![t].fetchAndWrite = ~post[t].read]
    /\ mshr' = Put(mshr, post[t].line, <<post[t]>>)
    /\ block' = [block EXCEPT ![w] = Taken(post[t].line)]
    /\ Visit(w)
    /\ dirBuf' = Tail(dirBuf) /\ UNCHANGED bank

MSHRFull == Cardinality(DOMAIN mshr) >= NumMSHREntry

processReadMiss(t) ==
    /\ ~Busy(FindVictim) /\ ~MSHRFull /\ CanSendDown
    /\ down' = Append(down, Read(t))
    /\ fetchFromBottom(t, FindVictim)

processRead(t) ==
    LET line == post[t].line IN
    \/ line \in DOMAIN mshr /\ processMSHRHit(t, FALSE) /\ UNCHANGED down
    \/ line \notin DOMAIN mshr /\ Lookup(line) # 0 /\ processReadHit(t, Lookup(line))
    \/ line \notin DOMAIN mshr /\ Lookup(line) = 0 /\ processReadMiss(t)

\* processWriteHit: the block keeps the PID it had.
processWriteHit(t, w) ==
    /\ ~Busy(w) /\ BankCanPush
    /\ (CanSendDown \/ post[t].written)
    /\ down' = IF post[t].written THEN down ELSE Append(down, Write(t))
    /\ post' = [post EXCEPT ![t].written = TRUE]
    /\ block' = [block EXCEPT ![w].locked = TRUE, ![w].valid = TRUE, ![w].line = post[t].line]
    /\ Visit(w)
    /\ bank' = bank \cup {[action |-> "write", id |-> t, way |-> w, pre |-> <<>>,
                                   data |-> post[t].data]}
    /\ dirBuf' = Tail(dirBuf) /\ UNCHANGED mshr

isPartialWrite(t) == DOMAIN post[t].data # Words

\* partialWriteMiss: the write and the fetch are sent in that order, the fetch
\* in a later tick when only the write finds room.
partialWriteMiss(t) ==
    /\ ~MSHRFull /\ ~Busy(FindVictim) /\ CanSendDown
    /\ LET sent == IF post[t].written THEN down ELSE Append(down, Write(t)) IN
       IF Len(sent) < DownCap
       THEN /\ down' = Append(sent, Read(t))
            /\ fetchFromBottom(t, FindVictim)
       ELSE /\ down' = sent
            /\ post' = [post EXCEPT ![t].written = TRUE, ![t].fetchAndWrite = TRUE]
            /\ UNCHANGED <<mshr, block, lru, dirBuf, bank>>

processWrite(t) ==
    LET line == post[t].line
        absent == line \notin DOMAIN mshr /\ Lookup(line) = 0
    IN
    \/ /\ line \in DOMAIN mshr /\ CanSendDown
       /\ down' = Append(down, Write(t))
       /\ processMSHRHit(t, TRUE)
    \/ line \notin DOMAIN mshr /\ Lookup(line) # 0 /\ processWriteHit(t, Lookup(line))
    \/ absent /\ isPartialWrite(t) /\ partialWriteMiss(t)
    \/ absent /\ ~isPartialWrite(t) /\ processWriteHit(t, FindVictim)

directoryTick ==
    /\ ~isPaused /\ dirBuf # <<>>
    /\ LET t == Head(dirBuf) IN IF post[t].read THEN processRead(t) ELSE processWrite(t)
    /\ UNCHANGED <<log, made, dropped, owed, top, toCoalesce, trans, store, up, bottom, mem,
                   ctrl, isPaused>>

-----------------------------------------------------------------------------
(* The banks.  Locks and read counts, not the pipeline, keep the order of   *)
(* accesses to one block: what is in the pipeline may finish in any order.  *)

Finish(ids, data) ==
    [i \in DOMAIN trans |->
        IF trans[i].id \in ToSet(ids)
        THEN [trans[i] EXCEPT !.done = TRUE,
                !.data = IF log[trans[i].id].kind = "write" THEN <<>>
                         ELSE [w \in log[trans[i].id].words |-> data[w]]]
        ELSE trans[i]]

finalizeReadHitTrans(b) ==
    /\ b.action = "readHit"
    /\ block' = [block EXCEPT ![b.way].readCount = @ - 1]
    /\ trans' = Finish(b.pre, store[b.way])
    /\ post' = Cut(post, {b.id}) /\ UNCHANGED store

finalizeWriteTrans(b) ==
    /\ b.action = "write"
    /\ store' = [store EXCEPT ![b.way] = Overlay(@, b.data)]
    /\ block' = [block EXCEPT ![b.way].locked = FALSE] /\ UNCHANGED <<trans, post>>

finalizeWriteFetchedTrans(b) ==
    /\ b.action = "writeFetched"
    /\ store' = [store EXCEPT ![b.way] = b.data]
    /\ block' = [block EXCEPT ![b.way].locked = FALSE] /\ UNCHANGED <<trans, post>>

finalizeTrans ==
    /\ ~isPaused
    /\ \E b \in bank :
        /\ \/ finalizeReadHitTrans(b) \/ finalizeWriteTrans(b) \/ finalizeWriteFetchedTrans(b)
        /\ bank' = bank \ {b}
    /\ UNCHANGED <<log, made, dropped, owed, top, toCoalesce, dirBuf, lru, mshr, down, up,
                   bottom, mem, ctrl, isPaused>>

-----------------------------------------------------------------------------
(* The bottom parser.                                                      *)

\* processDoneRsp: a write that also fetched is done when the data is there.
Acknowledged(t) == t \in DOMAIN post /\ ~post[t].fetchAndWrite
processDoneRsp(m) ==
    /\ m.write
    /\ IF Acknowledged(m.id)
       THEN trans' = Finish(post[m.id].pre, <<>>) /\ post' = Cut(post, {m.id})
       ELSE UNCHANGED <<trans, post>>
    /\ UNCHANGED <<bank, mshr>>

\* mergeMSHRData: the joined writes over the fetched data, in order.
mergeMSHRData(reqs, data) ==
    FoldLeft(LAMBDA d, r : IF r.read THEN d ELSE Overlay(d, r.data), data, reqs)

\* finalizeMSHRTrans: everything joined to the fetch is done.
Joined_First(reqs) == reqs[1].pre
Joined(reqs) == FoldLeft(LAMBDA s, r : s \o r.pre, <<>>, reqs)

processDataReady(m) ==
    /\ ~m.write
    /\ IF m.id \notin DOMAIN post THEN UNCHANGED <<bank, mshr, trans, post>>
       ELSE LET t == post[m.id]
                reqs == mshr[t.line]
                data == mergeMSHRData(reqs, m.data)
            IN /\ BankCanPush
               /\ trans' = Finish(Joined(reqs), data)
               /\ mshr' = Cut(mshr, {t.line})
               /\ post' = Cut(post, {m.id} \cup {reqs[i].pre[1] : i \in DOMAIN reqs})
               /\ bank' = bank \cup {[action |-> "writeFetched", id |-> m.id,
                                              way |-> t.way, pre |-> <<>>, data |-> data]}

bottomParserTick ==
    /\ ~isPaused /\ bottom # <<>>
    /\ \/ processDoneRsp(Head(bottom)) \/ processDataReady(Head(bottom))
    /\ bottom' = Tail(bottom)
    /\ UNCHANGED <<log, made, dropped, owed, top, toCoalesce, dirBuf, block, lru, store, down,
                   up, mem, ctrl, isPaused>>

-----------------------------------------------------------------------------
(* The respond stage answers the first transaction that is done.           *)

respondTick ==
    /\ ~isPaused
    /\ \E i \in DOMAIN trans :
        /\ trans[i].done /\ \A j \in 1..i-1 : ~trans[j].done
        /\ owed' = owed \ {trans[i].id}
        /\ trans' = RemoveAt(trans, i)
    /\ UNCHANGED <<log, made, dropped, top, toCoalesce, post, dirBuf, bank, block, lru, store,
                   mshr, down, up, bottom, mem, ctrl, isPaused>>

-----------------------------------------------------------------------------
(* The control stage.  ctrl.port and ctrl.curr hold a request: "flush" lets *)
(* what is in flight finish, "discard" drops it and pauses the cache, and   *)
(* "restart" resumes it; ctrl.asked is what the command processor waits for.*)

startCacheFlush ==
    /\ ctrl.port \in {"flush", "discard"} /\ ctrl.curr = "none"
    /\ ctrl' = [ctrl EXCEPT !.curr = ctrl.port, !.port = "none"]
    /\ UNCHANGED <<log, made, dropped, owed, top, toCoalesce, trans, post, dirBuf, bank,
                   block, lru, store, mshr, down, up, bottom, mem, isPaused>>

shouldWaitForInFlightTransactions == ctrl.curr = "flush" /\ trans # <<>>

hardResetCache ==
    /\ top' = <<>> /\ bottom' = <<>> /\ dirBuf' = <<>> /\ bank' = {}
    /\ block' = Reset(Cardinality(Ways)) /\ lru' = [i \in Ways |-> i]
    /\ mshr' = <<>> /\ toCoalesce' = <<>> /\ trans' = <<>> /\ post' = <<>>
    /\ isPaused' = (isPaused \/ ctrl.curr = "discard")

processCurrentFlush ==
    /\ ctrl.curr # "none" /\ ~shouldWaitForInFlightTransactions
    /\ hardResetCache
    /\ ctrl' = [ctrl EXCEPT !.curr = "none", !.asked = IF @ = "flush" THEN "none" ELSE "flushed"]
    /\ UNCHANGED <<log, made, dropped, owed, store, down, up, mem>>

doCacheRestart ==
    /\ ctrl.port = "restart"
    /\ isPaused' = FALSE /\ top' = <<>> /\ bottom' = <<>>
    /\ ctrl' = [ctrl EXCEPT !.port = "none", !.asked = "none"]
    /\ UNCHANGED <<log, made, dropped, owed, toCoalesce, trans, post, dirBuf, bank, block,
                   lru, store, mshr, down, up, mem>>

-----------------------------------------------------------------------------
(* The surroundings.                                                       *)

\* The program is inside an instruction, all of whose accesses are of one kind.
InsideInstruction == IF made = 0 THEN FALSE ELSE ~log[made].last

\* The compute unit's accesses, as the address translator passes them on.  What
\* arrives while the cache is being flushed or is paused is the rest of an
\* instruction, nobody's any more.
Access ==
    /\ made < Len(log) /\ Len(top) < NumReq
    /\ ctrl.asked \in {"none", "discard", "flushed"}
    /\ ctrl.asked = "none" \/ InsideInstruction
    /\ made' = made + 1
    /\ top' = Append(top, made + 1)
    /\ IF ctrl.asked = "none" THEN owed' = owed \cup {made + 1} /\ UNCHANGED dropped
                              ELSE dropped' = dropped \cup {made + 1} /\ UNCHANGED owed
    /\ UNCHANGED <<log, toCoalesce, trans, post, dirBuf, bank, block, lru, store, mshr,
                   down, up, bottom, mem, ctrl, isPaused>>

\* The lower level serves what it is sent in order and answers in any order.
ServeBelow ==
    /\ down # <<>>
    /\ LET m == Head(down) IN
        /\ mem' = IF m.write THEN [mem EXCEPT ![m.line] = Overlay(@, m.data)] ELSE mem
        /\ up' = up \cup {[m EXCEPT !.data = IF m.write THEN <<>> ELSE mem[m.line]]}
    /\ down' = Tail(down)
    /\ UNCHANGED <<log, made, dropped, owed, top, toCoalesce, trans, post, dirBuf, bank, block,
                   lru, store, mshr, bottom, ctrl, isPaused>>

DeliverBelow ==
    /\ Len(bottom) < NumReq
    /\ \E m \in up : bottom' = Append(bottom, m) /\ up' = up \ {m}
    /\ UNCHANGED <<log, made, dropped, owed, top, toCoalesce, trans, post, dirBuf, bank, block,
                   lru, store, mshr, down, mem, ctrl, isPaused>>

\* A flush command comes between kernels; a shootdown comes at any time, after
\* the units above have forgotten what they wait for.
AskFlush ==
    /\ ctrl.asked = "none" /\ ctrl.left > 0
    /\ \/ /\ owed = {}
          /\ ctrl' = [ctrl EXCEPT !.asked = "flush", !.port = "flush", !.left = @ - 1]
          /\ UNCHANGED <<owed, dropped>>
       \/ /\ ctrl' = [ctrl EXCEPT !.asked = "discard", !.port = "discard", !.left = @ - 1]
          /\ owed' = {} /\ dropped' = dropped \cup owed
    /\ UNCHANGED <<log, made, top, toCoalesce, trans, post, dirBuf, bank, block, lru, store,
                   mshr, down, up, bottom, mem, isPaused>>

\* The rest of a broken instruction has come by the time of the restart.
AskRestart ==
    /\ ctrl.asked = "flushed" /\ ~InsideInstruction
    /\ ctrl' = [ctrl EXCEPT !.asked = "restart", !.port = "restart"]
    /\ UNCHANGED <<log, made, dropped, owed, top, toCoalesce, trans, post, dirBuf, bank, block,
                   lru, store, mshr, down, up, bottom, mem, isPaused>>

Stage == \/ respondTick \/ bottomParserTick \/ finalizeTrans \/ directoryTick
         \/ processReq \/ startCacheFlush \/ processCurrentFlush \/ doCacheRestart
Below == ServeBelow \/ DeliverBelow

\* The engine ticks a cache that made progress again and wakes it for every
\* message; what is below answers, an instruction once begun is sent to its end
\* and a flush is followed by a restart.
Work == Stage \/ Below \/ AskRestart \/ (Access /\ InsideInstruction)
Next == Work \/ Access \/ AskFlush
Spec == Init /\ [][Next]_vars /\ WF_vars(Work)

-----------------------------------------------------------------------------
(* Properties.                                                             *)

\* Buffers stay within their sizes, block counters do not go below zero and
\* the stages only hold what the cache knows of.
TypeOK ==
    /\ \A n \in {Len(top), Len(dirBuf), Len(bottom)} : n <= NumReq
    /\ Len(down) <= DownCap /\ Cardinality(DOMAIN mshr) <= NumMSHREntry
    /\ \A w \in Ways : block[w].readCount \in 0..(2 * NumReq)
    /\ ToSet(lru) = Ways /\ Len(lru) = Cardinality(Ways)
    /\ ToSet(dirBuf) \subseteq DOMAIN post
    /\ owed \subseteq 1..made /\ owed \cap dropped = {}

\* The writes to a word made before an access and not dropped by a flush.
Before(id, w) == {i \in 1..id-1 : /\ log[i].kind = "write" /\ i \notin dropped
                                  /\ log[i].line = log[id].line /\ w \in log[i].words}
Writer(v, l, w) == log[v].kind = "write" /\ log[v].line = l /\ w \in log[v].words

\* A read (finalizeReadHitTrans, finalizeMSHRTrans) returns, for every word, a
\* value some write to that word stored, and none older than the last write
\* made before the read that no flush dropped.
FreshReads ==
    \A i \in DOMAIN trans : LET t == trans[i]  r == log[t.id] IN
        t.done /\ r.kind = "read" /\ t.id \notin dropped =>
            \A w \in r.words : /\ t.data[w] = 0 \/ Writer(t.data[w], r.line, w)
                               /\ \A j \in Before(t.id, w) : j <= t.data[w]

\* A write-through cache: a block that Lookup can return and that is not
\* locked holds what the lower level will hold once it has served the writes
\* on their way (processWriteHit, mergeMSHRData), and no line has two.
Coherent ==
    \A w \in Ways : block[w].valid /\ block[w].mine =>
        /\ block[w].locked \/ store[w] = FoldLeft(LAMBDA d, m : IF m.write /\ m.line = block[w].line
                                                                THEN Overlay(d, m.data) ELSE d,
                                                  mem[block[w].line], down)
        /\ \A v \in Ways \ {w} : ~(block[v].valid /\ block[v].mine /\ block[v].line = block[w].line)

\* Every access somebody waits for is in the port or is one transaction, and
\* one that is not done is held by the coalescer or by exactly one coalesced
\* transaction: none is forgotten and none is answered twice.
Carried ==
    \A id \in owed :
        LET mine == {i \in DOMAIN trans : trans[i].id = id}
            carriers == {t \in DOMAIN post : id \in ToSet(post[t].pre)}
        IN \/ id \in ToSet(top) /\ mine = {} /\ carriers = {}
           \/ /\ id \notin ToSet(top) /\ Cardinality(mine) = 1
              /\ \A i \in mine : ~trans[i].done =>
                    Cardinality(carriers) + (IF id \in ToSet(toCoalesce) THEN 1 ELSE 0) = 1

\* The MSHR has an entry for a line exactly while one transaction's fetch of
\* it is outstanding: mshr.Query in processDataReady never returns nil, and
\* mshr.Add never finds the line there already.
FetchesMatchMSHR ==
    \A l \in Lines :
        LET fetching == {t \in DOMAIN post : post[t].fetched /\ post[t].line = l}
        IN Cardinality(fetching) = (IF l \in DOMAIN mshr THEN 1 ELSE 0)

\* Every access is answered or dropped by a flush, and every flush ends: the
\* program is finite, so nobody waits for ever exactly when nobody waits in
\* the end.
Idle == owed = {} /\ ctrl.asked = "none"
Answered == []<>Idle
=============================================================================
