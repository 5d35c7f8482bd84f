---------------------------- MODULE DRAMController ----------------------------
(***************************************************************************)
(* The DRAM memory controller: transactions split into sub-transactions of *)
(* one access unit, commands for the bank each one maps to, a command      *)
(* queue per rank, and banks whose timing tables the builder generates     *)
(* from the timing parameters.  An address is the number of an access unit *)
(* of busWidth/8*burstLength bytes, a request covers some units.           *)
(***************************************************************************)
EXTENDS Naturals, Integers, Sequences, FiniteSets, SequencesExt

CONSTANTS
    P,             \* the builder's timing parameters
    RowBits, RankBits, BankBits, ColBits,
    QueueSize,     \* transactionQueueSize
    CmdQueueSize,  \* commandQueueSize
    Programs       \* sequences of requests [write, first, last], units

-----------------------------------------------------------------------------
(* generateTiming, for the four kinds of command that are ever created.     *)

MaxOf(a, b) == IF a > b THEN a ELSE b
burstCycle == P.burstLength \div 2
tRL == P.tAL + P.tCL
tWL == P.tAL + P.tCWL
readDelay == tRL + burstCycle
writeDelay == tRL + burstCycle

readToRead == MaxOf(burstCycle, P.tCCDS)
readToReadO == burstCycle + P.tRTRS
readToWrite == tRL + burstCycle - tWL + P.tRTRS
readToWriteO == readDelay + burstCycle + P.tRTRS - writeDelay
readpToAct == P.tAL + burstCycle + P.tRTP + P.tRP
activateToRead == P.tRCD - P.tAL
activateToWrite == P.tRCD - P.tAL
writeToRead == writeDelay + P.tWTRS
writeToReadO == writeDelay + burstCycle + P.tRTRS - readDelay
writeToWrite == MaxOf(burstCycle, P.tCCDS)
writeToWriteO == burstCycle
writeToActivate == tWL + burstCycle + P.tWR + P.tRP

CmdKinds == {"Activate", "Precharge", "ReadPrecharge", "WritePrecharge"}
NoTiming == [k \in CmdKinds |-> 0]
T(a, p, r, w) == [Activate |-> a, Precharge |-> p, ReadPrecharge |-> r, WritePrecharge |-> w]

\* After a command: the cycles before each kind may follow.
SameBank == [Activate       |-> T(P.tRAS + P.tRP, P.tRAS, activateToRead, activateToWrite),
             Precharge      |-> T(P.tRP, 0, 0, 0),
             ReadPrecharge  |-> T(readpToAct, 0, 0, 0),
             WritePrecharge |-> T(writeToActivate, 0, 0, 0)]
\* With one bank group the banks of a rank share its timing.
OtherBanksInBankGroup ==
            [Activate       |-> T(P.tRRDS, 0, 0, 0),
             Precharge      |-> NoTiming,
             ReadPrecharge  |-> T(0, 0, readToRead, readToWrite),
             WritePrecharge |-> T(0, 0, writeToRead, writeToWrite)]
OtherRanks ==
            [Activate       |-> NoTiming,
             Precharge      |-> NoTiming,
             ReadPrecharge  |-> T(0, 0, readToReadO, readToWriteO),
             WritePrecharge |-> T(0, 0, writeToReadO, writeToWriteO)]

CmdCycles == T(P.tRCD, P.tRP, P.tRP, P.tRP)

-----------------------------------------------------------------------------
(* DefaultMapper.Map: from the low bits up, column, bank, rank and row.     *)

Bits(addr, pos, n) == (addr \div 2^pos) % 2^n
rankPos == ColBits + BankBits
Map(addr) == [col  |-> Bits(addr, 0, ColBits),
              bank |-> Bits(addr, ColBits, BankBits),
              rank |-> Bits(addr, rankPos, RankBits),
              row  |-> Bits(addr, rankPos + RankBits, RowBits)]

Ranks == 0..2^RankBits - 1
BankIDs == Ranks \X (0..2^BankBits - 1)
Units == 0..2^(ColBits + BankBits + RankBits + RowBits) - 1
BankOf(cmd) == LET l == Map(cmd.addr) IN <<l.rank, l.bank>>

-----------------------------------------------------------------------------
VARIABLES
    port,      \* TopPort: requests [id, write, first, last]
    subQueue,  \* FCFSSubTransactionQueue: [id, addr]
    cmdQueues, \* rank -> commands [id, addr, kind]
    nextQueue,
    banks,     \* bank -> [state, openRow, cmd, cycles, avail]
    inflight,  \* sequence of [req, left]: units not completed
    storage,   \* unit -> the ID of the last write
    busy,      \* whether the connection takes no answer
    program,   \* the requests
    sent,      \* number of requests sent
    acked,     \* unit -> the last write acknowledged
    answered,  \* the requests answered
    stale,     \* the reads that returned data older than acked when they were sent
    panicked   \* whether StartCommand met a bank that was still busy

ctrl == <<subQueue, cmdQueues, nextQueue, banks, inflight, storage, panicked>>
vars == <<port, ctrl, busy, program, sent, acked, answered, stale>>

NoCmd == [id |-> 0, addr |-> 0, kind |-> "Precharge"]
Init ==
    /\ port = <<>> /\ subQueue = <<>> /\ cmdQueues = [r \in Ranks |-> <<>>] /\ nextQueue = 0
    /\ banks = [b \in BankIDs |-> [state |-> "closed", openRow |-> 0, cmd |-> NoCmd, cycles |-> 0,
                                   avail |-> NoTiming]]
    /\ inflight = <<>> /\ storage = [u \in Units |-> 0]
    /\ busy = FALSE /\ program \in Programs /\ sent = 0 /\ acked = [u \in Units |-> 0] /\ answered = {} /\ stale = {}
    /\ panicked = FALSE

-----------------------------------------------------------------------------
(* The steps of a cycle, functions of a record of the controller's state.   *)

UnitsOf(req) == req.first..req.last

\* respond: the first completed transaction whose answer is taken; the
\* storage is written even if the answer is not.
Written_First(s, req) == [s.storage EXCEPT ![req.first] = req.id]
Written(s, req) == [u \in Units |-> IF u \in UnitsOf(req) THEN req.id ELSE s.storage[u]]
Older(s, req) == \E u \in UnitsOf(req) : s.storage[u] # req.seen[u] /\ s.storage[u] \in req.old
Finalize(s, i) ==
    LET req == s.inflight[i].req
        stored == [s EXCEPT !.storage = IF req.write THEN Written(s, req) ELSE @]
    IN IF busy THEN stored
       ELSE [stored EXCEPT !.inflight = RemoveAt(@, i), !.busy = TRUE, !.answered = @ \cup {req.id},
                           !.acked = IF req.write THEN [u \in Units |-> IF u \in UnitsOf(req) THEN req.id ELSE @[u]]
                                     ELSE @,
                           !.stale = IF ~req.write /\ Older(s, req) THEN @ \cup {req.id} ELSE @]
IsCompleted(t) == t.left = {}
respond(s) ==
    LET done == SelectSeq([i \in 1..Len(s.inflight) |-> i], LAMBDA i : IsCompleted(s.inflight[i])) IN
    IF done = <<>> THEN s
    ELSE IF busy THEN FoldLeft(Finalize, s, done)
    ELSE Finalize(s, done[1])

\* Bank.Tick: countDownCurrentCmd, completeCurrentCmd and countDownTiming.
IsReadOrWrite(cmd) == cmd.kind \in {"ReadPrecharge", "WritePrecharge"}
Ending(b) == b.cmd # NoCmd /\ b.cycles <= 1
countDown(b) ==
    [b EXCEPT !.cmd = IF Ending(b) THEN NoCmd ELSE @,
              !.cycles = IF @ > 0 THEN @ - 1 ELSE 0,
              !.avail = [k \in CmdKinds |-> IF @[k] > 0 THEN @[k] - 1 ELSE @[k]]]
channelTick(s) ==
    LET ended == {s.banks[b].cmd : b \in {b \in BankIDs : Ending(s.banks[b])}} IN
    [s EXCEPT !.banks = [b \in BankIDs |-> countDown(@[b])],
              !.inflight = [i \in 1..Len(@) |->
                  [@[i] EXCEPT !.left = @ \ {c.addr : c \in {c \in ended : IsReadOrWrite(c) /\ c.id = s.inflight[i].req.id}}]]]

\* getRequiredCommandKind and GetReadyCommand
RequiredKind(b, cmd) ==
    IF b.state = "closed" THEN "Activate"
    ELSE IF b.openRow = Map(cmd.addr).row THEN cmd.kind ELSE "Precharge"
IsReady(s, cmd) == LET b == s.banks[BankOf(cmd)] IN b.avail[RequiredKind(b, cmd)] = 0

\* StartCommand and UpdateTiming
StateAfter(kind) == IF kind = "Activate" THEN "open" ELSE "closed"
Table(at, b) == IF b = at THEN SameBank ELSE IF b[1] = at[1] THEN OtherBanksInBankGroup ELSE OtherRanks
Start(s, cmd) ==
    LET at == BankOf(cmd)  kind == RequiredKind(s.banks[at], cmd) IN
    [s EXCEPT !.panicked = @ \/ s.banks[at].cmd # NoCmd,
              !.banks = [b \in BankIDs |->
                [@[b] EXCEPT !.state = IF b = at THEN StateAfter(kind) ELSE @,
                             !.openRow = IF b = at /\ kind = "Activate" THEN Map(cmd.addr).row ELSE @,
                             !.cmd = IF b = at THEN [cmd EXCEPT !.kind = kind] ELSE @,
                             !.cycles = IF b = at THEN CmdCycles[kind] ELSE @,
                             !.avail = [k \in CmdKinds |-> MaxOf(@[k], Table(at, b)[kind][k])]]]]

\* GetCommandToIssue and issue: queues in turn, in each the first command that
\* is ready; it leaves the queue unless its row has to be opened or closed.
Issued(s, cmd) == RequiredKind(s.banks[BankOf(cmd)], cmd) = cmd.kind
issue(s) ==
    LET n == Cardinality(Ranks)
        order == [k \in 1..n |-> (s.nextQueue + k - 1) % n]
        ReadyIn(r) == {i \in DOMAIN s.cmdQueues[r] : IsReady(s, s.cmdQueues[r][i])}
        turns == {k \in 1..n : ReadyIn(order[k]) # {}}
    IN IF turns = {} THEN s
       ELSE LET k == CHOOSE k \in turns : \A l \in turns : k <= l
                r == order[k]
                i == CHOOSE i \in ReadyIn(r) : \A j \in ReadyIn(r) : i <= j
                cmd == s.cmdQueues[r][i]
            IN [Start(s, cmd) EXCEPT !.nextQueue = (r + 1) % n,
                                     !.cmdQueues[r] = IF Issued(s, cmd) THEN RemoveAt(@, i) ELSE @]

\* FCFSSubTransactionQueue.Tick with ClosePageCommandCreator.Create
subQueueTick(s) ==
    LET Rank(i) == Map(s.subQueue[i].addr).rank
        fits == {i \in DOMAIN s.subQueue : Len(s.cmdQueues[Rank(i)]) < CmdQueueSize}
    IN IF fits = {} THEN s
       ELSE LET i == CHOOSE i \in fits : \A j \in fits : i <= j
            IN [s EXCEPT !.cmdQueues[Rank(i)] = Append(@, s.subQueue[i]),
                         !.subQueue = RemoveAt(@, i)]

\* parseTop, Split and the queue's CanPush and Push
Split(req) ==
    [i \in 1..(req.last - req.first + 1) |->
        [id |-> req.id, addr |-> req.first + i - 1,
         kind |-> IF req.write THEN "WritePrecharge" ELSE "ReadPrecharge"]]
CanPush(s, n) == Len(s.subQueue) + n <= QueueSize
parseTop(s) ==
    IF s.port = <<>> THEN s
    ELSE LET req == Head(s.port) IN
         IF ~CanPush(s, Len(Split(req))) THEN s
         ELSE [s EXCEPT !.port = Tail(@), !.subQueue = @ \o Split(req),
                        !.inflight = Append(@, [req |-> req, left |-> UnitsOf(req)])]

State == [port |-> port, subQueue |-> subQueue, cmdQueues |-> cmdQueues, nextQueue |-> nextQueue,
          banks |-> banks, inflight |-> inflight, storage |-> storage, busy |-> busy,
          acked |-> acked, answered |-> answered, stale |-> stale, panicked |-> panicked]

Apply(F(_), v) == CHOOSE r \in {F(x) : x \in {v}} : r = r
TickOf == parseTop(Apply(subQueueTick, Apply(issue, Apply(channelTick, Apply(respond, State)))))
Tick ==
    /\ \E s \in {TickOf} :
        /\ s # State
        /\ port' = s.port /\ subQueue' = s.subQueue /\ cmdQueues' = s.cmdQueues
        /\ nextQueue' = s.nextQueue /\ banks' = s.banks /\ inflight' = s.inflight
        /\ storage' = s.storage /\ busy' = s.busy /\ acked' = s.acked
        /\ answered' = s.answered /\ stale' = s.stale /\ panicked' = s.panicked
    /\ UNCHANGED <<program, sent>>

-----------------------------------------------------------------------------
(* The requester and the connection to it.                                  *)

Request ==
    /\ port = <<>> /\ sent < Len(program)
    /\ sent' = sent + 1
    /\ LET req == program[sent + 1] IN
       port' = <<[id |-> sent + 1, write |-> req.write, first |-> req.first, last |-> req.last,
                  seen |-> acked, old |-> answered \cup {0}]>>
    /\ UNCHANGED <<ctrl, busy, program, acked, answered, stale>>

\* The connection carries an answer off.
TakeAnswer ==
    /\ busy /\ busy' = FALSE
    /\ UNCHANGED <<port, ctrl, program, sent, acked, answered, stale>>

Next == Tick \/ TakeAnswer \/ Request

\* The controller ticks as long as a tick changes something, and the
\* connection takes every answer.
CanWork == busy \/ TickOf # State
Fairness == []<>~CanWork \/ []<><<sent' = sent>>_vars
Spec == Init /\ [][Next]_vars /\ Fairness

-----------------------------------------------------------------------------
(* Properties.                                                             *)

\* The queues keep to their capacities and Accept and Push never panic.
TypeOK ==
    /\ Len(subQueue) <= QueueSize
    /\ \A r \in Ranks : Len(cmdQueues[r]) <= CmdQueueSize
    /\ \A b \in BankIDs : banks[b].state \in {"open", "closed"} /\ banks[b].cycles >= 0

\* StartCommand never panics with "previous cmd is not completed": the timing
\* tables keep a command back while the one before it occupies the bank.
NoBusyBank == ~panicked

\* DefaultMapper.Map gives every access unit a place of its own: units that
\* hold different data are never on one row and column of one bank.
MapIsOneToOne == \A u, v \in Units : storage[u] # storage[v] => Map(u) # Map(v)

\* Every unit a transaction still waits for is in a queue or on its bank,
\* exactly once.
Pending(id, u) ==
    Len(SelectSeq(subQueue, LAMBDA c : c.id = id /\ c.addr = u))
    + Len(SelectSeq(cmdQueues[Map(u).rank], LAMBDA c : c.id = id /\ c.addr = u))
    + Cardinality({b \in BankIDs : IsReadOrWrite(banks[b].cmd) /\ banks[b].cmd.id = id /\ banks[b].cmd.addr = u})
EachUnitOnce ==
    \A i \in DOMAIN inflight : \A u \in UnitsOf(inflight[i].req) :
        Pending(inflight[i].req.id, u) = IF u \in inflight[i].left THEN 1 ELSE 0

\* A read returns, for each of its units, the last write acknowledged before
\* the read was sent or a write not yet acknowledged then, never an older one,
\* although respond stores a write again on every retry of its answer.
ReadsSeeAcknowledged == stale = {}

\* Every request is answered.
Idle == answered = 1..sent
Answered == []<>Idle
=============================================================================
