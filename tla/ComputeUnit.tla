----------------------------- MODULE ComputeUnit -----------------------------
(***************************************************************************)
(* The compute unit of the timing simulator: the scheduler that fetches,   *)
(* decodes and issues the instructions of its wavefronts, the execution    *)
(* units, the in-flight memory accesses, and the flush and the restart of  *)
(* the pipeline, which resends what was in flight from shadow buffers.     *)
(*                                                                         *)
(* An execution unit and the decoder in front of it is a queue of          *)
(* wavefronts; in which cycle it finishes one, and the order in which the  *)
(* arbiters serve SIMDs and fetches, is left open.  The PC counts          *)
(* instructions.  An instruction is a record whose op names the unit.      *)
(***************************************************************************)
EXTENDS Naturals, Sequences, FiniteSets, SequencesExt

CONSTANTS
    Scenarios,     \* [wg, simd: wavefront -> ..., prog: wavefront -> program]
    LineLen,       \* instructions in a line of the instruction memory
    BufSize,       \* InstBufByteSize, in instructions
    PipeCap,       \* wavefronts in a decoder and the unit behind it
    BarrierSize,   \* barrierBufferSize
    ReadBufSize,   \* readBufSize of the scalar unit
    VMemLimit,     \* InFlightVectorMemAccessLimit
    WordsPerLine,  \* words in a cache line
    PortCap,       \* what a memory port and the memory behind it hold
    NumFlush       \* flush requests the command processor sends

Lanes == 1..2
Units == {"salu", "branch", "valu", "lds"}

VARIABLES
    sc,        \* the scenario
    wf,        \* wavefront -> its state
    pipe,      \* unit -> wavefronts
    sched,     \* internalExecuting, barrierBuffer
    smem,      \* scalar memory: readBuf, in flight, shadow, requests, responses
    vmem,      \* vector memory: instructions, waiting, pipeline, and the same
    imem,      \* instruction memory: the same
    ctl,       \* flags of the compute unit and the messages of the command processor
    done,      \* completion events, work-groups completed, ToACE
    lds,       \* work-group -> word
    memory,    \* word -> value
    result     \* wavefront -> registers at its end

vars == <<sc, wf, pipe, sched, smem, vmem, imem, ctl, done, lds, memory, result>>

Waves == DOMAIN sc.prog
Prog(w) == sc.prog[w]
InWG(g) == {w \in Waves : sc.wg[w] = g}
WGs == {sc.wg[w] : w \in Waves}
Regs == [s |-> 0, sl |-> <<0, 0>>, v |-> [l \in Lanes |-> <<0, 0>>]]
NewWave == [state |-> "none", pc |-> 1, inst |-> 0, toIssue |-> 0, start |-> 1, buf |-> <<>>,
            fetching |-> FALSE, outS |-> 0, outV |-> 0, regs |-> Regs]
Port == [inflight |-> <<>>, shadow |-> <<>>, req |-> <<>>, rsp |-> <<>>]

Init ==
    /\ sc \in Scenarios
    /\ wf = [w \in Waves |-> NewWave]
    /\ pipe = [u \in Units \X {0, 1} |-> <<>>]
    /\ sched = [internal |-> <<>>, barrier |-> <<>>]
    /\ smem = [inflight |-> <<>>, shadow |-> <<>>, req |-> <<>>, rsp |-> <<>>, readBuf |-> <<>>]
    /\ vmem = [inflight |-> <<>>, shadow |-> <<>>, req |-> <<>>, rsp |-> <<>>,
               insts |-> <<>>, waiting |-> <<>>, trans |-> <<>>]
    /\ imem = Port
    /\ ctl = [isPaused |-> FALSE, isFlushing |-> FALSE, isSendingOut |-> FALSE, isHandling |-> FALSE,
              toSendToCP |-> FALSE, acked |-> FALSE, flushes |-> 0, gen |-> 0]
    /\ done = [events |-> {}, wgs |-> {}, ace |-> FALSE]
    /\ lds = [g \in WGs |-> 0]
    /\ memory = [a \in 0..7 |-> a]
    /\ result = <<>>

Room(q) == Len(q.req) + Len(q.rsp) < PortCap
Running == ~ctl.isPaused
Listening == ~ctl.isPaused \/ ctl.isSendingOut

-----------------------------------------------------------------------------
(* Wavefronts.                                                             *)

LineOf(pc) == ((pc - 1) \div LineLen) * LineLen + 1

\* UpdatePCAndSetReady and removeStaleInstBuffer
Ready(wave, pc) ==
    LET stale == wave.buf # <<>> /\ pc >= wave.start + LineLen IN
    [wave EXCEPT !.state = "ready", !.pc = pc,
                 !.buf = IF stale THEN SubSeq(@, LineLen + 1, Len(@)) ELSE @,
                 !.start = IF stale THEN @ + LineLen ELSE @]
Next1(wave) == Ready(wave, wave.pc + 1)

\* handleMapWGReq, with wrapWG and DispatchWf
handleMapWGReq(g) ==
    /\ Listening /\ g \notin done.wgs /\ \A w \in InWG(g) : wf[w].state = "none"
    /\ wf' = [w \in Waves |-> IF w \in InWG(g) THEN [NewWave EXCEPT !.state = "ready"] ELSE wf[w]]
    /\ UNCHANGED <<sc, pipe, sched, smem, vmem, imem, ctl, done, lds, memory, result>>

-----------------------------------------------------------------------------
(* The scheduler.                                                          *)

\* DoFetch and FetchArbiter.Arbitrate
FetchAddr(wave) == IF wave.buf = <<>> THEN LineOf(wave.pc) ELSE wave.start + Len(wave.buf)
DoFetch(w) ==
    LET wave == wf[w]
        info == [wf |-> w, addr |-> FetchAddr(wave), gen |-> ctl.gen]
    IN
    /\ Running /\ wave.state # "none" /\ ~wave.fetching /\ Len(wave.buf) < BufSize /\ Room(imem)
    /\ FetchAddr(wave) <= Len(Prog(w))   \* what lies behind the program is never decoded
    /\ wf' = [wf EXCEPT ![w].fetching = TRUE,
                        ![w].start = IF wave.buf = <<>> THEN LineOf(wave.pc) ELSE @]
    /\ imem' = [imem EXCEPT !.req = Append(@, info), !.inflight = Append(@, info)]
    /\ UNCHANGED <<sc, pipe, sched, smem, vmem, ctl, done, lds, memory, result>>

DecodeNextInst(w) ==
    LET wave == wf[w]  offset == wave.pc - wave.start IN
    /\ Running /\ wave.state = "ready" /\ wave.toIssue = 0
    /\ Len(wave.buf) > offset
    /\ wf' = [wf EXCEPT ![w].toIssue = wave.buf[offset + 1]]
    /\ UNCHANGED <<sc, pipe, sched, smem, vmem, imem, ctl, done, lds, memory, result>>

Op(w) == Prog(w)[wf[w].inst].op
OpToIssue(w) == Prog(w)[wf[w].toIssue].op
Internal == {"end", "barrier", "waitcnt", "nop"}
UnitOf(op, w) == IF op = "valu" THEN <<op, sc.simd[w]>> ELSE IF op = "sload" THEN <<"salu", 0>> ELSE <<op, 0>>

\* DoIssue; IssueArbiter.Arbitrate takes the oldest of its SIMD for a unit.
Issuable(w) == wf[w].state = "ready" /\ wf[w].toIssue # 0
Oldest(w) == \A o \in Waves : Issuable(o) /\ sc.simd[o] = sc.simd[w] /\ OpToIssue(o) = OpToIssue(w) => w <= o
DoIssue(w) ==
    /\ Running /\ Issuable(w) /\ Oldest(w)
    /\ wf' = [wf EXCEPT ![w].inst = wf[w].toIssue, ![w].toIssue = 0, ![w].state = "running"]
    /\ LET op == OpToIssue(w) IN
       \/ /\ op \in Internal
          /\ sched' = [sched EXCEPT !.internal = Append(@, w)]
          /\ UNCHANGED <<pipe, vmem>>
       \/ /\ op \in Units \cup {"sload"}
          /\ Len(pipe[UnitOf(op, w)]) < PipeCap
          /\ pipe' = [pipe EXCEPT ![UnitOf(op, w)] = Append(@, w)]
          /\ UNCHANGED <<sched, vmem>>
       \/ /\ op \in {"vload", "vstore"}
          /\ Len(vmem.insts) < PipeCap
          /\ vmem' = [vmem EXCEPT !.insts = Append(@, w)]
          /\ UNCHANGED <<pipe, sched>>
    /\ UNCHANGED <<sc, smem, imem, ctl, done, lds, memory, result>>

Without(q, w) == SelectSeq(q, LAMBDA x : x # w)

\* evalSEndPgm with resetRegisterValue
Outstanding_Vector(wave) == wave.outV > 0
Outstanding(wave) == wave.outV > 0 \/ wave.outS > 0
evalSEndPgm(w) ==
    /\ Op(w) = "end" /\ ~Outstanding(wf[w])
    /\ done' = [done EXCEPT !.events = @ \cup {w}]
    /\ sched' = [sched EXCEPT !.internal = Without(@, w)]
    /\ result' = [x \in DOMAIN result \cup {w} |-> IF x = w THEN wf[w].regs ELSE result[x]]
    /\ wf' = [wf EXCEPT ![w].regs = Regs]

\* evalSBarrier and passBarrier
areAllWfInWGAtBarrier(g, waves) == \A w \in InWG(g) : waves[w].state = "atBarrier"
evalSBarrier(w) ==
    LET g == sc.wg[w]
        at == [wf EXCEPT ![w].state = "atBarrier"]
    IN
    /\ Op(w) = "barrier"
    /\ IF areAllWfInWGAtBarrier(g, at)
       THEN /\ wf' = [x \in Waves |-> IF x \in InWG(g) THEN Next1(wf[x]) ELSE wf[x]]
            /\ sched' = [internal |-> Without(sched.internal, w),
                         barrier  |-> SelectSeq(sched.barrier, LAMBDA x : sc.wg[x] # g)]
       ELSE /\ wf' = at
            /\ sched' = IF Len(sched.barrier) < BarrierSize
                        THEN [internal |-> Without(sched.internal, w), barrier |-> Append(sched.barrier, w)]
                        ELSE sched
    /\ UNCHANGED <<done, result>>

\* evalSWaitCnt
Waits(wave, inst) == wave.outS > inst.lgkm \/ wave.outV > inst.vm
evalSWaitCnt(w) ==
    /\ Op(w) = "waitcnt" /\ ~Waits(wf[w], Prog(w)[wf[w].inst])
    /\ wf' = [wf EXCEPT ![w] = Next1(@)]
    /\ sched' = [sched EXCEPT !.internal = Without(@, w)]
    /\ UNCHANGED <<done, result>>

evalOther(w) ==
    /\ Op(w) \notin {"end", "barrier", "waitcnt"}
    /\ wf' = [wf EXCEPT ![w] = Next1(@)]
    /\ sched' = [sched EXCEPT !.internal = Without(@, w)]
    /\ UNCHANGED <<done, result>>

EvaluateInternalInst(w) ==
    /\ Running /\ w \in ToSet(sched.internal)
    /\ evalSEndPgm(w) \/ evalSBarrier(w) \/ evalSWaitCnt(w) \/ evalOther(w)
    /\ UNCHANGED <<sc, pipe, smem, vmem, imem, ctl, lds, memory>>

-----------------------------------------------------------------------------
(* The execution units: what the oldest wavefront of one does.             *)

Executes(u, wave, inst) ==
    CASE u = "salu"   -> [Next1(wave) EXCEPT !.regs.s = @ + 1]
      [] u = "valu"   -> [Next1(wave) EXCEPT !.regs.v = [l \in Lanes |-> <<@[l][1] + 1, @[l][2]>>]]
      [] u = "lds"    -> Next1(wave)
      [] u = "branch" -> LET to == IF wave.regs.s < inst.until THEN inst.target ELSE wave.pc + 1
                         IN [wave EXCEPT !.state = "ready", !.pc = to, !.buf = <<>>, !.start = LineOf(to)]

\* runWriteStage of the scalar, branch and LDS units, runExecStage of a SIMD
Finish(u) ==
    /\ Running /\ pipe[u] # <<>>
    /\ LET w == Head(pipe[u])  inst == Prog(w)[wf[w].inst] IN
       /\ inst.op = u[1]
       /\ u[1] = "lds" => lds[sc.wg[w]] = inst.value
       /\ wf' = [wf EXCEPT ![w] = Executes(u[1], @, inst)]
       /\ pipe' = [pipe EXCEPT ![u] = Tail(@)]
    /\ UNCHANGED <<sc, sched, smem, vmem, imem, ctl, done, lds, memory, result>>

\* The LDS unit's runExecStage writes before its write stage ends the instruction.
LDSExecute ==
    /\ Running /\ pipe[<<"lds", 0>>] # <<>>
    /\ LET w == Head(pipe[<<"lds", 0>>])  value == Prog(w)[wf[w].inst].value IN
       /\ lds[sc.wg[w]] # value
       /\ lds' = [lds EXCEPT ![sc.wg[w]] = value]
    /\ UNCHANGED <<sc, wf, pipe, sched, smem, vmem, imem, ctl, done, memory, result>>

\* executeSMEMLoad: a request for each line, the last one not to be coalesced.
SLines(inst) == SetToSortSeq({a \div WordsPerLine : a \in inst.addr..inst.addr + inst.words - 1}, <)
SInfos(w, inst) ==
    LET lines == SLines(inst) IN
    [i \in 1..Len(lines) |->
        [wf |-> w, words |-> {a \in inst.addr..inst.addr + inst.words - 1 : a \div WordsPerLine = lines[i]},
         base |-> inst.addr, last |-> i = Len(lines), gen |-> ctl.gen]]
HasRoom(n) == Len(smem.readBuf) + n <= ReadBufSize
executeSMEMLoad ==
    LET u == <<"salu", 0>>
        w == Head(pipe[u])
        infos == SInfos(w, Prog(w)[wf[w].inst])
    IN
    /\ Running /\ pipe[u] # <<>> /\ Op(w) = "sload"
    /\ HasRoom(Len(infos))
    /\ smem' = [smem EXCEPT !.readBuf = @ \o infos, !.inflight = @ \o infos]
    /\ wf' = [wf EXCEPT ![w] = [Next1(@) EXCEPT !.outS = @ + 1]]
    /\ pipe' = [pipe EXCEPT ![u] = Tail(@)]
    /\ UNCHANGED <<sc, sched, vmem, imem, ctl, done, lds, memory, result>>

\* ScalarUnit.sendRequest
SendScalar ==
    /\ Running /\ smem.readBuf # <<>> /\ Room(smem)
    /\ smem' = [smem EXCEPT !.readBuf = Tail(@), !.req = Append(@, Head(smem.readBuf))]
    /\ UNCHANGED <<sc, wf, pipe, sched, vmem, imem, ctl, done, lds, memory, result>>

-----------------------------------------------------------------------------
(* The vector memory unit and its coalescer.                               *)

\* generateMemTransactions: requests in the order in which lanes and registers
\* first touch their lines, each with the lanes it serves.
Touched(inst) == [k \in 1..2 * inst.regs |->
                     [lane |-> ((k - 1) \div inst.regs) + 1, reg |-> ((k - 1) % inst.regs) + 1]]
WordOf(inst, t) == inst.addrs[t.lane] + t.reg - 1
Masked(inst) == SelectSeq(Touched(inst), LAMBDA t : t.lane \in inst.exec)
Lines(inst) ==
    FoldLeft(LAMBDA q, t : LET l == WordOf(inst, t) \div WordsPerLine IN
                           IF Contains(q, l) THEN q ELSE Append(q, l), <<>>, Masked(inst))
LaneInfo(inst, line) == SelectSeq(Masked(inst), LAMBDA t : WordOf(inst, t) \div WordsPerLine = line)
generateMemTransactions(w, inst) ==
    LET lines == Lines(inst) IN
    [i \in 1..Len(lines) |->
        [wf |-> w, op |-> inst.op, last |-> i = Len(lines), gen |-> ctl.gen,
         lanes |-> LET info == LaneInfo(inst, lines[i]) IN
                   [k \in 1..Len(info) |-> [lane |-> info[k].lane, reg |-> info[k].reg,
                                            word |-> WordOf(inst, info[k]),
                                            data |-> wf[w].regs.v[info[k].lane][info[k].reg]]]]]

\* execute, executeFlatLoad and executeFlatStore: an instruction whose
\* accesses are too many has left the buffer already.
execute ==
    LET w == Head(vmem.insts)
        infos == generateMemTransactions(w, Prog(w)[wf[w].inst])
        popped == [vmem EXCEPT !.insts = Tail(@)]
    IN
    /\ Running /\ vmem.insts # <<>> /\ vmem.waiting = <<>>
    /\ IF infos = <<>>
       THEN vmem' = popped /\ wf' = [wf EXCEPT ![w] = Next1(@)]
       ELSE IF Len(infos) + Len(vmem.inflight) > VMemLimit
       THEN vmem' = popped /\ UNCHANGED wf
       ELSE /\ vmem' = [popped EXCEPT !.inflight = @ \o infos, !.waiting = infos]
            /\ wf' = [wf EXCEPT ![w] = [Next1(@) EXCEPT !.outV = @ + 1, !.outS = @ + 1]]
    /\ UNCHANGED <<sc, pipe, sched, smem, imem, ctl, done, lds, memory, result>>

insertTransactionToPipeline ==
    /\ Running /\ vmem.waiting # <<>> /\ Len(vmem.trans) < PipeCap
    /\ vmem' = [vmem EXCEPT !.waiting = Tail(@), !.trans = Append(@, Head(vmem.waiting))]
    /\ UNCHANGED <<sc, wf, pipe, sched, smem, imem, ctl, done, lds, memory, result>>

SendVector ==
    /\ Running /\ vmem.trans # <<>> /\ Room(vmem)
    /\ vmem' = [vmem EXCEPT !.trans = Tail(@), !.req = Append(@, Head(vmem.trans))]
    /\ UNCHANGED <<sc, wf, pipe, sched, smem, imem, ctl, done, lds, memory, result>>

-----------------------------------------------------------------------------
(* Answers of the memories.  Each of them answers in order.                *)

Matches(q) == q.inflight # <<>> /\ Head(q.inflight) = Head(q.rsp).to
Received(q) == [q EXCEPT !.rsp = Tail(@), !.inflight = IF Matches(q) THEN Tail(@) ELSE @]

\* handleFetchReturn
Expected(wave, addr) == addr = wave.start + Len(wave.buf)
handleFetchReturn ==
    /\ Listening /\ imem.rsp # <<>>
    /\ imem' = Received(imem)
    /\ LET info == Head(imem.rsp).to IN
       wf' = IF ~Matches(imem) THEN wf
             ELSE [wf EXCEPT ![info.wf].fetching = FALSE,
                             ![info.wf].buf = IF Expected(wf[info.wf], info.addr)
                                              THEN @ \o [i \in 1..LineLen |-> info.addr + i - 1] ELSE @]
    /\ UNCHANGED <<sc, pipe, sched, smem, vmem, ctl, done, lds, memory, result>>

handleScalarDataLoadReturn ==
    /\ Listening /\ smem.rsp # <<>>
    /\ smem' = Received(smem)
    /\ LET info == Head(smem.rsp).to  data == Head(smem.rsp).data IN
       wf' = IF ~Matches(smem) THEN wf
             ELSE [wf EXCEPT ![info.wf].outS = IF info.last THEN @ - 1 ELSE @,
                             ![info.wf].regs.sl = [k \in 1..2 |-> IF info.base + k - 1 \in info.words
                                                                  THEN data[info.base + k - 1] ELSE @[k]]]
    /\ UNCHANGED <<sc, pipe, sched, vmem, imem, ctl, done, lds, memory, result>>

\* The registers that the lanes of a load's answer are written to.
Loaded(v, info, data) ==
    FoldLeft(LAMBDA r, t : [r EXCEPT ![t.lane][t.reg] = data[t.word]], v, info.lanes)

\* handleVectorDataLoadReturn and handleVectorDataStoreRsp
Decremented(n, info) == IF info.last THEN n - 1 ELSE n
handleVectorDataReturn ==
    /\ Listening /\ vmem.rsp # <<>>
    /\ vmem' = Received(vmem)
    /\ LET info == Head(vmem.rsp).to  data == Head(vmem.rsp).data IN
       wf' = IF ~Matches(vmem) THEN wf
             ELSE [wf EXCEPT ![info.wf].outV = Decremented(@, info), ![info.wf].outS = Decremented(@, info),
                             ![info.wf].regs.v = IF info.op = "vload" THEN Loaded(@, info, data) ELSE @]
    /\ UNCHANGED <<sc, pipe, sched, smem, imem, ctl, done, lds, memory, result>>

ServeInst ==
    /\ imem.req # <<>>
    /\ imem' = [imem EXCEPT !.req = Tail(@), !.rsp = Append(@, [to |-> Head(imem.req)])]
    /\ UNCHANGED <<sc, wf, pipe, sched, smem, vmem, ctl, done, lds, memory, result>>

ServeScalar ==
    /\ smem.req # <<>>
    /\ LET info == Head(smem.req) IN
       smem' = [smem EXCEPT !.req = Tail(@),
                            !.rsp = Append(@, [to |-> info, data |-> [a \in info.words |-> memory[a]]])]
    /\ UNCHANGED <<sc, wf, pipe, sched, vmem, imem, ctl, done, lds, memory, result>>

Stored(m, info) == FoldLeft(LAMBDA r, t : [r EXCEPT ![t.word] = t.data], m, info.lanes)
ServeVector ==
    /\ vmem.req # <<>>
    /\ LET info == Head(vmem.req)
           words == {info.lanes[k].word : k \in DOMAIN info.lanes}
       IN
       /\ vmem' = [vmem EXCEPT !.req = Tail(@),
                               !.rsp = Append(@, [to |-> info, data |-> [a \in words |-> memory[a]]])]
       /\ memory' = IF info.op = "vstore" THEN Stored(memory, info) ELSE memory
    /\ UNCHANGED <<sc, wf, pipe, sched, smem, imem, ctl, done, lds, result>>

-----------------------------------------------------------------------------
(* The end of a work-group.                                                *)

isAllWfInWGCompleted(g, waves) == \A w \in InWG(g) : waves[w].state = "completed"

\* handleWfCompletionEvent, sendWGCompletionMessage and clearWGResource
handleWfCompletionEvent(w) ==
    LET g == sc.wg[w]
        at == [wf EXCEPT ![w].state = "completed"]
        all == isAllWfInWGCompleted(g, at)
        ok == all /\ ~done.ace
    IN
    /\ w \in done.events
    /\ wf' = IF ok THEN [x \in Waves |-> IF x \in InWG(g) THEN NewWave ELSE wf[x]] ELSE at
    /\ ctl' = [ctl EXCEPT !.isHandling = IF ok THEN FALSE ELSE @ \/ all]
    /\ done' = [events |-> IF all /\ ~ok THEN done.events ELSE done.events \ {w},
                wgs    |-> IF ok THEN done.wgs \cup {g} ELSE done.wgs,
                ace    |-> done.ace \/ ok]
    /\ UNCHANGED <<sc, pipe, sched, smem, vmem, imem, lds, memory, result>>

\* The connection takes the completion message.
TakeCompletion ==
    /\ done.ace
    /\ done' = [done EXCEPT !.ace = FALSE]
    /\ UNCHANGED <<sc, wf, pipe, sched, smem, vmem, imem, ctl, lds, memory, result>>

-----------------------------------------------------------------------------
(* Flush and restart.                                                      *)

handlePipelineFlushReq ==
    /\ ctl.flushes < NumFlush /\ ~ctl.isFlushing /\ ~ctl.toSendToCP /\ ~ctl.acked
    /\ ctl' = [ctl EXCEPT !.isFlushing = TRUE, !.flushes = @ + 1]
    /\ UNCHANGED <<sc, wf, pipe, sched, smem, vmem, imem, done, lds, memory, result>>

\* reInsertShadowBufferReqsToOriginalBuffers
Reinserted(q) == [q EXCEPT !.inflight = IF ctl.isSendingOut THEN @ \o q.shadow ELSE @]
\* populateShadowBuffers
Shadowed_Sent(q) == [q EXCEPT !.shadow = q.req, !.inflight = <<>>]
Shadowed(q) == [q EXCEPT !.shadow = Reinserted(q).inflight, !.inflight = <<>>]
\* setWavesToReady
setWavesToReady(waves) ==
    [w \in Waves |-> IF waves[w].state \notin {"none", "completed"}
                     THEN [waves[w] EXCEPT !.state = "ready", !.fetching = FALSE] ELSE waves[w]]
\* flushInternalComponents, the vector memory unit
FlushVMem(q) == [q EXCEPT !.insts = <<>>, !.waiting = <<>>, !.trans = <<>>]

\* doFlush and flushPipeline
flushPipeline ==
    /\ ctl.isFlushing
    /\ IF ctl.isHandling
       THEN /\ imem' = Reinserted(imem) /\ smem' = Reinserted(smem) /\ vmem' = Reinserted(vmem)
            /\ ctl' = [ctl EXCEPT !.isSendingOut = FALSE]
            /\ UNCHANGED <<wf, pipe, sched>>
       ELSE /\ imem' = Shadowed(imem)
            /\ smem' = [Shadowed(smem) EXCEPT !.readBuf = <<>>]
            /\ vmem' = FlushVMem(Shadowed(vmem))
            /\ wf' = setWavesToReady(wf)
            /\ sched' = [internal |-> <<>>, barrier |-> <<>>]
            /\ pipe' = [u \in DOMAIN pipe |-> <<>>]
            /\ ctl' = [ctl EXCEPT !.isPaused = TRUE, !.toSendToCP = TRUE, !.isFlushing = FALSE,
                                  !.isSendingOut = FALSE, !.gen = @ + 1]
    /\ UNCHANGED <<sc, done, lds, memory, result>>

\* sendToCP.  The command processor then flushes what is below: requests are
\* dropped, answers that have reached the compute unit stay.
sendToCP ==
    /\ ctl.toSendToCP
    /\ ctl' = [ctl EXCEPT !.toSendToCP = FALSE, !.acked = TRUE]
    /\ imem' = [imem EXCEPT !.req = <<>>]
    /\ smem' = [smem EXCEPT !.req = <<>>]
    /\ vmem' = [vmem EXCEPT !.req = <<>>]
    /\ UNCHANGED <<sc, wf, pipe, sched, done, lds, memory, result>>

\* A completion event is handled a cycle after it was scheduled, long before
\* the restart.
handlePipelineResume ==
    /\ ctl.acked /\ \A w \in done.events : wf[w].state = "completed"
    /\ ctl' = [ctl EXCEPT !.acked = FALSE, !.isSendingOut = TRUE]
    /\ UNCHANGED <<sc, wf, pipe, sched, smem, vmem, imem, done, lds, memory, result>>

\* sendScalarShadowBufferAccesses and its likes: a new ID, the same order
Resent(q) ==
    LET info == [Head(q.shadow) EXCEPT !.gen = ctl.gen] IN
    [q EXCEPT !.shadow = Tail(@), !.inflight = Append(@, info), !.req = Append(@, info)]
CanResend(q) == ctl.isSendingOut /\ ~ctl.isFlushing /\ q.shadow # <<>> /\ Room(q)
sendOutShadowBufferReqs ==
    /\ \/ CanResend(smem) /\ smem' = Resent(smem) /\ UNCHANGED <<vmem, imem>>
       \/ CanResend(vmem) /\ vmem' = Resent(vmem) /\ UNCHANGED <<smem, imem>>
       \/ CanResend(imem) /\ imem' = Resent(imem) /\ UNCHANGED <<smem, vmem>>
    /\ UNCHANGED <<sc, wf, pipe, sched, ctl, done, lds, memory, result>>

AllResent == smem.shadow = <<>> /\ vmem.shadow = <<>> /\ imem.shadow = <<>>
checkShadowBuffers ==
    /\ ctl.isSendingOut /\ ~ctl.isFlushing /\ AllResent
    /\ ctl' = [ctl EXCEPT !.isSendingOut = FALSE, !.isPaused = FALSE]
    /\ UNCHANGED <<sc, wf, pipe, sched, smem, vmem, imem, done, lds, memory, result>>

-----------------------------------------------------------------------------
Scheduler(w) == DoFetch(w) \/ DecodeNextInst(w) \/ DoIssue(w) \/ EvaluateInternalInst(w)
Execution ==
    \/ \E u \in DOMAIN pipe : Finish(u)
    \/ LDSExecute \/ executeSMEMLoad \/ SendScalar
    \/ execute \/ insertTransactionToPipeline \/ SendVector
Memories ==
    \/ ServeInst \/ ServeScalar \/ ServeVector
    \/ handleFetchReturn \/ handleScalarDataLoadReturn \/ handleVectorDataReturn
Control ==
    \/ TakeCompletion \/ flushPipeline \/ sendToCP \/ handlePipelineResume
    \/ sendOutShadowBufferReqs \/ checkShadowBuffers

Step ==
    \/ \E g \in WGs : handleMapWGReq(g)
    \/ \E w \in Waves : Scheduler(w) \/ handleWfCompletionEvent(w)
    \/ Execution \/ Memories \/ Control
Next == Step \/ handlePipelineFlushReq

\* The compute unit ticks while there is work and the memories answer; the
\* command processor restarts what it flushed.
Fairness == WF_vars(Step)
Spec == Init /\ [][Next]_vars
FairSpec == Spec /\ Fairness

-----------------------------------------------------------------------------
(* What the compute unit promises.                                         *)

(* Every queue keeps its bound: the barrier buffer, the scalar unit's read *)
(* buffer, and the in-flight vector accesses, and no counter of            *)
(* outstanding accesses falls below zero.                                  *)
TypeOK ==
    /\ \A w \in Waves : /\ wf[w].state \in {"none", "ready", "running", "atBarrier", "completed"}
                        /\ wf[w].pc \in 1..Len(Prog(w)) /\ wf[w].outS \in Nat /\ wf[w].outV \in Nat
    /\ \A u \in DOMAIN pipe : Len(pipe[u]) <= PipeCap
    /\ Len(sched.barrier) <= BarrierSize
    /\ Len(smem.readBuf) <= ReadBufSize
    /\ Len(vmem.inflight) + Len(vmem.shadow) <= VMemLimit \/ ctl.isHandling

(* What one wavefront leaves behind when its instructions take effect one  *)
(* after the other, once each: the reference.                              *)
RECURSIVE Reference(_, _)
Reference(prog, st) ==
    LET inst == prog[st.pc]
        next == [st EXCEPT !.pc = @ + 1]
        lanes == Masked(inst)
        word(t) == WordOf(inst, t)
    IN
    CASE inst.op = "end"    -> st
      [] inst.op = "salu"   -> Reference(prog, [next EXCEPT !.regs.s = @ + 1])
      [] inst.op = "valu"   -> Reference(prog, [next EXCEPT !.regs.v = [l \in Lanes |-> <<@[l][1] + 1, @[l][2]>>]])
      [] inst.op = "branch" -> Reference(prog, [st EXCEPT !.pc = IF st.regs.s < inst.until THEN inst.target ELSE @ + 1])
      [] inst.op = "sload"  -> Reference(prog, [next EXCEPT !.regs.sl =
                                   [k \in 1..2 |-> IF k <= inst.words THEN st.mem[inst.addr + k - 1] ELSE @[k]]])
      [] inst.op = "vload"  -> Reference(prog, [next EXCEPT !.regs.v =
                                   FoldLeft(LAMBDA r, t : [r EXCEPT ![t.lane][t.reg] = st.mem[word(t)]], @, lanes)])
      [] inst.op = "vstore" -> Reference(prog, [next EXCEPT !.mem =
                                   FoldLeft(LAMBDA m, t : [m EXCEPT ![word(t)] = st.regs.v[t.lane][t.reg]], @, lanes)])
      [] OTHER              -> Reference(prog, next)
Expectation(w) == Reference(Prog(w), [pc |-> 1, regs |-> Regs, mem |-> [a \in 0..7 |-> a]])

(* A wavefront ends with the registers, and leaves the memory, that its    *)
(* program gives when every instruction takes effect exactly once and in   *)
(* order, whatever was flushed, resent or answered late in between; the    *)
(* coalescer gives each lane its own words, and s_waitcnt keeps a reader   *)
(* behind its load.                                                        *)
ResultOK ==
    \A w \in DOMAIN result :
        LET e == Expectation(w) IN
        /\ result[w] = e.regs
        /\ \A a \in DOMAIN memory : e.mem[a] # a => memory[a] = e.mem[a]

(* The counters that s_waitcnt and s_endpgm wait for are the accesses in   *)
(* flight or waiting to be resent: a flush between sending and answer      *)
(* neither loses nor repeats one.                                          *)
Held(q) == IF ctl.toSendToCP \/ ctl.acked \/ ctl.isSendingOut THEN q.inflight \o q.shadow ELSE q.inflight
LastOf(q, w) == Len(SelectSeq(Held(q), LAMBDA i : i.wf = w /\ i.last))
CountersMatch ==
    \A w \in Waves : /\ wf[w].outV = LastOf(vmem, w)
                     /\ wf[w].outS = LastOf(vmem, w) + LastOf(smem, w)

(* s_barrier: no wavefront of a work-group is past a barrier that another  *)
(* one has not passed, a flush while some wait at it included, and one that *)
(* waits does so at the barrier that its PC is at, not at one it has passed. *)
BarriersPassed(w) == Cardinality({i \in 1..wf[w].pc - 1 : Prog(w)[i].op = "barrier"})
BarrierSeparates ==
    \A w, o \in Waves : sc.wg[w] = sc.wg[o] /\ "none" \notin {wf[w].state, wf[o].state}
                        => /\ BarriersPassed(w) = BarriersPassed(o)
                           /\ wf[w].state = "atBarrier" => wf[w].inst = wf[w].pc

(* The completion message of a work-group means that all its wavefronts    *)
(* have ended and that none of their accesses is still under way.          *)
CompletedIsDone ==
    \A g \in done.wgs : \A w \in InWG(g) :
        /\ w \in DOMAIN result
        /\ \A q \in {Held(smem), Held(vmem), vmem.req} : \A i \in DOMAIN q : q[i].wf # w

(* Every work-group that was mapped completes, whatever is flushed.        *)
Completes == <>(done.wgs = WGs)
=============================================================================
