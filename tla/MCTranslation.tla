---------------------------- MODULE MCTranslation ----------------------------
(***************************************************************************)
(* The translation units of a chiplet for TLC: an address translator, an L1 *)
(* TLB, an L2 TLB and the coalescing port in front of an L2 TLB.  A         *)
(* behaviour is one unit's; the units share the variables whose names they  *)
(* share, and the variables that a unit does not have are off.              *)
(***************************************************************************)
EXTENDS Naturals, Sequences, FiniteSets

VARIABLES unit, want, issued, epochOf, topIn, topOut, answers, sets, mshr, responding,
          botOut, below, botIn, isPaused, panic, lost, ctrlIn, ctrlOut, cp, moving, epoch,
          pageTable, patient, stage, rep,
          pipeline, lookupBuffer, redirected, switches,
          toSend, srcBuf, buf, numReqs, portBusy, held, known, endBuf, endBusy, sink, sinkBusy,
          answered, connDue, tlbDue, running, visited, progress, restarts, total,
          topEnd, transIn, transEnd, bottomIn, bottomEnd, transactions, inflightReqToBottom,
          isFlushing, made, flying, lookups, accesses, frame, ctrl, flushes

\* Pages 1, 2 and 3 compete for two ways; in the L2 TLB two pages compete for one, and a
\* switch of the index takes page 2 away.
OneSet == <<1, 1, 1>>
Owns   == <<{1, 2}, {1}>>
Asked  == {<<1, 2, 1>>, <<1, 1, 2>>, <<1, 2, 3>>}
Ask    == {[L1 |-> <<1, 2>>, RTU |-> <<1, 2>>], [L1 |-> <<1>>, RTU |-> <<1, 1, 2>>]}

T == INSTANCE TLB WITH NumWays <- 2, NumReqs <- 3, Vpns <- {1, 2, 3}, MshrCap <- 2,
        numReqPerCycle <- 1, PortCap <- 1, EndCap <- 1, MaxFlush <- 1, Wants <- Asked,
        setOf <- OneSet
L == INSTANCE LatTLB WITH NumWays <- 1, NumReqs <- 3, Vpns <- {1, 2}, MshrCap <- 1,
        numReqPerCycle <- 1, PortCap <- 1, EndCap <- 1, MaxFlush <- 1,
        Wants <- Asked \ {<<1, 2, 3>>}, setOf <- OneSet, flushSetOf <- OneSet, Owned <- Owns
P == INSTANCE CoalescingPort WITH Senders <- {"L1", "RTU"}, Asks <- Ask, bufCapacity <- 2,
        EndCap <- 1, SinkCap <- 1
\* The first and the last access touch the page that may move.
A == INSTANCE AddressTranslator WITH Reqs <- {1, 2, 3}, Page <- <<1, 2, 1>>,
        Frames <- {1, 2, 3}, PortCap <- 2, EndCap <- 1, MaxFlushes <- 1

\* The variables by the units that have them.
tlbOnly  == <<want, issued, epochOf, topOut, answers, sets, responding, botOut, below, botIn,
              isPaused, panic, lost, ctrlOut, cp, moving, epoch, pageTable, patient, stage, rep>>
latOnly  == <<pipeline, lookupBuffer, redirected, switches>>
portOnly == <<toSend, srcBuf, buf, numReqs, portBusy, held, known, endBuf, endBusy, sink,
              sinkBusy, connDue, tlbDue, running, visited, progress, restarts, total>>
atOnly   == <<topEnd, transIn, transEnd, bottomIn, bottomEnd, transactions, isFlushing,
              inflightReqToBottom, made, flying, lookups, accesses, frame, ctrl, flushes>>
vars     == <<unit, topIn, ctrlIn, mshr, answered, tlbOnly, latOnly, portOnly, atOnly>>

Off(x) == x = "off"
TLBOff == /\ Off(want) /\ Off(issued) /\ Off(epochOf) /\ Off(topOut)
          /\ Off(answers) /\ Off(sets) /\ Off(responding) /\ Off(botOut) /\ Off(below)
          /\ Off(botIn) /\ Off(isPaused) /\ Off(panic) /\ Off(lost)
          /\ Off(ctrlOut) /\ Off(cp) /\ Off(moving) /\ Off(epoch) /\ Off(pageTable)
          /\ Off(patient) /\ Off(stage) /\ Off(rep)
LatOff == Off(pipeline) /\ Off(lookupBuffer) /\ Off(redirected) /\ Off(switches)
PortOff == /\ Off(toSend) /\ Off(srcBuf) /\ Off(buf) /\ Off(numReqs) /\ Off(portBusy)
           /\ Off(held) /\ Off(known) /\ Off(endBuf) /\ Off(endBusy) /\ Off(sink)
           /\ Off(sinkBusy) /\ Off(connDue) /\ Off(tlbDue) /\ Off(running)
           /\ Off(visited) /\ Off(progress) /\ Off(restarts) /\ Off(total)
ATOff == /\ Off(topEnd) /\ Off(transIn) /\ Off(transEnd) /\ Off(bottomIn) /\ Off(bottomEnd)
         /\ Off(transactions) /\ Off(inflightReqToBottom) /\ Off(isFlushing) /\ Off(made)
         /\ Off(flying) /\ Off(lookups) /\ Off(accesses) /\ Off(frame) /\ Off(ctrl)
         /\ Off(flushes)

Init == \/ unit = "L1TLB" /\ T!Init /\ LatOff /\ PortOff /\ ATOff /\ Off(answered)
        \/ unit = "L2TLB" /\ L!Init /\ PortOff /\ ATOff /\ Off(answered)
        \/ unit = "port"  /\ P!Init /\ TLBOff /\ LatOff /\ ATOff /\ Off(topIn) /\ Off(ctrlIn)
        \/ unit = "AT"    /\ A!Init /\ TLBOff /\ LatOff /\ PortOff /\ Off(mshr)

Next ==
    /\ UNCHANGED unit
    /\ \/ unit = "L1TLB" /\ T!Next /\ UNCHANGED <<latOnly, portOnly, atOnly, answered>>
       \/ unit = "L2TLB" /\ L!Next /\ UNCHANGED <<portOnly, atOnly, answered>>
       \/ unit = "port"  /\ P!Next /\ UNCHANGED <<tlbOnly, latOnly, atOnly, topIn, ctrlIn>>
       \/ unit = "AT"    /\ A!Next /\ UNCHANGED <<tlbOnly, latOnly, portOnly, mshr>>

CanWork == CASE unit = "L1TLB" -> ENABLED <<T!Work>>_(T!vars)
             [] unit = "L2TLB" -> ENABLED <<L!Work>>_(L!vars)
             [] unit = "port"  -> ENABLED <<P!Work>>_(P!vars)
             [] unit = "AT"    -> ENABLED <<A!Work>>_(A!vars)

\* Weak fairness of the work of the unit: its inputs are bounded, so that infinitely many
\* steps have infinitely many of Work among them.
Spec == Init /\ [][Next]_vars /\ ([]<>~CanWork \/ []<><<TRUE>>_vars)

-----------------------------------------------------------------------------
\* Every request is in exactly one place - a port, the pipeline, one MSHR entry, the entry
\* being answered, one transaction - or answered once, sent on once, or discarded by a flush
\* (lookup, respondMSHREntry, handleTLBFlush; translate, parseTranslation, respond).  No queue
\* is over its capacity; until a flush each MSHR entry is fetched once and each entry of the
\* coalescing port has one request in the TLB, so that the answer, which is matched by its
\* page, finds it; an access below the translator is on its way or its answer is.  And nobody
\* who could move a request sleeps: the coalescing port gives the notice of room in Retrieve,
\* though Send is what makes it.
ExactlyOnce ==
    CASE unit = "L1TLB" -> T!TypeOK /\ T!ExactlyOnce /\ T!FetchPerEntry
      [] unit = "L2TLB" -> L!TypeOK /\ L!ExactlyOnce /\ L!FetchPerEntry
      [] unit = "port"  -> P!TypeOK /\ P!ExactlyOnce /\ P!OneLookupPerEntry /\ P!NoMissedWakeup
      [] unit = "AT"    -> A!TypeOK /\ A!ExactlyOnce /\ A!NothingStranded

\* A translation the translator is about to use is where the page is now, although the TLB's
\* answer may be older than the migration (handleFlushReq drops the transaction).  In a TLB a
\* key of a set leads to the way that holds its page (Set.Update), and when a restart waited
\* for the fetches under way no answer meets an entry that the flush has thrown away, on which
\* parseBottom panics.
FreshTranslation ==
    CASE unit = "L1TLB" -> T!KeysLeadHome /\ T!NoPanicWhenPatient
      [] unit = "L2TLB" -> L!NoPanicWhenPatient
      [] unit = "port"  -> TRUE
      [] unit = "AT"    -> A!FreshTranslation

\* After a shootdown and a restart that waited for the fetches under way, no request made
\* after it is answered with the old mapping (handleTLBFlush, handleTLBRestart); and an access
\* the translator's flush discarded is not answered later, by a response that was on its way
\* across the restart (isReqInBottomByID).
NothingStale ==
    [][CASE unit \in {"L1TLB", "L2TLB"} ->
              \A a \in answers' \ answers :
                  (patient /\ epochOf[a.req] = epoch) => a.ver = pageTable[a.v]
         [] unit = "port" -> TRUE
         [] unit = "AT" -> \A q \in {1, 2, 3} : A!Discarded(q) => A!Discarded(q)']_vars

AllSettled == CASE unit = "L1TLB" -> T!AllSettled [] unit = "L2TLB" -> L!AllSettled
                [] unit = "port" -> P!AllAnswered [] unit = "AT" -> A!AllSettled

\* Nothing waits for ever: every request is answered, sent on or discarded by a shootdown, as
\* long as the unit is restarted, a TLB has not panicked and no restart came between the port
\* and its TLB.
Answered == []<>AllSettled
=============================================================================
