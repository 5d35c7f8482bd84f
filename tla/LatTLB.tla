-------------------------------- MODULE LatTLB --------------------------------
(***************************************************************************)
(* The L2 TLB of mem/vm/tlb/tlb_with_latency.go (LatTLB): requests pass a     *)
(* pipeline and a buffer before they are looked up, a miss on a page that      *)
(* another chiplet's L2 TLB owns is sent to the remote translation unit, and   *)
(* the owner can be changed by an index switch.  One Tick is performCtrlReq,   *)
(* then respondMSHREntry, parseBottom and lookup, pipeline.Tick, parseFromTop, *)
(* numReqPerCycle times each.  The pipeline has one stage: more stages add     *)
(* delay only.  Environment and abstractions are those of module TLB; the      *)
(* counters the TLB reports to the command processor are in module             *)
(* IndexSwitching.                                                              *)
(***************************************************************************)
EXTENDS TLBStorage, FiniteSets

CONSTANTS
    NumReqs, Vpns,
    Wants,           \* the pages the requests may ask for, as sequences
    MshrCap,         \* capacity of the MSHR
    numReqPerCycle,
    PortCap,         \* capacity of TopPort and BottomPort
    EndCap,          \* source-side buffer of each connection end
    MaxFlush,        \* bound: shootdowns
    setOf,           \* vAddrToSetID, a function from pages to sets
    flushSetOf,      \* vAddrToSetIDxor7, which the flush uses
    Owned            \* Owned[k]: the pages doPageWalk claims after k - 1 switches

Reqs   == 1..NumReqs
SetIDs == {setOf[v] : v \in Vpns}
None   == <<>>

VARIABLES
    want,        \* the page each request asks for
    issued, epochOf,
    topIn, pipeline, lookupBuffer, topOut, answers,
    redirected,  \* requests sent on to the RTU
    switches,    \* index switches handled
    sets, mshr,
    responding,  \* respondingMSHREntry: <<>> or <<[v, ver, reqs]>>
    botOut, below, botIn,
    isPaused, panic, lost,
    ctrlIn, ctrlOut, cp, moving, epoch, pageTable,
    patient,     \* whether the restart waits for the fetches that were under way
    stage, rep

store   == <<sets, mshr, responding, isPaused, panic, lost, answers, redirected, switches>>
ports   == <<topIn, pipeline, lookupBuffer, topOut, botOut, below, botIn>>
control == <<ctrlIn, ctrlOut, cp, moving, epoch, pageTable>>
inputs  == <<want, issued, epochOf, patient>>
vars    == <<store, ports, control, inputs, stage, rep>>

Init ==
    /\ want \in Wants /\ issued = 0 /\ epochOf = [r \in Reqs |-> 0]
    /\ topIn = <<>> /\ pipeline = <<>> /\ lookupBuffer = <<>> /\ topOut = <<>>
    /\ answers = {} /\ redirected = {} /\ switches = 0
    /\ sets = [s \in SetIDs |-> NewSet] /\ mshr = <<>> /\ responding = None
    /\ botOut = <<>> /\ below = <<>> /\ botIn = <<>>
    /\ isPaused = FALSE /\ panic = FALSE /\ lost = {}
    /\ ctrlIn = <<>> /\ ctrlOut = <<>> /\ cp = "run" /\ moving = 0 /\ epoch = 0
    /\ pageTable = [v \in Vpns |-> 1] /\ patient \in BOOLEAN
    /\ stage = "idle" /\ rep = 0

-----------------------------------------------------------------------------
(* The steps of a tick. *)

\* The outcome of looking up the page of the oldest request that left the pipeline.
Page    == want[Head(lookupBuffer)]
MSHRHit == Page \in Entries(mshr)
TLBHit  == ~MSHRHit /\ Hit(sets[setOf[Page]], Page)
Miss    == ~MSHRHit /\ ~TLBHit

doPageWalk(v) == v \in Owned[switches + 1]

IsFull  == Cardinality(Entries(mshr)) >= MshrCap

CanRespond == responding # None /\ Len(topOut) < EndCap
CanParse   == responding = None /\ botIn # <<>>
CanLookup  ==
    /\ lookupBuffer # <<>>
    /\ \/ MSHRHit
       \/ TLBHit /\ Len(topOut) < EndCap
       \/ Miss /\ doPageWalk(Page) /\ ~IsFull /\ Len(botOut) < EndCap
       \/ Miss /\ ~doPageWalk(Page) /\ Len(topOut) < EndCap
CanAdvance == pipeline # <<>> /\ Len(lookupBuffer) < 2 * numReqPerCycle
CanAccept  == topIn # <<>> /\ Len(pipeline) < numReqPerCycle

Can(s) == CASE s = "ctrl"     -> ctrlIn # <<>>
            [] s = "respond"  -> CanRespond
            [] s = "parse"    -> CanParse
            [] s = "lookup"   -> CanLookup
            [] s = "pipeline" -> CanAdvance
            [] s = "top"      -> CanAccept

Stages == <<"ctrl", "respond", "parse", "lookup", "pipeline", "top">>

\* The stages after the k-th that can do something; the others return false.
Later(k) == {i \in (k + 1)..Len(Stages) : (i > 1 => ~isPaused) /\ Can(Stages[i])}
After(k) ==
    LET later == Later(k)
    IN  IF later = {} THEN "idle" ELSE Stages[Min(later)]

StartTick ==
    /\ stage = "idle" /\ ~panic /\ Later(0) # {}
    /\ stage' = After(0) /\ rep' = 0
    /\ UNCHANGED <<store, ports, control, inputs>>

\* The repetitions are used up, or the next one would return false.
StageDone ==
    /\ stage # "idle"
    /\ \/ ~Can(stage)
       \/ rep = numReqPerCycle
    /\ stage' = After(CHOOSE i \in DOMAIN Stages : Stages[i] = stage) /\ rep' = 0
    /\ UNCHANGED <<store, ports, control, inputs>>

Repeat(s) == stage = s /\ rep < numReqPerCycle /\ Can(s) /\ rep' = rep + 1 /\ UNCHANGED stage

Answer(r, ver) ==
    /\ topOut' = Append(topOut, r)
    /\ answers' = answers \cup {[req |-> r, v |-> want[r], ver |-> ver]}

respondMSHREntry ==
    /\ Repeat("respond")
    /\ LET e == Head(responding) IN
       /\ Answer(Head(e.reqs), e.ver)
       /\ responding' = IF Len(e.reqs) = 1 THEN None
                        ELSE <<[e EXCEPT !.reqs = Tail(@)]>>
    /\ UNCHANGED <<sets, mshr, isPaused, panic, lost, redirected, switches, topIn, pipeline,
                   lookupBuffer, botOut, below, botIn, control, inputs>>

\* The entry is taken out of the MSHR before its requests are answered.
EntriesAfter_Kept(v) == mshr
EntriesAfter(v) == Drop(mshr, v)

parseBottom ==
    /\ Repeat("parse")
    /\ LET p == Head(botIn) IN
       /\ p.v \in Entries(mshr)
       /\ sets' = [sets EXCEPT ![setOf[p.v]] =
                     Fill(@, [v |-> p.v, ver |-> p.ver, valid |-> TRUE])]
       /\ responding' = <<[v |-> p.v, ver |-> p.ver, reqs |-> mshr[p.v]]>>
       /\ mshr' = EntriesAfter(p.v)
    /\ botIn' = Tail(botIn)
    /\ UNCHANGED <<isPaused, panic, lost, answers, redirected, switches, topIn, pipeline,
                   lookupBuffer, topOut, botOut, below, control, inputs>>

\* panic("oh no!"): the page that arrives belongs to no MSHR entry.
parseBottomPanics ==
    /\ Repeat("parse")
    /\ Head(botIn).v \notin Entries(mshr)
    /\ panic' = TRUE
    /\ UNCHANGED <<sets, mshr, responding, isPaused, lost, answers, redirected, switches,
                   ports, control, inputs>>

Pop == lookupBuffer' = Tail(lookupBuffer) /\ UNCHANGED <<topIn, pipeline, below, botIn>>

processTLBMSHRHit ==
    /\ Repeat("lookup") /\ MSHRHit /\ Pop
    /\ mshr' = Join(mshr, Page, Head(lookupBuffer))
    /\ UNCHANGED <<sets, responding, isPaused, panic, lost, answers, redirected, switches,
                   topOut, botOut, control, inputs>>

handleTranslationHit ==
    /\ Repeat("lookup") /\ TLBHit /\ Pop
    /\ LET set == sets[setOf[Page]] IN
       /\ Answer(Head(lookupBuffer), Lookup(set, Page).ver)
       /\ sets' = [sets EXCEPT ![setOf[Page]] = Visit(set, set.ways[Page])]
    /\ UNCHANGED <<mshr, responding, isPaused, panic, lost, redirected, switches, botOut,
                   control, inputs>>

\* handleTranslationMiss: a page of this TLB is walked for, any other goes to the RTU.
fetchBottom ==
    /\ Repeat("lookup") /\ Miss /\ doPageWalk(Page) /\ Pop
    /\ botOut' = Append(botOut, Page)
    /\ mshr' = Add(mshr, Page, Head(lookupBuffer))
    /\ UNCHANGED <<sets, responding, isPaused, panic, lost, answers, redirected, switches,
                   topOut, control, inputs>>

redirectToRTU ==
    /\ Repeat("lookup") /\ Miss /\ ~doPageWalk(Page) /\ Pop
    /\ topOut' = Append(topOut, Head(lookupBuffer))
    /\ redirected' = redirected \cup {Head(lookupBuffer)}
    /\ UNCHANGED <<sets, mshr, responding, isPaused, panic, lost, answers, switches, botOut,
                   control, inputs>>

pipelineTick ==
    /\ Repeat("pipeline")
    /\ lookupBuffer' = Append(lookupBuffer, Head(pipeline)) /\ pipeline' = Tail(pipeline)
    /\ UNCHANGED <<store, topIn, topOut, botOut, below, botIn, control, inputs>>

parseFromTop ==
    /\ Repeat("top")
    /\ pipeline' = Append(pipeline, Head(topIn)) /\ topIn' = Tail(topIn)
    /\ UNCHANGED <<store, lookupBuffer, topOut, botOut, below, botIn, control, inputs>>

Control(op) == stage = "ctrl" /\ ctrlIn # <<>> /\ Head(ctrlIn).op = op /\ ctrlIn' = <<>>

handleTLBFlush ==
    /\ Control("flush")
    /\ sets' = [s \in SetIDs |-> IF s = flushSetOf[Head(ctrlIn).v]
                                 THEN Invalidate(sets[s], Head(ctrlIn).v) ELSE sets[s]]
    /\ lost' = lost \cup WaitingIn(mshr)
    /\ mshr' = <<>> /\ isPaused' = TRUE
    /\ ctrlOut' = Append(ctrlOut, "flushed")
    /\ UNCHANGED <<stage, rep, responding, panic, answers, redirected, switches, ports,
                   cp, moving, epoch, pageTable, inputs>>

\* Both ports are emptied; the pipeline and the buffer behind it are not.
PortAfterRestart(port) == <<>>

handleTLBRestart ==
    /\ Control("restart")
    /\ isPaused' = FALSE
    /\ lost' = lost \cup ToSet(topIn)
    /\ topIn' = <<>> /\ botIn' = PortAfterRestart(botIn)
    /\ ctrlOut' = Append(ctrlOut, "restarted")
    /\ UNCHANGED <<stage, rep, sets, mshr, responding, panic, answers, redirected, switches,
                   pipeline, lookupBuffer, topOut, botOut, below, cp, moving, epoch, pageTable,
                   inputs>>

switchIndexing ==
    /\ Control("switch")
    /\ switches' = switches + 1
    /\ UNCHANGED <<stage, rep, sets, mshr, responding, isPaused, panic, lost, answers,
                   redirected, ports, ctrlOut, cp, moving, epoch, pageTable, inputs>>

Tick == \/ StartTick \/ StageDone \/ respondMSHREntry \/ parseBottom \/ parseBottomPanics
        \/ processTLBMSHRHit \/ handleTranslationHit \/ fetchBottom \/ redirectToRTU
        \/ pipelineTick \/ parseFromTop
        \/ handleTLBFlush \/ handleTLBRestart \/ switchIndexing

-----------------------------------------------------------------------------
(* The components around the TLB; they act between its ticks. *)

Idle == stage = "idle" /\ UNCHANGED <<stage, rep>>

\* The request of an L1 TLB or of the RTU reaches the top port.  A request that arrives
\* while a flush is under way was made before the flush.
RecvTop ==
    /\ Idle /\ issued < NumReqs /\ Len(topIn) < PortCap
    /\ cp = "restarting" => ~patient
    /\ topIn' = Append(topIn, issued + 1) /\ issued' = issued + 1
    /\ epochOf' = [epochOf EXCEPT ![issued + 1] = IF cp = "run" THEN epoch ELSE epoch - 1]
    /\ UNCHANGED <<store, pipeline, lookupBuffer, topOut, botOut, below, botIn, control, want,
                   patient>>

DeliverTop ==
    /\ Idle /\ topOut # <<>> /\ topOut' = Tail(topOut)
    /\ UNCHANGED <<store, topIn, pipeline, lookupBuffer, botOut, below, botIn, control, inputs>>

DeliverFetch ==
    /\ Idle /\ botOut # <<>>
    /\ below' = Append(below, [v |-> Head(botOut), ver |-> 0]) /\ botOut' = Tail(botOut)
    /\ UNCHANGED <<store, topIn, pipeline, lookupBuffer, topOut, botIn, control, inputs>>

\* The lower unit reads the page table at some time and its answer arrives later.
Translate(i) ==
    /\ Idle /\ below[i].ver = 0
    /\ below' = [below EXCEPT ![i].ver = pageTable[below[i].v]]
    /\ UNCHANGED <<store, topIn, pipeline, lookupBuffer, topOut, botOut, botIn, control, inputs>>

RecvBottom(i) ==
    /\ Idle /\ below[i].ver # 0 /\ Len(botIn) < PortCap
    /\ botIn' = Append(botIn, below[i]) /\ below' = RemoveAt(below, i)
    /\ UNCHANGED <<store, topIn, pipeline, lookupBuffer, topOut, botOut, control, inputs>>

SendFlush(v) ==
    /\ Idle /\ cp = "run" /\ ctrlIn = <<>> /\ epoch < MaxFlush
    /\ cp' = "flushing" /\ moving' = v /\ epoch' = epoch + 1
    /\ ctrlIn' = <<[op |-> "flush", v |-> v]>>
    /\ UNCHANGED <<store, ports, ctrlOut, pageTable, inputs>>

SendSwitch ==
    /\ Idle /\ cp = "run" /\ ctrlIn = <<>> /\ switches + 1 < Len(Owned)
    /\ ctrlIn' = <<[op |-> "switch"]>>
    /\ UNCHANGED <<store, ports, ctrlOut, cp, moving, epoch, pageTable, inputs>>

\* The acknowledgement arrives and the driver moves the page.
MovePage ==
    /\ Idle /\ cp = "flushing" /\ ctrlOut # <<>>
    /\ cp' = "moved" /\ ctrlOut' = <<>>
    /\ pageTable' = [pageTable EXCEPT ![moving] = @ + 1]
    /\ UNCHANGED <<store, ports, ctrlIn, moving, epoch, inputs>>

FetchesOut == below # <<>> \/ botOut # <<>>

SendRestart ==
    /\ Idle /\ cp = "moved" /\ (patient => ~FetchesOut)
    /\ cp' = "restarting" /\ ctrlIn' = <<[op |-> "restart"]>>
    /\ UNCHANGED <<store, ports, ctrlOut, moving, epoch, pageTable, inputs>>

Resume ==
    /\ Idle /\ cp = "restarting" /\ ctrlOut # <<>>
    /\ cp' = "run" /\ ctrlOut' = <<>>
    /\ UNCHANGED <<store, ports, ctrlIn, moving, epoch, pageTable, inputs>>

\* Fair, as in module TLB: ticks, deliveries and the rest of a migration.
Work == \/ Tick
        \/ RecvTop \/ DeliverTop \/ DeliverFetch
        \/ \E i \in DOMAIN below : Translate(i) \/ RecvBottom(i)
        \/ MovePage \/ SendRestart \/ Resume
Next == Work \/ SendSwitch \/ \E v \in Vpns : SendFlush(v)

Spec == Init /\ [][Next]_vars /\ WF_vars(Work)

-----------------------------------------------------------------------------
(* Properties. *)

\* Type invariant of the TLB's state (the fields of TLB and of its MSHR entries).
TypeOK ==
    /\ \A s \in SetIDs : /\ DOMAIN sets[s].ways \subseteq Vpns \cup {0}
                          /\ ToSet(sets[s].order) = 1..NumWays
    /\ Entries(mshr) \subseteq Vpns /\ Len(responding) <= 1
    /\ ToSet(topIn) \subseteq Reqs /\ lost \subseteq Reqs /\ Len(botIn) <= PortCap
    /\ stage \in ToSet(Stages) \cup {"idle"}
    /\ Len(pipeline) <= numReqPerCycle /\ Len(lookupBuffer) <= 2 * numReqPerCycle

Waiting == ToSet(topIn) \cup ToSet(pipeline) \cup ToSet(lookupBuffer) \cup WaitingIn(mshr)
           \cup UNION {ToSet(responding[i].reqs) : i \in DOMAIN responding}

\* Exactly-once: a request that reached TopPort is in one place only - the port, one MSHR
\* entry, the pipeline, the entry being answered, answered once, sent on to the RTU once, or
\* discarded by a flush or a restart (parseFromTop, lookup, respondMSHREntry).
ExactlyOnce ==
    /\ Waiting \cup {a.req : a \in answers} \cup redirected \cup lost = 1..issued
    /\ Len(topIn) + Len(pipeline) + Len(lookupBuffer) + Cardinality(redirected)
         + Cardinality(WaitingIn(mshr))
         + (IF responding = None THEN 0 ELSE Len(responding[1].reqs))
         + Cardinality(answers) + Cardinality(lost) = issued

\* While no flush has happened, the pages being fetched are exactly the MSHR's entries and
\* there are never more of them than the MSHR holds: parseBottom, which matches an answer
\* by its page and not by the request it answers, cannot confuse two fetches.
FetchPerEntry ==
    epoch = 0 =>
      LET fetching == botOut \o [i \in DOMAIN below |-> below[i].v]
                             \o [i \in DOMAIN botIn |-> botIn[i].v]
      IN  /\ IsInjective(fetching) /\ ToSet(fetching) = Entries(mshr)
          /\ Len(fetching) <= MshrCap

\* After a shootdown nobody who asks is told the old mapping: when the restart waited for
\* the fetches under way, a request issued after it is answered with the page table's
\* current entry (handleTLBFlush invalidates, handleTLBRestart empties BottomPort).
FreshAfterRestart ==
    [][\A a \in answers' \ answers :
          patient /\ epochOf[a.req] = epoch => a.ver = pageTable[a.v]]_vars

\* When the restart waited for the fetches under way, no answer arrives for an entry the
\* flush has thrown away, and parseBottom does not panic.
NoPanicWhenPatient == patient => ~panic

AllSettled ==
    \/ isPaused \/ panic
    \/ 1..issued \subseteq lost \cup redirected \cup {a.req : a \in answers}

\* A request that reached TopPort is answered or sent on to the RTU, or a shootdown discards
\* it, as long as the command processor restarts the TLB (a TLB left paused, or stopped by
\* a panic, excepted).
Answered == []<>AllSettled
=============================================================================
