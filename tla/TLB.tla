--------------------------------- MODULE TLB ---------------------------------
(***************************************************************************)
(* The L1 TLB of mem/vm/tlb/tlb.go between an address translator (top) and  *)
(* the unit that answers its misses (bottom).  One Tick is performCtrlReq,   *)
(* then respondMSHREntry, lookup and parseBottom, numReqPerCycle times each; *)
(* other components act between ticks.  A tick that can do nothing changes   *)
(* nothing and is left out.  The command processor flushes, waits for the    *)
(* acknowledgement, lets the driver move the page, and restarts; the         *)
(* acknowledgement therefore always finds room.  A page is a number v and    *)
(* the version ver of its mapping.                                           *)
(***************************************************************************)
EXTENDS TLBStorage, FiniteSets

CONSTANTS
    NumReqs, Vpns,
    Wants,           \* the pages the requests may ask for, as sequences
    MshrCap,         \* capacity of the MSHR
    numReqPerCycle,
    PortCap,         \* capacity of TopPort and BottomPort
    EndCap,          \* source-side buffer of each connection end
    MaxFlush,        \* bound: shootdowns
    setOf            \* vAddrToSetID, a function from pages to sets

Reqs   == 1..NumReqs
SetIDs == {setOf[v] : v \in Vpns}
None   == <<>>

VARIABLES
    want,        \* the page each request asks for
    issued, epochOf,
    topIn, topOut, answers,
    sets, mshr,
    responding,  \* respondingMSHREntry: <<>> or <<[v, ver, reqs]>>
    botOut, below, botIn,
    isPaused, panic, lost,
    ctrlIn, ctrlOut, cp, moving, epoch, pageTable,
    patient,     \* whether the restart waits for the fetches that were under way
    stage, rep

store   == <<sets, mshr, responding, isPaused, panic, lost, answers>>
ports   == <<topIn, topOut, botOut, below, botIn>>
control == <<ctrlIn, ctrlOut, cp, moving, epoch, pageTable>>
inputs  == <<want, issued, epochOf, patient>>
vars    == <<store, ports, control, inputs, stage, rep>>

Init ==
    /\ want \in Wants /\ issued = 0 /\ epochOf = [r \in Reqs |-> 0]
    /\ topIn = <<>> /\ topOut = <<>> /\ answers = {}
    /\ sets = [s \in SetIDs |-> NewSet] /\ mshr = <<>> /\ responding = None
    /\ botOut = <<>> /\ below = <<>> /\ botIn = <<>>
    /\ isPaused = FALSE /\ panic = FALSE /\ lost = {}
    /\ ctrlIn = <<>> /\ ctrlOut = <<>> /\ cp = "run" /\ moving = 0 /\ epoch = 0
    /\ pageTable = [v \in Vpns |-> 1] /\ patient \in BOOLEAN
    /\ stage = "idle" /\ rep = 0

-----------------------------------------------------------------------------
(* The steps of a tick. *)

\* The outcome of looking up the page of the oldest request.
Page    == want[Head(topIn)]
MSHRHit == Page \in Entries(mshr)
TLBHit  == ~MSHRHit /\ Hit(sets[setOf[Page]], Page)

IsFull  == Cardinality(Entries(mshr)) >= MshrCap

CanRespond == responding # None /\ Len(topOut) < EndCap
CanLookup  ==
    /\ topIn # <<>>
    /\ \/ MSHRHit
       \/ TLBHit /\ Len(topOut) < EndCap
       \/ ~MSHRHit /\ ~TLBHit /\ ~IsFull /\ Len(botOut) < EndCap
CanParse   == responding = None /\ botIn # <<>>

Can(s) == CASE s = "ctrl"    -> ctrlIn # <<>>
            [] s = "respond" -> CanRespond
            [] s = "lookup"  -> CanLookup
            [] s = "parse"   -> CanParse

Stages == <<"ctrl", "respond", "lookup", "parse">>

\* The stages after the k-th that can do something; the others return false.
Later(k) == {i \in (k + 1)..Len(Stages) : (i > 1 => ~isPaused) /\ Can(Stages[i])}
After(k) ==
    LET later == Later(k)
    IN  IF later = {} THEN "idle" ELSE Stages[Min(later)]

StartTick ==
    /\ stage = "idle" /\ ~panic /\ Later(0) # {}
    /\ stage' = After(0) /\ rep' = 0
    /\ UNCHANGED <<store, ports, control, inputs>>

\* The repetitions are used up, or the next one would return false.
StageDone ==
    /\ stage # "idle"
    /\ \/ ~Can(stage)
       \/ rep = numReqPerCycle
    /\ stage' = After(CHOOSE i \in DOMAIN Stages : Stages[i] = stage) /\ rep' = 0
    /\ UNCHANGED <<store, ports, control, inputs>>

Repeat(s) == stage = s /\ rep < numReqPerCycle /\ Can(s) /\ rep' = rep + 1 /\ UNCHANGED stage

Answer(r, ver) ==
    /\ topOut' = Append(topOut, r)
    /\ answers' = answers \cup {[req |-> r, v |-> want[r], ver |-> ver]}

respondMSHREntry ==
    /\ Repeat("respond")
    /\ LET e == Head(responding) IN
       /\ Answer(Head(e.reqs), e.ver)
       /\ responding' = IF Len(e.reqs) = 1 THEN None
                        ELSE <<[e EXCEPT !.reqs = Tail(@)]>>
    /\ UNCHANGED <<sets, mshr, isPaused, panic, lost, topIn, botOut, below, botIn,
                   control, inputs>>

processTLBMSHRHit ==
    /\ Repeat("lookup") /\ MSHRHit
    /\ mshr' = Join(mshr, Page, Head(topIn))
    /\ topIn' = Tail(topIn)
    /\ UNCHANGED <<sets, responding, isPaused, panic, lost, answers, topOut, botOut,
                   below, botIn, control, inputs>>

handleTranslationHit ==
    /\ Repeat("lookup") /\ TLBHit
    /\ LET set == sets[setOf[Page]] IN
       /\ Answer(Head(topIn), Lookup(set, Page).ver)
       /\ sets' = [sets EXCEPT ![setOf[Page]] = Visit(set, set.ways[Page])]
    /\ topIn' = Tail(topIn)
    /\ UNCHANGED <<mshr, responding, isPaused, panic, lost, botOut, below, botIn,
                   control, inputs>>

handleTranslationMiss ==
    /\ Repeat("lookup") /\ ~MSHRHit /\ ~TLBHit
    /\ botOut' = Append(botOut, Page)
    /\ mshr' = Add(mshr, Page, Head(topIn))
    /\ topIn' = Tail(topIn)
    /\ UNCHANGED <<sets, responding, isPaused, panic, lost, answers, topOut, below,
                   botIn, control, inputs>>

\* The entry is taken out of the MSHR before its requests are answered.
EntriesAfter(v) == Drop(mshr, v)

parseBottom ==
    /\ Repeat("parse")
    /\ LET p == Head(botIn) IN
       /\ p.v \in Entries(mshr)
       /\ sets' = [sets EXCEPT ![setOf[p.v]] =
                     Fill(@, [v |-> p.v, ver |-> p.ver, valid |-> TRUE])]
       /\ responding' = <<[v |-> p.v, ver |-> p.ver, reqs |-> mshr[p.v]]>>
       /\ mshr' = EntriesAfter(p.v)
    /\ botIn' = Tail(botIn)
    /\ UNCHANGED <<isPaused, panic, lost, answers, topIn, topOut, botOut, below,
                   control, inputs>>

\* panic("oh no!"): the page that arrives belongs to no MSHR entry.
parseBottomPanics ==
    /\ Repeat("parse")
    /\ Head(botIn).v \notin Entries(mshr)
    /\ panic' = TRUE
    /\ UNCHANGED <<sets, mshr, responding, isPaused, lost, answers, ports, control, inputs>>

handleTLBFlush ==
    /\ stage = "ctrl" /\ ctrlIn # <<>> /\ Head(ctrlIn).op = "flush"
    /\ sets' = [s \in SetIDs |-> IF s = setOf[Head(ctrlIn).v]
                                 THEN Invalidate(sets[s], Head(ctrlIn).v) ELSE sets[s]]
    /\ lost' = lost \cup WaitingIn(mshr)
    /\ mshr' = <<>> /\ isPaused' = TRUE
    /\ ctrlOut' = Append(ctrlOut, "flushed") /\ ctrlIn' = <<>>
    /\ UNCHANGED <<stage, rep, responding, panic, answers, ports, cp, moving, epoch, pageTable, inputs>>

\* Both ports are emptied; the loop's condition and body each retrieve.
PortAfterRestart(port) == <<>>

handleTLBRestart ==
    /\ stage = "ctrl" /\ ctrlIn # <<>> /\ Head(ctrlIn).op = "restart"
    /\ isPaused' = FALSE
    /\ lost' = lost \cup ToSet(topIn)
    /\ topIn' = <<>> /\ botIn' = PortAfterRestart(botIn)
    /\ ctrlOut' = Append(ctrlOut, "restarted") /\ ctrlIn' = <<>>
    /\ UNCHANGED <<stage, rep, sets, mshr, responding, panic, answers, topOut, botOut, below,
                   cp, moving, epoch, pageTable, inputs>>

Tick == \/ StartTick \/ StageDone \/ respondMSHREntry
        \/ processTLBMSHRHit \/ handleTranslationHit \/ handleTranslationMiss
        \/ parseBottom \/ parseBottomPanics \/ handleTLBFlush \/ handleTLBRestart

-----------------------------------------------------------------------------
(* The components around the TLB; they act between its ticks. *)

Idle == stage = "idle" /\ UNCHANGED <<stage, rep>>

\* The address translator's request reaches the top port.  A request that arrives while
\* a flush is under way left the translator before the flush.
RecvTop ==
    /\ Idle /\ issued < NumReqs /\ Len(topIn) < PortCap
    /\ cp = "restarting" => ~patient
    /\ topIn' = Append(topIn, issued + 1) /\ issued' = issued + 1
    /\ epochOf' = [epochOf EXCEPT ![issued + 1] = IF cp = "run" THEN epoch ELSE epoch - 1]
    /\ UNCHANGED <<store, topOut, botOut, below, botIn, control, want, patient>>

DeliverTop ==
    /\ Idle /\ topOut # <<>> /\ topOut' = Tail(topOut)
    /\ UNCHANGED <<store, topIn, botOut, below, botIn, control, inputs>>

DeliverFetch ==
    /\ Idle /\ botOut # <<>>
    /\ below' = Append(below, [v |-> Head(botOut), ver |-> 0]) /\ botOut' = Tail(botOut)
    /\ UNCHANGED <<store, topIn, topOut, botIn, control, inputs>>

\* The lower unit reads the page table at some time and its answer arrives later.
Translate(i) ==
    /\ Idle /\ below[i].ver = 0
    /\ below' = [below EXCEPT ![i].ver = pageTable[below[i].v]]
    /\ UNCHANGED <<store, topIn, topOut, botOut, botIn, control, inputs>>

RecvBottom(i) ==
    /\ Idle /\ below[i].ver # 0 /\ Len(botIn) < PortCap
    /\ botIn' = Append(botIn, below[i]) /\ below' = RemoveAt(below, i)
    /\ UNCHANGED <<store, topIn, topOut, botOut, control, inputs>>

SendFlush(v) ==
    /\ Idle /\ cp = "run" /\ epoch < MaxFlush
    /\ cp' = "flushing" /\ moving' = v /\ epoch' = epoch + 1
    /\ ctrlIn' = <<[op |-> "flush", v |-> v]>>
    /\ UNCHANGED <<store, ports, ctrlOut, pageTable, inputs>>

\* The acknowledgement arrives and the driver moves the page.
MovePage ==
    /\ Idle /\ cp = "flushing" /\ ctrlOut # <<>>
    /\ cp' = "moved" /\ ctrlOut' = <<>>
    /\ pageTable' = [pageTable EXCEPT ![moving] = @ + 1]
    /\ UNCHANGED <<store, ports, ctrlIn, moving, epoch, inputs>>

FetchesOut == below # <<>> \/ botOut # <<>>

SendRestart ==
    /\ Idle /\ cp = "moved" /\ (patient => ~FetchesOut)
    /\ cp' = "restarting" /\ ctrlIn' = <<[op |-> "restart"]>>
    /\ UNCHANGED <<store, ports, ctrlOut, moving, epoch, pageTable, inputs>>

Resume ==
    /\ Idle /\ cp = "restarting" /\ ctrlOut # <<>>
    /\ cp' = "run" /\ ctrlOut' = <<>>
    /\ UNCHANGED <<store, ports, ctrlIn, moving, epoch, pageTable, inputs>>

\* The engine runs every scheduled tick; the connections and the lower units deliver;
\* the driver finishes the migration it has begun.  No behaviour repeats a state, so that
\* fairness of these steps together is fairness of each.
Work == \/ Tick
        \/ RecvTop \/ DeliverTop \/ DeliverFetch
        \/ \E i \in DOMAIN below : Translate(i) \/ RecvBottom(i)
        \/ MovePage \/ SendRestart \/ Resume
Next == Work \/ \E v \in Vpns : SendFlush(v)

Spec == Init /\ [][Next]_vars /\ WF_vars(Work)

-----------------------------------------------------------------------------
(* Properties. *)

\* Type invariant of the TLB's state (the fields of TLB and of its MSHR entries).
TypeOK ==
    /\ \A s \in SetIDs : /\ DOMAIN sets[s].ways \subseteq Vpns \cup {0}
                          /\ ToSet(sets[s].order) = 1..NumWays
    /\ Entries(mshr) \subseteq Vpns /\ Len(responding) <= 1
    /\ ToSet(topIn) \subseteq Reqs /\ lost \subseteq Reqs /\ Len(botIn) <= PortCap
    /\ stage \in ToSet(Stages) \cup {"idle"}

Waiting == ToSet(topIn) \cup WaitingIn(mshr)
           \cup UNION {ToSet(responding[i].reqs) : i \in DOMAIN responding}

\* Exactly-once: a request that reached TopPort is in one place only - the port, one MSHR
\* entry, the entry being answered, answered once, or discarded by a flush or a restart
\* (lookup, respondMSHREntry, handleTLBFlush, handleTLBRestart).
ExactlyOnce ==
    /\ Waiting \cup {a.req : a \in answers} \cup lost = 1..issued
    /\ Len(topIn) + Cardinality(WaitingIn(mshr))
         + (IF responding = None THEN 0 ELSE Len(responding[1].reqs))
         + Cardinality(answers) + Cardinality(lost) = issued

\* While no flush has happened, the pages being fetched are exactly the MSHR's entries and
\* there are never more of them than the MSHR holds: parseBottom, which matches an answer
\* by its page and not by the request it answers, cannot confuse two fetches.
FetchPerEntry ==
    epoch = 0 =>
      LET fetching == botOut \o [i \in DOMAIN below |-> below[i].v]
                             \o [i \in DOMAIN botIn |-> botIn[i].v]
      IN  /\ IsInjective(fetching) /\ ToSet(fetching) = Entries(mshr)
          /\ Len(fetching) <= MshrCap

\* A key of a set's map leads to a way that holds that key's page, so a lookup never
\* returns another page's translation; and until a flush, every valid block is found
\* (Set.Update deletes the key of the page it replaces).
KeysLeadHome ==
    \A s \in SetIDs :
        /\ \A v \in DOMAIN sets[s].ways : sets[s].blocks[sets[s].ways[v]].v = v
        /\ epoch = 0 => \A w \in 1..NumWays : sets[s].blocks[w].valid =>
                            /\ Found(sets[s], sets[s].blocks[w].v)
                            /\ sets[s].ways[sets[s].blocks[w].v] = w

\* After a shootdown nobody who asks is told the old mapping: when the restart waited for
\* the fetches under way, a request issued after it is answered with the page table's
\* current entry (handleTLBFlush invalidates, handleTLBRestart empties BottomPort).
FreshAfterRestart ==
    [][\A a \in answers' \ answers :
          patient /\ epochOf[a.req] = epoch => a.ver = pageTable[a.v]]_vars

\* When the restart waited for the fetches under way, no answer arrives for an entry the
\* flush has thrown away, and parseBottom does not panic.
NoPanicWhenPatient == patient => ~panic

AllSettled == isPaused \/ panic \/ 1..issued \subseteq lost \cup {a.req : a \in answers}

\* A request that reached TopPort is answered, or a shootdown discards it, as long as the
\* command processor restarts the TLB (a TLB left paused, or stopped by a panic, excepted).
Answered == []<>AllSettled
=============================================================================
