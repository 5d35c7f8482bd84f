---------------------------- MODULE ParallelEngine ----------------------------
(***************************************************************************)
(* The parallel engine of akita/parallelengine.go.  Run works in rounds: it *)
(* picks the earliest time (primary events first), takes all queues out of  *)
(* the queue channel, starts a goroutine for every event of that time, puts *)
(* each queue back as soon as it is searched, and waits for the goroutines. *)
(* A handler that schedules an event takes some queue out of the channel,   *)
(* pushes, and puts the queue back; it blocks while the channel is empty.   *)
(***************************************************************************)
EXTENDS EngineEvents

Kinds  == {"primary", "secondary"}
Queues == 1..NumQueues
NoQueue == 0

VARIABLES
    now,
    pc,         \* where Run is: "pick", "empty", "search", "wait", "returned"
    round,      \* the kind of the round (runningSecondaryEvents)
    next,       \* the queue runEventsUntilConflict searches
    queues,     \* queues[k][q]: the events in queue q of kind k
    queueChan,  \* queueChan[k]: the queues that are in the channel, in order
    running,    \* events whose goroutine runs; the WaitGroup counts them
    todo,       \* todo[e]: events the handler of e has not scheduled yet
    held,       \* held[e]: the queue that the goroutine of e took, or NoQueue
    pushing,    \* pushing[e]: the event it pushes into held[e]
    finished    \* events whose goroutine is done, in order

mainVars == <<now, pc, round, next>>
workVars == <<running, todo, held, pushing, finished>>
vars     == <<mainVars, workVars, queues, queueChan>>

KindOf(e) == IF e \in Secondary THEN "secondary" ELSE "primary"
Queued(k) == UNION {queues[k][q] : q \in Queues}
AllQueued == UNION {Queued(k) : k \in Kinds}

\* Before Run, one goroutine schedules the roots in some order: the channel
\* rotates, so the i-th root of a kind goes into queue i % NumQueues.
Rotation(n, i) == ((n + i) % NumQueues) + 1
Init ==
    /\ now = 0 /\ pc = "pick" /\ round = "primary" /\ next = 1
    /\ \E rank \in [Roots -> 1..Cardinality(Roots)] :
         LET Before(e) == {f \in Roots : KindOf(f) = KindOf(e) /\ rank[f] < rank[e]}
             QueueOf(e) == Rotation(Cardinality(Before(e)), 0)
             Count(k) == Cardinality({f \in Roots : KindOf(f) = k})
         IN /\ \A e, f \in Roots : rank[e] = rank[f] => e = f
            /\ queues = [k \in Kinds |-> [q \in Queues |->
                           {e \in Roots : KindOf(e) = k /\ QueueOf(e) = q}]]
            /\ queueChan = [k \in Kinds |-> [i \in Queues |-> Rotation(Count(k), i - 1)]]
    /\ running = {} /\ todo = [e \in Events |-> {}] /\ finished = <<>>
    /\ held = [e \in Events |-> NoQueue] /\ pushing = [e \in Events |-> e]

-----------------------------------------------------------------------------
(* The goroutine of Run. *)

Return ==
    /\ pc = "pick" /\ AllQueued = {}
    /\ pc' = "returned"
    /\ UNCHANGED <<now, round, next, workVars, queues, queueChan>>

\* earliestTimeInQueueGroup; MaxFloat64 when all queues of the group are empty.
NoLater(A, B) == \A b \in Earliest(B) : \E a \in A : Time[a] <= Time[b]

determineWhatToRun ==
    /\ pc = "pick" /\ AllQueued # {}
    /\ round' = IF NoLater(Queued("primary"), Queued("secondary"))
                THEN "primary" ELSE "secondary"
    /\ \E e \in Earliest(Queued(round')) : now' = Time[e]
    /\ pc' = "empty"
    /\ UNCHANGED <<next, workVars, queues, queueChan>>

emptyQueueChan ==
    /\ pc = "empty" /\ Len(queueChan[round]) = NumQueues
    /\ queueChan' = [queueChan EXCEPT ![round] = <<>>]
    /\ pc' = "search" /\ next' = 1
    /\ UNCHANGED <<now, round, workVars, queues>>

\* The front of the searched queue is due: Pop and start its goroutine.
runEventWithTempWorker(e) ==
    /\ pc = "search" /\ e \in Earliest(queues[round][next]) /\ Time[e] = now
    /\ queues' = [queues EXCEPT ![round][next] = @ \ {e}]
    /\ running' = running \cup {e}
    /\ todo' = [todo EXCEPT ![e] = Children[e]]
    /\ UNCHANGED <<mainVars, held, pushing, finished, queueChan>>

LastSearched == next = NumQueues

\* Nothing more is due in the searched queue: it goes back into the channel.
ReturnQueue ==
    /\ pc = "search" /\ \A e \in queues[round][next] : Time[e] > now
    /\ queueChan' = [queueChan EXCEPT ![round] = Append(@, next)]
    /\ IF LastSearched THEN pc' = "wait" /\ UNCHANGED next
                           ELSE next' = next + 1 /\ UNCHANGED pc
    /\ UNCHANGED <<now, round, workVars, queues>>

AllDone == running = {}

Wait ==
    /\ pc = "wait" /\ AllDone
    /\ pc' = "pick"
    /\ UNCHANGED <<now, round, next, workVars, queues, queueChan>>

-----------------------------------------------------------------------------
(* The goroutine of an event: its handler, reduced to what it schedules. *)

\* The first half of Schedule: <-queueChan, which blocks on an empty channel.
TakeQueue(e, c) ==
    LET k == KindOf(c) IN
    /\ e \in running /\ held[e] = NoQueue /\ c \in todo[e]
    /\ Time[c] >= now /\ queueChan[k] # <<>>
    /\ held' = [held EXCEPT ![e] = Head(queueChan[k])]
    /\ pushing' = [pushing EXCEPT ![e] = c]
    /\ todo' = [todo EXCEPT ![e] = @ \ {c}]
    /\ queueChan' = [queueChan EXCEPT ![k] = Tail(@)]
    /\ UNCHANGED <<mainVars, running, finished, queues>>

\* The second half: push, and give the queue back.
GivenBack_Forgotten(ch, q) == ch
GivenBack(ch, q) == Append(ch, q)
PushAndReturn(e) ==
    LET k == KindOf(pushing[e]) IN
    /\ held[e] # NoQueue
    /\ queues' = [queues EXCEPT ![k][held[e]] = @ \cup {pushing[e]}]
    /\ queueChan' = [queueChan EXCEPT ![k] = GivenBack(@, held[e])]
    /\ held' = [held EXCEPT ![e] = NoQueue]
    /\ pushing' = [pushing EXCEPT ![e] = e]
    /\ UNCHANGED <<mainVars, running, todo, finished>>

HandlerReturns(e) ==
    /\ e \in running /\ todo[e] = {} /\ held[e] = NoQueue
    /\ running' = running \ {e} /\ finished' = Append(finished, e)
    /\ UNCHANGED <<mainVars, todo, held, pushing, queues, queueChan>>

Run == \/ Return \/ determineWhatToRun \/ emptyQueueChan \/ ReturnQueue \/ Wait
       \/ \E e \in Events : runEventWithTempWorker(e)

Worker(e) ==
    \/ \E c \in Events : TakeQueue(e, c)
    \/ PushAndReturn(e) \/ HandlerReturns(e)

Next == Run \/ \E e \in Events : Worker(e)

Spec == /\ Init /\ [][Next]_vars
        /\ WF_vars(Run) /\ \A e \in Events : WF_vars(Worker(e))

-----------------------------------------------------------------------------
(* Properties. *)

TypeOK ==
    /\ now \in Nat /\ pc \in {"pick", "empty", "search", "wait", "returned"}
    /\ round \in Kinds /\ next \in Queues
    /\ queues \in [Kinds -> [Queues -> SUBSET Events]]
    /\ \A k \in Kinds : queueChan[k] \in Seq(Queues)
    /\ running \subseteq Events /\ todo \in [Events -> SUBSET Events]
    /\ held \in [Events -> Queues \cup {NoQueue}] /\ pushing \in [Events -> Events]

\* None of the engine's panics is reachable ("cannot schedule event in the past",
\* "cannot run event in the past", "running event in the past"): the clock does
\* not move while a goroutine of the round still runs, and a queue searched in
\* this round receives nothing that is already overdue.
NeverInPast ==
    /\ \A e \in AllQueued : Time[e] >= now
    /\ \A e \in running : Time[e] = now /\ \A c \in todo[e] : Time[c] >= now

\* A queue is in one place only: the channel, the hands of Run, or those of one
\* goroutine.  Nobody pushes into a queue that Run searches, no two goroutines
\* push into the same queue, and no queue gets lost.
MainHolds(k) == IF pc = "search" /\ round = k THEN next..NumQueues ELSE {}
HolderOf(k, q) == {e \in Events : held[e] = q /\ KindOf(pushing[e]) = k}
InChan(k, q) == {i \in DOMAIN queueChan[k] : queueChan[k][i] = q}
OneHolder ==
    \A k \in Kinds, q \in Queues :
       Cardinality(InChan(k, q)) + Cardinality(HolderOf(k, q))
         + (IF q \in MainHolds(k) THEN 1 ELSE 0) = 1

\* The engine as its users see it: an event whose goroutine runs is still
\* pending, and what it schedules counts when it is done.
Engine == INSTANCE EventEngine WITH
    pending <- (AllQueued \ UNION {Children[e] : e \in running}) \cup running,
    handled <- finished

\* With all its concurrency the engine handles every event once, in time order,
\* secondary events after all primary events of their time.
ImplementsEngine == Engine!ESafety

\* Run returns, and only after every event was handled: no handler blocks for
\* ever on the queue channel.
Returned == pc = "returned" /\ running = {} /\ AllQueued = {}
RunReturns == []<>Returned
=============================================================================
