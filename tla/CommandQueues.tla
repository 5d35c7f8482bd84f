--------------------------- MODULE CommandQueues ---------------------------
(***************************************************************************)
(* The host side of the driver (mgpusim/driver).  Goroutines of a          *)
(* benchmark put commands in command queues and drain them; runAsync takes *)
(* their signals, schedules a tick of the driver and starts the engine     *)
(* when it believes that none is running; runEngine runs events until none *)
(* is left.  The tick of the driver sends requests to the GPUs, takes      *)
(* their returns and starts the next command of each queue.                *)
(*                                                                         *)
(* Everything that one goroutine may see of another is a step of its own:  *)
(* a mutex protected section, a channel operation, an unprotected read or  *)
(* write of a field.  The event engine is reduced to the set of events     *)
(* that are pending: the driver's tick, the GPUs' requests, the freeing of *)
(* the driver's port.  Simulated time is left out; any pending event may   *)
(* be the next one.                                                        *)
(***************************************************************************)
EXTENDS Naturals, Sequences, FiniteSets, Functions

CONSTANTS Hosts,      \* host goroutines; each creates one queue, all share a context
          QueueOrder, \* the order of the queues in Context.queues
          GPUs,
          Home,       \* the GPU each queue was created for
          Rounds,     \* Rounds[h]: what h enqueues before each of its drains
          Engines     \* goroutines that may execute runEngine

ASSUME QueuesAssumption ==
    /\ IsFiniteSet(Hosts) /\ IsFiniteSet(GPUs) /\ GPUs # {}
    /\ QueueOrder \in Seq(Hosts) /\ Range(QueueOrder) = Hosts
    /\ Home \in [Hosts -> GPUs]
    /\ Rounds \in [Hosts -> Seq(Seq({"kernel", "copy", "noop"}))]

VARIABLES commands,       \* CommandQueue.commands
          isRunning,      \* CommandQueue.IsRunning
          l2Dirty,        \* Context.l2Dirty
          requestsToSend, \* Driver.requestsToSend
          onGPU,          \* requests the GPUs have and have not answered
          returned,       \* the incoming buffer of the driver's ToGPUs port
          portBusy,       \* the last Send was rejected, its port not free since
          tickPending,    \* a tick event of the driver is in the engine's queue
          stage, turn, progress, \* where in its Tick the driver is
          pauseLock,      \* SerialEngine.pauseLock
          engineRunning,  \* Driver.engineRunning
          engine,         \* where each runEngine goroutine is
          async,          \* where runAsync is
          pc, round, pos, \* where each host goroutine is in its program
          dirty,          \* the local variable of enqueueFlushBeforeMemCopy
          unflushed       \* history: finished kernels whose results are in the caches

queues  == <<commands, isRunning, l2Dirty>>
gpu     == <<requestsToSend, onGPU, returned, portBusy, unflushed>>
tick    == <<stage, turn, progress>>
hosts   == <<pc, round, pos, dirty>>
threads == <<pauseLock, engineRunning, engine, async>>
vars    == <<queues, gpu, tickPending, tick, hosts, threads>>

HostPCs   == {"enqueue", "scan", "flush", "push", "signal", "check", "toWait",
              "wait", "done"}
EnginePCs == {"none", "start", "check", "next", "tick", "clear", "unlock"}
AsyncPCs  == {"select", "pause", "tick", "continue", "start", "stopped"}
Stages    == {"idle", "send", "return", "notify", "clean", "new", "end"}
Kinds     == {"kernel", "copy", "noop", "flush"}

Command(k) == [kind |-> k, reqs |-> {}]

(* The requests a command is turned into: a flush has one for every GPU, a *)
(* copy one for every page it touches (here: a page on every GPU), a       *)
(* kernel one for the queue's GPU, a no-op none.                           *)
TargetsOf(h, k) == CASE k = "noop"   -> {}
                     [] k = "kernel" -> {Home[h]}
                     [] OTHER        -> GPUs

Request(h, k, g) == [host |-> h, kind |-> k, gpu |-> g]

Init ==
    /\ commands = [h \in Hosts |-> <<>>]
    /\ isRunning = [h \in Hosts |-> FALSE]
    /\ l2Dirty = FALSE
    /\ requestsToSend = <<>> /\ onGPU = {} /\ returned = <<>>
    /\ portBusy = FALSE
    /\ tickPending = FALSE
    /\ stage = "idle" /\ turn = 0 /\ progress = FALSE
    /\ pauseLock = "free"
    /\ engineRunning = FALSE
    /\ engine = [e \in Engines |-> "none"]
    /\ async = "select"
    /\ pc = [h \in Hosts |-> "enqueue"]
    /\ round = [h \in Hosts |-> 1] /\ pos = [h \in Hosts |-> 1]
    /\ dirty = [h \in Hosts |-> FALSE]
    /\ unflushed = {}

-----------------------------------------------------------------------------
(* A host goroutine.                                                       *)

At(h, place) == pc[h] = place
Goto(h, place) == pc' = [pc EXCEPT ![h] = place]

Program(h) == Rounds[h][round[h]]
ToEnqueue(h) == /\ At(h, "enqueue")
                /\ round[h] <= Len(Rounds[h])
                /\ pos[h] <= Len(Program(h))

(* Enqueue: append under commandsMutex.  The listeners it then notifies    *)
(* are those of goroutines draining this queue; its owner is not.          *)
Enqueue(h, k) == commands' = [commands EXCEPT ![h] = Append(@, Command(k))]

EnqueueOther(h) ==
    /\ ToEnqueue(h)
    /\ Program(h)[pos[h]] # "copy"
    /\ Enqueue(h, Program(h)[pos[h]])
    /\ pos' = [pos EXCEPT ![h] = @ + 1]
    /\ UNCHANGED <<isRunning, l2Dirty, gpu, tickPending, tick, pc, round, dirty, threads>>

(* EnqueueMemCopyD2H: first enqueueFlushBeforeMemCopy, which reads l2Dirty *)
(* without a lock ...                                                      *)
ReadDirty(h) ==
    /\ ToEnqueue(h)
    /\ Program(h)[pos[h]] = "copy"
    /\ dirty' = [dirty EXCEPT ![h] = l2Dirty]
    /\ Goto(h, "scan")
    /\ UNCHANGED <<queues, gpu, tickPending, tick, round, pos, threads>>

DirtyAfter(was, cmds) ==
    LET relevant == SelectSeq(cmds, LAMBDA c : c.kind \in {"kernel", "flush"})
    IN  IF relevant = <<>> THEN was ELSE relevant[Len(relevant)].kind = "kernel"

(* ... then corrects it by the commands still queued, under commandsMutex, *)
ScanQueue(h) ==
    /\ At(h, "scan")
    /\ dirty' = [dirty EXCEPT ![h] = DirtyAfter(@, commands[h])]
    /\ Goto(h, IF dirty'[h] THEN "flush" ELSE "push")
    /\ UNCHANGED <<queues, gpu, tickPending, tick, round, pos, threads>>

(* ... then enqueues a flush,                                              *)
EnqueueFlush(h) ==
    /\ At(h, "flush")
    /\ Enqueue(h, "flush")
    /\ Goto(h, "push")
    /\ UNCHANGED <<isRunning, l2Dirty, gpu, tickPending, tick, round, pos, dirty, threads>>

(* ... and last the copy itself is enqueued.                               *)
EnqueueCopy(h) ==
    /\ At(h, "push")
    /\ Enqueue(h, "copy")
    /\ pos' = [pos EXCEPT ![h] = @ + 1]
    /\ Goto(h, "enqueue")
    /\ UNCHANGED <<isRunning, l2Dirty, gpu, tickPending, tick, round, dirty, threads>>

(* DrainCommandQueue: Subscribe, ...                                       *)
Subscribe(h) ==
    /\ At(h, "enqueue")
    /\ round[h] <= Len(Rounds[h]) /\ pos[h] > Len(Program(h))
    /\ Goto(h, "signal")
    /\ UNCHANGED <<queues, gpu, tickPending, tick, round, pos, dirty, threads>>

(* ... a send on the unbuffered enqueueSignal, received by runAsync, ...   *)
Signal(h) ==
    /\ At(h, "signal") /\ async = "select"
    /\ Goto(h, "check")
    /\ async' = "pause"
    /\ UNCHANGED <<queues, gpu, tickPending, tick, round, pos, dirty,
                   pauseLock, engineRunning, engine>>

(* ... then return (Unsubscribe included) when there is no command left,   *)
CheckEmpty(h) ==
    /\ At(h, "check") /\ commands[h] = <<>>
    /\ round' = [round EXCEPT ![h] = @ + 1]
    /\ pos' = [pos EXCEPT ![h] = 1]
    /\ Goto(h, IF round'[h] > Len(Rounds[h]) THEN "done" ELSE "enqueue")
    /\ UNCHANGED <<queues, gpu, tickPending, tick, dirty, threads>>

(* ... or else wait: NumCommand has released its mutex some time before    *)
(* the receive on the listener's channel blocks.                           *)
CheckNotEmpty(h) ==
    /\ At(h, "check") /\ commands[h] # <<>>
    /\ Goto(h, "toWait")
    /\ UNCHANGED <<queues, gpu, tickPending, tick, round, pos, dirty, threads>>

Wait(h) ==
    /\ At(h, "toWait")
    /\ Goto(h, "wait")
    /\ UNCHANGED <<queues, gpu, tickPending, tick, round, pos, dirty, threads>>

Host(h) == \/ EnqueueOther(h) \/ ReadDirty(h) \/ ScanQueue(h)
           \/ EnqueueFlush(h) \/ EnqueueCopy(h) \/ Subscribe(h)
           \/ Signal(h) \/ CheckEmpty(h) \/ CheckNotEmpty(h) \/ Wait(h)

-----------------------------------------------------------------------------
(* runAsync and the goroutines that execute runEngine.                     *)

AsyncPause ==
    /\ async = "pause" /\ pauseLock = "free"
    /\ pauseLock' = "async" /\ async' = "tick"
    /\ UNCHANGED <<queues, gpu, tickPending, tick, hosts, engineRunning, engine>>

AsyncTickLater ==
    /\ async = "tick"
    /\ tickPending' = TRUE /\ async' = "continue"
    /\ UNCHANGED <<queues, gpu, tick, hosts, pauseLock, engineRunning, engine>>

AsyncContinue ==
    /\ async = "continue"
    /\ pauseLock' = "free" /\ async' = "start"
    /\ UNCHANGED <<queues, gpu, tickPending, tick, hosts, engineRunning, engine>>

AsyncStart_NoCheck ==
    /\ async = "start"
    /\ async' = "select"
    /\ engineRunning' = TRUE
    /\ \E e \in Engines : /\ engine[e] = "none"
                          /\ engine' = [engine EXCEPT ![e] = "start"]
    /\ UNCHANGED <<queues, gpu, tickPending, tick, hosts, pauseLock>>

(* The section under engineRunningMutex.                                   *)
AsyncStart ==
    /\ async = "start"
    /\ async' = "select"
    /\ \/ /\ engineRunning
          /\ UNCHANGED <<engineRunning, engine>>
       \/ /\ ~engineRunning
          /\ engineRunning' = TRUE
          /\ \E e \in Engines : /\ engine[e] = "none"
                                /\ engine' = [engine EXCEPT ![e] = "start"]
    /\ UNCHANGED <<queues, gpu, tickPending, tick, hosts, pauseLock>>

(* Terminate, called when the benchmark is over.                           *)
Terminate ==
    /\ \A h \in Hosts : At(h, "done")
    /\ async = "select"
    /\ async' = "stopped"
    /\ UNCHANGED <<queues, gpu, tickPending, tick, hosts, pauseLock,
                   engineRunning, engine>>

EngineAt(e, from, to) == /\ engine[e] = from
                         /\ engine' = [engine EXCEPT ![e] = to]

MutexFree == \A e \in Engines : engine[e] \in {"none", "start"}

EngineLock(e) ==
    /\ MutexFree
    /\ EngineAt(e, "start", "check")
    /\ UNCHANGED <<queues, gpu, tickPending, tick, hosts, pauseLock, engineRunning, async>>

NoMoreEvent == ~tickPending /\ onGPU = {} /\ ~portBusy

(* The loop of SerialEngine.Run looks at the queues before it takes        *)
(* pauseLock.                                                              *)
EngineCheck(e) ==
    /\ EngineAt(e, "check", IF NoMoreEvent THEN "clear" ELSE "next")
    /\ UNCHANGED <<queues, gpu, tickPending, tick, hosts, pauseLock, engineRunning, async>>

EngineClear(e) ==
    /\ EngineAt(e, "clear", "unlock")
    /\ engineRunning' = FALSE
    /\ UNCHANGED <<queues, gpu, tickPending, tick, hosts, pauseLock, async>>

EngineUnlock(e) ==
    /\ EngineAt(e, "unlock", "none")
    /\ UNCHANGED <<queues, gpu, tickPending, tick, hosts, pauseLock, engineRunning, async>>

(* An event of the GPUs: a request is done and its return delivered to the *)
(* driver's port, which schedules a tick.  Kernels leave their results in  *)
(* the caches, a flush writes back those of its GPU.                       *)
GPUReturns(e) ==
    /\ pauseLock = "free"
    /\ EngineAt(e, "next", "check")
    /\ \E r \in onGPU :
          /\ onGPU' = onGPU \ {r}
          /\ returned' = Append(returned, r)
          /\ unflushed' = CASE r.kind = "kernel" -> unflushed \cup {r}
                            [] r.kind = "flush" -> {u \in unflushed : u.gpu # r.gpu}
                            [] OTHER -> unflushed
    /\ tickPending' = TRUE
    /\ UNCHANGED <<queues, requestsToSend, portBusy, tick, hosts, pauseLock,
                   engineRunning, async>>

(* An event of the connection: NotifyPortFree.                             *)
PortFree(e) ==
    /\ pauseLock = "free" /\ portBusy
    /\ EngineAt(e, "next", "check")
    /\ portBusy' = FALSE /\ tickPending' = TRUE
    /\ UNCHANGED <<queues, requestsToSend, onGPU, returned, unflushed, tick, hosts,
                   pauseLock, engineRunning, async>>

(* The driver's tick event: pauseLock is held until Tick has returned.     *)
TickBegins(e) ==
    /\ pauseLock = "free" /\ tickPending
    /\ EngineAt(e, "next", "tick")
    /\ pauseLock' = "engine" /\ tickPending' = FALSE
    /\ stage' = "send" /\ progress' = FALSE /\ turn' = 0
    /\ UNCHANGED <<queues, gpu, hosts, engineRunning, async>>

-----------------------------------------------------------------------------
(* The steps of Driver.Tick, executed by the engine goroutine.             *)

Step(from, to) == stage = from /\ stage' = to

(* sendToGPUs: one request; a rejected one stays first in line.            *)
SendNothing ==
    /\ requestsToSend = <<>>
    /\ Step("send", "return")
    /\ UNCHANGED <<queues, gpu, tickPending, turn, progress, hosts, threads>>

SendAccepted ==
    /\ requestsToSend # <<>>
    /\ Step("send", "return")
    /\ onGPU' = onGPU \cup {Head(requestsToSend)}
    /\ requestsToSend' = Tail(requestsToSend)
    /\ progress' = TRUE
    /\ UNCHANGED <<queues, returned, portBusy, unflushed, tickPending, turn, hosts, threads>>

SendRejected ==
    /\ requestsToSend # <<>>
    /\ Step("send", "return")
    /\ portBusy' = TRUE
    /\ UNCHANGED <<queues, requestsToSend, onGPU, returned, unflushed, tickPending,
                   turn, progress, hosts, threads>>

(* processReturnReq: findCommandByReq looks for the request among those of *)
(* the first command of each queue.                                        *)
Found(h, r) == /\ r.host = h
               /\ commands[h] # <<>>
               /\ Head(commands[h]).kind = r.kind
               /\ r.gpu \in Head(commands[h]).reqs

NothingReturned ==
    /\ returned = <<>>
    /\ Step("return", "new")
    /\ turn' = 1
    /\ UNCHANGED <<queues, gpu, tickPending, progress, hosts, threads>>

RemoveReq(c, g) == [c EXCEPT !.reqs = @ \ {g}]

(* One request of several is back.                                         *)
OneReturned(h) ==
    /\ returned # <<>> /\ Found(h, Head(returned))
    /\ LET c == RemoveReq(Head(commands[h]), Head(returned).gpu)
       IN  /\ c.reqs # {}
           /\ commands' = [commands EXCEPT ![h] = <<c>> \o Tail(@)]
    /\ Step("return", "new")
    /\ returned' = Tail(returned)
    /\ turn' = 1 /\ progress' = TRUE
    /\ UNCHANGED <<isRunning, l2Dirty, requestsToSend, onGPU, portBusy, unflushed,
                   tickPending, hosts, threads>>

(* The last one is back: the queue is no longer running and Dequeue        *)
(* removes the command; its subscribers are notified after the mutex is    *)
(* released.                                                               *)
LastReturned(h) ==
    /\ returned # <<>> /\ Found(h, Head(returned))
    /\ RemoveReq(Head(commands[h]), Head(returned).gpu).reqs = {}
    /\ commands' = [commands EXCEPT ![h] = Tail(@)]
    /\ isRunning' = [isRunning EXCEPT ![h] = FALSE]
    /\ Step("return", "notify")
    /\ UNCHANGED <<l2Dirty, gpu, tickPending, turn, progress, hosts, threads>>

(* NotifyAllSubscribers: the send on a listener's channel has a default,   *)
(* so that it reaches only a goroutine that is already waiting.            *)
Woken(h) == IF At(h, "wait") THEN [pc EXCEPT ![h] = "check"] ELSE pc

NotifyReturn ==
    /\ turn = 0
    /\ Step("notify", IF Head(returned).kind = "flush" THEN "clean" ELSE "new")
    /\ pc' = Woken(Head(returned).host)
    /\ returned' = Tail(returned)
    /\ turn' = 1 /\ progress' = TRUE
    /\ UNCHANGED <<queues, requestsToSend, onGPU, portBusy, unflushed, tickPending,
                   round, pos, dirty, threads>>

(* processFlushReturn: the caches are clean.                               *)
Clean ==
    /\ Step("clean", "new")
    /\ l2Dirty' = FALSE
    /\ UNCHANGED <<commands, isRunning, gpu, tickPending, turn, progress, hosts, threads>>

(* processNewCommand, one queue after the other: a queue that is empty or  *)
(* running is passed over, ...                                             *)
Queue == QueueOrder[turn]
InTurn == turn \in 1..Len(QueueOrder)
MayStart_Running(h) == commands[h] # <<>>
MayStart(h) == commands[h] # <<>> /\ ~isRunning[h]

PassOver ==
    /\ stage = "new" /\ InTurn /\ ~MayStart(Queue)
    /\ turn' = turn + 1
    /\ UNCHANGED <<queues, gpu, tickPending, stage, progress, hosts, threads>>

(* ... a no-op is over at once, ...                                        *)
StartNoop ==
    /\ InTurn /\ MayStart(Queue) /\ Head(commands[Queue]).kind = "noop"
    /\ Step("new", "notify")
    /\ commands' = [commands EXCEPT ![Queue] = Tail(@)]
    /\ UNCHANGED <<isRunning, l2Dirty, gpu, tickPending, turn, progress, hosts, threads>>

NotifyNoop ==
    /\ turn > 0
    /\ Step("notify", "new")
    /\ pc' = Woken(Queue)
    /\ turn' = turn + 1 /\ progress' = TRUE
    /\ UNCHANGED <<queues, gpu, tickPending, round, pos, dirty, threads>>

(* ... any other command becomes its requests, one GPU after the other.    *)
InSomeOrder(S) == CHOOSE s \in Bijection(1..Cardinality(S), S) : TRUE
StartCommand ==
    /\ stage = "new" /\ InTurn /\ MayStart(Queue)
    /\ LET k == Head(commands[Queue]).kind
           ts == TargetsOf(Queue, k)
       IN  /\ k # "noop"
           /\ commands' = [commands EXCEPT ![Queue][1].reqs = ts]
           /\ requestsToSend' = requestsToSend
                 \o InSomeOrder({Request(Queue, k, g) : g \in ts})
           /\ l2Dirty' = (l2Dirty \/ k = "kernel")
    /\ isRunning' = [isRunning EXCEPT ![Queue] = TRUE]
    /\ turn' = turn + 1 /\ progress' = TRUE
    /\ UNCHANGED <<onGPU, returned, portBusy, unflushed, tickPending, stage, hosts, threads>>

AllQueuesSeen ==
    /\ ~InTurn
    /\ Step("new", "end")
    /\ UNCHANGED <<queues, gpu, tickPending, turn, progress, hosts, threads>>

(* TickingComponent.Handle: another tick if this one made progress.        *)
TickAgain(p) == tickPending \/ p

TickEnds(e) ==
    /\ Step("end", "idle")
    /\ EngineAt(e, "tick", "check")
    /\ tickPending' = TickAgain(progress)
    /\ pauseLock' = "free"
    /\ turn' = 0 /\ progress' = FALSE
    /\ UNCHANGED <<queues, gpu, hosts, engineRunning, async>>

DriverTick == \/ SendNothing \/ SendAccepted \/ SendRejected
              \/ NothingReturned \/ NotifyReturn \/ Clean
              \/ \E h \in Hosts : OneReturned(h) \/ LastReturned(h)
              \/ PassOver \/ StartNoop \/ NotifyNoop \/ StartCommand \/ AllQueuesSeen

Async == AsyncPause \/ AsyncTickLater \/ AsyncContinue \/ AsyncStart \/ Terminate

Engine(e) == \/ EngineLock(e) \/ EngineCheck(e) \/ EngineClear(e) \/ EngineUnlock(e)
             \/ GPUReturns(e) \/ PortFree(e) \/ TickBegins(e) \/ TickEnds(e)

Next == \/ \E h \in Hosts : Host(h)
        \/ Async
        \/ \E e \in Engines : Engine(e)
        \/ DriverTick

(* Every goroutine is scheduled fairly by the Go runtime; a rejected Send  *)
(* is accepted in the end, since each rejection waits for a free port; a   *)
(* request a GPU has is answered in the end.                               *)
Fairness == /\ \A h \in Hosts : WF_vars(Host(h)) /\ SF_vars(Signal(h))
            /\ SF_vars(Async)
            /\ \A e \in Engines : WF_vars(Engine(e)) /\ SF_vars(EngineLock(e))
            /\ WF_vars(DriverTick) /\ SF_vars(SendAccepted)
            /\ \A e \in Engines : SF_vars(GPUReturns(e)) /\ SF_vars(TickBegins(e))

Spec == Init /\ [][Next]_vars /\ Fairness

-----------------------------------------------------------------------------
(* Properties.                                                             *)

Requests == [host : Hosts, kind : Kinds, gpu : GPUs]

(* Every variable stays in its set, whatever the goroutines' interleaving. *)
TypeOK ==
    /\ commands \in [Hosts -> Seq([kind : Kinds, reqs : SUBSET GPUs])]
    /\ isRunning \in [Hosts -> BOOLEAN] /\ l2Dirty \in BOOLEAN
    /\ requestsToSend \in Seq(Requests) /\ onGPU \subseteq Requests
    /\ returned \in Seq(Requests) /\ unflushed \subseteq Requests
    /\ portBusy \in BOOLEAN /\ tickPending \in BOOLEAN
    /\ stage \in Stages /\ turn \in 0..(Len(QueueOrder) + 1) /\ progress \in BOOLEAN
    /\ pauseLock \in {"free", "async", "engine"} /\ engineRunning \in BOOLEAN
    /\ engine \in [Engines -> EnginePCs] /\ async \in AsyncPCs
    /\ pc \in [Hosts -> HostPCs] /\ round \in [Hosts -> Nat]
    /\ pos \in [Hosts -> Nat] /\ dirty \in [Hosts -> BOOLEAN]

(* The requests whose return has not been processed yet.                   *)
Unprocessed ==
    Range(requestsToSend) \cup onGPU
        \cup Range(IF stage = "notify" /\ turn = 0 THEN Tail(returned) ELSE returned)

(* The state keeps its types and                                           *)
(* findCommandByReq never panics with "cannot find command": while a       *)
(* request is on its way the command it belongs to is the first of its     *)
(* queue and lists it, and a queue runs exactly while its first command    *)
(* has requests on the way.                                                *)
RequestsHaveTheirCommand ==
    /\ TypeOK
    /\ \A r \in Unprocessed : Found(r.host, r)
    /\ \A h \in Hosts : isRunning[h] <=> \E r \in Unprocessed : r.host = h

(* engineRunning, which decides whether runAsync starts an engine, is true *)
(* exactly while one runEngine goroutine has not cleared it; a second      *)
(* goroutine exists only while the first is about to release engineMutex.  *)
FlagMatchesEngine ==
    Cardinality({e \in Engines : engine[e] \notin {"none", "unlock"}})
        = (IF engineRunning THEN 1 ELSE 0)

(* A copy from the device finds in memory what the kernels before it on    *)
(* its queue wrote: enqueueFlushBeforeMemCopy has put a flush between,     *)
(* whether the kernel was still queued, running or over at that time.      *)
CopySeesKernels ==
    \A r \in onGPU : r.kind = "copy" => \A u \in unflushed : u.host # r.host

(* "DrainCommandQueue will return when there is no command to execute":    *)
(* a goroutine draining an empty queue does not wait for ever.             *)
DrainReturns ==
    \A h \in Hosts :
        (pc[h] \in {"check", "toWait", "wait"} /\ commands[h] = <<>>)
            ~> pc[h] \in {"enqueue", "done"}

(* The thread that Run starts "handles all commands in the command         *)
(* queues": commands whose signal runAsync has received are executed.      *)
SignalledCommandsFinish ==
    \A h \in Hosts :
        (pc[h] \in {"check", "toWait", "wait"}) ~> commands[h] = <<>>
=============================================================================
