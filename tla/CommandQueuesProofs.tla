------------------------ MODULE CommandQueuesProofs ------------------------
(***************************************************************************)
(* That the driver finds the command of every request that returns, and    *)
(* that its flag for the engine is right, for every number of queues, GPUs *)
(* and goroutines.                                                         *)
(***************************************************************************)
EXTENDS CommandQueues, FiniteSetTheorems, TLAPS

(* The types, by what changes together.                                    *)
QueueTypes  == /\ commands \in [Hosts -> Seq([kind : Kinds, reqs : SUBSET GPUs])]
               /\ isRunning \in [Hosts -> BOOLEAN] /\ l2Dirty \in BOOLEAN
GPUTypes    == /\ requestsToSend \in Seq(Requests) /\ onGPU \subseteq Requests
               /\ returned \in Seq(Requests) /\ unflushed \subseteq Requests
               /\ portBusy \in BOOLEAN
TickTypes   == /\ stage \in Stages /\ turn \in 0..(Len(QueueOrder) + 1)
               /\ progress \in BOOLEAN
ThreadTypes == /\ pauseLock \in {"free", "async", "engine"} /\ engineRunning \in BOOLEAN
               /\ engine \in [Engines -> EnginePCs] /\ async \in AsyncPCs
HostTypes   == /\ pc \in [Hosts -> HostPCs] /\ round \in [Hosts -> Nat \ {0}]
               /\ pos \in [Hosts -> Nat \ {0}] /\ dirty \in [Hosts -> BOOLEAN]
Types == QueueTypes /\ GPUTypes /\ TickTypes /\ ThreadTypes /\ HostTypes
         /\ tickPending \in BOOLEAN

(* The driver is in its Tick while the engine has the pause lock.          *)
Lock == /\ stage # "idle" <=> pauseLock = "engine"
        /\ async \in {"tick", "continue"} <=> pauseLock = "async"

(* The two uses of the notification: after a return, or for a no-op.       *)
Place == /\ stage \in {"send", "return"} => turn = 0
         /\ stage \in {"clean", "new"} => turn # 0
         /\ stage = "notify" => turn # Len(QueueOrder) + 1 /\ (turn = 0 => returned # <<>>)

(* A request is in one place, once.                                        *)
Distinct(s) == \A i, j \in DOMAIN s : s[i] = s[j] => i = j
OnePlace == /\ Distinct(requestsToSend) /\ Distinct(returned)
            /\ Range(requestsToSend) \cap onGPU = {}
            /\ Range(requestsToSend) \cap Range(returned) = {}
            /\ onGPU \cap Range(returned) = {}

(* The requests that the first command of a queue lists.                   *)
Listed(h) == IF commands[h] = <<>> THEN {}
             ELSE {Request(h, commands[h][1].kind, g) : g \in commands[h][1].reqs}

(* What is on the way is what the first commands list; no other command    *)
(* has requests, and a queue runs while its first command has some.        *)
Owned == /\ \A h \in Hosts : {r \in Unprocessed : r.host = h} = Listed(h)
         /\ \A h \in Hosts : \A i \in DOMAIN commands[h] : i # 1 => commands[h][i].reqs = {}
         /\ \A h \in Hosts : isRunning[h] <=> Listed(h) # {}

DriverInv == Types /\ Lock /\ Place /\ OnePlace /\ Owned

-----------------------------------------------------------------------------
(* The flag for the engine.                                                *)

Active == {e \in Engines : engine[e] \notin {"none", "unlock"}}
FlagInv == /\ engineRunning \in BOOLEAN /\ engine \in [Engines -> EnginePCs]
           /\ \A e, f \in Active : e = f
           /\ engineRunning <=> Active # {}

(* A runEngine goroutine goes on without being started, cleared or ended.  *)
LEMMA EngineGoesOn ==
    ASSUME FlagInv, NEW e \in Engines, NEW from, NEW to \in EnginePCs, EngineAt(e, from, to),
           from \notin {"none", "unlock"} <=> to \notin {"none", "unlock"},
           engineRunning' = engineRunning
    PROVE  FlagInv'
<1>1. Active' = Active
  BY ZenonT(30) DEF FlagInv, EngineAt, Active
<1>2. engine' \in [Engines -> EnginePCs]
  BY ZenonT(30) DEF FlagInv, EngineAt
<1> QED BY ZenonT(30), <1>1, <1>2 DEF FlagInv

(* runAsync starts an engine only when none is active, and sets the flag with it.*)
LEMMA StartFlag ==
    ASSUME FlagInv, AsyncStart
    PROVE  FlagInv'
<1>1. CASE engineRunning' = engineRunning /\ engine' = engine
  BY ZenonT(30), <1>1 DEF FlagInv, Active
<1>2. CASE ~(engineRunning' = engineRunning /\ engine' = engine)
  <2>1. ~engineRunning /\ engineRunning' = TRUE
    BY ZenonT(30), <1>2 DEF AsyncStart
  <2>2. PICK e \in Engines : engine[e] = "none" /\ engine' = [engine EXCEPT ![e] = "start"]
    BY ZenonT(30), <1>2 DEF AsyncStart
  <2>3. Active = {} /\ engine \in [Engines -> EnginePCs]
    BY ZenonT(30), <2>1 DEF FlagInv
  <2>4. Active' = {e}
    BY ZenonT(30), <2>2, <2>3 DEF Active
  <2>5. engine' \in [Engines -> EnginePCs]
    BY ZenonT(30), <2>2, <2>3 DEF EnginePCs
  <2> QED BY ZenonT(30), <2>1, <2>4, <2>5 DEF FlagInv
<1> QED BY ZenonT(30), <1>1, <1>2

(* runEngine clears the flag as the last thing the active engine does.     *)
LEMMA ClearFlag ==
    ASSUME FlagInv, NEW e \in Engines, EngineClear(e)
    PROVE  FlagInv'
<1>1. engine[e] = "clear" /\ engine' = [engine EXCEPT ![e] = "unlock"] /\ engineRunning' = FALSE
  BY ZenonT(30) DEF EngineClear, EngineAt
<1>2. Active = {e} /\ engine \in [Engines -> EnginePCs]
  BY ZenonT(30), <1>1 DEF FlagInv, Active
<1>3. Active' = {}
  BY ZenonT(30), <1>1, <1>2 DEF Active
<1>4. engine' \in [Engines -> EnginePCs]
  BY ZenonT(30), <1>1, <1>2 DEF EnginePCs
<1> QED BY ZenonT(30), <1>1, <1>3, <1>4 DEF FlagInv

(* The flag stays right in every step of a runEngine goroutine.            *)
LEMMA EngineFlag ==
    ASSUME FlagInv, NEW e \in Engines, Engine(e)
    PROVE  FlagInv'
<1>1. CASE EngineLock(e)
  BY ZenonT(30), <1>1, EngineGoesOn DEF EngineLock, EnginePCs
<1>2. CASE EngineCheck(e)
  <2>1. PICK to \in {"clear", "next"} : EngineAt(e, "check", to)
    BY ZenonT(30), <1>2 DEF EngineCheck
  <2> QED BY ZenonT(30), <1>2, <2>1, EngineGoesOn DEF EngineCheck, EnginePCs
<1>3. CASE EngineUnlock(e)
  BY ZenonT(30), <1>3, EngineGoesOn DEF EngineUnlock, EnginePCs
<1>4. CASE GPUReturns(e) \/ PortFree(e)
  BY ZenonT(30), <1>4, EngineGoesOn DEF GPUReturns, PortFree, EnginePCs
<1>5. CASE TickBegins(e)
  BY ZenonT(30), <1>5, EngineGoesOn DEF TickBegins, EnginePCs
<1>6. CASE TickEnds(e)
  BY ZenonT(30), <1>6, EngineGoesOn DEF TickEnds, EnginePCs
<1> QED BY ZenonT(30), <1>1, <1>2, <1>3, <1>4, <1>5, <1>6, ClearFlag DEF Engine

(* engineRunning is true exactly while one runEngine goroutine has not     *)
(* cleared it, whatever the interleaving of runAsync, the engine and the   *)
(* hosts: runAsync never starts a second engine beside a running one.      *)
THEOREM FlagIsRight == Spec => []FlagMatchesEngine
<1>1. Init => FlagInv
  BY ZenonT(30) DEF Init, FlagInv, Active, EnginePCs
<1>2. FlagInv /\ [Next]_vars => FlagInv'
  <2> SUFFICES ASSUME FlagInv, [Next]_vars PROVE FlagInv'
    OBVIOUS
  <2>1. ASSUME engineRunning' = engineRunning, engine' = engine PROVE FlagInv'
    BY ZenonT(30), <2>1 DEF FlagInv, Active
  <2>2. CASE UNCHANGED vars
    BY ZenonT(30), <2>1, <2>2 DEF vars, threads
  <2>3. ASSUME NEW h \in Hosts, Host(h) PROVE FlagInv'
    BY ZenonT(30), <2>1, <2>3 DEF Host, EnqueueOther, ReadDirty, ScanQueue, EnqueueFlush, EnqueueCopy,
       Subscribe, Signal, CheckEmpty, CheckNotEmpty, Wait, threads
  <2>4. CASE Async
    BY ZenonT(30), <2>1, <2>4, StartFlag DEF Async, AsyncPause, AsyncTickLater, AsyncContinue, Terminate
  <2>5. CASE DriverTick
    BY ZenonT(30), <2>1, <2>5 DEF DriverTick, SendNothing, SendAccepted, SendRejected, NothingReturned,
       NotifyReturn, Clean, OneReturned, LastReturned, PassOver, StartNoop, NotifyNoop,
       StartCommand, AllQueuesSeen, threads
  <2> QED BY ZenonT(30), <2>2, <2>3, <2>4, <2>5, EngineFlag DEF Next
<1>3. FlagInv => FlagMatchesEngine
  <2> SUFFICES ASSUME FlagInv PROVE Cardinality(Active) = (IF engineRunning THEN 1 ELSE 0)
    BY ZenonT(30) DEF FlagMatchesEngine, Active
  <2>1. CASE engineRunning
    <3>1. PICK e : Active = {e}
      BY SMTT(30), <2>1 DEF FlagInv
    <3> QED BY ZenonT(30), <2>1, <3>1, FS_Singleton
  <2>2. CASE ~engineRunning
    BY ZenonT(30), <2>2, FS_EmptySet DEF FlagInv
  <2> QED BY ZenonT(30), <2>1, <2>2
<1> QED BY <1>1, <1>2, <1>3, PTL DEF Spec

-----------------------------------------------------------------------------
(* Sequences of requests.                                                  *)

(* Append adds one element, at the end.                                    *)
LEMMA Appended ==
    ASSUME NEW S, NEW s \in Seq(S), NEW x \in S
    PROVE  /\ Append(s, x) \in Seq(S) /\ Append(s, x) # <<>>
           /\ Range(Append(s, x)) = Range(s) \cup {x}
           /\ Distinct(s) /\ x \notin Range(s) => Distinct(Append(s, x))
           /\ s # <<>> => Append(s, x)[1] = s[1] /\ Tail(Append(s, x)) = Append(Tail(s), x)
           /\ s = <<>> => Append(s, x)[1] = x
<1>1. /\ DOMAIN Append(s, x) = DOMAIN s \cup {Len(s) + 1} /\ Len(s) + 1 \notin DOMAIN s
      /\ Append(s, x)[Len(s) + 1] = x /\ \A i \in DOMAIN s : Append(s, x)[i] = s[i]
  OBVIOUS
<1>2. Range(Append(s, x)) = Range(s) \cup {x}
  BY ZenonT(30), <1>1 DEF Range
<1>3. Distinct(s) /\ x \notin Range(s) => Distinct(Append(s, x))
  BY ZenonT(30), <1>1 DEF Range, Distinct
<1>4. s # <<>> => Append(s, x)[1] = s[1] /\ Tail(Append(s, x)) = Append(Tail(s), x)
  OBVIOUS
<1> QED BY SMTT(30), <1>2, <1>3, <1>4

(* Tail loses the head only, and without repetitions the head is gone.     *)
LEMMA Tailed ==
    ASSUME NEW S, NEW s \in Seq(S), s # <<>>
    PROVE  /\ Tail(s) \in Seq(S) /\ Head(s) \in S /\ Head(s) = s[1] /\ Head(s) \in Range(s)
           /\ Range(Tail(s)) \subseteq Range(s) /\ Range(s) = Range(Tail(s)) \cup {Head(s)}
           /\ Distinct(s) => Distinct(Tail(s)) /\ Head(s) \notin Range(Tail(s))
<1>1. /\ Tail(s) \in Seq(S) /\ Head(s) \in S /\ Head(s) = s[1] /\ 1 \in DOMAIN s
      /\ \A i \in DOMAIN Tail(s) : i + 1 \in DOMAIN s \ {1} /\ Tail(s)[i] = s[i + 1]
      /\ \A j \in DOMAIN s \ {1} : j - 1 \in DOMAIN Tail(s) /\ Tail(s)[j - 1] = s[j]
      /\ DOMAIN Tail(s) \subseteq Nat
  OBVIOUS
<1>2. Range(Tail(s)) \subseteq Range(s) /\ Head(s) \in Range(s)
  BY SMTT(30), <1>1 DEF Range
<1>3. Range(s) \subseteq Range(Tail(s)) \cup {Head(s)}
  <2>1. ASSUME NEW j \in DOMAIN s PROVE s[j] \in Range(Tail(s)) \cup {Head(s)}
    <3>1. CASE j = 1
      BY ZenonT(30), <1>1, <3>1
    <3>2. CASE j # 1
      <4>1. j - 1 \in DOMAIN Tail(s) /\ Tail(s)[j - 1] = s[j]
        BY ZenonT(30), <1>1, <3>2
      <4> QED BY ZenonT(30), <4>1 DEF Range
    <3> QED BY ZenonT(30), <3>1, <3>2
  <2> QED BY ZenonT(30), <2>1 DEF Range
<1>4. ASSUME Distinct(s) PROVE Distinct(Tail(s)) /\ Head(s) \notin Range(Tail(s))
  <2>1. Distinct(Tail(s))
    BY SMTT(30), <1>1, <1>4 DEF Distinct
  <2>2. Head(s) \notin Range(Tail(s))
    BY SMTT(30), <1>1, <1>4 DEF Distinct, Range
  <2> QED BY ZenonT(30), <2>1, <2>2
<1> QED BY ZenonT(30), <1>1, <1>2, <1>3, <1>4

(* A concatenation has the elements of both parts.                         *)
LEMMA Concatenated ==
    ASSUME NEW S, NEW s \in Seq(S), NEW t \in Seq(S)
    PROVE  /\ s \o t \in Seq(S) /\ Range(s \o t) = Range(s) \cup Range(t)
           /\ Distinct(s) /\ Distinct(t) /\ Range(s) \cap Range(t) = {} => Distinct(s \o t)
<1>1. /\ s \o t \in Seq(S) /\ DOMAIN s = 1..Len(s) /\ DOMAIN t = 1..Len(t)
      /\ DOMAIN (s \o t) = 1..(Len(s) + Len(t)) /\ Len(s) \in Nat /\ Len(t) \in Nat
      /\ \A i \in 1..Len(s) : (s \o t)[i] = s[i]
      /\ \A j \in 1..Len(t) : (s \o t)[Len(s) + j] = t[j]
  OBVIOUS
<1>2. \A i \in DOMAIN (s \o t) : i \in 1..Len(s) \/ \E j \in 1..Len(t) : i = Len(s) + j
  <2>1. ASSUME NEW i \in DOMAIN (s \o t), i \notin 1..Len(s)
        PROVE  i - Len(s) \in 1..Len(t) /\ i = Len(s) + (i - Len(s))
    BY SMTT(30), <1>1, <2>1
  <2> QED BY ZenonT(30), <2>1
<1>3. Range(s \o t) \subseteq Range(s) \cup Range(t)
  BY SMTT(30), <1>1, <1>2 DEF Range
<1>4. Range(s) \cup Range(t) \subseteq Range(s \o t)
  <2>1. \A i \in 1..Len(s) : i \in DOMAIN (s \o t)
    BY SMTT(30), <1>1
  <2>2. \A j \in 1..Len(t) : Len(s) + j \in DOMAIN (s \o t)
    BY SMTT(30), <1>1
  <2> QED BY ZenonT(30), <1>1, <2>1, <2>2 DEF Range
<1>5. ASSUME Distinct(s), Distinct(t), Range(s) \cap Range(t) = {} PROVE Distinct(s \o t)
  <2>1. \A i \in DOMAIN s, j \in DOMAIN t : s[i] # t[j]
    BY ZenonT(30), <1>5 DEF Range
  <2> SUFFICES ASSUME NEW i \in DOMAIN (s \o t), NEW j \in DOMAIN (s \o t),
                      (s \o t)[i] = (s \o t)[j]
               PROVE  i = j
    BY ZenonT(30) DEF Distinct
  <2>2. CASE i \in 1..Len(s) /\ j \in 1..Len(s)
    BY ZenonT(30), <1>1, <1>5, <2>2 DEF Distinct
  <2>3. CASE i \in 1..Len(s) /\ j \notin 1..Len(s)
    BY SMTT(30), <1>1, <1>2, <2>1, <2>3
  <2>4. CASE i \notin 1..Len(s) /\ j \in 1..Len(s)
    BY SMTT(30), <1>1, <1>2, <2>1, <2>4
  <2>5. CASE i \notin 1..Len(s) /\ j \notin 1..Len(s)
    <3>1. PICK m \in 1..Len(t), n \in 1..Len(t) : i = Len(s) + m /\ j = Len(s) + n
      BY ZenonT(30), <1>2, <2>5
    <3>2. t[m] = t[n]
      BY ZenonT(30), <1>1, <3>1
    <3> QED BY ZenonT(30), <1>1, <1>5, <3>1, <3>2 DEF Distinct
  <2> QED BY ZenonT(30), <2>2, <2>3, <2>4, <2>5
<1> QED BY ZenonT(30), <1>1, <1>3, <1>4, <1>5

(* InSomeOrder lists a finite set, every element once.                     *)
LEMMA Listing ==
    ASSUME NEW S, IsFiniteSet(S)
    PROVE  InSomeOrder(S) \in Seq(S) /\ Range(InSomeOrder(S)) = S /\ Distinct(InSomeOrder(S))
<1> DEFINE n == Cardinality(S)
           f == InSomeOrder(S)
<1>1. n \in Nat /\ ExistsBijection(1..n, S)
  BY ZenonT(30), FS_CardinalityType
<1>2. f \in Bijection(1..n, S)
  BY ZenonT(30), <1>1 DEF ExistsBijection, InSomeOrder
<1> HIDE DEF f
<1>3. f \in [1..n -> S] /\ IsInjective(f) /\ \A x \in S : \E i \in 1..n : f[i] = x
  BY ZenonT(30), <1>2 DEF Bijection, Injection, Surjection
<1>4. f \in Seq(S) /\ DOMAIN f = 1..n
  BY SMTT(30), <1>1, <1>3
<1>5. Range(f) = S
  BY ZenonT(30), <1>3, <1>4 DEF Range
<1>6. Distinct(f)
  BY ZenonT(30), <1>3 DEF Distinct, IsInjective
<1> QED BY ZenonT(30), <1>4, <1>5, <1>6 DEF f

-----------------------------------------------------------------------------
(* What a step leaves alone.                                               *)

(* The order of the queues is a sequence of hosts.                         *)
LEMMA ManyQueues == QueueOrder \in Seq(Hosts) /\ Len(QueueOrder) \in Nat
<1>1. QueueOrder \in Seq(Hosts)
  BY ZenonT(30), QueuesAssumption
<1> QED BY SMTT(30), <1>1

(* Variables that do not change keep their types.                          *)
LEMMA KeptTypes ==
    ASSUME Types
    PROVE  /\ UNCHANGED queues => QueueTypes'
           /\ UNCHANGED gpu => GPUTypes'
           /\ UNCHANGED tick => TickTypes'
           /\ UNCHANGED threads => ThreadTypes'
           /\ UNCHANGED hosts => HostTypes'
<1>1. UNCHANGED queues => QueueTypes'
  BY ZenonT(30) DEF Types, QueueTypes, queues
<1>2. UNCHANGED gpu => GPUTypes'
  BY ZenonT(30) DEF Types, GPUTypes, gpu
<1>3. UNCHANGED tick => TickTypes'
  BY ZenonT(30) DEF Types, TickTypes, tick
<1>4. UNCHANGED threads => ThreadTypes'
  BY ZenonT(30) DEF Types, ThreadTypes, threads
<1>5. UNCHANGED hosts => HostTypes'
  BY ZenonT(30) DEF Types, HostTypes, hosts
<1> QED BY ZenonT(30), <1>1, <1>2, <1>3, <1>4, <1>5

(* The return whose command is over, and that waits for its notification.  *)
Notifying == stage = "notify" /\ turn = 0

(* What is on the way when no request moves.                               *)
LEMMA KeptRequests ==
    ASSUME requestsToSend' = requestsToSend, onGPU' = onGPU, returned' = returned,
           Notifying' <=> Notifying
    PROVE  Unprocessed' = Unprocessed /\ (OnePlace => OnePlace')
<1>1. Unprocessed' = Unprocessed
  <2>1. CASE Notifying
    BY ZenonT(30), <2>1 DEF Unprocessed, Notifying
  <2>2. CASE ~Notifying
    BY ZenonT(30), <2>2 DEF Unprocessed, Notifying
  <2> QED BY ZenonT(30), <2>1, <2>2
<1>2. OnePlace => OnePlace'
  BY SMTT(30) DEF OnePlace, Distinct, Range
<1> QED BY ZenonT(30), <1>1, <1>2

(* Ownership when neither requests nor commands move.                      *)
LEMMA KeptOwned ==
    ASSUME Owned, commands' = commands, isRunning' = isRunning, Unprocessed' = Unprocessed
    PROVE  Owned'
<1>1. \A h \in Hosts : Listed(h)' = Listed(h)
  BY ZenonT(30) DEF Listed
<1> QED BY ZenonT(30), <1>1 DEF Owned

-----------------------------------------------------------------------------
(* A host goroutine.                                                       *)

(* A host touches its own place in its program, runAsync's when they meet, *)
(* and the end of its queue.                                               *)
LEMMA HostEffect ==
    ASSUME Types, NEW h \in Hosts, Host(h)
    PROVE  /\ commands' = commands \/ \E k \in Kinds : Enqueue(h, k)
           /\ isRunning' = isRunning /\ l2Dirty' = l2Dirty
           /\ UNCHANGED <<gpu, tickPending, tick, pauseLock, engineRunning, engine>>
           /\ async' = async \/ (async = "select" /\ async' = "pause")
           /\ HostTypes'
<1>0. /\ pc \in [Hosts -> HostPCs] /\ round \in [Hosts -> Nat \ {0}]
      /\ pos \in [Hosts -> Nat \ {0}] /\ dirty \in [Hosts -> BOOLEAN]
      /\ l2Dirty \in BOOLEAN
  BY ZenonT(30) DEF Types, HostTypes, QueueTypes
<1>1. \A place \in HostPCs : Goto(h, place) => pc' \in [Hosts -> HostPCs]
  BY ZenonT(30), <1>0 DEF Goto
<1>2. CASE EnqueueOther(h)
  <2>1. Program(h)[pos[h]] \in Kinds
    <3>1. round[h] \in 1..Len(Rounds[h]) /\ Rounds[h] \in Seq(Seq({"kernel", "copy", "noop"}))
      <4>1. round[h] \in Nat \ {0} /\ round[h] <= Len(Rounds[h])
        BY ZenonT(30), <1>0, <1>2 DEF EnqueueOther, ToEnqueue
      <4>2. Rounds[h] \in Seq(Seq({"kernel", "copy", "noop"}))
        BY ZenonT(30), QueuesAssumption
      <4> QED BY SMTT(30), <4>1, <4>2
    <3>2. Program(h) \in Seq({"kernel", "copy", "noop"})
      BY SMTT(30), <3>1 DEF Program
    <3>3. pos[h] \in 1..Len(Program(h))
      BY SMTT(30), <1>0, <1>2, <3>2 DEF EnqueueOther, ToEnqueue
    <3> QED BY SMTT(30), <3>2, <3>3 DEF Kinds
  <2>2. pos' \in [Hosts -> Nat \ {0}]
    BY SMTT(30), <1>0, <1>2 DEF EnqueueOther
  <2> QED BY ZenonT(30), <1>0, <1>2, <2>1, <2>2 DEF EnqueueOther, HostTypes, gpu, tick, threads
<1>3. CASE ReadDirty(h)
  <2>1. dirty' \in [Hosts -> BOOLEAN] /\ Goto(h, "scan")
    BY ZenonT(30), <1>0, <1>3 DEF ReadDirty
  <2> QED BY ZenonT(30), <1>0, <1>1, <1>3, <2>1
          DEF ReadDirty, HostTypes, HostPCs, queues, gpu, tick, threads
<1>4. CASE ScanQueue(h)
  <2>1. DirtyAfter(dirty[h], commands[h]) \in BOOLEAN
    BY ZenonT(30), <1>0 DEF DirtyAfter
  <2>2. dirty' \in [Hosts -> BOOLEAN]
    BY ZenonT(30), <1>0, <1>4, <2>1 DEF ScanQueue
  <2>3. Goto(h, "flush") \/ Goto(h, "push")
    BY ZenonT(30), <1>4 DEF ScanQueue
  <2> QED BY SMTT(30), <1>0, <1>1, <1>4, <2>2, <2>3
          DEF ScanQueue, HostTypes, HostPCs, queues, gpu, tick, threads
<1>5. CASE EnqueueFlush(h)
  BY ZenonT(30), <1>0, <1>1, <1>5 DEF EnqueueFlush, HostTypes, HostPCs, Kinds, gpu, tick, threads
<1>6. CASE EnqueueCopy(h)
  <2>1. pos' \in [Hosts -> Nat \ {0}]
    BY SMTT(30), <1>0, <1>6 DEF EnqueueCopy
  <2> QED BY ZenonT(30), <1>0, <1>1, <1>6, <2>1 DEF EnqueueCopy, HostTypes, HostPCs, Kinds, gpu, tick, threads
<1>7. CASE Subscribe(h)
  BY ZenonT(30), <1>0, <1>1, <1>7 DEF Subscribe, HostTypes, HostPCs, queues, gpu, tick, threads
<1>8. CASE Signal(h)
  BY ZenonT(30), <1>0, <1>1, <1>8 DEF Signal, HostTypes, HostPCs, queues, gpu, tick
<1>9. CASE CheckEmpty(h)
  <2>1. round' \in [Hosts -> Nat \ {0}] /\ pos' \in [Hosts -> Nat \ {0}]
    BY SMTT(30), <1>0, <1>9 DEF CheckEmpty
  <2>2. Goto(h, "done") \/ Goto(h, "enqueue")
    BY ZenonT(30), <1>9 DEF CheckEmpty
  <2> QED BY ZenonT(30), <1>0, <1>1, <1>9, <2>1, <2>2
          DEF CheckEmpty, HostTypes, HostPCs, queues, gpu, tick, threads
<1>10. CASE CheckNotEmpty(h)
  BY ZenonT(30), <1>0, <1>1, <1>10 DEF CheckNotEmpty, HostTypes, HostPCs, queues, gpu, tick, threads
<1>11. CASE Wait(h)
  BY ZenonT(30), <1>0, <1>1, <1>11 DEF Wait, HostTypes, HostPCs, queues, gpu, tick, threads
<1> QED BY ZenonT(30), <1>2, <1>3, <1>4, <1>5, <1>6, <1>7, <1>8, <1>9, <1>10, <1>11 DEF Host

(* A command that is put at the end of a queue has no requests yet.        *)
LEMMA EnqueueOwned ==
    ASSUME QueueTypes, Owned, NEW h \in Hosts, NEW k \in Kinds, Enqueue(h, k),
           isRunning' = isRunning, l2Dirty' = l2Dirty, Unprocessed' = Unprocessed
    PROVE  QueueTypes' /\ Owned'
<1> DEFINE CT == [kind : Kinds, reqs : SUBSET GPUs]
<1>1. commands \in [Hosts -> Seq(CT)] /\ commands[h] \in Seq(CT)
  BY ZenonT(30) DEF QueueTypes
<1>2. Command(k) \in CT /\ Command(k).reqs = {} /\ commands' = [commands EXCEPT ![h] = Append(@, Command(k))]
  BY ZenonT(30) DEF Command, Enqueue
<1> HIDE DEF CT
<1>3. commands'[h] = Append(commands[h], Command(k)) /\ \A g \in Hosts \ {h} : commands'[g] = commands[g]
  BY ZenonT(30), <1>1, <1>2
<1>4. commands'[h] \in Seq(CT) /\ commands'[h] # <<>>
  BY SMTT(30), <1>1, <1>2, <1>3, Appended
<1>5. commands' \in [Hosts -> Seq(CT)]
  BY ZenonT(30), <1>1, <1>2, <1>3, <1>4
<1>6. Listed(h)' = Listed(h)
  <2>1. CASE commands[h] = <<>>
    <3>1. commands'[h][1].reqs = {}
      BY SMTT(30), <1>1, <1>2, <1>3, <2>1, Appended
    <3> QED BY ZenonT(30), <1>4, <2>1, <3>1 DEF Listed
  <2>2. CASE commands[h] # <<>>
    <3>1. commands'[h][1] = commands[h][1]
      BY SMTT(30), <1>1, <1>2, <1>3, <2>2, Appended
    <3> QED BY ZenonT(30), <1>4, <2>2, <3>1 DEF Listed
  <2> QED BY ZenonT(30), <2>1, <2>2
<1>7. \A g \in Hosts : Listed(g)' = Listed(g)
  <2>1. \A g \in Hosts \ {h} : Listed(g)' = Listed(g)
    BY ZenonT(30), <1>3 DEF Listed
  <2> QED BY ZenonT(30), <1>6, <2>1
<1>8. ASSUME NEW g \in Hosts, NEW i \in DOMAIN commands'[g], i # 1 PROVE commands'[g][i].reqs = {}
  <2>1. CASE g = h
    <3>1. i \in DOMAIN commands[h] \/ i = Len(commands[h]) + 1
      BY SMTT(30), <1>1, <1>3, <2>1
    <3>2. i \in DOMAIN commands[h] => commands'[h][i] = commands[h][i]
      BY SMTT(30), <1>1, <1>3
    <3>3. commands'[h][Len(commands[h]) + 1] = Command(k)
      BY SMTT(30), <1>1, <1>3
    <3> QED BY ZenonT(30), <1>2, <1>8, <2>1, <3>1, <3>2, <3>3 DEF Owned
  <2>2. CASE g # h
    BY SMTT(30), <1>3, <1>8, <2>2 DEF Owned
  <2> QED BY ZenonT(30), <2>1, <2>2
<1>9. Owned'
  BY ZenonT(30), <1>7, <1>8 DEF Owned
<1>10. QueueTypes'
  BY ZenonT(30), <1>5 DEF QueueTypes, CT
<1> QED BY ZenonT(30), <1>9, <1>10

(* A step of a host goroutine keeps the invariant.                         *)
LEMMA HostStep ==
    ASSUME DriverInv, NEW h \in Hosts, Host(h)
    PROVE  DriverInv'
<1>0. Types /\ Lock /\ Place /\ OnePlace /\ Owned
  BY ZenonT(30) DEF DriverInv
<1>1. /\ commands' = commands \/ \E k \in Kinds : Enqueue(h, k)
      /\ isRunning' = isRunning /\ l2Dirty' = l2Dirty
      /\ UNCHANGED <<gpu, tickPending, tick, pauseLock, engineRunning, engine>>
      /\ async' = async \/ (async = "select" /\ async' = "pause")
      /\ HostTypes'
  BY ZenonT(30), <1>0, HostEffect
<1>2. /\ requestsToSend' = requestsToSend /\ onGPU' = onGPU /\ returned' = returned
      /\ stage' = stage /\ turn' = turn /\ pauseLock' = pauseLock /\ tickPending' = tickPending
      /\ UNCHANGED gpu /\ UNCHANGED tick
  BY ZenonT(30), <1>1 DEF gpu, tick
<1>3. Unprocessed' = Unprocessed /\ OnePlace'
  BY ZenonT(30), <1>0, <1>2, KeptRequests DEF Notifying
<1>4. QueueTypes' /\ Owned'
  <2>1. CASE commands' = commands
    BY ZenonT(30), <1>0, <1>1, <1>3, <2>1, KeptOwned, KeptTypes DEF queues
  <2>2. CASE \E k \in Kinds : Enqueue(h, k)
    BY ZenonT(30), <1>0, <1>1, <1>3, <2>2, EnqueueOwned DEF Types
  <2> QED BY ZenonT(30), <1>1, <2>1, <2>2
<1>5. ThreadTypes'
  BY ZenonT(30), <1>0, <1>1 DEF Types, ThreadTypes, AsyncPCs
<1>6. GPUTypes' /\ TickTypes' /\ tickPending' \in BOOLEAN
  BY ZenonT(30), <1>0, <1>2, KeptTypes DEF Types
<1>7. Lock' /\ Place'
  BY ZenonT(30), <1>0, <1>1, <1>2 DEF Lock, Place
<1> QED BY SMTT(30), <1>1, <1>3, <1>4, <1>5, <1>6, <1>7 DEF DriverInv, Types

-----------------------------------------------------------------------------
(* runAsync and the engine.                                                *)

(* The steps of the threads that leave the requests where they are.        *)
LEMMA ThreadStep ==
    ASSUME DriverInv, UNCHANGED <<queues, gpu, hosts>>, ThreadTypes', TickTypes', Lock', Place',
           (~Notifying /\ ~Notifying') \/ UNCHANGED tick, tickPending' \in BOOLEAN
    PROVE  DriverInv'
<1>0. Types /\ OnePlace /\ Owned
  BY ZenonT(30) DEF DriverInv
<1>1. /\ UNCHANGED queues /\ UNCHANGED gpu /\ UNCHANGED hosts
      /\ requestsToSend' = requestsToSend /\ onGPU' = onGPU /\ returned' = returned
      /\ commands' = commands /\ isRunning' = isRunning
  BY ZenonT(30) DEF queues, gpu, hosts
<1>2. Notifying' <=> Notifying
  BY ZenonT(30) DEF Notifying, tick
<1>3. Unprocessed' = Unprocessed /\ OnePlace'
  BY ZenonT(30), <1>0, <1>1, <1>2, KeptRequests
<1>4. Owned'
  BY ZenonT(30), <1>0, <1>1, <1>3, KeptOwned
<1>5. QueueTypes' /\ GPUTypes' /\ HostTypes'
  BY ZenonT(30), <1>0, <1>1, KeptTypes
<1> QED BY ZenonT(30), <1>3, <1>4, <1>5 DEF DriverInv, Types

(* A step of runAsync keeps the invariant.                                 *)
LEMMA AsyncStep ==
    ASSUME DriverInv, Async
    PROVE  DriverInv'
<1>0. Types /\ Lock /\ Place /\ ThreadTypes /\ TickTypes /\ tickPending \in BOOLEAN
  BY ZenonT(30) DEF DriverInv, Types
<1>1. UNCHANGED <<queues, gpu, hosts>> /\ UNCHANGED tick
  BY ZenonT(30) DEF Async, AsyncPause, AsyncTickLater, AsyncContinue, AsyncStart, Terminate
<1>2. stage' = stage /\ turn' = turn /\ returned' = returned
  BY ZenonT(30), <1>1 DEF tick, gpu
<1>3. TickTypes' /\ Place'
  BY ZenonT(30), <1>0, <1>1, <1>2, KeptTypes DEF Place
<1>4. CASE AsyncPause
  <2>1. ThreadTypes' /\ Lock' /\ tickPending' = tickPending
    BY ZenonT(30), <1>0, <1>2, <1>4 DEF AsyncPause, ThreadTypes, Lock, AsyncPCs
  <2> QED BY ZenonT(30), <1>0, <1>1, <1>3, <2>1, ThreadStep
<1>5. CASE AsyncTickLater
  <2>1. ThreadTypes' /\ Lock' /\ tickPending' = TRUE
    BY SMTT(30), <1>0, <1>2, <1>5 DEF AsyncTickLater, ThreadTypes, Lock, AsyncPCs
  <2> QED BY ZenonT(30), <1>0, <1>1, <1>3, <2>1, ThreadStep
<1>6. CASE AsyncContinue
  <2>1. ThreadTypes' /\ Lock' /\ tickPending' = tickPending
    BY ZenonT(30), <1>0, <1>2, <1>6 DEF AsyncContinue, ThreadTypes, Lock, AsyncPCs
  <2> QED BY ZenonT(30), <1>0, <1>1, <1>3, <2>1, ThreadStep
<1>7. CASE AsyncStart
  <2>1. engineRunning' \in BOOLEAN
    BY ZenonT(30), <1>0, <1>7 DEF AsyncStart, ThreadTypes
  <2>2. engine' \in [Engines -> EnginePCs]
    <3>1. engine \in [Engines -> EnginePCs]
      BY ZenonT(30), <1>0 DEF ThreadTypes
    <3>2. engine' = engine \/ \E e \in Engines : engine' = [engine EXCEPT ![e] = "start"]
      BY ZenonT(30), <1>7 DEF AsyncStart
    <3> QED BY ZenonT(30), <3>1, <3>2 DEF EnginePCs
  <2>3. pauseLock' = pauseLock /\ async = "start" /\ async' = "select" /\ tickPending' = tickPending
    BY ZenonT(30), <1>7 DEF AsyncStart
  <2>4. ThreadTypes' /\ Lock'
    BY SMTT(30), <1>0, <1>2, <2>1, <2>2, <2>3 DEF ThreadTypes, Lock, AsyncPCs
  <2> QED BY ZenonT(30), <1>0, <1>1, <1>3, <2>3, <2>4, ThreadStep
<1>8. CASE Terminate
  <2>1. ThreadTypes' /\ Lock' /\ tickPending' = tickPending
    BY ZenonT(30), <1>0, <1>2, <1>8 DEF Terminate, ThreadTypes, Lock, AsyncPCs
  <2> QED BY ZenonT(30), <1>0, <1>1, <1>3, <2>1, ThreadStep
<1> QED BY ZenonT(30), <1>4, <1>5, <1>6, <1>7, <1>8 DEF Async

(* A request is answered: it goes from a GPU to the driver's port.         *)
LEMMA AnswerStep ==
    ASSUME DriverInv, NEW e \in Engines, GPUReturns(e)
    PROVE  DriverInv'
<1>0. Types /\ Lock /\ Place /\ OnePlace /\ Owned
  BY ZenonT(30) DEF DriverInv
<1>1. /\ pauseLock = "free" /\ EngineAt(e, "next", "check") /\ tickPending' = TRUE
      /\ UNCHANGED queues /\ UNCHANGED tick /\ UNCHANGED hosts
      /\ requestsToSend' = requestsToSend /\ portBusy' = portBusy
      /\ pauseLock' = pauseLock /\ engineRunning' = engineRunning /\ async' = async
  BY ZenonT(30) DEF GPUReturns
<1>2. PICK r \in onGPU :
        /\ onGPU' = onGPU \ {r} /\ returned' = Append(returned, r)
        /\ unflushed' \subseteq unflushed \cup {r}
  <2>1. PICK r \in onGPU :
          /\ onGPU' = onGPU \ {r} /\ returned' = Append(returned, r)
          /\ unflushed' = CASE r.kind = "kernel" -> unflushed \cup {r}
                            [] r.kind = "flush" -> {u \in unflushed : u.gpu # r.gpu}
                            [] OTHER -> unflushed
    BY ZenonT(30) DEF GPUReturns
  <2>2. unflushed' \subseteq unflushed \cup {r}
    BY ZenonT(30), <2>1
  <2> QED BY ZenonT(30), <2>1, <2>2
<1>3. stage = "idle" /\ stage' = stage /\ turn' = turn /\ commands' = commands /\ isRunning' = isRunning
  BY ZenonT(30), <1>0, <1>1 DEF Lock, tick, queues
<1>4. /\ r \in Requests /\ returned \in Seq(Requests) /\ r \notin Range(returned)
      /\ onGPU \subseteq Requests /\ unflushed \subseteq Requests
  BY ZenonT(30), <1>0, <1>2 DEF Types, GPUTypes, OnePlace
<1>5. /\ returned' \in Seq(Requests) /\ Range(returned') = Range(returned) \cup {r}
      /\ Distinct(returned')
  BY SMTT(30), <1>0, <1>2, <1>4, Appended DEF OnePlace
<1>6. OnePlace'
  BY ZenonT(30), <1>0, <1>1, <1>2, <1>5 DEF OnePlace
<1>7. Unprocessed' = Unprocessed
  BY ZenonT(30), <1>1, <1>2, <1>3, <1>5 DEF Unprocessed
<1>8. Owned'
  BY ZenonT(30), <1>0, <1>3, <1>7, KeptOwned
<1>9. GPUTypes'
  BY ZenonT(30), <1>0, <1>1, <1>2, <1>4, <1>5 DEF Types, GPUTypes
<1>10. ThreadTypes'
  BY ZenonT(30), <1>0, <1>1 DEF Types, ThreadTypes, EngineAt, EnginePCs
<1>11. Lock' /\ Place'
  BY ZenonT(30), <1>0, <1>1, <1>3 DEF Lock, Place
<1>12. QueueTypes' /\ TickTypes' /\ HostTypes'
  BY SMTT(30), <1>0, <1>1, KeptTypes
<1> QED BY SMTT(30), <1>1, <1>6, <1>8, <1>9, <1>10, <1>11, <1>12 DEF DriverInv, Types

(* A step of a runEngine goroutine keeps the invariant.                    *)
LEMMA EngineStep ==
    ASSUME DriverInv, NEW e \in Engines, Engine(e)
    PROVE  DriverInv'
<1>0. Types /\ Lock /\ Place /\ ThreadTypes /\ TickTypes /\ tickPending \in BOOLEAN
      /\ engine \in [Engines -> EnginePCs] /\ engineRunning \in BOOLEAN
  BY ZenonT(30) DEF DriverInv, Types, ThreadTypes
<1>1. ASSUME NEW from, NEW to \in EnginePCs, EngineAt(e, from, to)
      PROVE  engine' \in [Engines -> EnginePCs]
  BY ZenonT(30), <1>0, <1>1 DEF EngineAt
<1>2. CASE EngineLock(e) \/ EngineCheck(e) \/ EngineClear(e) \/ EngineUnlock(e)
  <2>1. \E from, to \in EnginePCs : EngineAt(e, from, to)
    BY ZenonT(30), <1>2 DEF EngineLock, EngineCheck, EngineClear, EngineUnlock, EnginePCs
  <2>2. /\ UNCHANGED <<queues, gpu, hosts>> /\ UNCHANGED tick /\ tickPending' = tickPending
        /\ pauseLock' = pauseLock /\ async' = async /\ engineRunning' \in BOOLEAN
    BY ZenonT(30), <1>0, <1>2 DEF EngineLock, EngineCheck, EngineClear, EngineUnlock
  <2>3. ThreadTypes'
    BY ZenonT(30), <1>0, <1>1, <2>1, <2>2 DEF ThreadTypes
  <2>4. Lock' /\ Place' /\ TickTypes'
    <3>1. stage' = stage /\ turn' = turn /\ returned' = returned
      BY ZenonT(30), <2>2 DEF tick, gpu
    <3> QED BY SMTT(30), <1>0, <2>2, <3>1, KeptTypes DEF Lock, Place
  <2> QED BY ZenonT(30), <1>0, <2>2, <2>3, <2>4, ThreadStep
<1>3. CASE PortFree(e)
  <2>1. /\ UNCHANGED queues /\ UNCHANGED tick /\ UNCHANGED hosts /\ portBusy' = FALSE
        /\ tickPending' = TRUE /\ EngineAt(e, "next", "check")
        /\ requestsToSend' = requestsToSend /\ onGPU' = onGPU /\ returned' = returned
        /\ unflushed' = unflushed /\ pauseLock' = pauseLock /\ async' = async
        /\ engineRunning' = engineRunning
    BY ZenonT(30), <1>3 DEF PortFree
  <2>2. stage' = stage /\ turn' = turn /\ commands' = commands /\ isRunning' = isRunning
    BY ZenonT(30), <2>1 DEF tick, queues
  <2>3. Unprocessed' = Unprocessed /\ OnePlace'
    BY ZenonT(30), <2>1, <2>2, KeptRequests DEF Notifying, DriverInv
  <2>4. Owned'
    BY ZenonT(30), <2>2, <2>3, KeptOwned DEF DriverInv
  <2>5. GPUTypes'
    BY ZenonT(30), <1>0, <2>1 DEF Types, GPUTypes
  <2>6. ThreadTypes'
    <3>1. engine' \in [Engines -> EnginePCs]
      BY ZenonT(30), <1>1, <2>1 DEF EnginePCs
    <3> QED BY ZenonT(30), <1>0, <2>1, <3>1 DEF ThreadTypes
  <2>7. Lock' /\ Place'
    BY ZenonT(30), <1>0, <2>1, <2>2 DEF Lock, Place
  <2>8. QueueTypes' /\ TickTypes' /\ HostTypes'
    BY ZenonT(30), <1>0, <2>1, KeptTypes
  <2> QED BY SMTT(30), <2>1, <2>3, <2>4, <2>5, <2>6, <2>7, <2>8 DEF DriverInv, Types
<1>4. CASE TickBegins(e)
  <2>1. /\ UNCHANGED <<queues, gpu, hosts>> /\ pauseLock = "free" /\ pauseLock' = "engine"
        /\ stage' = "send" /\ turn' = 0 /\ progress' = FALSE /\ tickPending' = FALSE
        /\ engineRunning' = engineRunning /\ async' = async /\ EngineAt(e, "next", "tick")
    BY ZenonT(30), <1>4 DEF TickBegins
  <2>2. engine' \in [Engines -> EnginePCs]
    BY ZenonT(30), <1>1, <2>1 DEF EnginePCs
  <2>3. ThreadTypes'
    BY ZenonT(30), <1>0, <2>1, <2>2 DEF ThreadTypes
  <2>4. TickTypes'
    <3>1. stage' \in Stages /\ turn' \in 0..(Len(QueueOrder) + 1)
      BY SMTT(30), <2>1, ManyQueues DEF Stages
    <3>2. progress' \in BOOLEAN
      BY ZenonT(30), <2>1
    <3> QED BY ZenonT(30), <3>1, <3>2 DEF TickTypes
  <2>5. Lock' /\ Place' /\ ~Notifying /\ ~Notifying'
    BY ZenonT(30), <1>0, <2>1 DEF Lock, Place, Notifying
  <2> QED BY ZenonT(30), <2>1, <2>3, <2>4, <2>5, ThreadStep
<1>5. CASE TickEnds(e)
  <2>1. /\ UNCHANGED <<queues, gpu, hosts>> /\ stage = "end" /\ stage' = "idle"
        /\ pauseLock' = "free" /\ turn' = 0 /\ progress' = FALSE
        /\ engineRunning' = engineRunning /\ async' = async /\ EngineAt(e, "tick", "check")
    BY ZenonT(30), <1>5 DEF TickEnds, Step
  <2>2. tickPending' \in BOOLEAN
    BY ZenonT(30), <1>0, <1>5 DEF TickEnds, TickAgain, TickTypes
  <2>3. engine' \in [Engines -> EnginePCs]
    BY ZenonT(30), <1>1, <2>1 DEF EnginePCs
  <2>4. ThreadTypes'
    BY ZenonT(30), <1>0, <2>1, <2>3 DEF ThreadTypes
  <2>5. TickTypes'
    <3>1. stage' \in Stages /\ turn' \in 0..(Len(QueueOrder) + 1)
      BY SMTT(30), <2>1, ManyQueues DEF Stages
    <3>2. progress' \in BOOLEAN
      BY ZenonT(30), <2>1
    <3> QED BY ZenonT(30), <3>1, <3>2 DEF TickTypes
  <2>6. Lock' /\ Place' /\ ~Notifying /\ ~Notifying'
    BY ZenonT(30), <1>0, <2>1 DEF Lock, Place, Notifying
  <2> QED BY ZenonT(30), <2>1, <2>2, <2>4, <2>5, <2>6, ThreadStep
<1> QED BY ZenonT(30), <1>2, <1>3, <1>4, <1>5, AnswerStep DEF Engine

-----------------------------------------------------------------------------
(* The driver's Tick.                                                      *)

(* What no step of the Tick touches.                                       *)
LEMMA TickKept ==
    ASSUME DriverInv, stage # "idle", stage' # "idle", UNCHANGED threads, tickPending' = tickPending
    PROVE  ThreadTypes' /\ Lock' /\ tickPending' \in BOOLEAN
<1>1. pauseLock' = pauseLock /\ async' = async
  BY ZenonT(30) DEF threads
<1>2. Lock'
  BY ZenonT(30), <1>1 DEF DriverInv, Lock
<1>3. ThreadTypes'
  BY ZenonT(30), KeptTypes DEF DriverInv
<1> QED BY ZenonT(30), <1>2, <1>3 DEF DriverInv, Types

(* A notification moves a waiting host to its check.                       *)
LEMMA WokenType ==
    ASSUME HostTypes, NEW h, pc' = Woken(h), UNCHANGED <<round, pos, dirty>>
    PROVE  HostTypes'
<1>1. pc \in [Hosts -> HostPCs]
  BY ZenonT(30) DEF HostTypes
<1>2. pc' = pc \/ pc' = [pc EXCEPT ![h] = "check"]
  BY ZenonT(30) DEF Woken
<1>3. pc' \in [Hosts -> HostPCs]
  BY ZenonT(30), <1>1, <1>2 DEF HostPCs
<1> QED BY ZenonT(30), <1>3 DEF HostTypes

(* The steps that move no request and no command.                          *)
LEMMA QuietStep ==
    ASSUME DriverInv, \/ SendNothing \/ SendRejected \/ NothingReturned \/ Clean
                      \/ PassOver \/ AllQueuesSeen \/ NotifyNoop
    PROVE  DriverInv'
<1>0. Types /\ Place /\ OnePlace /\ Owned /\ turn \in 0..(Len(QueueOrder) + 1)
      /\ progress \in BOOLEAN /\ portBusy \in BOOLEAN /\ l2Dirty \in BOOLEAN
  BY ZenonT(30) DEF DriverInv, Types, TickTypes, GPUTypes, QueueTypes
<1>1. /\ requestsToSend' = requestsToSend /\ onGPU' = onGPU /\ returned' = returned
      /\ commands' = commands /\ isRunning' = isRunning /\ unflushed' = unflushed
      /\ UNCHANGED threads /\ tickPending' = tickPending
  BY ZenonT(30) DEF SendNothing, SendRejected, NothingReturned, Clean, PassOver, AllQueuesSeen,
         NotifyNoop, gpu, queues
<1>2. (portBusy' = portBusy \/ portBusy' = TRUE) /\ (l2Dirty' = l2Dirty \/ l2Dirty' = FALSE)
  BY ZenonT(30) DEF SendNothing, SendRejected, NothingReturned, Clean, PassOver, AllQueuesSeen,
         NotifyNoop, gpu, queues
<1>3. progress' = progress \/ progress' = TRUE
  BY ZenonT(30) DEF SendNothing, SendRejected, NothingReturned, Clean, PassOver, AllQueuesSeen, NotifyNoop
<1>4. UNCHANGED hosts \/ (pc' = Woken(Queue) /\ UNCHANGED <<round, pos, dirty>>)
  BY ZenonT(30) DEF SendNothing, SendRejected, NothingReturned, Clean, PassOver, AllQueuesSeen, NotifyNoop
<1>5. /\ stage \in {"send", "return", "clean", "new", "notify"}
      /\ stage' \in {"return", "new", "end"} /\ turn' \in 0..(Len(QueueOrder) + 1)
      /\ stage' = "return" => turn' = 0
      /\ stage' = "new" => turn' # 0
      /\ ~Notifying /\ ~Notifying'
  <2>1. CASE SendNothing \/ SendRejected
    BY ZenonT(30), <1>0, <2>1 DEF SendNothing, SendRejected, Step, Place, Notifying
  <2>2. CASE NothingReturned
    BY SMTT(30), <1>0, <2>2, ManyQueues DEF NothingReturned, Step, Place, Notifying
  <2>3. CASE Clean
    BY ZenonT(30), <1>0, <2>3 DEF Clean, Step, Place, Notifying
  <2>4. CASE PassOver
    BY SMTT(30), <1>0, <2>4, ManyQueues DEF PassOver, InTurn, Place, Notifying
  <2>5. CASE AllQueuesSeen
    BY ZenonT(30), <1>0, <2>5 DEF AllQueuesSeen, Step, Notifying
  <2>6. CASE NotifyNoop
    BY SMTT(30), <1>0, <2>6, ManyQueues DEF NotifyNoop, Step, Place, Notifying
  <2> QED BY ZenonT(30), <2>1, <2>2, <2>3, <2>4, <2>5, <2>6
<1>6. ThreadTypes' /\ Lock' /\ tickPending' \in BOOLEAN
  BY ZenonT(30), <1>1, <1>5, TickKept
<1>7. Place'
  BY ZenonT(30), <1>5 DEF Place
<1>8. Unprocessed' = Unprocessed /\ OnePlace'
  BY ZenonT(30), <1>0, <1>1, <1>5, KeptRequests
<1>9. Owned'
  BY ZenonT(30), <1>0, <1>1, <1>8, KeptOwned
<1>10. HostTypes'
  BY ZenonT(30), <1>0, <1>4, KeptTypes, WokenType DEF Types
<1>11. portBusy' \in BOOLEAN /\ l2Dirty' \in BOOLEAN /\ progress' \in BOOLEAN
  BY ZenonT(30), <1>0, <1>2, <1>3
<1>12. QueueTypes' /\ GPUTypes'
  BY ZenonT(30), <1>0, <1>1, <1>11 DEF Types, QueueTypes, GPUTypes
<1>13. TickTypes'
  BY ZenonT(30), <1>5, <1>11 DEF TickTypes, Stages
<1> QED BY ZenonT(30), <1>6, <1>7, <1>8, <1>9, <1>10, <1>12, <1>13 DEF DriverInv, Types

(* A request goes from the driver to its GPU.                              *)
LEMMA AcceptStep ==
    ASSUME DriverInv, SendAccepted
    PROVE  DriverInv'
<1>0. Types /\ Place /\ OnePlace /\ Owned
  BY ZenonT(30) DEF DriverInv
<1>1. /\ requestsToSend # <<>> /\ stage = "send" /\ stage' = "return" /\ turn' = turn
      /\ onGPU' = onGPU \cup {Head(requestsToSend)} /\ requestsToSend' = Tail(requestsToSend)
      /\ progress' = TRUE /\ UNCHANGED queues /\ UNCHANGED hosts /\ UNCHANGED threads
      /\ returned' = returned /\ portBusy' = portBusy /\ unflushed' = unflushed
      /\ tickPending' = tickPending
  BY ZenonT(30) DEF SendAccepted, Step
<1>2. requestsToSend \in Seq(Requests) /\ onGPU \subseteq Requests
  BY ZenonT(30), <1>0 DEF Types, GPUTypes
<1>3. /\ requestsToSend' \in Seq(Requests) /\ Head(requestsToSend) \in Requests
      /\ Range(requestsToSend) = Range(requestsToSend') \cup {Head(requestsToSend)}
      /\ Distinct(requestsToSend') /\ Head(requestsToSend) \notin Range(requestsToSend')
  BY ZenonT(30), <1>0, <1>1, <1>2, Tailed DEF OnePlace
<1>4. OnePlace'
  BY ZenonT(30), <1>0, <1>1, <1>3 DEF OnePlace
<1>5. Unprocessed' = Unprocessed
  BY ZenonT(30), <1>1, <1>3 DEF Unprocessed
<1>6. Owned'
  BY ZenonT(30), <1>0, <1>1, <1>5, KeptOwned DEF queues
<1>7. GPUTypes'
  BY ZenonT(30), <1>0, <1>1, <1>2, <1>3 DEF Types, GPUTypes
<1>8. TickTypes' /\ Place'
  BY ZenonT(30), <1>0, <1>1 DEF Types, TickTypes, Place, Stages
<1>9. QueueTypes' /\ HostTypes'
  BY ZenonT(30), <1>0, <1>1, KeptTypes
<1>10. ThreadTypes' /\ Lock' /\ tickPending' \in BOOLEAN
  BY ZenonT(30), <1>1, TickKept
<1> QED BY ZenonT(30), <1>4, <1>6, <1>7, <1>8, <1>9, <1>10 DEF DriverInv, Types

(* The notification after a return ends the processing of that return.     *)
LEMMA NotifyStep ==
    ASSUME DriverInv, NotifyReturn
    PROVE  DriverInv'
<1>0. Types /\ Place /\ OnePlace /\ Owned
  BY ZenonT(30) DEF DriverInv
<1>1. /\ turn = 0 /\ stage = "notify" /\ stage' \in {"clean", "new"} /\ turn' = 1
      /\ returned' = Tail(returned) /\ progress' = TRUE /\ UNCHANGED queues
      /\ requestsToSend' = requestsToSend /\ onGPU' = onGPU /\ portBusy' = portBusy
      /\ unflushed' = unflushed /\ tickPending' = tickPending /\ UNCHANGED threads
      /\ pc' = Woken(Head(returned).host) /\ UNCHANGED <<round, pos, dirty>>
  BY ZenonT(30) DEF NotifyReturn, Step
<1>2. returned # <<>> /\ returned \in Seq(Requests)
  BY ZenonT(30), <1>0, <1>1 DEF Place, Types, GPUTypes
<1>3. returned' \in Seq(Requests) /\ Range(returned') \subseteq Range(returned) /\ Distinct(returned')
  BY ZenonT(30), <1>0, <1>1, <1>2, Tailed DEF OnePlace
<1>4. OnePlace'
  BY ZenonT(30), <1>0, <1>1, <1>3 DEF OnePlace
<1>5. Unprocessed' = Unprocessed
  BY ZenonT(30), <1>1 DEF Unprocessed
<1>6. Owned'
  BY ZenonT(30), <1>0, <1>1, <1>5, KeptOwned DEF queues
<1>7. GPUTypes'
  BY ZenonT(30), <1>0, <1>1, <1>3 DEF Types, GPUTypes
<1>8. TickTypes'
  <2>1. stage' \in Stages /\ turn' \in 0..(Len(QueueOrder) + 1)
    BY SMTT(30), <1>1, ManyQueues DEF Stages
  <2> QED BY ZenonT(30), <1>1, <2>1 DEF TickTypes
<1>9. Place'
  BY SMTT(30), <1>1 DEF Place
<1>10. QueueTypes' /\ HostTypes'
  BY ZenonT(30), <1>0, <1>1, KeptTypes, WokenType DEF Types
<1>11. ThreadTypes' /\ Lock' /\ tickPending' \in BOOLEAN
  BY ZenonT(30), <1>1, TickKept
<1> QED BY SMTT(30), <1>4, <1>6, <1>7, <1>8, <1>9, <1>10, <1>11 DEF DriverInv, Types

(* The first command of a queue is replaced, or is over.                   *)
LEMMA Replaced ==
    ASSUME NEW S, NEW s \in Seq(S), s # <<>>, NEW x \in S, NEW t, t = <<x>> \o Tail(s)
    PROVE  /\ t \in Seq(S) /\ t # <<>> /\ t[1] = x /\ DOMAIN t = DOMAIN s
           /\ \A i \in DOMAIN s : i # 1 => t[i] = s[i]
OBVIOUS

CT == [kind : Kinds, reqs : SUBSET GPUs]

(* Dequeue: the next command of the queue has no requests yet.             *)
LEMMA Over ==
    ASSUME Types, Owned, NEW h \in Hosts, commands[h] # <<>>,
           commands' = [commands EXCEPT ![h] = Tail(@)]
    PROVE  /\ commands' \in [Hosts -> Seq(CT)] /\ Listed(h)' = {}
           /\ \A g \in Hosts \ {h} : Listed(g)' = Listed(g)
           /\ \A g \in Hosts : \A i \in DOMAIN commands'[g] : i # 1 => commands'[g][i].reqs = {}
<1>1. commands \in [Hosts -> Seq(CT)] /\ commands[h] \in Seq(CT)
  BY ZenonT(30) DEF Types, QueueTypes, CT
<1>2. commands'[h] = Tail(commands[h]) /\ \A g \in Hosts \ {h} : commands'[g] = commands[g]
  BY ZenonT(30), <1>1
<1>3. Tail(commands[h]) \in Seq(CT)
  BY SMTT(30), <1>1
<1>4. commands' \in [Hosts -> Seq(CT)]
  BY ZenonT(30), <1>1, <1>3
<1>5. \A i \in DOMAIN commands'[h] : commands'[h][i].reqs = {}
  <2>1. \A i \in DOMAIN Tail(commands[h]) :
           i + 1 \in DOMAIN commands[h] /\ i + 1 # 1 /\ Tail(commands[h])[i] = commands[h][i + 1]
    BY SMTT(30), <1>1
  <2>2. \A j \in DOMAIN commands[h] : j # 1 => commands[h][j].reqs = {}
    BY ZenonT(30) DEF Owned
  <2>3. ASSUME NEW i \in DOMAIN Tail(commands[h]) PROVE Tail(commands[h])[i].reqs = {}
    BY ZenonT(30), <2>1, <2>2
  <2> QED BY ZenonT(30), <1>2, <2>3
<1>6. commands'[h] # <<>> => 1 \in DOMAIN commands'[h]
  BY SMTT(30), <1>2, <1>3
<1>7. Listed(h)' = {}
  BY ZenonT(30), <1>5, <1>6 DEF Listed
<1>8. \A g \in Hosts \ {h} : Listed(g)' = Listed(g)
  BY ZenonT(30), <1>2 DEF Listed
<1> QED BY ZenonT(30), <1>2, <1>4, <1>5, <1>7, <1>8 DEF Owned

(* The return at the head of the port belongs to the first command of its  *)
(* queue, and is nowhere else.                                             *)
LEMMA ReturnFacts ==
    ASSUME DriverInv, NEW h \in Hosts, stage = "return", returned # <<>>,
           NEW r, r = Head(returned), Found(h, r)
    PROVE  /\ r \in Requests /\ r.host = h /\ commands[h] # <<>>
           /\ commands[h] \in Seq(CT) /\ commands[h][1] \in CT
           /\ r = Request(h, commands[h][1].kind, r.gpu) /\ r.gpu \in commands[h][1].reqs
           /\ Tail(returned) \in Seq(Requests) /\ Distinct(Tail(returned))
           /\ Unprocessed = Range(requestsToSend) \cup onGPU \cup Range(returned)
           /\ Unprocessed \ {r} = Range(requestsToSend) \cup onGPU \cup Range(Tail(returned))
<1>0. Types /\ OnePlace /\ returned \in Seq(Requests) /\ commands[h] \in Seq(CT)
  BY ZenonT(30) DEF DriverInv, Types, GPUTypes, QueueTypes, CT
<1>1. /\ Tail(returned) \in Seq(Requests) /\ r \in Requests /\ r \in Range(returned)
      /\ Range(returned) = Range(Tail(returned)) \cup {r}
      /\ Distinct(Tail(returned)) /\ r \notin Range(Tail(returned))
  BY ZenonT(30), <1>0, Tailed DEF OnePlace
<1>2. /\ r.host = h /\ commands[h] # <<>> /\ Head(commands[h]).kind = r.kind
      /\ r.gpu \in Head(commands[h]).reqs
  BY ZenonT(30) DEF Found
<1>3. Head(commands[h]) = commands[h][1] /\ commands[h][1] \in CT
  BY SMTT(30), <1>0, <1>2
<1>4. r = Request(r.host, r.kind, r.gpu)
  BY ZenonT(30), <1>1 DEF Requests, Request
<1>5. Unprocessed = Range(requestsToSend) \cup onGPU \cup Range(returned)
  BY ZenonT(30) DEF Unprocessed
<1>6. r \notin Range(requestsToSend) /\ r \notin onGPU
  BY ZenonT(30), <1>0, <1>1 DEF OnePlace
<1> QED BY ZenonT(30), <1>0, <1>1, <1>2, <1>3, <1>4, <1>5, <1>6

(* The requests of one host when one request is taken away.                *)
LEMMA OneLess ==
    ASSUME NEW U, NEW V, NEW r, NEW g, V = U \ {r}
    PROVE  /\ r.host # g => {x \in V : x.host = g} = {x \in U : x.host = g}
           /\ {x \in V : x.host = g} = {x \in U : x.host = g} \ {r}
<1>1. \A x : x \in V <=> x \in U /\ x # r
  OBVIOUS
<1> QED BY SMTT(30), <1>1

(* One request of several is back: the command lists one less.             *)
LEMMA OneReturnedStep ==
    ASSUME DriverInv, NEW h \in Hosts, OneReturned(h)
    PROVE  DriverInv'
<1>r. PICK r : r = Head(returned)
  OBVIOUS
<1>c. PICK c : c = commands[h][1]
  OBVIOUS
<1>d. PICK d : d = RemoveReq(c, r.gpu)
  OBVIOUS
<1>0. Types /\ Place /\ OnePlace /\ Owned
  BY ZenonT(30) DEF DriverInv
<1>1. /\ returned # <<>> /\ Found(h, r) /\ stage = "return" /\ stage' = "new"
      /\ returned' = Tail(returned) /\ turn' = 1 /\ progress' = TRUE
      /\ isRunning' = isRunning /\ l2Dirty' = l2Dirty /\ requestsToSend' = requestsToSend
      /\ onGPU' = onGPU /\ portBusy' = portBusy /\ unflushed' = unflushed
      /\ tickPending' = tickPending /\ UNCHANGED hosts /\ UNCHANGED threads
  BY ZenonT(30), <1>r DEF OneReturned, Step
<1>2. /\ r \in Requests /\ r.host = h /\ commands[h] # <<>>
      /\ commands[h] \in Seq(CT) /\ c \in CT
      /\ r = Request(h, c.kind, r.gpu) /\ r.gpu \in c.reqs
      /\ Tail(returned) \in Seq(Requests) /\ Distinct(Tail(returned))
      /\ Unprocessed = Range(requestsToSend) \cup onGPU \cup Range(returned)
      /\ Unprocessed \ {r} = Range(requestsToSend) \cup onGPU \cup Range(Tail(returned))
  BY ZenonT(30), <1>r, <1>c, <1>1, ReturnFacts
<1>3. /\ d.reqs # {} /\ commands' = [commands EXCEPT ![h] = <<d>> \o Tail(@)]
      /\ d \in CT /\ d.kind = c.kind /\ d.reqs = c.reqs \ {r.gpu}
  <2>1. Head(commands[h]) = c
    BY SMTT(30), <1>c, <1>2
  <2>2. d \in CT /\ d.kind = c.kind /\ d.reqs = c.reqs \ {r.gpu}
    BY ZenonT(30), <1>d, <1>2 DEF RemoveReq, CT
  <2>3. d.reqs # {} /\ commands' = [commands EXCEPT ![h] = <<d>> \o Tail(@)]
    BY ZenonT(30), <1>r, <1>d, <2>1 DEF OneReturned
  <2> QED BY ZenonT(30), <2>2, <2>3
<1>4. commands \in [Hosts -> Seq(CT)]
  BY ZenonT(30), <1>0 DEF Types, QueueTypes, CT
<1>5. /\ commands'[h] \in Seq(CT) /\ commands'[h] # <<>> /\ commands'[h][1] = d
      /\ DOMAIN commands'[h] = DOMAIN commands[h]
      /\ \A i \in DOMAIN commands[h] : i # 1 => commands'[h][i] = commands[h][i]
      /\ \A g \in Hosts \ {h} : commands'[g] = commands[g]
  <2>1. commands'[h] = <<d>> \o Tail(commands[h]) /\ \A g \in Hosts \ {h} : commands'[g] = commands[g]
    BY ZenonT(30), <1>3, <1>4
  <2>2. PICK t : t = commands'[h]
    OBVIOUS
  <2>3. t = <<d>> \o Tail(commands[h])
    BY ZenonT(30), <2>1, <2>2
  <2>4. /\ t \in Seq(CT) /\ t # <<>> /\ t[1] = d /\ DOMAIN t = DOMAIN commands[h]
        /\ \A i \in DOMAIN commands[h] : i # 1 => t[i] = commands[h][i]
    BY SMTT(30), <1>2, <1>3, <2>3, Replaced
  <2> QED BY ZenonT(30), <2>1, <2>2, <2>4
<1>6. commands' \in [Hosts -> Seq(CT)]
  BY ZenonT(30), <1>3, <1>4, <1>5
<1>7. Unprocessed' = Unprocessed \ {r}
  BY ZenonT(30), <1>1, <1>2 DEF Unprocessed
<1>8. Listed(h)' = Listed(h) \ {r} /\ Listed(h)' # {}
  <2>1. Listed(h) = {Request(h, c.kind, g) : g \in c.reqs}
    BY ZenonT(30), <1>c, <1>2 DEF Listed
  <2>2. Listed(h)' = {Request(h, c.kind, g) : g \in c.reqs \ {r.gpu}}
    <3>1. commands'[h] # <<>> /\ commands'[h][1] = d
      BY ZenonT(30), <1>5
    <3>2. Listed(h)' = {Request(h, d.kind, g) : g \in d.reqs}
      BY ZenonT(30), <3>1 DEF Listed
    <3>3. d.kind = c.kind /\ d.reqs = c.reqs \ {r.gpu}
      BY ZenonT(30), <1>3
    <3> QED BY ZenonT(30), <3>2, <3>3
  <2>3. \A g : Request(h, c.kind, g).gpu = g
    BY ZenonT(30) DEF Request
  <2>4. \A g \in c.reqs : Request(h, c.kind, g) = r <=> g = r.gpu
    BY ZenonT(30), <1>2, <2>3
  <2>5. Listed(h)' = Listed(h) \ {r}
    BY ZenonT(30), <2>1, <2>2, <2>4
  <2>6. \E g \in c.reqs : g # r.gpu
    BY ZenonT(30), <1>3
  <2> QED BY ZenonT(30), <2>2, <2>5, <2>6
<1>9. \A g \in Hosts \ {h} : Listed(g)' = Listed(g)
  BY ZenonT(30), <1>5 DEF Listed
<1>10. Owned'
  <2>1. ASSUME NEW g \in Hosts PROVE {x \in Unprocessed' : x.host = g} = Listed(g)'
    <3>1. {x \in Unprocessed : x.host = g} = Listed(g)
      BY ZenonT(30), <1>0 DEF Owned
    <3>2. PICK S : S = {x \in Unprocessed' : x.host = g}
      BY ZenonT(30)
    <3>3. S = Listed(g) \ {r}
      BY ZenonT(30), <1>7, <3>1, <3>2, OneLess
    <3>4. g # h => S = Listed(g)
      BY ZenonT(30), <1>2, <1>7, <3>1, <3>2, OneLess
    <3>5. S = Listed(g)'
      BY ZenonT(30), <1>8, <1>9, <3>3, <3>4
    <3> QED BY ZenonT(30), <3>2, <3>5
  <2>2. \A g \in Hosts : \A i \in DOMAIN commands'[g] : i # 1 => commands'[g][i].reqs = {}
    BY SMTT(30), <1>0, <1>5 DEF Owned
  <2>3. \A g \in Hosts : isRunning'[g] <=> Listed(g)' # {}
    <3>1. Listed(h) # {}
      BY ZenonT(30), <1>8
    <3> QED BY ZenonT(30), <1>0, <1>1, <1>8, <1>9, <3>1 DEF Owned
  <2> QED BY ZenonT(30), <2>1, <2>2, <2>3 DEF Owned
<1>11. OnePlace'
  <2>1. Range(returned') \subseteq Range(returned)
    BY ZenonT(30), <1>1, Tailed, <1>0 DEF Types, GPUTypes
  <2> QED BY ZenonT(30), <1>0, <1>1, <1>2, <2>1 DEF OnePlace
<1>12. GPUTypes'
  BY ZenonT(30), <1>0, <1>1, <1>2 DEF Types, GPUTypes
<1>13. QueueTypes'
  BY ZenonT(30), <1>0, <1>1, <1>6 DEF Types, QueueTypes, CT
<1>14. TickTypes' /\ Place'
  <2>1. stage' \in Stages /\ turn' \in 0..(Len(QueueOrder) + 1)
    BY SMTT(30), <1>1, ManyQueues DEF Stages
  <2> QED BY SMTT(30), <1>1, <2>1 DEF TickTypes, Place
<1>15. ThreadTypes' /\ Lock' /\ tickPending' \in BOOLEAN /\ HostTypes'
  BY ZenonT(30), <1>0, <1>1, TickKept, KeptTypes
<1> QED BY ZenonT(30), <1>10, <1>11, <1>12, <1>13, <1>14, <1>15 DEF DriverInv, Types

(* The last request is back: the command goes and the queue is idle.       *)
LEMMA LastReturnedStep ==
    ASSUME DriverInv, NEW h \in Hosts, LastReturned(h)
    PROVE  DriverInv'
<1>r. PICK r : r = Head(returned)
  OBVIOUS
<1>c. PICK c : c = commands[h][1]
  OBVIOUS
<1>0. Types /\ Place /\ OnePlace /\ Owned /\ turn = 0
  BY ZenonT(30) DEF DriverInv, LastReturned, Step, Place
<1>1. /\ returned # <<>> /\ Found(h, r) /\ stage = "return" /\ stage' = "notify"
      /\ RemoveReq(Head(commands[h]), r.gpu).reqs = {}
      /\ commands' = [commands EXCEPT ![h] = Tail(@)]
      /\ isRunning' = [isRunning EXCEPT ![h] = FALSE] /\ l2Dirty' = l2Dirty
      /\ UNCHANGED gpu /\ turn' = turn /\ progress' = progress
      /\ tickPending' = tickPending /\ UNCHANGED hosts /\ UNCHANGED threads
  BY ZenonT(30), <1>r DEF LastReturned, Step
<1>2. /\ r \in Requests /\ r.host = h /\ commands[h] # <<>>
      /\ commands[h] \in Seq(CT) /\ c \in CT
      /\ r = Request(h, c.kind, r.gpu) /\ r.gpu \in c.reqs
      /\ Unprocessed \ {r} = Range(requestsToSend) \cup onGPU \cup Range(Tail(returned))
  BY ZenonT(30), <1>r, <1>c, <1>1, ReturnFacts
<1>3. c.reqs = {r.gpu}
  <2>1. Head(commands[h]) = c
    BY SMTT(30), <1>c, <1>2
  <2>2. RemoveReq(c, r.gpu).reqs = c.reqs \ {r.gpu}
    BY ZenonT(30), <1>2 DEF RemoveReq, CT
  <2> QED BY ZenonT(30), <1>1, <1>2, <2>1, <2>2
<1>4. /\ requestsToSend' = requestsToSend /\ onGPU' = onGPU /\ returned' = returned
  BY ZenonT(30), <1>1 DEF gpu
<1>5. Unprocessed' = Unprocessed \ {r}
  BY ZenonT(30), <1>0, <1>1, <1>2, <1>4 DEF Unprocessed
<1>6. Listed(h) = {r}
  BY ZenonT(30), <1>c, <1>2, <1>3 DEF Listed
<1>7. /\ commands' \in [Hosts -> Seq(CT)] /\ Listed(h)' = {}
      /\ \A g \in Hosts \ {h} : Listed(g)' = Listed(g)
      /\ \A g \in Hosts : \A i \in DOMAIN commands'[g] : i # 1 => commands'[g][i].reqs = {}
  BY ZenonT(30), <1>0, <1>1, <1>2, Over
<1>8. isRunning' \in [Hosts -> BOOLEAN] /\ isRunning'[h] = FALSE
      /\ \A g \in Hosts \ {h} : isRunning'[g] = isRunning[g]
  BY ZenonT(30), <1>0, <1>1 DEF Types, QueueTypes
<1>9. Owned'
  <2>1. ASSUME NEW g \in Hosts PROVE {x \in Unprocessed' : x.host = g} = Listed(g)'
    <3>1. {x \in Unprocessed : x.host = g} = Listed(g)
      BY ZenonT(30), <1>0 DEF Owned
    <3>2. PICK S : S = {x \in Unprocessed' : x.host = g}
      BY ZenonT(30)
    <3>3. S = Listed(g) \ {r}
      BY ZenonT(30), <1>5, <3>1, <3>2, OneLess
    <3>4. g # h => S = Listed(g)
      BY ZenonT(30), <1>2, <1>5, <3>1, <3>2, OneLess
    <3>5. S = Listed(g)'
      BY ZenonT(30), <1>6, <1>7, <3>3, <3>4
    <3> QED BY ZenonT(30), <3>2, <3>5
  <2>2. \A g \in Hosts : isRunning'[g] <=> Listed(g)' # {}
    BY SMTT(30), <1>0, <1>7, <1>8 DEF Owned
  <2> QED BY ZenonT(30), <1>7, <2>1, <2>2 DEF Owned
<1>10. OnePlace'
  BY SMTT(30), <1>0, <1>4 DEF OnePlace, Distinct, Range
<1>11. QueueTypes'
  BY ZenonT(30), <1>0, <1>1, <1>7, <1>8 DEF Types, QueueTypes, CT
<1>12. TickTypes' /\ Place'
  <2>1. turn' # Len(QueueOrder) + 1
    BY SMTT(30), <1>0, <1>1, ManyQueues
  <2> QED BY ZenonT(30), <1>0, <1>1, <1>4, <2>1 DEF Types, TickTypes, Stages, Place
<1>13. ThreadTypes' /\ Lock' /\ tickPending' \in BOOLEAN /\ HostTypes' /\ GPUTypes'
  BY ZenonT(30), <1>0, <1>1, TickKept, KeptTypes
<1> QED BY ZenonT(30), <1>9, <1>10, <1>11, <1>12, <1>13 DEF DriverInv, Types

(* The queue processNewCommand looks at.                                   *)
LEMMA QueueInTurn ==
    ASSUME InTurn
    PROVE  Queue \in Hosts /\ turn # 0 /\ turn # Len(QueueOrder) + 1
           /\ turn + 1 \in 1..(Len(QueueOrder) + 1)
BY SMTT(30), ManyQueues DEF InTurn, Queue

(* A no-op is removed from a queue that has nothing on the way.            *)
LEMMA NoopStep ==
    ASSUME DriverInv, StartNoop
    PROVE  DriverInv'
<1>0. Types /\ Place /\ OnePlace /\ Owned
  BY ZenonT(30) DEF DriverInv
<1>h. PICK h \in Hosts : h = Queue /\ turn # 0 /\ turn # Len(QueueOrder) + 1
  BY ZenonT(30), QueueInTurn DEF StartNoop
<1>1. /\ InTurn /\ commands[h] # <<>> /\ ~isRunning[h] /\ stage = "new" /\ stage' = "notify"
      /\ commands' = [commands EXCEPT ![h] = Tail(@)]
      /\ isRunning' = isRunning /\ l2Dirty' = l2Dirty
      /\ UNCHANGED gpu /\ turn' = turn /\ progress' = progress
      /\ tickPending' = tickPending /\ UNCHANGED hosts /\ UNCHANGED threads
  BY ZenonT(30), <1>h DEF StartNoop, Step, MayStart
<1>2. turn # 0 /\ turn # Len(QueueOrder) + 1
  BY ZenonT(30), <1>h
<1>3. Listed(h) = {}
  BY ZenonT(30), <1>0, <1>1, <1>2 DEF Owned
<1>4. /\ commands' \in [Hosts -> Seq(CT)] /\ Listed(h)' = {}
      /\ \A g \in Hosts \ {h} : Listed(g)' = Listed(g)
      /\ \A g \in Hosts : \A i \in DOMAIN commands'[g] : i # 1 => commands'[g][i].reqs = {}
  BY ZenonT(30), <1>0, <1>1, <1>2, Over
<1>5. requestsToSend' = requestsToSend /\ onGPU' = onGPU /\ returned' = returned
  BY ZenonT(30), <1>1 DEF gpu
<1>6. Unprocessed' = Unprocessed /\ OnePlace'
  BY ZenonT(30), <1>0, <1>1, <1>2, <1>5, KeptRequests DEF Notifying
<1>7. \A g \in Hosts : Listed(g)' = Listed(g)
  BY ZenonT(30), <1>3, <1>4
<1>8. Owned'
  BY ZenonT(30), <1>0, <1>1, <1>4, <1>6, <1>7 DEF Owned
<1>9. QueueTypes'
  BY ZenonT(30), <1>0, <1>1, <1>4 DEF Types, QueueTypes, CT
<1>10. TickTypes' /\ Place'
  BY ZenonT(30), <1>0, <1>1, <1>2 DEF Types, TickTypes, Stages, Place
<1>11. ThreadTypes' /\ Lock' /\ tickPending' \in BOOLEAN /\ HostTypes' /\ GPUTypes'
  BY ZenonT(30), <1>0, <1>1, TickKept, KeptTypes
<1> QED BY ZenonT(30), <1>6, <1>8, <1>9, <1>10, <1>11 DEF DriverInv, Types

(* The requests of a command are different from all that are on the way.   *)
LEMMA NewRequests ==
    ASSUME NEW h \in Hosts, NEW k \in Kinds, k # "noop"
    PROVE  LET ts == TargetsOf(h, k)
               R  == {Request(h, k, g) : g \in ts}
           IN  /\ ts \subseteq GPUs /\ ts # {} /\ R \subseteq Requests /\ R # {}
               /\ \A r \in R : r.host = h
               /\ InSomeOrder(R) \in Seq(Requests) /\ Range(InSomeOrder(R)) = R
               /\ Distinct(InSomeOrder(R))
<1> DEFINE ts == TargetsOf(h, k)
           R  == {Request(h, k, g) : g \in ts}
           f  == [g \in ts |-> Request(h, k, g)]
<1>1. ts \subseteq GPUs /\ ts # {}
  <2>1. Home[h] \in GPUs /\ GPUs # {}
    BY ZenonT(30), QueuesAssumption
  <2>2. ts = {Home[h]} \/ ts = GPUs
    BY ZenonT(30) DEF TargetsOf
  <2> QED BY ZenonT(30), <2>1, <2>2
<1>2. IsFiniteSet(ts)
  <2>1. IsFiniteSet(GPUs)
    BY ZenonT(30), QueuesAssumption
  <2> HIDE DEF ts
  <2> QED BY ZenonT(30), <1>1, <2>1, FS_Subset
<1> HIDE DEF ts
<1>3. R \subseteq Requests /\ R # {} /\ \A r \in R : r.host = h
  <2>1. \A g \in GPUs : Request(h, k, g) \in Requests /\ Request(h, k, g).host = h
    BY ZenonT(30) DEF Request, Requests
  <2> QED BY ZenonT(30), <1>1, <2>1
<1>4. f \in Surjection(ts, R)
  BY ZenonT(30) DEF Surjection
<1> HIDE DEF f, R
<1>5. IsFiniteSet(R)
  BY ZenonT(30), <1>2, <1>4, FS_Surjection
<1>6. InSomeOrder(R) \in Seq(R) /\ Range(InSomeOrder(R)) = R /\ Distinct(InSomeOrder(R))
  BY ZenonT(30), <1>5, Listing
<1>7. InSomeOrder(R) \in Seq(Requests)
  BY SMTT(30), <1>3, <1>6
<1> QED BY ZenonT(30), <1>1, <1>3, <1>6, <1>7 DEF ts, R

(* A command is started on a queue that has nothing on the way.            *)
LEMMA CommandStep ==
    ASSUME DriverInv, StartCommand
    PROVE  DriverInv'
<1>h. PICK h \in Hosts : h = Queue
  BY ZenonT(30), QueueInTurn DEF StartCommand
<1> DEFINE k  == Head(commands[h]).kind
           ts == TargetsOf(h, k)
           R  == {Request(h, k, g) : g \in ts}
           new == InSomeOrder(R)
<1>0. Types /\ Place /\ OnePlace /\ Owned
  BY ZenonT(30) DEF DriverInv
<1>1. /\ InTurn /\ commands[h] # <<>> /\ ~isRunning[h] /\ stage = "new" /\ stage' = stage
      /\ k # "noop" /\ commands' = [commands EXCEPT ![h][1].reqs = ts]
      /\ requestsToSend' = requestsToSend \o new
      /\ isRunning' = [isRunning EXCEPT ![h] = TRUE]
      /\ turn' = turn + 1 /\ progress' = TRUE /\ onGPU' = onGPU /\ returned' = returned
      /\ portBusy' = portBusy /\ unflushed' = unflushed
      /\ tickPending' = tickPending /\ UNCHANGED hosts /\ UNCHANGED threads
  BY ZenonT(30), <1>h DEF StartCommand, MayStart
<1>2. turn # 0 /\ turn + 1 \in 1..(Len(QueueOrder) + 1)
  BY ZenonT(30), <1>1, QueueInTurn
<1>3. l2Dirty' \in BOOLEAN
  BY ZenonT(30) DEF StartCommand
<1>4. /\ commands \in [Hosts -> Seq(CT)] /\ commands[h] \in Seq(CT)
      /\ requestsToSend \in Seq(Requests)
  BY ZenonT(30), <1>0, <1>2 DEF Types, QueueTypes, GPUTypes, CT
<1>5. Head(commands[h]) = commands[h][1] /\ commands[h][1] \in CT /\ 1 \in DOMAIN commands[h]
      /\ k \in Kinds
  <2>1. Head(commands[h]) = commands[h][1] /\ commands[h][1] \in CT /\ 1 \in DOMAIN commands[h]
    BY SMTT(30), <1>1, <1>4
  <2> QED BY ZenonT(30), <2>1 DEF CT
<1>6. /\ ts \subseteq GPUs /\ ts # {} /\ R \subseteq Requests /\ R # {} /\ \A r \in R : r.host = h
      /\ new \in Seq(Requests) /\ Range(new) = R /\ Distinct(new)
  BY ZenonT(30), <1>1, <1>2, <1>5, NewRequests
<1> HIDE DEF ts, new, k
<1>7. /\ commands'[h] = [commands[h] EXCEPT ![1].reqs = ts]
      /\ \A g \in Hosts \ {h} : commands'[g] = commands[g]
  BY ZenonT(30), <1>1, <1>2, <1>4
<1>8. /\ commands'[h] \in Seq(CT) /\ commands'[h] # <<>>
      /\ commands'[h][1].kind = k /\ commands'[h][1].reqs = ts
      /\ DOMAIN commands'[h] = DOMAIN commands[h]
      /\ \A i \in DOMAIN commands[h] : i # 1 => commands'[h][i] = commands[h][i]
  <2> DEFINE s == commands[h]
             x == [s[1] EXCEPT !.reqs = ts]
  <2>1. x \in CT /\ x.kind = k /\ x.reqs = ts
    BY ZenonT(30), <1>5, <1>6 DEF CT, k
  <2>2. commands'[h] = [s EXCEPT ![1] = x]
    BY ZenonT(30), <1>7
  <2> HIDE DEF x
  <2>3. /\ [s EXCEPT ![1] = x] \in Seq(CT) /\ [s EXCEPT ![1] = x] # <<>>
        /\ [s EXCEPT ![1] = x][1] = x /\ DOMAIN [s EXCEPT ![1] = x] = DOMAIN s
        /\ \A i \in DOMAIN s : i # 1 => [s EXCEPT ![1] = x][i] = s[i]
    BY SMTT(30), <1>4, <1>5, <2>1
  <2> QED BY ZenonT(30), <2>1, <2>2, <2>3
<1>9. commands' \in [Hosts -> Seq(CT)]
  BY ZenonT(30), <1>1, <1>2, <1>4, <1>7, <1>8
<1>10. Listed(h) = {} /\ Listed(h)' = R /\ \A g \in Hosts \ {h} : Listed(g)' = Listed(g)
  <2>1. Listed(h) = {}
    BY ZenonT(30), <1>0, <1>1, <1>2 DEF Owned
  <2>2. Listed(h)' = R
    BY ZenonT(30), <1>8 DEF Listed
  <2>3. \A g \in Hosts \ {h} : Listed(g)' = Listed(g)
    <3>1. \A g \in Hosts \ {h} : commands'[g] = commands[g]
      BY ZenonT(30), <1>7
    <3> QED BY ZenonT(30), <3>1 DEF Listed
  <2> QED BY ZenonT(30), <2>1, <2>2, <2>3
<1>11. R \cap Unprocessed = {}
  BY ZenonT(30), <1>0, <1>2, <1>6, <1>10 DEF Owned
<1>12. Unprocessed = Range(requestsToSend) \cup onGPU \cup Range(returned)
  BY ZenonT(30), <1>1 DEF Unprocessed
<1> HIDE DEF R
<1>13. /\ requestsToSend' \in Seq(Requests) /\ Distinct(requestsToSend')
       /\ Range(requestsToSend') = Range(requestsToSend) \cup R
  <2>1. Range(requestsToSend) \cap Range(new) = {}
    BY ZenonT(30), <1>6, <1>11, <1>12
  <2> QED BY SMTT(30), <1>0, <1>1, <1>4, <1>6, <2>1, Concatenated DEF OnePlace
<1>14. Unprocessed' = Unprocessed \cup R
  BY ZenonT(30), <1>1, <1>12, <1>13 DEF Unprocessed
<1>15. OnePlace'
  BY ZenonT(30), <1>0, <1>1, <1>11, <1>12, <1>13 DEF OnePlace
<1>16. isRunning' \in [Hosts -> BOOLEAN] /\ isRunning'[h] = TRUE
       /\ \A g \in Hosts \ {h} : isRunning'[g] = isRunning[g]
  BY ZenonT(30), <1>0, <1>1, <1>2 DEF Types, QueueTypes
<1>17. Owned'
  <2>1. ASSUME NEW g \in Hosts PROVE {x \in Unprocessed' : x.host = g} = Listed(g)'
    <3>1. {x \in Unprocessed : x.host = g} = Listed(g)
      BY ZenonT(30), <1>0 DEF Owned
    <3>2. CASE g = h
      BY ZenonT(30), <1>6, <1>10, <1>14, <3>1, <3>2
    <3>3. CASE g # h
      BY ZenonT(30), <1>6, <1>10, <1>14, <3>1, <3>3
    <3> QED BY ZenonT(30), <3>2, <3>3
  <2>2. \A g \in Hosts : \A i \in DOMAIN commands'[g] : i # 1 => commands'[g][i].reqs = {}
    BY SMTT(30), <1>0, <1>7, <1>8 DEF Owned
  <2>3. \A g \in Hosts : isRunning'[g] <=> Listed(g)' # {}
    BY SMTT(30), <1>0, <1>6, <1>10, <1>16 DEF Owned
  <2> QED BY ZenonT(30), <2>1, <2>2, <2>3 DEF Owned
<1>18. QueueTypes'
  BY ZenonT(30), <1>3, <1>9, <1>16 DEF QueueTypes, CT
<1>19. GPUTypes'
  BY ZenonT(30), <1>0, <1>1, <1>13 DEF Types, GPUTypes
<1>20. TickTypes' /\ Place'
  <2>1. turn' \in 0..(Len(QueueOrder) + 1) /\ turn' # 0
    BY SMTT(30), <1>1, <1>2, ManyQueues
  <2> QED BY ZenonT(30), <1>0, <1>1, <2>1 DEF Types, TickTypes, Place
<1>21. ThreadTypes' /\ Lock' /\ tickPending' \in BOOLEAN /\ HostTypes'
  BY ZenonT(30), <1>0, <1>1, TickKept, KeptTypes
<1> QED BY ZenonT(30), <1>15, <1>17, <1>18, <1>19, <1>20, <1>21 DEF DriverInv, Types

-----------------------------------------------------------------------------
(* Theorems.                                                               *)

(* The inductive invariant of the driver and its threads.                  *)
THEOREM Invariance == Spec => []DriverInv
<1>1. Init => DriverInv
  <2> SUFFICES ASSUME Init PROVE DriverInv
    OBVIOUS
  <2>1. QueueTypes
    <3>1. commands \in [Hosts -> Seq([kind : Kinds, reqs : SUBSET GPUs])]
      BY SMTT(30) DEF Init
    <3>2. isRunning \in [Hosts -> BOOLEAN] /\ l2Dirty \in BOOLEAN
      BY ZenonT(30) DEF Init
    <3> QED BY ZenonT(30), <3>1, <3>2 DEF QueueTypes
  <2>2. GPUTypes
    <3>1. requestsToSend \in Seq(Requests) /\ returned \in Seq(Requests)
      BY SMTT(30) DEF Init
    <3>2. portBusy \in BOOLEAN
      BY ZenonT(30) DEF Init
    <3> QED BY ZenonT(30), <3>1, <3>2 DEF GPUTypes, Init
  <2>3. TickTypes
    <3>1. stage \in Stages /\ turn \in 0..(Len(QueueOrder) + 1)
      BY SMTT(30), ManyQueues DEF Init, Stages
    <3> QED BY ZenonT(30), <3>1 DEF Init, TickTypes
  <2>4. ThreadTypes
    BY ZenonT(30) DEF Init, ThreadTypes, EnginePCs, AsyncPCs
  <2>5. HostTypes
    BY SMTT(30) DEF Init, HostTypes, HostPCs
  <2>6. Lock /\ Place /\ OnePlace
    BY SMTT(30) DEF Init, Lock, Place, OnePlace, Distinct, Range
  <2>7. Unprocessed = {} /\ \A h \in Hosts : Listed(h) = {} /\ commands[h] = <<>>
    BY SMTT(30) DEF Init, Unprocessed, Range, Listed
  <2>8. Owned
    BY SMTT(30), <2>7 DEF Init, Owned
  <2> QED BY ZenonT(30), <2>1, <2>2, <2>3, <2>4, <2>5, <2>6, <2>8 DEF DriverInv, Types, Init
<1>2. DriverInv /\ [Next]_vars => DriverInv'
  <2> SUFFICES ASSUME DriverInv, [Next]_vars PROVE DriverInv'
    OBVIOUS
  <2>1. CASE UNCHANGED vars
    <3>1. /\ UNCHANGED <<queues, gpu, hosts>> /\ UNCHANGED tick /\ UNCHANGED threads
          /\ tickPending' = tickPending
      BY ZenonT(30), <2>1 DEF vars
    <3>2. /\ stage' = stage /\ turn' = turn /\ returned' = returned /\ pauseLock' = pauseLock
          /\ async' = async
      BY ZenonT(30), <3>1 DEF tick, gpu, threads
    <3>3. ThreadTypes' /\ TickTypes' /\ tickPending' \in BOOLEAN
      BY ZenonT(30), <3>1, KeptTypes DEF DriverInv, Types
    <3>4. Lock' /\ Place'
      BY ZenonT(30), <3>2 DEF DriverInv, Lock, Place
    <3> QED BY ZenonT(30), <3>1, <3>3, <3>4, ThreadStep
  <2>2. CASE DriverTick
    BY ZenonT(30), <2>2, QuietStep, AcceptStep, NotifyStep, OneReturnedStep, LastReturnedStep, NoopStep,
       CommandStep DEF DriverTick
  <2> QED BY ZenonT(30), <2>1, <2>2, HostStep, AsyncStep, EngineStep DEF Next
<1> QED BY <1>1, <1>2, PTL DEF Spec

(* findCommandByReq never panics: a request that has not been processed    *)
(* belongs to the first command of its queue, which lists it, and a queue  *)
(* runs exactly while requests of it are on the way.  It holds for every   *)
(* number of queues and GPUs, every program and every interleaving of the  *)
(* hosts with the driver's Tick.                                           *)
THEOREM CommandsFound == Spec => []RequestsHaveTheirCommand
<1>1. DriverInv => RequestsHaveTheirCommand
  <2> SUFFICES ASSUME DriverInv PROVE RequestsHaveTheirCommand
    OBVIOUS
  <2>0. Types /\ Owned
    BY ZenonT(30) DEF DriverInv
  <2>1. TypeOK
    <3>1. round \in [Hosts -> Nat] /\ pos \in [Hosts -> Nat]
      BY ZenonT(30), <2>0 DEF Types, HostTypes
    <3> QED BY ZenonT(30), <2>0, <3>1
            DEF Types, TypeOK, QueueTypes, GPUTypes, TickTypes, ThreadTypes, HostTypes
  <2>2. Unprocessed \subseteq Requests
    <3>1. Range(requestsToSend) \subseteq Requests /\ Range(returned) \subseteq Requests
      BY SMTT(30), <2>0 DEF Types, GPUTypes, Range
    <3>2. Notifying => Range(Tail(returned)) \subseteq Requests
      <4>1. Notifying => returned # <<>> /\ returned \in Seq(Requests)
        BY ZenonT(30), <2>0 DEF DriverInv, Place, Notifying, Types, GPUTypes
      <4> QED BY ZenonT(30), <3>1, <4>1, Tailed
    <3> QED BY ZenonT(30), <2>0, <3>1, <3>2 DEF Types, GPUTypes, Unprocessed, Notifying
  <2>3. ASSUME NEW r \in Unprocessed PROVE Found(r.host, r)
    <3>1. r.host \in Hosts /\ r \in Listed(r.host)
      BY ZenonT(30), <2>0, <2>2 DEF Owned, Requests
    <3>2. commands[r.host] # <<>> /\ commands[r.host] \in Seq(CT)
      BY ZenonT(30), <2>0, <3>1 DEF Listed, Types, QueueTypes, CT
    <3>3. PICK g \in commands[r.host][1].reqs : r = Request(r.host, commands[r.host][1].kind, g)
      BY ZenonT(30), <3>1, <3>2 DEF Listed
    <3>4. r.kind = commands[r.host][1].kind /\ r.gpu = g
      BY SMTT(30), <3>3 DEF Request
    <3>5. Head(commands[r.host]) = commands[r.host][1]
      BY SMTT(30), <3>2
    <3> QED BY ZenonT(30), <3>2, <3>3, <3>4, <3>5 DEF Found
  <2>4. ASSUME NEW h \in Hosts PROVE isRunning[h] <=> \E r \in Unprocessed : r.host = h
    <3>1. {r \in Unprocessed : r.host = h} = Listed(h)
      BY ZenonT(30), <2>0 DEF Owned
    <3>2. isRunning[h] <=> Listed(h) # {}
      BY ZenonT(30), <2>0 DEF Owned
    <3> QED BY ZenonT(30), <3>1, <3>2
  <2> QED BY ZenonT(30), <2>1, <2>3, <2>4 DEF RequestsHaveTheirCommand
<1> QED BY <1>1, Invariance, PTL
=============================================================================
