------------------------ MODULE ParallelEngineProofs ------------------------
(***************************************************************************)
(* That the parallel engine implements EventEngine, and that its queues are *)
(* never shared or lost, for every number of queues and every simulation.   *)
(***************************************************************************)
EXTENDS ParallelEngine, FiniteSetTheorems, WellFoundedInduction, TLAPS

Holds(e) == held[e] # NoQueue

\* What the goroutine of e has still to put into a queue.
ToCome(e) == todo[e] \cup {x \in {pushing[e]} : Holds(e)}

\* The events whose goroutine was started.
Called == running \cup {finished[i] : i \in DOMAIN finished}

Types == /\ TypeOK /\ finished \in Seq(Events)
         /\ DOMAIN queueChan = Kinds

\* An event is in one queue only, of its own kind.
Sorted == \A k \in Kinds, q \in Queues : \A x \in queues[k][q] :
             /\ KindOf(x) = k
             /\ \A p \in Queues : x \in queues[k][p] => p = q

\* An event is scheduled once, by the goroutine of its parent, and is no longer in a queue
\* when its own goroutine is started.
Once ==
    /\ AllQueued \cap Called = {}
    /\ \A x \in AllQueued \cup Called : x \in Roots \/ \E g \in Called : x \in Children[g]
    /\ \A e \in Events \ running : todo[e] = {} /\ held[e] = NoQueue
    /\ \A e \in running :
          /\ ToCome(e) \subseteq Children[e] /\ Children[e] \subseteq AllQueued \cup ToCome(e)
          /\ ToCome(e) \cap (AllQueued \cup Called) = {}
          /\ Holds(e) => pushing[e] \notin todo[e]

\* The holders of a queue, without counting: this is OneHolder as an inductive invariant.
Taken(k, e) == Holds(e) /\ KindOf(pushing[e]) = k
Holder(k) ==
    /\ \A i, j \in DOMAIN queueChan[k] : queueChan[k][i] = queueChan[k][j] => i = j
    /\ \A i \in DOMAIN queueChan[k] : queueChan[k][i] \notin MainHolds(k)
    /\ \A e \in Events : Taken(k, e) =>
          /\ held[e] \notin MainHolds(k)
          /\ \A i \in DOMAIN queueChan[k] : queueChan[k][i] # held[e]
          /\ \A f \in Events : Taken(k, f) /\ held[f] = held[e] => f = e
    /\ \A q \in Queues : \/ q \in MainHolds(k)
                         \/ \E i \in DOMAIN queueChan[k] : queueChan[k][i] = q
                         \/ \E e \in Events : Taken(k, e) /\ held[e] = q
Holders == \A k \in Kinds : Holder(k)

\* The goroutines of a round are of its time and kind; in a round of secondary events no
\* primary event of the same time is left; a queue that Run has still to search holds
\* nothing that a goroutine of this round has scheduled.
Round ==
    /\ running # {} => pc \in {"search", "wait"}
    /\ \A e \in running : Time[e] = now /\ KindOf(e) = round
    /\ \A x \in AllQueued : Time[x] >= now
    /\ (pc \in {"empty", "search", "wait"} /\ round = "secondary")
          => \A x \in Queued("primary") : Time[x] > now
    /\ \A e \in running : \A q \in MainHolds(round) : Children[e] \cap queues[round][q] = {}

EngineInv == Types /\ Sorted /\ Once /\ Holders /\ Round

-----------------------------------------------------------------------------
(* Queues. *)

\* An event is queued when it is in some queue of some kind.
LEMMA InQueues ==
    \A x : x \in AllQueued <=> \E k \in Kinds, q \in Queues : x \in queues[k][q]
BY SMTT(30) DEF AllQueued, Queued

\* The same after a step.
LEMMA InQueuesAfter ==
    \A x : x \in AllQueued' <=> \E k \in Kinds, q \in Queues : x \in queues'[k][q]
BY SMTT(30) DEF AllQueued, Queued

\* The queue channel: what a send appends and a receive removes.
LEMMA Sent ==
    ASSUME NEW S, NEW c \in Seq(S), NEW q \in S
    PROVE  /\ Append(c, q) \in Seq(S)
           /\ DOMAIN Append(c, q) = DOMAIN c \cup {Len(c) + 1} /\ Len(c) + 1 \notin DOMAIN c
           /\ Append(c, q)[Len(c) + 1] = q
           /\ \A i \in DOMAIN c : Append(c, q)[i] = c[i]
OBVIOUS

\* A receive removes the first queue of the channel.
LEMMA Received ==
    ASSUME NEW S, NEW c \in Seq(S), c # <<>>
    PROVE  /\ Tail(c) \in Seq(S) /\ Head(c) \in S /\ 1 \in DOMAIN c /\ Head(c) = c[1]
           /\ \A i \in DOMAIN Tail(c) : i + 1 \in DOMAIN c \ {1} /\ Tail(c)[i] = c[i + 1]
           /\ \A j \in DOMAIN c \ {1} : j - 1 \in DOMAIN Tail(c) /\ Tail(c)[j - 1] = c[j]
           /\ DOMAIN c \subseteq Nat /\ DOMAIN Tail(c) \subseteq Nat
OBVIOUS

\* A non-empty group of queues has a front: an event no other is earlier than.
LEMMA FrontExists ==
    ASSUME NEW S, S \subseteq Events, NEW x \in S
    PROVE  \E e \in Earliest(S) : Time[e] <= Time[x]
<1> DEFINE T == {Time[e] : e \in S}
           R == {ss \in Nat \X Nat : ss[1] < ss[2]}
<1>1. T \subseteq Nat /\ T # {}
  BY SMTT(30), EngineAssumption
<1>2. IsWellFoundedOn(R, Nat)
  BY Zenon, NatLessThanWellFounded DEF OpToRel
<1>3. PICK t \in T : \A u \in T : ~(<<u, t>> \in R)
  <2> HIDE DEF T, R
  <2> QED BY ZenonT(30), <1>1, <1>2, WFMin
<1>4. \A u \in T : ~(u < t)
  BY ZenonT(30), <1>1, <1>3
<1>5. PICK e \in S : Time[e] = t
  OBVIOUS
<1>6. \A f \in S : Time[e] <= Time[f]
  BY SMTT(30), <1>4, <1>5, EngineAssumption
<1> QED BY ZenonT(30), <1>6 DEF Earliest

\* The handler of an event that has not been started has scheduled nothing yet.
LEMMA ChildrenFresh ==
    ASSUME Types, Once, NEW e \in AllQueued
    PROVE  /\ e \in Events /\ e \notin Called /\ e \notin Children[e]
           /\ Children[e] \subseteq Events
           /\ Children[e] \cap (AllQueued \cup Called) = {}
<1>1. e \in Events /\ e \notin Called
  BY SMTT(30), InQueues DEF Types, TypeOK, Once
<1>2. e \notin Children[e] /\ Children[e] \subseteq Events
  BY ZenonT(30), <1>1, EngineAssumption
<1>3. ASSUME NEW x \in Children[e], x \in AllQueued \cup Called PROVE FALSE
  <2>1. x \notin Roots
    BY ZenonT(30), <1>1, <1>3, EngineAssumption
  <2>2. PICK g \in Called : x \in Children[g]
    BY ZenonT(30), <1>3, <2>1 DEF Once
  <2>3. g \in Events
    BY SMTT(30) DEF Called, Types, TypeOK
  <2> QED BY ZenonT(30), <1>1, <1>3, <2>2, <2>3, EngineAssumption
<1> QED BY ZenonT(30), <1>1, <1>2, <1>3

-----------------------------------------------------------------------------
(* The goroutine of Run. *)

\* Sorted and Once when no queue and no goroutine changes.
LEMMA SameWork ==
    ASSUME Sorted, Once, UNCHANGED <<workVars, queues>>
    PROVE  Sorted' /\ Once' /\ AllQueued' = AllQueued /\ Called' = Called
<1>1. /\ queues' = queues /\ running' = running /\ todo' = todo /\ held' = held
      /\ pushing' = pushing /\ finished' = finished
  BY ZenonT(30) DEF workVars
<1>2. AllQueued' = AllQueued /\ Called' = Called
  BY SMTT(30), <1>1 DEF AllQueued, Queued, Called
<1>3. Sorted'
  BY ZenonT(30), <1>1 DEF Sorted
<1>4. Once'
  BY ZenonT(30), <1>1, <1>2 DEF Once, ToCome, Holds
<1> QED BY ZenonT(30), <1>2, <1>3, <1>4

\* The steps of Run that only move on: Return, Wait.
LEMMA PhaseStep ==
    ASSUME EngineInv, Return \/ Wait
    PROVE  EngineInv'
<1>0. Types /\ Sorted /\ Once /\ Holders /\ Round
  BY ZenonT(30) DEF EngineInv
<1>1. /\ pc \in {"pick", "wait"} /\ pc' \in {"pick", "returned"} /\ running = {}
      /\ now' = now /\ round' = round /\ next' = next /\ queueChan' = queueChan
      /\ UNCHANGED <<workVars, queues>>
  BY ZenonT(30), <1>0 DEF Return, Wait, AllDone, Round
<1>2. /\ queues' = queues /\ running' = running /\ todo' = todo /\ held' = held
      /\ pushing' = pushing /\ finished' = finished
  BY ZenonT(30), <1>1 DEF workVars
<1>3. Types'
  BY ZenonT(30), <1>0, <1>1, <1>2 DEF Types, TypeOK
<1>4. Sorted' /\ Once' /\ AllQueued' = AllQueued
  BY ZenonT(30), <1>0, <1>1, SameWork
<1>5. \A k \in Kinds : MainHolds(k)' = MainHolds(k)
  BY ZenonT(30), <1>1 DEF MainHolds
<1>6. Holders'
  BY SMTT(30), <1>0, <1>1, <1>2, <1>5 DEF Holders, Holder, Taken, Holds
<1>7. Round'
  BY ZenonT(30), <1>0, <1>1, <1>2, <1>4 DEF Round
<1> QED BY ZenonT(30), <1>3, <1>4, <1>6, <1>7 DEF EngineInv

\* determineWhatToRun picks a time that no queued event precedes, and a round of secondary
\* events only when every primary event is strictly later.
LEMMA PickStep ==
    ASSUME EngineInv, determineWhatToRun
    PROVE  EngineInv'
<1>0. Types /\ Sorted /\ Once /\ Holders /\ Round
  BY ZenonT(30) DEF EngineInv
<1> DEFINE P == Queued("primary")
           S == Queued("secondary")
<1>1. /\ pc = "pick" /\ pc' = "empty" /\ running = {} /\ next' = next
      /\ queueChan' = queueChan /\ UNCHANGED <<workVars, queues>>
  BY ZenonT(30), <1>0 DEF determineWhatToRun, Round
<1>2. /\ queues' = queues /\ running' = running /\ todo' = todo /\ held' = held
      /\ pushing' = pushing /\ finished' = finished
  BY ZenonT(30), <1>1 DEF workVars
<1>3. P \subseteq Events /\ S \subseteq Events /\ AllQueued = P \cup S /\ Time \in [Events -> Nat]
  BY SMTT(30), <1>0, EngineAssumption DEF Types, TypeOK, AllQueued, Queued, Kinds
<1>4. /\ round' \in Kinds /\ now' \in Nat
      /\ \A x \in AllQueued : Time[x] >= now'
      /\ round' = "secondary" => \A x \in P : Time[x] > now'
  <2>1. PICK e \in Earliest(Queued(round')) : now' = Time[e]
    BY ZenonT(30) DEF determineWhatToRun
  <2>2. CASE round' = "primary"
    <3>1. NoLater(P, S)
      BY ZenonT(30), <2>2 DEF determineWhatToRun
    <3>2. e \in P /\ \A x \in P : Time[e] <= Time[x]
      BY ZenonT(30), <2>1, <2>2 DEF Earliest
    <3>3. ASSUME NEW x \in S PROVE Time[e] <= Time[x]
      <4>1. PICK b \in Earliest(S) : Time[b] <= Time[x]
        BY ZenonT(30), <1>3, FrontExists
      <4>2. PICK a \in P : Time[a] <= Time[b]
        BY ZenonT(30), <3>1, <4>1 DEF NoLater
      <4>3. Time[e] <= Time[a] /\ b \in S
        BY ZenonT(30), <3>2, <4>1, <4>2 DEF Earliest
      <4> QED BY SMTT(30), <1>3, <3>2, <4>1, <4>2, <4>3
    <3> QED BY ZenonT(30), <1>3, <2>1, <2>2, <3>2, <3>3 DEF Kinds
  <2>3. CASE round' # "primary"
    <3>1. ~NoLater(P, S) /\ round' = "secondary"
      BY ZenonT(30), <2>3 DEF determineWhatToRun
    <3>2. e \in S /\ \A x \in S : Time[e] <= Time[x]
      BY ZenonT(30), <2>1, <3>1 DEF Earliest
    <3>3. PICK b \in Earliest(S) : \A a \in P : ~(Time[a] <= Time[b])
      BY ZenonT(30), <3>1 DEF NoLater
    <3>4. b \in S /\ Time[e] <= Time[b]
      BY ZenonT(30), <3>2, <3>3 DEF Earliest
    <3>5. \A a \in P : Time[a] > Time[e]
      BY SMTT(30), <1>3, <3>2, <3>3, <3>4
    <3> QED BY SMTT(30), <1>3, <2>1, <3>1, <3>2, <3>5 DEF Kinds
  <2> QED BY ZenonT(30), <2>2, <2>3
<1>5. Types'
  BY ZenonT(30), <1>0, <1>1, <1>2, <1>4 DEF Types, TypeOK
<1>6. Sorted' /\ Once' /\ AllQueued' = AllQueued
  BY ZenonT(30), <1>0, <1>1, SameWork
<1>7. \A k \in Kinds : MainHolds(k)' = MainHolds(k)
  BY ZenonT(30), <1>1 DEF MainHolds
<1>8. Holders'
  BY SMTT(30), <1>0, <1>1, <1>2, <1>7 DEF Holders, Holder, Taken, Holds
<1>9. Round'
  <2>1. Queued("primary")' = P
    BY ZenonT(30), <1>2 DEF Queued
  <2> QED BY ZenonT(30), <1>1, <1>2, <1>4, <1>6, <2>1 DEF Round
<1> QED BY ZenonT(30), <1>5, <1>6, <1>8, <1>9 DEF EngineInv

\* Run takes all queues of the round out of the channel.
LEMMA EmptyStep ==
    ASSUME EngineInv, emptyQueueChan
    PROVE  EngineInv'
<1>0. Types /\ Sorted /\ Once /\ Holders /\ Round
  BY ZenonT(30) DEF EngineInv
<1>1. /\ pc = "empty" /\ pc' = "search" /\ running = {} /\ next' = 1 /\ now' = now
      /\ round' = round /\ queueChan' = [queueChan EXCEPT ![round] = <<>>]
      /\ UNCHANGED <<workVars, queues>>
  BY ZenonT(30), <1>0 DEF emptyQueueChan, Round
<1>2. /\ queues' = queues /\ running' = running /\ todo' = todo /\ held' = held
      /\ pushing' = pushing /\ finished' = finished
  BY ZenonT(30), <1>1 DEF workVars
<1>3. round \in Kinds /\ NumQueues \in Nat /\ NumQueues >= 1
  BY SMTT(30), <1>0, QueueAssumption DEF Types, TypeOK
<1>4. Types'
  <2>1. \A k \in Kinds : queueChan'[k] \in Seq(Queues)
    BY SMTT(30), <1>0, <1>1 DEF Types, TypeOK
  <2>2. DOMAIN queueChan' = Kinds /\ next' \in Queues
    BY SMTT(30), <1>0, <1>1, <1>3 DEF Types, Queues
  <2> QED BY ZenonT(30), <1>0, <1>1, <1>2, <2>1, <2>2 DEF Types, TypeOK
<1>5. Sorted' /\ Once' /\ AllQueued' = AllQueued
  BY ZenonT(30), <1>0, <1>1, SameWork
<1>6. Holders'
  <2> SUFFICES ASSUME NEW k \in Kinds PROVE Holder(k)'
    BY ZenonT(30) DEF Holders
  <2>1. \A e \in Events : ~Taken(k, e)'
    BY ZenonT(30), <1>0, <1>1, <1>2 DEF Once, Taken, Holds
  <2>2. CASE k = round
    <3>1. queueChan'[k] = <<>> /\ MainHolds(k)' = Queues
      BY ZenonT(30), <1>0, <1>1, <2>2 DEF MainHolds, Types, Queues
    <3> QED BY SMTT(30), <2>1, <3>1 DEF Holder
  <2>3. CASE k # round
    <3>1. queueChan'[k] = queueChan[k] /\ MainHolds(k)' = MainHolds(k)
      BY ZenonT(30), <1>0, <1>1, <2>3 DEF MainHolds, Types
    <3>2. \A e \in Events : ~Taken(k, e)
      BY ZenonT(30), <1>0, <1>1 DEF Once, Taken, Holds
    <3> QED BY SMTT(30), <1>0, <2>1, <3>1, <3>2 DEF Holders, Holder
  <2> QED BY ZenonT(30), <2>2, <2>3
<1>7. Round'
  <2>1. Queued("primary")' = Queued("primary")
    BY ZenonT(30), <1>2 DEF Queued
  <2> QED BY ZenonT(30), <1>0, <1>1, <1>2, <1>5, <2>1 DEF Round
<1> QED BY ZenonT(30), <1>4, <1>5, <1>6, <1>7 DEF EngineInv

\* A goroutine is started for an event that is due.  The searched queue is in the hands of
\* Run, so the event is not a child of an event of this round.
LEMMA StartStep ==
    ASSUME EngineInv, NEW e \in Events, runEventWithTempWorker(e)
    PROVE  /\ EngineInv'
           /\ e \in AllQueued /\ AllQueued' = AllQueued \ {e} /\ running' = running \cup {e}
           /\ \A r \in running : e \notin Children[r]
           /\ finished' = finished
<1>0. Types /\ Sorted /\ Once /\ Holders /\ Round
  BY ZenonT(30) DEF EngineInv
<1>1. /\ pc = "search" /\ e \in queues[round][next] /\ Time[e] = now
      /\ \A f \in queues[round][next] : Time[e] <= Time[f]
      /\ queues' = [queues EXCEPT ![round][next] = @ \ {e}]
      /\ running' = running \cup {e} /\ todo' = [todo EXCEPT ![e] = Children[e]]
      /\ now' = now /\ pc' = pc /\ round' = round /\ next' = next
      /\ held' = held /\ pushing' = pushing /\ finished' = finished /\ queueChan' = queueChan
  BY ZenonT(30) DEF runEventWithTempWorker, Earliest, mainVars
<1>2. /\ round \in Kinds /\ next \in Queues /\ queues \in [Kinds -> [Queues -> SUBSET Events]]
      /\ todo \in [Events -> SUBSET Events] /\ held \in [Events -> Queues \cup {NoQueue}]
      /\ NumQueues \in Nat
  BY ZenonT(30), <1>0, QueueAssumption DEF Types, TypeOK
<1>3. /\ queues' \in [Kinds -> [Queues -> SUBSET Events]]
      /\ \A k \in Kinds, q \in Queues : queues'[k][q] = IF k = round /\ q = next
                                                        THEN queues[k][q] \ {e} ELSE queues[k][q]
  BY ZenonT(30), <1>1, <1>2
<1>4. e \in AllQueued
  BY ZenonT(30), <1>1, <1>2, InQueues
<1>5. AllQueued' = AllQueued \ {e}
  <2>1. \A k \in Kinds, q \in Queues : e \in queues[k][q] => k = round /\ q = next
    BY SMTT(30), <1>0, <1>1, <1>2 DEF Sorted
  <2>2. ASSUME NEW x PROVE x \in AllQueued' <=> x \in AllQueued \ {e}
    BY SMTT(30), <1>1, <1>2, <1>3, <2>1, InQueues, InQueuesAfter
  <2> QED BY ZenonT(30), <2>2
<1>6. /\ e \notin Called /\ e \notin Children[e] /\ Children[e] \subseteq Events
      /\ Children[e] \cap (AllQueued \cup Called) = {}
  BY ZenonT(30), <1>0, <1>4, ChildrenFresh
<1>7. \A r \in running : e \notin Children[r]
  <2>1. next \in MainHolds(round)
    BY SMTT(30), <1>1, <1>2 DEF MainHolds, Queues
  <2> QED BY ZenonT(30), <1>0, <1>1, <2>1 DEF Round
<1>8. Called' = Called \cup {e} /\ running \subseteq Called
  BY ZenonT(30), <1>1 DEF Called
<1>9. Types'
  BY ZenonT(30), <1>0, <1>1, <1>2, <1>3, <1>6 DEF Types, TypeOK
<1>10. Sorted'
  <2>1. \A k \in Kinds, q \in Queues : queues'[k][q] \subseteq queues[k][q]
    BY ZenonT(30), <1>3
  <2> QED BY SMTT(30), <1>0, <2>1 DEF Sorted, KindOf
<1>11. Once'
  <2>1. held[e] = NoQueue /\ todo'[e] = Children[e] /\ \A f \in Events \ {e} : todo'[f] = todo[f]
    BY SMTT(30), <1>0, <1>1, <1>2, <1>6, <1>8 DEF Once
  <2>2. ToCome(e)' = Children[e]
    BY ZenonT(30), <1>1, <2>1 DEF ToCome, Holds
  <2>3. \A f \in Events \ {e} : ToCome(f)' = ToCome(f)
    BY ZenonT(30), <1>1, <2>1 DEF ToCome, Holds
  <2>4. AllQueued' \cap Called' = {}
    BY ZenonT(30), <1>0, <1>5, <1>8 DEF Once
  <2>5. \A x \in AllQueued' \cup Called' : x \in Roots \/ \E g \in Called' : x \in Children[g]
    BY SMTT(30), <1>0, <1>4, <1>5, <1>8 DEF Once
  <2>6. \A f \in Events \ running' : todo'[f] = {} /\ held'[f] = NoQueue
    BY ZenonT(30), <1>0, <1>1, <2>1 DEF Once
  <2>7. ASSUME NEW f \in running' PROVE
          /\ ToCome(f)' \subseteq Children[f] /\ Children[f] \subseteq AllQueued' \cup ToCome(f)'
          /\ ToCome(f)' \cap (AllQueued' \cup Called') = {}
          /\ Holds(f)' => pushing'[f] \notin todo'[f]
    <3>1. CASE f = e
      BY SMTT(30), <1>1, <1>5, <1>6, <1>8, <2>1, <2>2, <3>1 DEF Holds
    <3>2. CASE f # e
      <4>1. f \in running /\ f \in Events
        BY ZenonT(30), <1>0, <1>1, <3>2 DEF Types, TypeOK
      <4>2. /\ ToCome(f) \subseteq Children[f] /\ Children[f] \subseteq AllQueued \cup ToCome(f)
            /\ ToCome(f) \cap (AllQueued \cup Called) = {}
            /\ Holds(f) => pushing[f] \notin todo[f]
        BY ZenonT(30), <1>0, <4>1 DEF Once
      <4>3. ToCome(f)' = ToCome(f) /\ e \notin Children[f] /\ todo'[f] = todo[f]
        BY ZenonT(30), <1>7, <2>1, <2>3, <3>2, <4>1
      <4> QED BY SMTT(30), <1>1, <1>4, <1>5, <1>8, <4>2, <4>3 DEF Holds
    <3> QED BY ZenonT(30), <3>1, <3>2
  <2> QED BY ZenonT(30), <2>4, <2>5, <2>6, <2>7 DEF Once
<1>12. \A k \in Kinds : MainHolds(k)' = MainHolds(k)
  BY ZenonT(30), <1>1 DEF MainHolds
<1>13. Holders'
  BY SMTT(40), <1>0, <1>1, <1>12 DEF Holders, Holder, Taken, Holds
<1>14. Round'
  <2>1. KindOf(e) = round
    BY ZenonT(30), <1>0, <1>1, <1>2 DEF Sorted
  <2>2. \A x \in Queued("primary")' : x \in Queued("primary")
    <3>1. \A q \in Queues : queues'["primary"][q] \subseteq queues["primary"][q]
      BY ZenonT(30), <1>3 DEF Kinds
    <3> QED BY ZenonT(30), <3>1 DEF Queued
  <2>3. ASSUME NEW f \in running', NEW q \in MainHolds(round)
        PROVE  Children[f] \cap queues'[round][q] = {}
    <3>1. q \in Queues
      BY SMTT(30), <1>1, <1>2 DEF MainHolds, Queues
    <3>2. queues'[round][q] \subseteq queues[round][q] /\ queues[round][q] \subseteq AllQueued
      BY ZenonT(30), <1>2, <1>3, <3>1, InQueues
    <3> QED BY ZenonT(30), <1>0, <1>1, <1>6, <3>2 DEF Round
  <2>4. running' # {} => pc' \in {"search", "wait"}
    BY ZenonT(30), <1>1
  <2>5. \A f \in running' : Time[f] = now' /\ KindOf(f) = round'
    BY ZenonT(30), <1>0, <1>1, <2>1 DEF Round
  <2>6. \A x \in AllQueued' : Time[x] >= now'
    BY ZenonT(30), <1>0, <1>1, <1>5 DEF Round
  <2>7. (pc' \in {"empty", "search", "wait"} /\ round' = "secondary")
          => \A x \in Queued("primary")' : Time[x] > now'
    BY ZenonT(30), <1>0, <1>1, <2>2 DEF Round
  <2>8. \A f \in running' : \A q \in MainHolds(round)' : Children[f] \cap queues'[round'][q] = {}
    BY SMTT(30), <1>1, <1>2, <1>12, <2>3 DEF MainHolds
  <2> QED BY ZenonT(30), <2>4, <2>5, <2>6, <2>7, <2>8 DEF Round, MainHolds
<1> QED BY ZenonT(30), <1>1, <1>4, <1>5, <1>7, <1>9, <1>10, <1>11, <1>13, <1>14 DEF EngineInv

\* A queue that was searched goes back into the channel.
LEMMA GiveStep ==
    ASSUME EngineInv, ReturnQueue
    PROVE  EngineInv'
<1>0. Types /\ Sorted /\ Once /\ Holders /\ Round
  BY ZenonT(30) DEF EngineInv
<1>1. /\ pc = "search" /\ pc' \in {"search", "wait"} /\ now' = now /\ round' = round
      /\ queueChan' = [queueChan EXCEPT ![round] = Append(@, next)]
      /\ IF next = NumQueues THEN pc' = "wait" /\ next' = next
                             ELSE next' = next + 1 /\ pc' = "search"
      /\ UNCHANGED <<workVars, queues>>
  BY ZenonT(30) DEF ReturnQueue, LastSearched
<1>2. /\ queues' = queues /\ running' = running /\ todo' = todo /\ held' = held
      /\ pushing' = pushing /\ finished' = finished
  BY ZenonT(30), <1>1 DEF workVars
<1>3. /\ round \in Kinds /\ NumQueues \in Nat /\ next \in 1..NumQueues
      /\ queueChan[round] \in Seq(Queues) /\ DOMAIN queueChan = Kinds
  BY ZenonT(30), <1>0, QueueAssumption DEF Types, TypeOK, Queues
<1>4. /\ queueChan'[round] = Append(queueChan[round], next) /\ DOMAIN queueChan' = Kinds
      /\ \A k \in Kinds \ {round} : queueChan'[k] = queueChan[k]
  BY ZenonT(30), <1>1, <1>3
<1>5. Types'
  <2>1. \A k \in Kinds : queueChan'[k] \in Seq(Queues)
    <3>1. Append(queueChan[round], next) \in Seq(Queues)
      BY SMTT(30), <1>3 DEF Queues
    <3> QED BY ZenonT(30), <1>0, <1>4, <3>1 DEF Types, TypeOK
  <2>2. next' \in Queues
    BY SMTT(30), <1>1, <1>3 DEF Queues
  <2> QED BY ZenonT(30), <1>0, <1>1, <1>2, <1>4, <2>1, <2>2 DEF Types, TypeOK
<1>6. Sorted' /\ Once' /\ AllQueued' = AllQueued
  BY ZenonT(30), <1>0, <1>1, SameWork
<1>7. next \in MainHolds(round) /\ MainHolds(round)' = MainHolds(round) \ {next}
  BY SMTT(30), <1>1, <1>3 DEF MainHolds
<1>8. \A k \in Kinds \ {round} : MainHolds(k)' = MainHolds(k)
  BY ZenonT(30), <1>1 DEF MainHolds
<1>9. Holders'
  <2> SUFFICES ASSUME NEW k \in Kinds PROVE Holder(k)'
    BY ZenonT(30) DEF Holders
  <2>0. Holder(k)
    BY ZenonT(30), <1>0 DEF Holders
  <2>1. \A e \in Events : Taken(k, e)' <=> Taken(k, e)
    BY ZenonT(30), <1>2 DEF Taken, Holds
  <2>2. CASE k # round
    BY SMTT(30), <1>2, <1>4, <1>8, <2>0, <2>1, <2>2 DEF Holder
  <2>3. CASE k = round
    <3> DEFINE c == queueChan[k]
               n == Len(c) + 1
    <3>1. /\ DOMAIN queueChan'[k] = DOMAIN c \cup {n} /\ n \notin DOMAIN c
          /\ queueChan'[k][n] = next /\ \A i \in DOMAIN c : queueChan'[k][i] = c[i]
      <4>1. c \in Seq(Queues) /\ next \in Queues /\ queueChan'[k] = Append(c, next)
        BY ZenonT(30), <1>3, <1>4, <2>3 DEF Queues
      <4> HIDE DEF c
      <4> QED BY SMTT(30), <4>1, Sent
    <3>2. next \in MainHolds(k) /\ MainHolds(k)' = MainHolds(k) \ {next}
      BY SMTT(30), <1>1, <1>3, <2>3 DEF MainHolds
    <3> HIDE DEF n
    <3>3. \A i, j \in DOMAIN queueChan'[k] : queueChan'[k][i] = queueChan'[k][j] => i = j
      BY ZenonT(30), <2>0, <3>1, <3>2 DEF Holder
    <3>4. \A i \in DOMAIN queueChan'[k] : queueChan'[k][i] \notin MainHolds(k)'
      BY ZenonT(30), <2>0, <3>1, <3>2 DEF Holder
    <3>5. ASSUME NEW e \in Events, Taken(k, e)
          PROVE  /\ held[e] \notin MainHolds(k)'
                 /\ \A i \in DOMAIN queueChan'[k] : queueChan'[k][i] # held[e]
      BY SMTT(30), <2>0, <3>1, <3>2, <3>5 DEF Holder
    <3>6. ASSUME NEW q \in Queues
          PROVE  \/ q \in MainHolds(k)'
                 \/ \E i \in DOMAIN queueChan'[k] : queueChan'[k][i] = q
                 \/ \E e \in Events : Taken(k, e) /\ held[e] = q
      BY ZenonT(30), <2>0, <3>1, <3>2 DEF Holder
    <3> QED BY ZenonT(30), <1>2, <2>0, <2>1, <3>3, <3>4, <3>5, <3>6 DEF Holder
  <2> QED BY ZenonT(30), <2>2, <2>3
<1>10. Round'
  <2>1. Queued("primary")' = Queued("primary")
    BY ZenonT(30), <1>2 DEF Queued
  <2>2. MainHolds(round)' \subseteq MainHolds(round)
    BY ZenonT(30), <1>1, <1>7
  <2> QED BY ZenonT(30), <1>0, <1>1, <1>2, <1>6, <2>1, <2>2 DEF Round
<1> QED BY ZenonT(30), <1>5, <1>6, <1>9, <1>10 DEF EngineInv

-----------------------------------------------------------------------------
(* The goroutine of an event. *)

\* Schedule receives a queue from the channel: it is the goroutine's alone.
LEMMA TakeStep ==
    ASSUME EngineInv, NEW e \in Events, NEW c \in Events, TakeQueue(e, c)
    PROVE  EngineInv'
<1>0. Types /\ Sorted /\ Once /\ Holders /\ Round
  BY ZenonT(30) DEF EngineInv
<1> DEFINE kc == KindOf(c)
<1>1. /\ e \in running /\ held[e] = NoQueue /\ c \in todo[e] /\ queueChan[kc] # <<>>
      /\ held' = [held EXCEPT ![e] = Head(queueChan[kc])]
      /\ pushing' = [pushing EXCEPT ![e] = c]
      /\ todo' = [todo EXCEPT ![e] = @ \ {c}]
      /\ queueChan' = [queueChan EXCEPT ![kc] = Tail(@)]
      /\ now' = now /\ pc' = pc /\ round' = round /\ next' = next
      /\ running' = running /\ finished' = finished /\ queues' = queues
  BY ZenonT(30) DEF TakeQueue, mainVars
<1>2. /\ kc \in Kinds /\ queueChan[kc] \in Seq(Queues) /\ DOMAIN queueChan = Kinds
      /\ held \in [Events -> Queues \cup {NoQueue}] /\ pushing \in [Events -> Events]
      /\ todo \in [Events -> SUBSET Events]
  BY ZenonT(30), <1>0 DEF Types, TypeOK, KindOf, Kinds
<1> HIDE DEF kc
<1>3. /\ queueChan'[kc] = Tail(queueChan[kc]) /\ DOMAIN queueChan' = Kinds
      /\ \A k \in Kinds \ {kc} : queueChan'[k] = queueChan[k]
  BY ZenonT(30), <1>1, <1>2
<1>4. /\ Tail(queueChan[kc]) \in Seq(Queues) /\ Head(queueChan[kc]) \in Queues
      /\ 1 \in DOMAIN queueChan[kc] /\ Head(queueChan[kc]) = queueChan[kc][1]
  BY ZenonT(30), <1>1, <1>2, Received
<1>5. Head(queueChan[kc]) # NoQueue
  BY SMTT(30), <1>4, QueueAssumption DEF Queues, NoQueue
<1>6. /\ held'[e] = Head(queueChan[kc]) /\ pushing'[e] = c /\ todo'[e] = todo[e] \ {c}
      /\ \A f \in Events \ {e} : held'[f] = held[f] /\ pushing'[f] = pushing[f] /\ todo'[f] = todo[f]
  BY ZenonT(30), <1>1, <1>2
<1>7. Types'
  <2>1. \A k \in Kinds : queueChan'[k] \in Seq(Queues)
    BY ZenonT(30), <1>0, <1>3, <1>4 DEF Types, TypeOK
  <2>2. /\ held' \in [Events -> Queues \cup {NoQueue}] /\ pushing' \in [Events -> Events]
        /\ todo' \in [Events -> SUBSET Events]
    BY ZenonT(30), <1>1, <1>2, <1>4
  <2> QED BY ZenonT(30), <1>0, <1>1, <1>3, <2>1, <2>2 DEF Types, TypeOK
<1>8. AllQueued' = AllQueued /\ Called' = Called /\ Sorted'
  BY SMTT(30), <1>0, <1>1 DEF AllQueued, Queued, Called, Sorted, KindOf
<1>9. Once'
  <2>1. ToCome(e)' = ToCome(e) /\ Holds(e)' /\ ~Holds(e)
    BY ZenonT(30), <1>1, <1>5, <1>6 DEF ToCome, Holds
  <2>2. \A f \in Events \ {e} : ToCome(f)' = ToCome(f) /\ (Holds(f)' <=> Holds(f))
    BY ZenonT(30), <1>6 DEF ToCome, Holds
  <2>3. running \subseteq Events
    BY ZenonT(30), <1>0 DEF Types, TypeOK
  <2>4. \A f \in running' :
          /\ ToCome(f)' \subseteq Children[f] /\ Children[f] \subseteq AllQueued' \cup ToCome(f)'
          /\ ToCome(f)' \cap (AllQueued' \cup Called') = {}
    BY SMTT(30), <1>0, <1>1, <1>8, <2>1, <2>2, <2>3 DEF Once
  <2>5. \A f \in running' : Holds(f)' => pushing'[f] \notin todo'[f]
    BY SMTT(30), <1>0, <1>1, <1>6, <2>2, <2>3 DEF Once
  <2>6. \A f \in Events \ running' : todo'[f] = {} /\ held'[f] = NoQueue
    BY SMTT(30), <1>0, <1>1, <1>6 DEF Once
  <2>7. /\ AllQueued' \cap Called' = {}
        /\ \A x \in AllQueued' \cup Called' : x \in Roots \/ \E g \in Called' : x \in Children[g]
    BY ZenonT(30), <1>0, <1>8 DEF Once
  <2> QED BY ZenonT(30), <2>4, <2>5, <2>6, <2>7 DEF Once
<1>10. \A k \in Kinds : MainHolds(k)' = MainHolds(k)
  BY ZenonT(30), <1>1 DEF MainHolds
<1>11. Holders'
  <2> SUFFICES ASSUME NEW k \in Kinds PROVE Holder(k)'
    BY ZenonT(30) DEF Holders
  <2>0. Holder(k)
    BY ZenonT(30), <1>0 DEF Holders
  <2>1. \A f \in Events \ {e} : (Taken(k, f)' <=> Taken(k, f)) /\ held'[f] = held[f]
    BY ZenonT(30), <1>6 DEF Taken, Holds
  <2>2. ~Taken(k, e) /\ (Taken(k, e)' <=> k = kc)
    BY ZenonT(30), <1>1, <1>5, <1>6 DEF Taken, Holds, kc
  <2>3. CASE k # kc
    <3>1. queueChan'[k] = queueChan[k] /\ MainHolds(k)' = MainHolds(k)
      BY ZenonT(30), <1>3, <1>10, <2>3
    <3> QED BY SMTT(30), <2>0, <2>1, <2>2, <2>3, <3>1 DEF Holder
  <2>4. CASE k = kc
    <3> DEFINE ch == queueChan[k]
    <3>1. /\ \A i \in DOMAIN queueChan'[k] : i + 1 \in DOMAIN ch \ {1} /\ queueChan'[k][i] = ch[i + 1]
          /\ \A j \in DOMAIN ch \ {1} : j - 1 \in DOMAIN queueChan'[k] /\ queueChan'[k][j - 1] = ch[j]
          /\ DOMAIN queueChan'[k] \subseteq Nat
      BY SMTT(30), <1>1, <1>2, <1>3, <2>4, Received
    <3>2. held'[e] = ch[1] /\ 1 \in DOMAIN ch /\ MainHolds(k)' = MainHolds(k) /\ Taken(k, e)'
      BY ZenonT(30), <1>4, <1>6, <1>10, <2>2, <2>4
    <3>3. \A i, j \in DOMAIN queueChan'[k] : queueChan'[k][i] = queueChan'[k][j] => i = j
      BY SMTT(30), <2>0, <3>1 DEF Holder
    <3>4. \A i \in DOMAIN queueChan'[k] :
             queueChan'[k][i] \notin MainHolds(k) /\ queueChan'[k][i] # ch[1]
      BY SMTT(30), <2>0, <3>1, <3>2 DEF Holder
    <3>5. ch[1] \notin MainHolds(k) /\ \A f \in Events \ {e} : Taken(k, f) => held[f] # ch[1]
      BY ZenonT(30), <2>0, <3>2 DEF Holder
    <3>6. ASSUME NEW f \in Events, Taken(k, f)'
          PROVE  /\ held'[f] \notin MainHolds(k)
                 /\ \A i \in DOMAIN queueChan'[k] : queueChan'[k][i] # held'[f]
                 /\ \A g \in Events : Taken(k, g)' /\ held'[g] = held'[f] => g = f
      <4>1. CASE f = e
        BY ZenonT(30), <2>1, <3>2, <3>4, <3>5, <4>1
      <4>2. CASE f # e
        BY SMTT(30), <2>0, <2>1, <3>1, <3>2, <3>5, <3>6, <4>2 DEF Holder
      <4> QED BY ZenonT(30), <4>1, <4>2
    <3>7. ASSUME NEW q \in Queues
          PROVE  \/ q \in MainHolds(k)
                 \/ \E i \in DOMAIN queueChan'[k] : queueChan'[k][i] = q
                 \/ \E f \in Events : Taken(k, f)' /\ held'[f] = q
      <4>1. CASE \E i \in DOMAIN ch : ch[i] = q
        BY ZenonT(30), <3>1, <3>2, <4>1
      <4>2. CASE \E f \in Events : Taken(k, f) /\ held[f] = q
        BY ZenonT(30), <2>1, <2>2, <4>2
      <4> QED BY ZenonT(30), <2>0, <4>1, <4>2 DEF Holder
    <3> QED BY SMTT(30), <3>2, <3>3, <3>4, <3>6, <3>7 DEF Holder
  <2> QED BY ZenonT(30), <2>3, <2>4
<1>12. Round'
  <2>1. Queued("primary")' = Queued("primary")
    BY ZenonT(30), <1>1 DEF Queued
  <2>2. MainHolds(round)' = MainHolds(round)
    BY ZenonT(30), <1>1 DEF MainHolds
  <2> QED BY SMTT(30), <1>0, <1>1, <1>8, <2>1, <2>2 DEF Round, KindOf
<1> QED BY ZenonT(30), <1>7, <1>8, <1>9, <1>11, <1>12 DEF EngineInv

\* Schedule pushes its event and gives the queue back.  Run is not searching that queue; a
\* secondary event adds a primary one only for a later time, so that the round stays right.
LEMMA PushStep ==
    ASSUME EngineInv, NEW e \in Events, PushAndReturn(e)
    PROVE  /\ EngineInv'
           /\ e \in running /\ pushing[e] \in Children[e]
           /\ AllQueued' = AllQueued \cup {pushing[e]}
           /\ running' = running /\ finished' = finished
<1>0. Types /\ Sorted /\ Once /\ Holders /\ Round
  BY ZenonT(30) DEF EngineInv
<1> DEFINE c == pushing[e]
           q == held[e]
           kc == KindOf(c)
<1>1. /\ held[e] # NoQueue
      /\ queues' = [queues EXCEPT ![kc][q] = @ \cup {c}]
      /\ queueChan' = [queueChan EXCEPT ![kc] = Append(@, q)]
      /\ held' = [held EXCEPT ![e] = NoQueue]
      /\ pushing' = [pushing EXCEPT ![e] = e]
      /\ now' = now /\ pc' = pc /\ round' = round /\ next' = next
      /\ running' = running /\ finished' = finished /\ todo' = todo
  BY ZenonT(30) DEF PushAndReturn, GivenBack, mainVars
<1>2. /\ kc \in Kinds /\ queueChan[kc] \in Seq(Queues) /\ DOMAIN queueChan = Kinds
      /\ held \in [Events -> Queues \cup {NoQueue}] /\ pushing \in [Events -> Events]
      /\ queues \in [Kinds -> [Queues -> SUBSET Events]] /\ running \subseteq Events
      /\ q \in Queues /\ c \in Events
  BY ZenonT(30), <1>0, <1>1 DEF Types, TypeOK, KindOf, Kinds
<1>3. /\ e \in running /\ c \in ToCome(e) /\ c \in Children[e] /\ c \notin AllQueued
      /\ c \notin Called /\ c \notin todo[e] /\ Holds(e) /\ Taken(kc, e)
  BY ZenonT(30), <1>0, <1>1 DEF Once, ToCome, Holds, Taken
<1>4. Time[c] >= now /\ (round = "secondary" /\ kc = "primary" => Time[c] > now) /\ KindOf(e) = round
  BY SMTT(30), <1>0, <1>3, EngineAssumption DEF Round, KindOf
<1> HIDE DEF c, q, kc
<1>5. /\ queues' \in [Kinds -> [Queues -> SUBSET Events]]
      /\ \A k \in Kinds, p \in Queues : queues'[k][p] = IF k = kc /\ p = q
                                                        THEN queues[k][p] \cup {c} ELSE queues[k][p]
  BY ZenonT(30), <1>1, <1>2
<1>6. /\ queueChan'[kc] = Append(queueChan[kc], q) /\ DOMAIN queueChan' = Kinds
      /\ \A k \in Kinds \ {kc} : queueChan'[k] = queueChan[k]
  BY ZenonT(30), <1>1, <1>2
<1>7. /\ held'[e] = NoQueue /\ pushing'[e] = e
      /\ \A f \in Events \ {e} : held'[f] = held[f] /\ pushing'[f] = pushing[f]
  BY ZenonT(30), <1>1, <1>2
<1>8. AllQueued' = AllQueued \cup {c} /\ Called' = Called
  <2>1. /\ \A k \in Kinds, p \in Queues : queues[k][p] \subseteq queues'[k][p]
        /\ \A k \in Kinds, p \in Queues : queues'[k][p] \subseteq queues[k][p] \cup {c}
        /\ c \in queues'[kc][q]
    BY ZenonT(30), <1>2, <1>5
  <2>2. \A x : x \in AllQueued' => x \in AllQueued \cup {c}
    BY ZenonT(30), <2>1, InQueues, InQueuesAfter
  <2>3. \A x : x \in AllQueued \cup {c} => x \in AllQueued'
    BY SMTT(30), <1>2, <2>1, InQueues, InQueuesAfter
  <2> QED BY ZenonT(30), <1>1, <2>2, <2>3 DEF Called
<1>9. Types'
  <2>1. \A k \in Kinds : queueChan'[k] \in Seq(Queues)
    <3>1. Append(queueChan[kc], q) \in Seq(Queues)
      BY SMTT(30), <1>2
    <3> QED BY ZenonT(30), <1>0, <1>6, <3>1 DEF Types, TypeOK
  <2>2. held' \in [Events -> Queues \cup {NoQueue}] /\ pushing' \in [Events -> Events]
    BY ZenonT(30), <1>1, <1>2
  <2> QED BY ZenonT(30), <1>0, <1>1, <1>5, <1>6, <2>1, <2>2 DEF Types, TypeOK
<1>10. Sorted'
  <2>1. \A k \in Kinds, p \in Queues : c \notin queues[k][p]
    BY ZenonT(30), <1>3, InQueues
  <2>2. KindOf(c) = kc
    BY ZenonT(30) DEF kc
  <2>3. \A k \in Kinds, p \in Queues : \A x \in queues'[k][p] :
           KindOf(x) = k /\ \A r \in Queues : x \in queues'[k][r] => r = p
    <3> SUFFICES ASSUME NEW k \in Kinds, NEW p \in Queues, NEW x \in queues'[k][p]
                 PROVE  KindOf(x) = k /\ \A r \in Queues : x \in queues'[k][r] => r = p
      OBVIOUS
    <3>1. CASE x = c
      <4>1. k = kc /\ p = q
        BY ZenonT(30), <1>5, <2>1, <3>1
      <4>2. \A r \in Queues : x \in queues'[k][r] => r = q
        BY ZenonT(30), <1>5, <2>1, <3>1
      <4> QED BY ZenonT(30), <2>2, <3>1, <4>1, <4>2
    <3>2. CASE x # c
      <4>1. \A r \in Queues : x \in queues'[k][r] => x \in queues[k][r]
        BY ZenonT(30), <1>5, <3>2
      <4> QED BY ZenonT(30), <1>0, <4>1 DEF Sorted
    <3> QED BY ZenonT(30), <3>1, <3>2
  <2> QED BY ZenonT(30), <2>3 DEF Sorted, KindOf
<1>11. Once'
  <2>1. ToCome(e)' = todo[e] /\ ToCome(e) = todo[e] \cup {c} /\ ~Holds(e)'
    BY ZenonT(30), <1>1, <1>3, <1>7 DEF ToCome, Holds, c
  <2>2. \A f \in Events \ {e} : ToCome(f)' = ToCome(f) /\ (Holds(f)' <=> Holds(f))
    BY ZenonT(30), <1>1, <1>7 DEF ToCome, Holds
  <2>3. ASSUME NEW f \in running'
        PROVE  /\ ToCome(f)' \subseteq Children[f] /\ Children[f] \subseteq AllQueued' \cup ToCome(f)'
               /\ ToCome(f)' \cap (AllQueued' \cup Called') = {}
               /\ Holds(f)' => pushing'[f] \notin todo'[f]
    <3>0. /\ f \in running /\ f \in Events
          /\ ToCome(f) \subseteq Children[f] /\ Children[f] \subseteq AllQueued \cup ToCome(f)
          /\ ToCome(f) \cap (AllQueued \cup Called) = {}
          /\ Holds(f) => pushing[f] \notin todo[f]
      BY ZenonT(30), <1>0, <1>1, <1>2 DEF Once
    <3>1. CASE f = e
      BY ZenonT(30), <1>3, <1>8, <2>1, <3>0, <3>1
    <3>2. CASE f # e
      <4>1. c \notin Children[f]
        BY ZenonT(30), <1>3, <3>0, <3>2, EngineAssumption
      <4> QED BY ZenonT(30), <1>1, <1>7, <1>8, <2>2, <3>0, <3>2, <4>1
    <3> QED BY ZenonT(30), <3>1, <3>2
  <2>4. \A f \in Events \ running' : todo'[f] = {} /\ held'[f] = NoQueue
    BY ZenonT(30), <1>0, <1>1, <1>3, <1>7 DEF Once
  <2>5. AllQueued' \cap Called' = {}
    BY SMTT(30), <1>0, <1>3, <1>8 DEF Once
  <2>6. \A x \in AllQueued' \cup Called' : x \in Roots \/ \E g \in Called' : x \in Children[g]
    <3>1. e \in Called
      BY ZenonT(30), <1>3 DEF Called
    <3> QED BY SMTT(30), <1>0, <1>3, <1>8, <3>1 DEF Once
  <2> QED BY ZenonT(30), <2>3, <2>4, <2>5, <2>6 DEF Once
<1>12. \A k \in Kinds : MainHolds(k)' = MainHolds(k)
  BY ZenonT(30), <1>1 DEF MainHolds
<1>13. Holders'
  <2> SUFFICES ASSUME NEW k \in Kinds PROVE Holder(k)'
    BY ZenonT(30) DEF Holders
  <2>0. Holder(k) /\ MainHolds(k)' = MainHolds(k)
    BY ZenonT(30), <1>0, <1>12 DEF Holders
  <2>1. \A f \in Events \ {e} : (Taken(k, f)' <=> Taken(k, f)) /\ held'[f] = held[f]
    BY ZenonT(30), <1>7 DEF Taken, Holds
  <2>2. ~Taken(k, e)' /\ (Taken(k, e) <=> k = kc)
    BY ZenonT(30), <1>3, <1>7 DEF Taken, Holds, kc, c
  <2>3. CASE k # kc
    <3>1. queueChan'[k] = queueChan[k]
      BY ZenonT(30), <1>6, <2>3
    <3> QED BY SMTT(30), <2>0, <2>1, <2>2, <2>3, <3>1 DEF Holder
  <2>4. CASE k = kc
    <3> DEFINE ch == queueChan[k]
               n == Len(ch) + 1
    <3>1. /\ DOMAIN queueChan'[k] = DOMAIN ch \cup {n} /\ n \notin DOMAIN ch
          /\ queueChan'[k][n] = q /\ \A i \in DOMAIN ch : queueChan'[k][i] = ch[i]
      <4>1. ch \in Seq(Queues) /\ queueChan'[k] = Append(ch, q)
        BY ZenonT(30), <1>2, <1>6, <2>4
      <4> HIDE DEF ch
      <4> QED BY SMTT(30), <1>2, <4>1, Sent
    <3> HIDE DEF n
    <3>2. held[e] = q /\ Taken(k, e)
      BY ZenonT(30), <2>2, <2>4 DEF q
    <3>3. q \notin MainHolds(k) /\ \A i \in DOMAIN ch : ch[i] # q
      BY ZenonT(30), <2>0, <3>2 DEF Holder
    <3>4. \A f \in Events \ {e} : Taken(k, f) => held[f] # q
      BY ZenonT(30), <2>0, <3>2 DEF Holder
    <3>5. /\ \A i, j \in DOMAIN queueChan'[k] : queueChan'[k][i] = queueChan'[k][j] => i = j
          /\ \A i \in DOMAIN queueChan'[k] : queueChan'[k][i] \notin MainHolds(k)
      BY ZenonT(30), <2>0, <3>1, <3>3 DEF Holder
    <3>6. ASSUME NEW f \in Events, Taken(k, f)'
          PROVE  /\ held'[f] \notin MainHolds(k)
                 /\ \A i \in DOMAIN queueChan'[k] : queueChan'[k][i] # held'[f]
                 /\ \A g \in Events : Taken(k, g)' /\ held'[g] = held'[f] => g = f
      BY SMTT(30), <2>0, <2>1, <2>2, <3>1, <3>4, <3>6 DEF Holder
    <3>7. ASSUME NEW p \in Queues
          PROVE  \/ p \in MainHolds(k)
                 \/ \E i \in DOMAIN queueChan'[k] : queueChan'[k][i] = p
                 \/ \E f \in Events : Taken(k, f)' /\ held'[f] = p
      BY ZenonT(30), <2>0, <2>1, <3>1, <3>2 DEF Holder
    <3> QED BY SMTT(30), <2>0, <3>5, <3>6, <3>7 DEF Holder
  <2> QED BY ZenonT(30), <2>3, <2>4
<1>14. Round'
  <2>1. \A x \in Queued("primary")' : x \in Queued("primary") \/ (x = c /\ kc = "primary")
    <3>1. \A p \in Queues : \A x \in queues'["primary"][p] :
             x \in queues["primary"][p] \/ (x = c /\ kc = "primary")
      BY ZenonT(30), <1>5 DEF Kinds
    <3> QED BY ZenonT(30), <3>1 DEF Queued
  <2>2. ASSUME NEW f \in running, NEW p \in MainHolds(round)
        PROVE  Children[f] \cap queues'[round][p] = {}
    <3>1. p \in Queues /\ round \in Kinds
      BY SMTT(30), <1>0, QueueAssumption DEF MainHolds, Queues, Types, TypeOK
    <3>2. round = kc => q \notin MainHolds(round)
      BY ZenonT(30), <1>0, <1>2, <1>3 DEF Holders, Holder, q
    <3>3. queues'[round][p] = queues[round][p]
      BY ZenonT(30), <1>5, <3>1, <3>2
    <3> QED BY ZenonT(30), <1>0, <3>3 DEF Round
  <2>3. \A f \in running' : \A p \in MainHolds(round)' : Children[f] \cap queues'[round'][p] = {}
    BY ZenonT(30), <1>1, <2>2 DEF MainHolds
  <2>4. \A x \in AllQueued' : Time[x] >= now'
    BY ZenonT(30), <1>0, <1>1, <1>4, <1>8 DEF Round
  <2>5. (pc' \in {"empty", "search", "wait"} /\ round' = "secondary")
          => \A x \in Queued("primary")' : Time[x] > now'
    BY ZenonT(30), <1>0, <1>1, <1>4, <2>1 DEF Round
  <2>6. (running' # {} => pc' \in {"search", "wait"})
        /\ \A f \in running' : Time[f] = now' /\ KindOf(f) = round'
    BY ZenonT(30), <1>0, <1>1 DEF Round
  <2> QED BY ZenonT(30), <2>3, <2>4, <2>5, <2>6 DEF Round, KindOf
<1> QED BY ZenonT(30), <1>1, <1>3, <1>8, <1>9, <1>10, <1>11, <1>13, <1>14 DEF EngineInv, c

\* The handler has returned: all that it schedules is in a queue.
LEMMA ReturnStep ==
    ASSUME EngineInv, NEW e \in Events, HandlerReturns(e)
    PROVE  /\ EngineInv'
           /\ e \in running /\ Children[e] \subseteq AllQueued /\ AllQueued' = AllQueued
           /\ running' = running \ {e} /\ finished' = Append(finished, e)
           /\ \A x \in AllQueued \cup running : Time[e] <= Time[x]
           /\ \A x \in AllQueued : e \in Secondary /\ x \notin Secondary => Time[e] < Time[x]
<1>0. Types /\ Sorted /\ Once /\ Holders /\ Round
  BY ZenonT(30) DEF EngineInv
<1>1. /\ e \in running /\ todo[e] = {} /\ held[e] = NoQueue
      /\ running' = running \ {e} /\ finished' = Append(finished, e)
      /\ now' = now /\ pc' = pc /\ round' = round /\ next' = next /\ todo' = todo
      /\ held' = held /\ pushing' = pushing /\ queues' = queues /\ queueChan' = queueChan
  BY ZenonT(30) DEF HandlerReturns, mainVars
<1>2. finished \in Seq(Events)
  BY ZenonT(30), <1>0 DEF Types
<1>3. AllQueued' = AllQueued /\ Sorted'
  BY SMTT(30), <1>0, <1>1 DEF AllQueued, Queued, Sorted, KindOf
<1>4. Called' = Called
  <2>1. {finished'[i] : i \in DOMAIN finished'} = {finished[i] : i \in DOMAIN finished} \cup {e}
    <3>1. /\ DOMAIN finished' = DOMAIN finished \cup {Len(finished) + 1}
          /\ finished'[Len(finished) + 1] = e
          /\ \A i \in DOMAIN finished : finished'[i] = finished[i]
      BY SMTT(30), <1>1, <1>2
    <3> QED BY SMTT(30), <3>1
  <2> QED BY ZenonT(30), <1>1, <2>1 DEF Called
<1>5. Types'
  BY SMTT(30), <1>0, <1>1, <1>2 DEF Types, TypeOK
<1>6. Once'
  BY ZenonT(30), <1>0, <1>1, <1>3, <1>4 DEF Once, ToCome, Holds
<1>7. \A k \in Kinds : MainHolds(k)' = MainHolds(k)
  BY ZenonT(30), <1>1 DEF MainHolds
<1>8. Holders'
  <2> SUFFICES ASSUME NEW k \in Kinds PROVE Holder(k)'
    BY ZenonT(30) DEF Holders
  <2>1. Holder(k) /\ MainHolds(k)' = MainHolds(k)
    BY ZenonT(30), <1>0, <1>7 DEF Holders
  <2>2. \A f \in Events : Taken(k, f)' <=> Taken(k, f)
    BY ZenonT(30), <1>1 DEF Taken, Holds, KindOf
  <2> QED BY SMTT(30), <1>1, <2>1, <2>2 DEF Holder
<1>9. Round'
  <2>1. Queued("primary")' = Queued("primary") /\ MainHolds(round)' = MainHolds(round)
    BY ZenonT(30), <1>1 DEF Queued, MainHolds
  <2>2. /\ running' # {} => pc' \in {"search", "wait"}
        /\ \A f \in running' : Time[f] = now' /\ KindOf(f) = round'
    BY ZenonT(30), <1>0, <1>1 DEF Round
  <2>3. /\ \A x \in AllQueued' : Time[x] >= now'
        /\ (pc' \in {"empty", "search", "wait"} /\ round' = "secondary")
             => \A x \in Queued("primary")' : Time[x] > now'
    BY ZenonT(30), <1>0, <1>1, <1>3, <2>1 DEF Round
  <2>4. \A f \in running' : \A q \in MainHolds(round)' : Children[f] \cap queues'[round'][q] = {}
    BY SMTT(30), <1>0, <1>1, <2>1 DEF Round
  <2> QED BY ZenonT(30), <2>2, <2>3, <2>4 DEF Round, KindOf
<1>10. Children[e] \subseteq AllQueued
  BY ZenonT(30), <1>0, <1>1 DEF Once, ToCome, Holds
<1>11. \A x \in AllQueued \cup running : Time[e] <= Time[x]
  BY SMTT(30), <1>0, <1>1, EngineAssumption DEF Round, Types, TypeOK
<1>12. ASSUME NEW x \in AllQueued, e \in Secondary, x \notin Secondary PROVE Time[e] < Time[x]
  <2>1. round = "secondary" /\ pc \in {"search", "wait"}
    BY ZenonT(30), <1>0, <1>1, <1>12 DEF Round, KindOf
  <2>2. PICK k \in Kinds, p \in Queues : x \in queues[k][p]
    BY ZenonT(30), InQueues
  <2>3. x \in Queued("primary")
    BY ZenonT(30), <1>0, <1>12, <2>2 DEF Sorted, KindOf, Queued
  <2> QED BY ZenonT(30), <1>0, <1>1, <2>1, <2>3 DEF Round
<1> QED BY ZenonT(30), <1>1, <1>3, <1>5, <1>6, <1>8, <1>9, <1>10, <1>11, <1>12 DEF EngineInv

-----------------------------------------------------------------------------
(* The queues before Run. *)

\* Division: the remainder is determined by a quotient.
LEMMA RemainderUnique ==
    ASSUME NEW N \in Nat \ {0}, NEW d \in Nat, NEW b \in 0..(N - 1), NEW y \in Nat, y = N * d + b
    PROVE  y % N = b
<1>0. \A z \in Nat : z >= 1 => N * z >= N
  OBVIOUS
<1> DEFINE a == y \div N
           r == y % N
<1>1. a \in Nat /\ r \in 0..(N - 1) /\ y = N * a + r
  OBVIOUS
<1> HIDE DEF a, r
<1>2. N * d \in Nat /\ N * a \in Nat /\ N * (d - a) = N * d - N * a /\ N * (a - d) = N * a - N * d
  BY SMTT(30), <1>1
<1>3. ASSUME d > a PROVE FALSE
  <2>1. N * (d - a) >= N
    BY SMTT(30), <1>0, <1>1, <1>3
  <2> QED BY SMTT(30), <1>1, <1>2, <2>1
<1>4. ASSUME a > d PROVE FALSE
  <2>1. N * (a - d) >= N
    BY SMTT(30), <1>0, <1>1, <1>4
  <2> QED BY SMTT(30), <1>1, <1>2, <2>1
<1>5. d = a
  BY SMTT(30), <1>1, <1>3, <1>4
<1>6. r = b
  BY SMTT(30), <1>1, <1>5
<1> QED BY ZenonT(30), <1>6 DEF r

\* The remainder of a sum depends on the remainder of a summand.
LEMMA RemainderOfSum ==
    ASSUME NEW N \in Nat \ {0}, NEW n \in Nat, NEW i \in Nat
    PROVE  (n + i) % N = ((n % N) + i) % N
<1> DEFINE q == n \div N
           m == n % N
<1>1. q \in Nat /\ m \in 0..(N - 1) /\ n = N * q + m
  OBVIOUS
<1> HIDE DEF q, m
<1> DEFINE y == m + i
           a == y \div N
           b == y % N
           d == q + a
           x == n + i
<1>2. y \in Nat /\ a \in Nat /\ b \in 0..(N - 1) /\ y = N * a + b
  BY SMTT(30), <1>1
<1>3. n + i = N * q + y
  BY SMTT(30), <1>1
<1> HIDE DEF y, a, b
<1>4. N * (q + a) = N * q + N * a /\ N * q \in Nat /\ N * a \in Nat /\ d \in Nat
  BY SMTT(30), <1>1, <1>2
<1>5. x = N * d + b /\ x \in Nat
  BY SMTT(30), <1>2, <1>3, <1>4
<1> HIDE DEF d, x
<1>6. x % N = b
  <2>1. d \in Nat /\ b \in 0..(N - 1) /\ x \in Nat /\ x = N * d + b
    BY ZenonT(30), <1>2, <1>4, <1>5
  <2> QED BY SMTT(30), <2>1, RemainderUnique
<1> QED BY ZenonT(30), <1>6 DEF b, y, m, x

\* The remainder of a number below 2N.
LEMMA RemainderBelow ==
    ASSUME NEW N \in Nat \ {0}, NEW x \in 0..(2 * N - 1)
    PROVE  x % N = IF x < N THEN x ELSE x - N
<1>1. CASE x < N
  BY SMTT(30), <1>1
<1>2. CASE x >= N
  <2>1. x - N \in 0..(N - 1) /\ x = N * 1 + (x - N)
    BY SMTT(30), <1>2
  <2> QED BY SMTT(30), <1>2, <2>1, RemainderUnique
<1> QED BY SMTT(30), <1>1, <1>2

\* However far the channel has rotated, every queue is in it once.
LEMMA Rotated ==
    ASSUME NEW n \in Nat
    PROVE  /\ \A i \in Queues : Rotation(n, i - 1) \in Queues
           /\ \A i, j \in Queues : Rotation(n, i - 1) = Rotation(n, j - 1) => i = j
           /\ \A q \in Queues : \E i \in Queues : Rotation(n, i - 1) = q
<1> DEFINE m == n % NumQueues
<1>0. NumQueues \in Nat \ {0} /\ m \in 0..(NumQueues - 1)
  BY SMTT(30), QueueAssumption
<1> HIDE DEF m
<1>1. ASSUME NEW i \in Queues
      PROVE  Rotation(n, i - 1) = IF m + (i - 1) < NumQueues THEN m + i ELSE m + i - NumQueues
  <2> DEFINE x == m + (i - 1)
  <2>1. i - 1 \in Nat /\ x \in 0..(2 * NumQueues - 1)
    BY SMTT(30), <1>0 DEF Queues
  <2>2. (n + (i - 1)) % NumQueues = x % NumQueues
    BY ZenonT(30), <1>0, <2>1, RemainderOfSum DEF m
  <2> HIDE DEF x
  <2>3. x % NumQueues = IF x < NumQueues THEN x ELSE x - NumQueues
    BY ZenonT(30), <1>0, <2>1, RemainderBelow
  <2> QED BY SMTT(30), <1>0, <2>2, <2>3 DEF Rotation, Queues, x
<1> DEFINE R(i) == Rotation(n, i - 1)
<1>2. \A i \in Queues : R(i) = IF m + (i - 1) < NumQueues THEN m + i ELSE m + i - NumQueues
  BY ZenonT(30), <1>1
<1> HIDE DEF R
<1>3. \A i \in Queues : R(i) \in Queues
  BY SMTT(30), <1>0, <1>2 DEF Queues
<1>4. \A i, j \in Queues : R(i) = R(j) => i = j
  BY SMTT(30), <1>0, <1>2 DEF Queues
<1>5. ASSUME NEW q \in Queues PROVE \E i \in Queues : R(i) = q
  <2>1. CASE q > m
    <3>1. q - m \in Queues /\ R(q - m) = q
      BY SMTT(30), <1>0, <1>2, <2>1 DEF Queues
    <3> QED BY ZenonT(30), <3>1
  <2>2. CASE q <= m
    <3>1. q - m + NumQueues \in Queues /\ R(q - m + NumQueues) = q
      BY SMTT(30), <1>0, <1>2, <2>2 DEF Queues
    <3> QED BY ZenonT(30), <3>1
  <2> QED BY SMTT(30), <1>0, <2>1, <2>2 DEF Queues
<1> QED BY ZenonT(30), <1>3, <1>4, <1>5 DEF R

\* The roots are in the queues of their kind, and all queues are in the channels.
LEMMA InitHolds ==
    ASSUME Init
    PROVE  EngineInv /\ AllQueued = Roots /\ running = {} /\ finished = <<>>
<1>1. /\ now = 0 /\ pc = "pick" /\ round = "primary" /\ next = 1
      /\ running = {} /\ todo = [e \in Events |-> {}] /\ finished = <<>>
      /\ held = [e \in Events |-> NoQueue] /\ pushing = [e \in Events |-> e]
  BY ZenonT(30) DEF Init
<1> DEFINE Before(rank, e) == {f \in Roots : KindOf(f) = KindOf(e) /\ rank[f] < rank[e]}
           OfKind(k) == {f \in Roots : KindOf(f) = k}
           Place(rank, e) == Rotation(Cardinality(Before(rank, e)), 0)
<1>2. PICK rank \in [Roots -> 1..Cardinality(Roots)] :
        /\ queues = [k \in Kinds |-> [q \in Queues |->
                       {e \in Roots : KindOf(e) = k /\ Place(rank, e) = q}]]
        /\ queueChan = [k \in Kinds |-> [i \in Queues |-> Rotation(Cardinality(OfKind(k)), i - 1)]]
  BY ZenonT(30) DEF Init
<1>3. \A S \in SUBSET Roots : Cardinality(S) \in Nat
  BY ZenonT(30), EngineAssumption, FS_Subset, FS_CardinalityType
<1>4. (\A e \in Roots : Cardinality(Before(rank, e)) \in Nat) /\ \A k : Cardinality(OfKind(k)) \in Nat
  BY ZenonT(30), <1>3
<1>5. \A e \in Roots : Place(rank, e) \in Queues
  <2>1. 1 \in Queues /\ 1 - 1 = 0
    BY SMTT(30), QueueAssumption DEF Queues
  <2>2. \A n \in Nat : Rotation(n, 0) \in Queues
    BY ZenonT(30), <2>1, Rotated
  <2> HIDE DEF Before
  <2> QED BY ZenonT(30), <1>4, <2>2
<1> HIDE DEF Before, OfKind, Place
<1>6. \A k \in Kinds, q \in Queues :
        queues[k][q] = {e \in Roots : KindOf(e) = k /\ Place(rank, e) = q}
  BY ZenonT(30), <1>2
<1>7. AllQueued = Roots
  <2>1. \A e \in Roots : KindOf(e) \in Kinds
    BY ZenonT(30) DEF KindOf, Kinds
  <2>2. \A x : x \in AllQueued <=> x \in Roots
    BY SMTT(30), <1>5, <1>6, <2>1, InQueues
  <2> QED BY ZenonT(30), <2>2
<1>8. Called = {}
  BY SMTT(30), <1>1 DEF Called
<1>9. ASSUME NEW k \in Kinds
      PROVE  /\ queueChan[k] \in Seq(Queues) /\ DOMAIN queueChan[k] = Queues
             /\ \A i, j \in Queues : queueChan[k][i] = queueChan[k][j] => i = j
             /\ \A q \in Queues : \E i \in Queues : queueChan[k][i] = q
  <2> DEFINE n == Cardinality(OfKind(k))
  <2>1. n \in Nat /\ queueChan[k] = [i \in Queues |-> Rotation(n, i - 1)]
    BY ZenonT(30), <1>2, <1>4
  <2> HIDE DEF n
  <2>2. /\ \A i \in Queues : Rotation(n, i - 1) \in Queues
        /\ \A i, j \in Queues : Rotation(n, i - 1) = Rotation(n, j - 1) => i = j
        /\ \A q \in Queues : \E i \in Queues : Rotation(n, i - 1) = q
    BY ZenonT(30), <2>1, Rotated
  <2>3. queueChan[k] \in [1..NumQueues -> Queues] /\ NumQueues \in Nat
    BY SMTT(30), <2>1, <2>2, QueueAssumption DEF Queues
  <2>4. queueChan[k] \in Seq(Queues)
    BY SMTT(30), <2>3
  <2> QED BY SMTT(30), <2>1, <2>2, <2>4
<1>10. Types
  <2>1. queues \in [Kinds -> [Queues -> SUBSET Events]]
    BY ZenonT(30), <1>2, EngineAssumption
  <2>2. DOMAIN queueChan = Kinds
    BY ZenonT(30), <1>2
  <2>3. next \in Queues /\ round \in Kinds
    BY SMTT(30), <1>1, QueueAssumption DEF Queues, Kinds
  <2>4. /\ todo \in [Events -> SUBSET Events] /\ held \in [Events -> Queues \cup {NoQueue}]
        /\ pushing \in [Events -> Events] /\ finished \in Seq(Events)
    BY SMTT(30), <1>1
  <2>5. \A k \in Kinds : queueChan[k] \in Seq(Queues)
    BY ZenonT(30), <1>9
  <2> QED BY ZenonT(30), <1>1, <2>1, <2>2, <2>3, <2>4, <2>5 DEF Types, TypeOK
<1>11. Sorted
  BY SMTT(30), <1>6 DEF Sorted
<1>12. Once
  BY ZenonT(30), <1>1, <1>7, <1>8 DEF Once
<1>13. Holders
  <2> SUFFICES ASSUME NEW k \in Kinds PROVE Holder(k)
    BY ZenonT(30) DEF Holders
  <2>1. MainHolds(k) = {} /\ \A e \in Events : ~Taken(k, e)
    BY ZenonT(30), <1>1 DEF MainHolds, Taken, Holds
  <2> QED BY ZenonT(30), <1>9, <2>1 DEF Holder
<1>14. Round
  <2>1. \A x \in AllQueued : Time[x] >= now
    BY SMTT(30), <1>1, <1>7, EngineAssumption
  <2> QED BY ZenonT(30), <1>1, <2>1 DEF Round
<1> QED BY ZenonT(30), <1>1, <1>7, <1>10, <1>11, <1>12, <1>13, <1>14 DEF EngineInv

-----------------------------------------------------------------------------
(* Theorems. *)

\* The inductive invariant of the parallel engine holds in every reachable state.
THEOREM Invariance == Spec => []EngineInv
<1>1. Init => EngineInv
  BY ZenonT(30), InitHolds
<1>2. EngineInv /\ [Next]_vars => EngineInv'
  <2> SUFFICES ASSUME EngineInv, [Next]_vars PROVE EngineInv'
    OBVIOUS
  <2>1. CASE UNCHANGED vars
    <3>1. /\ now' = now /\ pc' = pc /\ round' = round /\ next' = next /\ queues' = queues
          /\ queueChan' = queueChan /\ running' = running /\ todo' = todo /\ held' = held
          /\ pushing' = pushing /\ finished' = finished
      BY ZenonT(30), <2>1 DEF vars, mainVars, workVars
    <3>2. Types'
      BY ZenonT(30), <3>1 DEF EngineInv, Types, TypeOK
    <3>3. Sorted' /\ Once' /\ AllQueued' = AllQueued
      BY ZenonT(30), <2>1, SameWork DEF EngineInv, vars
    <3>4. \A k \in Kinds : MainHolds(k)' = MainHolds(k)
      BY ZenonT(30), <3>1 DEF MainHolds
    <3>5. Holders'
      BY SMTT(40), <3>1, <3>4 DEF EngineInv, Holders, Holder, Taken, Holds
    <3>6. Queued("primary")' = Queued("primary") /\ MainHolds(round)' = MainHolds(round)
      BY ZenonT(30), <3>1 DEF Queued, MainHolds
    <3>7. Round'
      BY SMTT(30), <3>1, <3>3, <3>6 DEF EngineInv, Round, KindOf
    <3> QED BY ZenonT(30), <3>2, <3>3, <3>5, <3>7 DEF EngineInv
  <2>2. CASE Run
    BY ZenonT(30), <2>2, PhaseStep, PickStep, EmptyStep, GiveStep, StartStep DEF Run
  <2>3. ASSUME NEW e \in Events, Worker(e) PROVE EngineInv'
    BY ZenonT(30), <2>3, TakeStep, PushStep, ReturnStep DEF Worker
  <2> QED BY ZenonT(30), <2>1, <2>2, <2>3 DEF Next
<1> QED BY <1>1, <1>2, PTL DEF Spec

\* None of the panics of the parallel engine is reachable ("cannot schedule event in the
\* past", "cannot run event in the past", "running event in the past"), however the
\* goroutines of a round interleave with the search of the queues.
THEOREM NeverLate == Spec => []NeverInPast
<1>1. EngineInv => NeverInPast
  <2> SUFFICES ASSUME EngineInv PROVE NeverInPast
    OBVIOUS
  <2>1. \A e \in AllQueued : Time[e] >= now
    BY ZenonT(30) DEF EngineInv, Round
  <2>2. ASSUME NEW e \in running PROVE Time[e] = now /\ \A c \in todo[e] : Time[c] >= now
    <3>1. Time[e] = now /\ todo[e] \subseteq Children[e] /\ e \in Events
      BY ZenonT(30) DEF EngineInv, Round, Once, ToCome, Types, TypeOK
    <3> QED BY ZenonT(30), <3>1, EngineAssumption
  <2> QED BY ZenonT(30), <2>1, <2>2 DEF NeverInPast
<1> QED BY <1>1, Invariance, PTL

\* A queue is in the channel, in the hands of Run or in those of one goroutine, and in one of
\* these places only: no two pushes meet in a queue, Run searches none that a handler fills,
\* and none is lost, for every number of queues.
THEOREM QueuesHeldOnce == Spec => []OneHolder
<1>1. EngineInv => OneHolder
  <2> SUFFICES ASSUME EngineInv, NEW k \in Kinds, NEW q \in Queues
               PROVE  Cardinality(InChan(k, q)) + Cardinality(HolderOf(k, q))
                        + (IF q \in MainHolds(k) THEN 1 ELSE 0) = 1
    BY ZenonT(30) DEF OneHolder
  <2>0. Holder(k) /\ q # NoQueue
    BY SMTT(30), QueueAssumption DEF EngineInv, Holders, Queues, NoQueue
  <2>1. HolderOf(k, q) = {e \in Events : Taken(k, e) /\ held[e] = q}
    BY ZenonT(30), <2>0 DEF HolderOf, Taken, Holds
  <2>2. Cardinality({}) = 0
    BY ZenonT(30), FS_EmptySet
  <2>3. \A x : Cardinality({x}) = 1
    BY ZenonT(30), FS_Singleton
  <2>4. CASE q \in MainHolds(k)
    <3>1. InChan(k, q) = {} /\ HolderOf(k, q) = {}
      BY SMTT(30), <2>0, <2>1, <2>4 DEF Holder, InChan
    <3> QED BY SMTT(30), <2>2, <2>4, <3>1
  <2>5. ASSUME NEW i \in DOMAIN queueChan[k], queueChan[k][i] = q
        PROVE  InChan(k, q) = {i} /\ HolderOf(k, q) = {} /\ q \notin MainHolds(k)
    BY SMTT(30), <2>0, <2>1, <2>5 DEF Holder, InChan
  <2>6. ASSUME NEW e \in Events, Taken(k, e), held[e] = q
        PROVE  InChan(k, q) = {} /\ HolderOf(k, q) = {e} /\ q \notin MainHolds(k)
    BY SMTT(30), <2>0, <2>1, <2>6 DEF Holder, InChan
  <2>7. CASE \E i \in DOMAIN queueChan[k] : queueChan[k][i] = q
    <3>1. PICK i \in DOMAIN queueChan[k] : queueChan[k][i] = q
      BY ZenonT(30), <2>7
    <3>2. InChan(k, q) = {i} /\ HolderOf(k, q) = {} /\ q \notin MainHolds(k)
      BY ZenonT(30), <2>5, <3>1
    <3>3. Cardinality(InChan(k, q)) = 1 /\ Cardinality(HolderOf(k, q)) = 0
      BY ZenonT(30), <2>2, <2>3, <3>2
    <3> QED BY SMTT(30), <3>2, <3>3
  <2>8. CASE \E e \in Events : Taken(k, e) /\ held[e] = q
    <3>1. PICK e \in Events : Taken(k, e) /\ held[e] = q
      BY ZenonT(30), <2>8
    <3>2. InChan(k, q) = {} /\ HolderOf(k, q) = {e} /\ q \notin MainHolds(k)
      BY ZenonT(30), <2>6, <3>1
    <3>3. Cardinality(InChan(k, q)) = 0 /\ Cardinality(HolderOf(k, q)) = 1
      BY ZenonT(30), <2>2, <2>3, <3>2
    <3> QED BY SMTT(30), <3>2, <3>3
  <2> QED BY ZenonT(30), <2>0, <2>4, <2>7, <2>8 DEF Holder
<1> QED BY <1>1, Invariance, PTL

\* The parallel engine implements EventEngine: for every number of queues, every simulation
\* and every interleaving, each event is handled once, in time order, and secondary events
\* after all primary events of their time.
THEOREM ParallelImplements == Spec => ImplementsEngine
<1> DEFINE Born == UNION {Children[e] : e \in running}
           Pending == (AllQueued \ Born) \cup running
<1>1. Init => Engine!EInit
  BY ZenonT(30), InitHolds DEF Engine!EInit
<1>2. EngineInv /\ [Next]_vars => [Engine!ENext]_(Engine!evars)
  <2> SUFFICES ASSUME EngineInv, [Next]_vars PROVE [Engine!ENext]_(Engine!evars)
    OBVIOUS
  <2>0. Types /\ Once /\ Round /\ running \subseteq Events
    BY ZenonT(30) DEF EngineInv, Types, TypeOK
  <2>1. ASSUME queues' = queues, running' = running, finished' = finished
        PROVE  UNCHANGED Engine!evars
    BY SMTT(30), <2>1 DEF Engine!evars, AllQueued, Queued
  <2>2. CASE UNCHANGED vars
    BY ZenonT(30), <2>1, <2>2 DEF vars, workVars
  <2>3. CASE Return \/ determineWhatToRun \/ emptyQueueChan \/ ReturnQueue \/ Wait
    BY ZenonT(30), <2>1, <2>3 DEF Return, determineWhatToRun, emptyQueueChan, ReturnQueue, Wait, workVars
  <2>4. ASSUME NEW e \in Events, NEW c \in Events, TakeQueue(e, c) PROVE UNCHANGED Engine!evars
    BY ZenonT(30), <2>1, <2>4 DEF TakeQueue
  <2>5. ASSUME NEW e \in Events, runEventWithTempWorker(e) PROVE UNCHANGED Engine!evars
    <3>1. /\ e \in AllQueued /\ AllQueued' = AllQueued \ {e} /\ running' = running \cup {e}
          /\ (\A r \in running : e \notin Children[r]) /\ finished' = finished
      BY ZenonT(30), <2>5, StartStep
    <3>2. Children[e] \cap AllQueued = {}
      BY ZenonT(30), <2>0, <3>1, ChildrenFresh
    <3>3. Pending' = Pending
      BY ZenonT(30), <3>1, <3>2
    <3> QED BY ZenonT(30), <3>1, <3>3 DEF Engine!evars
  <2>6. ASSUME NEW e \in Events, PushAndReturn(e) PROVE UNCHANGED Engine!evars
    <3>1. /\ e \in running /\ pushing[e] \in Children[e]
          /\ AllQueued' = AllQueued \cup {pushing[e]}
          /\ running' = running /\ finished' = finished
      BY ZenonT(30), <2>6, PushStep
    <3>2. Pending' = Pending
      BY SMTT(30), <3>1
    <3> QED BY ZenonT(30), <3>1, <3>2 DEF Engine!evars
  <2>7. ASSUME NEW e \in Events, HandlerReturns(e) PROVE Engine!HandleEvent(e)
    <3>1. /\ e \in running /\ Children[e] \subseteq AllQueued /\ AllQueued' = AllQueued
          /\ running' = running \ {e} /\ finished' = Append(finished, e)
          /\ \A x \in AllQueued \cup running : Time[e] <= Time[x]
          /\ \A x \in AllQueued : e \in Secondary /\ x \notin Secondary => Time[e] < Time[x]
      BY ZenonT(30), <2>7, ReturnStep
    <3>2. e \notin AllQueued /\ \A f \in running \ {e} : Children[f] \cap Children[e] = {}
      BY ZenonT(30), <2>0, <3>1, EngineAssumption DEF Once, Called
    <3>3. Pending' = (Pending \ {e}) \cup Children[e]
      BY SMTT(30), <3>1, <3>2
    <3>4. \A x \in running : e \in Secondary => x \in Secondary
      BY ZenonT(30), <2>0, <3>1 DEF Round, KindOf
    <3>5. \A x \in Pending : Engine!MayPrecede(e, x)
      BY ZenonT(30), <3>1, <3>4 DEF Engine!MayPrecede
    <3> QED BY ZenonT(30), <3>1, <3>3, <3>5 DEF Engine!HandleEvent
  <2> QED BY ZenonT(30), <2>2, <2>3, <2>4, <2>5, <2>6, <2>7 DEF Next, Run, Worker, Engine!ENext
<1> QED BY <1>1, <1>2, Invariance, PTL DEF Spec, ImplementsEngine, Engine!ESafety
=============================================================================
