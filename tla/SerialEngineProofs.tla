------------------------- MODULE SerialEngineProofs -------------------------
(***************************************************************************)
(* That the serial engine implements EventEngine, for every simulation: any *)
(* set of events, finite or not, any times and any trees of scheduling that *)
(* satisfy EngineAssumption.                                                *)
(***************************************************************************)
EXTENDS SerialEngine, WellFoundedInduction, TLAPS

Queued == queue \cup secondaryQueue

\* The events whose handler was called.
Called == running \cup {finished[i] : i \in DOMAIN finished}

Types ==
    /\ time \in Nat /\ finished \in Seq(Events)
    /\ queue \subseteq Events \ Secondary
    /\ secondaryQueue \subseteq Events \cap Secondary
    /\ running \subseteq Events /\ todo \subseteq Events

\* An event is scheduled once: before its handler is called it is in one queue or
\* still to be scheduled, and what is not a root comes from a handler that was called.
Once ==
    /\ Queued \cap todo = {}
    /\ (Queued \cup todo) \cap Called = {}
    /\ \A x \in Queued \cup todo \cup Called :
          x \in Roots \/ \E g \in Called : x \in Children[g]

\* At most one handler runs.  What it was to schedule is in a queue or still to come, and
\* the event may precede everything else in the queues.
Handler ==
    /\ running = {} => todo = {}
    /\ \A e, f \in running : e = f
    /\ \A e \in running :
          /\ todo \subseteq Children[e] /\ Children[e] \subseteq Queued \cup todo
          /\ \A f \in Queued \ Children[e] : Engine!MayPrecede(e, f)

EngineInv == Types /\ Once /\ NeverInPast /\ Handler

-----------------------------------------------------------------------------
\* A non-empty queue has a front: heap.Pop and Peek return an event no other is earlier than.
LEMMA FrontExists ==
    ASSUME NEW S, S \subseteq Events, NEW x \in S
    PROVE  \E e \in Earliest(S) : Time[e] <= Time[x]
<1> DEFINE T == {Time[e] : e \in S}
           R == {ss \in Nat \X Nat : ss[1] < ss[2]}
<1>1. T \subseteq Nat /\ T # {}
  BY SMTT(30), EngineAssumption
<1>2. IsWellFoundedOn(R, Nat)
  BY Zenon, NatLessThanWellFounded DEF OpToRel
<1>3. PICK t \in T : \A u \in T : ~(<<u, t>> \in R)
  <2> HIDE DEF T, R
  <2> QED BY ZenonT(30), <1>1, <1>2, WFMin
<1>4. \A u \in T : ~(u < t)
  BY ZenonT(30), <1>1, <1>3
<1>5. PICK e \in S : Time[e] = t
  OBVIOUS
<1>6. \A f \in S : Time[e] <= Time[f]
  BY SMTT(30), <1>4, <1>5, EngineAssumption
<1> QED BY ZenonT(30), <1>6 DEF Earliest

\* The handler of an event that has not been called has scheduled nothing yet.
LEMMA ChildrenFresh ==
    ASSUME Types, Once, NEW e \in Queued
    PROVE  /\ Children[e] \cap (Queued \cup todo \cup Called) = {}
           /\ e \notin Children[e]
<1>1. e \in Events /\ e \notin Called
  BY ZenonT(30) DEF Types, Once, Queued
<1>2. e \notin Children[e]
  BY ZenonT(30), <1>1, EngineAssumption
<1>3. ASSUME NEW x \in Children[e], x \in Queued \cup todo \cup Called PROVE FALSE
  <2>1. x \notin Roots
    BY ZenonT(30), <1>1, <1>3, EngineAssumption
  <2>2. PICK g \in Called : x \in Children[g]
    BY ZenonT(30), <1>3, <2>1 DEF Once
  <2>3. g \in Events
    BY SMTT(30) DEF Called, Types
  <2> QED BY ZenonT(30), <1>1, <1>3, <2>2, <2>3, EngineAssumption
<1> QED BY ZenonT(30), <1>2, <1>3

\* nextEvent takes an event that may precede all others in the queues: the comparison of
\* the two fronts suffices, and a tie goes to the primary event.
LEMMA FrontPrecedes ==
    ASSUME Types, NEW e \in Events, FromPrimary(e) \/ FromSecondary(e)
    PROVE  /\ e \in Queued
           /\ \A f \in Queued : Engine!MayPrecede(e, f)
           /\ Queued' = Queued \ {e}
           /\ queue' \subseteq Events \ Secondary
           /\ secondaryQueue' \subseteq Events \cap Secondary
<1>0. Time \in [Events -> Nat]
  BY ZenonT(30), EngineAssumption
<1>1. CASE FromPrimary(e)
  <2>1. e \in queue /\ e \notin Secondary /\ \A f \in queue : Time[e] <= Time[f]
    BY ZenonT(30), <1>1 DEF FromPrimary, Earliest, Types
  <2>2. ASSUME NEW s \in secondaryQueue PROVE Time[e] <= Time[s]
    <3>1. PICK t \in Earliest(secondaryQueue) : Time[t] <= Time[s]
      BY ZenonT(30), FrontExists DEF Types
    <3>2. Time[e] <= Time[t] /\ t \in Events /\ s \in Events
      BY ZenonT(30), <1>1, <3>1 DEF FromPrimary, PrimaryFirst, Earliest, Types
    <3> QED BY SMTT(30), <1>0, <3>1, <3>2
  <2>3. \A f \in Queued : Engine!MayPrecede(e, f)
    BY ZenonT(30), <2>1, <2>2 DEF Engine!MayPrecede, Queued
  <2> QED BY ZenonT(30), <1>1, <2>1, <2>3 DEF FromPrimary, Types, Queued
<1>2. CASE FromSecondary(e)
  <2>1. e \in secondaryQueue /\ \A f \in secondaryQueue : Time[e] <= Time[f]
    BY ZenonT(30), <1>2 DEF FromSecondary, Earliest
  <2>2. ASSUME NEW p \in queue PROVE Time[e] < Time[p]
    <3>1. PICK t \in Earliest(queue) : Time[t] <= Time[p]
      BY ZenonT(30), FrontExists DEF Types
    <3>2. ~(Time[t] <= Time[e]) /\ t \in Events /\ p \in Events
      BY ZenonT(30), <1>2, <3>1 DEF FromSecondary, PrimaryFirst, Earliest, Types
    <3> QED BY SMTT(30), <1>0, <3>1, <3>2
  <2>3. ASSUME NEW f \in Queued PROVE Engine!MayPrecede(e, f)
    <3>1. CASE f \in queue
      BY SMTT(30), <1>0, <2>2, <3>1 DEF Engine!MayPrecede, Types
    <3>2. CASE f \in secondaryQueue
      BY ZenonT(30), <2>1, <3>2 DEF Engine!MayPrecede, Types
    <3> QED BY ZenonT(30), <3>1, <3>2 DEF Queued
  <2> QED BY ZenonT(30), <1>2, <2>1, <2>3 DEF FromSecondary, Types, Queued
<1> QED BY ZenonT(30), <1>1, <1>2

-----------------------------------------------------------------------------
(* One turn of the Run loop. *)

\* Popping the next event keeps the invariant.
LEMMA NextEventStep ==
    ASSUME EngineInv, NEW e \in Events, nextEvent(e)
    PROVE  EngineInv'
<1>0. Types /\ Once /\ NeverInPast /\ Handler
  BY ZenonT(30) DEF EngineInv
<1>1. /\ running = {} /\ todo = {} /\ running' = {e} /\ todo' = Children[e]
      /\ time' = Time[e] /\ finished' = finished
  BY ZenonT(30), <1>0 DEF nextEvent, Handler
<1>2. /\ e \in Queued /\ Queued' = Queued \ {e}
      /\ \A f \in Queued : Engine!MayPrecede(e, f)
      /\ queue' \subseteq Events \ Secondary /\ secondaryQueue' \subseteq Events \cap Secondary
  BY ZenonT(30), <1>0, FrontPrecedes DEF nextEvent
<1>3. /\ Children[e] \cap (Queued \cup todo \cup Called) = {} /\ e \notin Children[e]
      /\ Children[e] \subseteq Events
      /\ \A c \in Children[e] : Time[c] >= Time[e]
  BY ZenonT(30), <1>0, <1>2, ChildrenFresh, EngineAssumption
<1>4. Called' = Called \cup {e}
  BY ZenonT(30), <1>1 DEF Called
<1>5. Types'
  BY ZenonT(30), <1>0, <1>1, <1>2, <1>3, EngineAssumption DEF Types
<1>6. Once'
  BY ZenonT(30), <1>0, <1>1, <1>2, <1>3, <1>4 DEF Once
<1>7. NeverInPast'
  <2>1. \A f \in Queued : Time[f] >= Time[e]
    BY ZenonT(30), <1>2, EngineAssumption DEF Engine!MayPrecede, Queued, Types
  <2> QED BY ZenonT(30), <1>1, <1>2, <1>3, <2>1 DEF NeverInPast, Queued
<1>8. Handler'
  <2>1. \A f \in Queued' \ Children[e] : Engine!MayPrecede(e, f)
    BY ZenonT(30), <1>2
  <2> QED BY ZenonT(30), <1>1, <2>1 DEF Handler, Engine!MayPrecede
<1> QED BY ZenonT(30), <1>5, <1>6, <1>7, <1>8 DEF EngineInv

\* Scheduling a child of the running event keeps the invariant.
LEMMA ScheduleStep ==
    ASSUME EngineInv, NEW c \in Events, Schedule(c)
    PROVE  EngineInv'
<1>0. Types /\ Once /\ NeverInPast /\ Handler
  BY ZenonT(30) DEF EngineInv
<1>1. /\ c \in todo /\ Time[c] >= time /\ todo' = todo \ {c} /\ Queued' = Queued \cup {c}
      /\ time' = time /\ running' = running /\ finished' = finished /\ Called' = Called
  BY ZenonT(30) DEF Schedule, Queued, Called
<1>2. Types'
  BY ZenonT(30), <1>0, <1>1 DEF Types, Schedule
<1>3. Once'
  BY ZenonT(30), <1>0, <1>1 DEF Once
<1>4. NeverInPast'
  BY ZenonT(30), <1>0, <1>1 DEF NeverInPast, Queued
<1>5. PICK e \in running : c \in Children[e]
  BY ZenonT(30), <1>0, <1>1 DEF Handler
<1>6. Handler'
  <2>1. \A g \in running : g = e
    BY ZenonT(30), <1>0, <1>5 DEF Handler
  <2>2. \A f \in Queued' \ Children[e] : f \in Queued \ Children[e]
    BY ZenonT(30), <1>1, <1>5
  <2> QED BY ZenonT(30), <1>0, <1>1, <1>5, <2>1, <2>2 DEF Handler, Engine!MayPrecede
<1> QED BY ZenonT(30), <1>2, <1>3, <1>4, <1>6 DEF EngineInv

\* The return of the handler keeps the invariant.
LEMMA ReturnStep ==
    ASSUME EngineInv, NEW e \in Events, HandlerReturns(e)
    PROVE  EngineInv'
<1>0. Types /\ Once /\ NeverInPast /\ Handler
  BY ZenonT(30) DEF EngineInv
<1>1. /\ e \in running /\ todo = {} /\ running' = {} /\ finished' = Append(finished, e)
      /\ time' = time /\ todo' = todo /\ queue' = queue /\ secondaryQueue' = secondaryQueue
      /\ Queued' = Queued
  BY ZenonT(30) DEF HandlerReturns, Queued
<1>2. running = {e}
  BY ZenonT(30), <1>0, <1>1 DEF Handler
<1>3. Called' = Called
  <2>1. {finished'[i] : i \in DOMAIN finished'} = {finished[i] : i \in DOMAIN finished} \cup {e}
    <3>1. /\ Len(finished') = Len(finished) + 1 /\ finished'[Len(finished) + 1] = e
          /\ \A i \in 1..Len(finished) : finished'[i] = finished[i]
          /\ DOMAIN finished = 1..Len(finished) /\ DOMAIN finished' = 1..(Len(finished) + 1)
          /\ Len(finished) \in Nat
      BY SMTT(30), <1>0, <1>1 DEF Types
    <3>2. \A i \in 1..(Len(finished) + 1) : i \in 1..Len(finished) \/ i = Len(finished) + 1
      BY SMTT(30), <3>1
    <3>3. 1..Len(finished) \subseteq 1..(Len(finished) + 1)
          /\ Len(finished) + 1 \in 1..(Len(finished) + 1)
      BY SMTT(30), <3>1
    <3> QED BY ZenonT(30), <3>1, <3>2, <3>3
  <2> QED BY ZenonT(30), <1>1, <1>2, <2>1 DEF Called
<1>4. Types'
  BY SMTT(30), <1>0, <1>1 DEF Types
<1>5. Once'
  BY ZenonT(30), <1>0, <1>1, <1>3 DEF Once
<1>6. NeverInPast'
  BY ZenonT(30), <1>0, <1>1 DEF NeverInPast
<1>7. Handler'
  BY ZenonT(30), <1>1 DEF Handler
<1> QED BY ZenonT(30), <1>4, <1>5, <1>6, <1>7 DEF EngineInv

\* Every step keeps the invariant.
LEMMA Inductive == EngineInv /\ [Next]_vars => EngineInv'
<1> SUFFICES ASSUME EngineInv, [Next]_vars PROVE EngineInv'
  OBVIOUS
<1>1. CASE UNCHANGED vars
  <2>1. Queued' = Queued /\ Called' = Called
    BY ZenonT(30), <1>1 DEF vars, Queued, Called
  <2> QED BY ZenonT(30), <1>1, <2>1 DEF vars, EngineInv, Types, Once, NeverInPast, Handler, Engine!MayPrecede
<1>2. CASE Next
  BY ZenonT(30), <1>2, NextEventStep, ScheduleStep, ReturnStep DEF Next
<1> QED BY ZenonT(30), <1>1, <1>2

\* The invariant holds before Run.
LEMMA InitInv == Init => EngineInv
<1> SUFFICES ASSUME Init PROVE EngineInv
  OBVIOUS
<1>1. Queued = Roots /\ Called = {} /\ todo = {} /\ running = {} /\ finished = <<>>
  BY SMTT(30) DEF Init, Queued, Called
<1>2. Types
  BY SMTT(30), <1>1, EngineAssumption DEF Init, Types
<1>3. Once /\ Handler
  BY ZenonT(30), <1>1 DEF Once, Handler
<1>4. NeverInPast
  BY SMTT(30), <1>1, EngineAssumption DEF Init, NeverInPast, Queued
<1> QED BY ZenonT(30), <1>2, <1>3, <1>4 DEF EngineInv

\* EngineInv holds in every reachable state.
THEOREM Invariance == Spec => []EngineInv
BY InitInv, Inductive, PTL DEF Spec

\* Neither panic of the serial engine is reachable, whatever the simulation: no handler
\* schedules "an event earlier than current time" and Run never takes one.
THEOREM NeverLate == Spec => []NeverInPast
<1>1. EngineInv => NeverInPast
  BY ZenonT(30) DEF EngineInv
<1> QED BY <1>1, Invariance, PTL

-----------------------------------------------------------------------------
(* The refinement. *)

\* The events that are pending for a user of the engine.
Pending == (Queued \ UNION {Children[e] : e \in running}) \cup running

\* An event that is popped is still pending for the users of the engine.
LEMMA NextEventStutters ==
    ASSUME EngineInv, NEW e \in Events, nextEvent(e)
    PROVE  Pending' = Pending /\ finished' = finished
<1>0. Types /\ Once /\ Handler
  BY ZenonT(30) DEF EngineInv
<1>1. running = {} /\ running' = {e} /\ finished' = finished
  BY ZenonT(30) DEF nextEvent
<1>2. e \in Queued /\ Queued' = Queued \ {e}
  BY ZenonT(30), <1>0, FrontPrecedes DEF nextEvent
<1>3. Children[e] \cap Queued = {}
  BY ZenonT(30), <1>0, <1>2, ChildrenFresh
<1> QED BY ZenonT(30), <1>1, <1>2, <1>3 DEF Pending

\* What a handler schedules counts when the handler has returned.
LEMMA ScheduleStutters ==
    ASSUME EngineInv, NEW c \in Events, Schedule(c)
    PROVE  Pending' = Pending /\ finished' = finished
<1>1. c \in todo /\ Queued' = Queued \cup {c} /\ running' = running /\ finished' = finished
  BY ZenonT(30) DEF Schedule, Queued
<1>2. PICK e \in running : c \in Children[e]
  BY ZenonT(30), <1>1 DEF EngineInv, Handler
<1> QED BY SMTT(30), <1>1, <1>2 DEF Pending

\* The return of the handler is the step that handles the event.
LEMMA ReturnHandles ==
    ASSUME EngineInv, NEW e \in Events, HandlerReturns(e)
    PROVE  /\ e \in Pending /\ \A f \in Pending : Engine!MayPrecede(e, f)
           /\ Pending' = (Pending \ {e}) \cup Children[e]
           /\ finished' = Append(finished, e)
<1>0. Types /\ Once /\ Handler
  BY ZenonT(30) DEF EngineInv
<1>1. /\ e \in running /\ todo = {} /\ running' = {} /\ finished' = Append(finished, e)
      /\ Queued' = Queued
  BY ZenonT(30) DEF HandlerReturns, Queued
<1>2. running = {e}
  BY ZenonT(30), <1>0, <1>1 DEF Handler
<1>3. Children[e] \subseteq Queued /\ e \notin Queued
  BY ZenonT(30), <1>0, <1>1, <1>2 DEF Handler, Once, Called
<1>4. Pending = (Queued \ Children[e]) \cup {e} /\ Pending' = Queued
  BY ZenonT(30), <1>1, <1>2 DEF Pending
<1>5. Engine!MayPrecede(e, e)
  BY SMTT(30), EngineAssumption DEF Engine!MayPrecede
<1>6. \A f \in Queued \ Children[e] : Engine!MayPrecede(e, f)
  BY ZenonT(30), <1>0, <1>1 DEF Handler
<1>7. e \notin Children[e]
  BY ZenonT(30), EngineAssumption
<1> QED BY ZenonT(30), <1>1, <1>3, <1>4, <1>5, <1>6, <1>7

\* The serial engine implements EventEngine: it handles every event once, in time order, and
\* secondary events after all primary events of their time, whatever the handlers schedule.
THEOREM SerialImplements == Spec => ImplementsEngine
<1>1. Init => Engine!EInit
  BY ZenonT(30) DEF Init, Engine!EInit
<1>2. EngineInv /\ [Next]_vars => [Engine!ENext]_(Engine!evars)
  <2> SUFFICES ASSUME EngineInv, [Next]_vars PROVE [Engine!ENext]_(Engine!evars)
    OBVIOUS
  <2>1. CASE UNCHANGED vars
    BY ZenonT(30), <2>1 DEF vars, Engine!evars
  <2>2. ASSUME NEW e \in Events, nextEvent(e) \/ Schedule(e) PROVE UNCHANGED Engine!evars
    BY ZenonT(30), <2>2, NextEventStutters, ScheduleStutters DEF Engine!evars, Pending, Queued
  <2>3. ASSUME NEW e \in Events, HandlerReturns(e) PROVE Engine!HandleEvent(e)
    BY ZenonT(30), <2>3, ReturnHandles DEF Engine!HandleEvent, Pending, Queued, Engine!MayPrecede
  <2> QED BY ZenonT(30), <2>1, <2>2, <2>3 DEF Next, Engine!ENext
<1> QED BY <1>1, <1>2, Invariance, PTL DEF Spec, ImplementsEngine, Engine!ESafety
=============================================================================
