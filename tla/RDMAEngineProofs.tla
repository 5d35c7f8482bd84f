-------------------------- MODULE RDMAEngineProofs --------------------------
(***************************************************************************)
(* That no access is between the chiplets while pages migrate, that a      *)
(* response finds its transaction, and that an access is answered once, on *)
(* the chiplet that made it: for every number of chiplets, every load of   *)
(* accesses, every capacity and any number of drains.                      *)
(***************************************************************************)
EXTENDS RDMAQueues, FiniteSetTheorems, TLAPS

-----------------------------------------------------------------------------
(* The steps of the caches and of the network that move an access.          *)

(* A cache makes an access: station 0 to 1.                                 *)
LEMMA MakeStep ==
    ASSUME RDMAInv, NEW a \in Accesses, MakeAccess(a)
    PROVE  Kept
<1>0. EngineTypes
  BY ZenonT(30) DEF RDMAInv
<1>1. PICK pos \in [Accesses -> Stations] : Located(pos)
  BY ZenonT(30) DEF RDMAInv, Travel
<1>l. /\ Queues(pos) /\ AtL2s(pos) /\ Made(pos) /\ Got(pos)
      /\ Filed(in, InK, InW, PortCap, pos) /\ Filed(end, EndK, EndW, EndCap, pos)
      /\ Lists(fromInside, Src, 2, 8, pos) /\ Lists(fromOutside, Home, 4, 6, pos)
  BY ZenonT(30), <1>0, <1>1 DEF Located, Queues, EngineTypes
<1>2. PICK c \in Chiplets : c = Src[a]
  BY ZenonT(30), RDMAAssumption
<1>3. PICK p \in Inside : p = Via[a]
  BY ZenonT(30), RDMAAssumption DEF Inside
<1>4. /\ a \notin made /\ Len(in[c][p]) < PortCap /\ made' = made \cup {a}
      /\ Put(in, in', c, p, a)
      /\ UNCHANGED <<end, fromInside, fromOutside, isDraining, paused, got, atL2, driver, acks>>
  BY ZenonT(30), <1>2, <1>3 DEF MakeAccess, Put, engine, control
<1>5. p \in Data /\ InK[p] = 1 /\ InW[p] = Src /\ NoneAt(EndK, 0) /\ NoneAt(EndK, 1)
  BY SMTT(30), Tables, Numbers DEF Inside, NoneAt
<1>6. pos[a] = 0
  BY ZenonT(30), <1>1, <1>4 DEF Located, Made
<1>7. PICK new \in [Accesses -> Stations] : Step(pos, new, a, 0)
  BY SMTT(30), <1>6, NextStation
<1>8. Queues(new)' /\ CtrlSame
  BY SMTT(30), <1>0, <1>1, <1>2, <1>3, <1>4, <1>5, <1>7, Arrived
<1>9. Lists(fromInside', Src, 2, 8, new) /\ Lists(fromOutside', Home, 4, 6, new)
  BY SMTT(30), <1>l, <1>4, <1>7, ListKeeps
<1>10. AtL2s(new)' /\ Got(new)'
  BY SMTT(30), <1>l, <1>4, <1>7, OutsideKept
<1>11. Made(new)'
  BY SMTT(30), <1>1, <1>4, <1>7 DEF Located, Made, Step
<1> QED BY ZenonT(30), <1>0, <1>4, <1>7, <1>8, <1>9, <1>10, <1>11, Moved

(* The network carries a request, 2 to 3, or a response, 7 to 8.            *)
LEMMA CarryStep ==
    ASSUME RDMAInv, NEW c \in Chiplets, CarryRequest(c) \/ CarryResponse(c)
    PROVE  Kept
<1>0. EngineTypes
  BY ZenonT(30) DEF RDMAInv
<1>1. PICK pos \in [Accesses -> Stations] : Located(pos)
  BY ZenonT(30) DEF RDMAInv, Travel
<1>l. /\ Queues(pos) /\ AtL2s(pos) /\ Made(pos) /\ Got(pos)
      /\ Filed(in, InK, InW, PortCap, pos) /\ Filed(end, EndK, EndW, EndCap, pos)
      /\ Lists(fromInside, Src, 2, 8, pos) /\ Lists(fromOutside, Home, 4, 6, pos)
  BY ZenonT(30), <1>0, <1>1 DEF Located, Queues, EngineTypes
<1>2. PICK p \in {"RequestPort", "ResponsePort"} :
        /\ end[c][p] # <<>>
        /\ Deliver(c, p, IF p = "RequestPort" THEN Home[Head(end[c][p])]
                         ELSE Src[Head(end[c][p])])
  BY ZenonT(30) DEF CarryRequest, CarryResponse, getResponsePort
<1>3. PICK a : a = Head(end[c][p])
  OBVIOUS
<1>4. PICK k \in {2, 7} : EndK[p] = k /\ InK[p] = k + 1 /\ p \in Data /\ p \notin Inside
  BY SMTT(30), Tables DEF Inside
<1>5. a \in Accesses /\ pos[a] = k
  BY SMTT(30), <1>l, <1>2, <1>3, <1>4, FirstMessage
<1>6. PICK d \in Chiplets : d = InW[p][a] /\ Deliver(c, p, d)
  <2>1. CASE p = "RequestPort"
    BY ZenonT(30), <1>2, <1>3, <1>5, <2>1, RDMAAssumption, Tables
  <2>2. CASE p = "ResponsePort"
    BY ZenonT(30), <1>2, <1>3, <1>5, <2>2, RDMAAssumption, Tables
  <2> QED BY ZenonT(30), <2>1, <2>2
<1>7. PICK new \in [Accesses -> Stations] : Step(pos, new, a, k)
  BY SMTT(30), <1>5, NextStation
<1>8. Queues(new)' /\ CtrlSame
  BY ZenonT(30), <1>0, <1>1, <1>2, <1>3, <1>4, <1>5, <1>6, <1>7, Delivered
<1>9. UNCHANGED <<fromInside, fromOutside, isDraining, paused, made, got, atL2, driver, acks>>
  BY ZenonT(30), <1>6 DEF Deliver, engine, outside, control
<1>10. Lists(fromInside', Src, 2, 8, new) /\ Lists(fromOutside', Home, 4, 6, new)
  BY SMTT(30), <1>l, <1>5, <1>7, <1>9, ListKeeps
<1>11. AtL2s(new)' /\ Made(new)' /\ Got(new)'
  BY SMTT(30), <1>l, <1>5, <1>7, <1>9, OutsideKept
<1> QED BY ZenonT(30), <1>0, <1>7, <1>8, <1>9, <1>10, <1>11, Moved

(* An L2 cache takes a request: 4 to 5.                                     *)
LEMMA ToL2Step ==
    ASSUME RDMAInv, NEW c \in Chiplets, TakeAtL2(c)
    PROVE  Kept
<1>0. EngineTypes
  BY ZenonT(30) DEF RDMAInv
<1>1. PICK pos \in [Accesses -> Stations] : Located(pos)
  BY ZenonT(30) DEF RDMAInv, Travel
<1>l. /\ Queues(pos) /\ AtL2s(pos) /\ Made(pos) /\ Got(pos)
      /\ Filed(in, InK, InW, PortCap, pos) /\ Filed(end, EndK, EndW, EndCap, pos)
      /\ Lists(fromInside, Src, 2, 8, pos) /\ Lists(fromOutside, Home, 4, 6, pos)
  BY ZenonT(30), <1>0, <1>1 DEF Located, Queues, EngineTypes
<1>2. PICK a : a = Head(end[c]["ToL2"])
  OBVIOUS
<1>3. /\ end[c]["ToL2"] # <<>>
      /\ Pull(end, end', c, "ToL2")
      /\ UNCHANGED <<in, fromInside, fromOutside, isDraining, paused, made, got, driver, acks>>
  BY ZenonT(30), <1>2 DEF TakeAtL2, Pull, engine, control
<1>4. /\ "ToL2" \in Data /\ EndK["ToL2"] = 4 /\ EndW["ToL2"] = Home /\ "ToL2" \notin Inside
      /\ NoneAt(InK, 4) /\ NoneAt(InK, 5)
  BY SMTT(30), Tables, Numbers DEF Inside, NoneAt
<1>5. a \in Accesses /\ pos[a] = 4 /\ Home[a] = c
  BY SMTT(30), <1>l, <1>2, <1>3, <1>4, FirstMessage
<1>6. PICK new \in [Accesses -> Stations] : Step(pos, new, a, 4)
  BY SMTT(30), <1>5, NextStation
<1>7. Queues(new)' /\ CtrlSame
  <2>1. 4 \in Nat /\ 5 = 4 + 1
    BY SMTT(30), SMTT(30)
  <2> QED BY <1>0, <1>1, <1>2, <1>3, <1>4, <1>5, <1>6, <2>1, Departed, ZenonT(30)
<1>8. Lists(fromInside', Src, 2, 8, new) /\ Lists(fromOutside', Home, 4, 6, new)
  BY SMTT(30), <1>l, <1>3, <1>5, <1>6, ListKeeps
<1>9. Made(new)' /\ Got(new)'
  BY SMTT(30), <1>l, <1>3, <1>5, <1>6, OutsideKept
<1>10. AtL2s(new)'
  <2>1. /\ ServedAt(new, c) = ServedAt(pos, c) \cup {a}
        /\ \A d \in Chiplets : d # c => ServedAt(new, d) = ServedAt(pos, d)
    BY SMTT(30), <1>5, <1>6 DEF Step, ServedAt
  <2>2. atL2' = [atL2 EXCEPT ![c] = atL2[c] \cup {a}]
    BY ZenonT(30), <1>2 DEF TakeAtL2
  <2>3. atL2 = [d \in Chiplets |-> ServedAt(pos, d)]
    BY ZenonT(30), <1>l DEF AtL2s
  <2>4. atL2' = [d \in Chiplets |-> ServedAt(new, d)]
    BY ZenonT(30), <2>1, <2>2, <2>3
  <2> QED BY ZenonT(30), <2>4 DEF AtL2s
<1> QED BY ZenonT(30), <1>0, <1>3, <1>6, <1>7, <1>8, <1>9, <1>10, Moved

(* An L2 cache answers: 5 to 6.                                             *)
LEMMA AtL2Step ==
    ASSUME RDMAInv, NEW c \in Chiplets, NEW a \in Accesses, AnswerAtL2(c, a)
    PROVE  Kept
<1>0. EngineTypes
  BY ZenonT(30) DEF RDMAInv
<1>1. PICK pos \in [Accesses -> Stations] : Located(pos)
  BY ZenonT(30) DEF RDMAInv, Travel
<1>l. /\ Queues(pos) /\ AtL2s(pos) /\ Made(pos) /\ Got(pos)
      /\ Filed(in, InK, InW, PortCap, pos) /\ Filed(end, EndK, EndW, EndCap, pos)
      /\ Lists(fromInside, Src, 2, 8, pos) /\ Lists(fromOutside, Home, 4, 6, pos)
  BY ZenonT(30), <1>0, <1>1 DEF Located, Queues, EngineTypes
<1>2. /\ a \in atL2[c] /\ Len(in[c]["ToL2"]) < PortCap
      /\ Put(in, in', c, "ToL2", a)
      /\ UNCHANGED <<end, fromInside, fromOutside, isDraining, paused, made, got, driver, acks>>
  BY ZenonT(30) DEF AnswerAtL2, Put, engine, control
<1>3. /\ "ToL2" \in Data /\ InK["ToL2"] = 6 /\ InW["ToL2"] = Home /\ "ToL2" \notin Inside
      /\ NoneAt(EndK, 5) /\ NoneAt(EndK, 6)
  BY SMTT(30), Tables, Numbers DEF Inside, NoneAt
<1>4. pos[a] = 5 /\ Home[a] = c
  BY ZenonT(30), <1>1, <1>2 DEF Located, AtL2s, ServedAt
<1>5. PICK new \in [Accesses -> Stations] : Step(pos, new, a, 5)
  BY SMTT(30), <1>4, NextStation
<1>6. Queues(new)' /\ CtrlSame
  <2>1. 5 \in Nat /\ 6 = 5 + 1 /\ InW["ToL2"][a] = c
    BY SMTT(30), <1>3, <1>4
  <2> QED BY <1>0, <1>1, <1>2, <1>3, <1>4, <1>5, <2>1, Arrived, ZenonT(30)
<1>7. Lists(fromInside', Src, 2, 8, new) /\ Lists(fromOutside', Home, 4, 6, new)
  BY SMTT(30), <1>l, <1>2, <1>5, ListKeeps
<1>8. Made(new)' /\ Got(new)'
  BY SMTT(30), <1>l, <1>2, <1>5, OutsideKept
<1>9. AtL2s(new)'
  <2>1. /\ ServedAt(new, c) = ServedAt(pos, c) \ {a}
        /\ \A d \in Chiplets : d # c => ServedAt(new, d) = ServedAt(pos, d)
    BY SMTT(30), <1>4, <1>5 DEF Step, ServedAt
  <2>2. atL2' = [atL2 EXCEPT ![c] = atL2[c] \ {a}]
    BY ZenonT(30) DEF AnswerAtL2
  <2>3. atL2 = [d \in Chiplets |-> ServedAt(pos, d)]
    BY ZenonT(30), <1>l DEF AtL2s
  <2>4. atL2' = [d \in Chiplets |-> ServedAt(new, d)]
    BY ZenonT(30), <2>1, <2>2, <2>3
  <2> QED BY ZenonT(30), <2>4 DEF AtL2s
<1> QED BY ZenonT(30), <1>0, <1>2, <1>5, <1>6, <1>7, <1>8, <1>9, Moved

(* A cache takes its answer: 9 to 10.                                       *)
LEMMA AnswerStep ==
    ASSUME RDMAInv, NEW c \in Chiplets, NEW p \in Inside, TakeAnswer(c, p)
    PROVE  Kept
<1>0. EngineTypes
  BY ZenonT(30) DEF RDMAInv
<1>1. PICK pos \in [Accesses -> Stations] : Located(pos)
  BY ZenonT(30) DEF RDMAInv, Travel
<1>l. /\ Queues(pos) /\ AtL2s(pos) /\ Made(pos) /\ Got(pos)
      /\ Filed(in, InK, InW, PortCap, pos) /\ Filed(end, EndK, EndW, EndCap, pos)
      /\ Lists(fromInside, Src, 2, 8, pos) /\ Lists(fromOutside, Home, 4, 6, pos)
  BY ZenonT(30), <1>0, <1>1 DEF Located, Queues, EngineTypes
<1>2. PICK a : a = Head(end[c][p])
  OBVIOUS
<1>3. /\ end[c][p] # <<>>
      /\ Pull(end, end', c, p)
      /\ UNCHANGED <<in, fromInside, fromOutside, isDraining, paused, made, atL2, driver, acks>>
  BY ZenonT(30), <1>2 DEF TakeAnswer, Pull, engine, control
<1>4. /\ p \in Data /\ EndK[p] = 9 /\ EndW[p] = Src
      /\ NoneAt(InK, 9) /\ NoneAt(InK, 10)
  BY SMTT(30), Tables, Numbers DEF Inside, NoneAt
<1>5. a \in Accesses /\ pos[a] = 9 /\ Src[a] = c
  BY SMTT(30), <1>l, <1>2, <1>3, <1>4, FirstMessage
<1>6. PICK new \in [Accesses -> Stations] : Step(pos, new, a, 9)
  BY SMTT(30), <1>5, NextStation
<1>7. Queues(new)' /\ CtrlSame
  <2>1. 9 \in Nat /\ 10 = 9 + 1
    BY SMTT(30), SMTT(30)
  <2> QED BY <1>0, <1>1, <1>2, <1>3, <1>4, <1>5, <1>6, <2>1, Departed, ZenonT(30)
<1>8. Lists(fromInside', Src, 2, 8, new) /\ Lists(fromOutside', Home, 4, 6, new)
  BY SMTT(30), <1>l, <1>3, <1>5, <1>6, ListKeeps
<1>9. AtL2s(new)' /\ Made(new)'
  BY SMTT(30), <1>l, <1>3, <1>5, <1>6, OutsideKept
<1>10. Got(new)'
  <2>1. /\ got \in Seq(Chiplets \X Accesses) /\ IsInjective(got)
        /\ Range(got) = {<<Src[b], b>> : b \in {x \in Accesses : pos[x] = 10}}
    BY ZenonT(30), <1>1 DEF Located, Got
  <2>2. <<c, a>> \in Chiplets \X Accesses /\ <<c, a>> \notin Range(got)
    BY SMTT(30), <1>5, <2>1
  <2>3. got' \in Seq(Chiplets \X Accesses) /\ IsInjective(got')
        /\ Range(got') = Range(got) \cup {<<c, a>>}
    <3>1. PICK S, x : S = Chiplets \X Accesses /\ x = <<c, a>>
      BY ZenonT(30)
    <3>2. got' = Append(got, x)
      BY ZenonT(30), <1>2, <3>1 DEF TakeAnswer
    <3>3. got \in Seq(S) /\ IsInjective(got) /\ x \in S /\ x \notin Range(got)
      BY ZenonT(30), <2>1, <2>2, <3>1
    <3>4. got' \in Seq(S) /\ IsInjective(got') /\ Range(got') = Range(got) \cup {x}
      BY SMTT(30), <3>2, <3>3, OneAdded
    <3> QED BY ZenonT(30), <3>1, <3>4
  <2>4. {x \in Accesses : new[x] = 10} = {x \in Accesses : pos[x] = 10} \cup {a}
    BY SMTT(30), <1>5, <1>6 DEF Step
  <2>5. Range(got') = {<<Src[b], b>> : b \in {x \in Accesses : new[x] = 10}}
    BY ZenonT(30), <1>5, <2>1, <2>3, <2>4
  <2> QED BY ZenonT(30), <2>3, <2>5 DEF Got
<1> QED BY ZenonT(30), <1>0, <1>3, <1>6, <1>7, <1>8, <1>9, <1>10, Moved

-----------------------------------------------------------------------------
(* The steps of the drain and the restart.                                  *)

(* A step that leaves every queue of accesses alone leaves every access at  *)
(* its station.                                                             *)
LEMMA TravelKept ==
    ASSUME RDMAInv, UNCHANGED <<fromInside, fromOutside, made, got, atL2>>,
           \A c \in Chiplets, p \in Data : in'[c][p] = in[c][p] /\ end'[c][p] = end[c][p]
    PROVE  Travel'
<1>1. PICK pos \in [Accesses -> Stations] : Located(pos)
  BY ZenonT(30) DEF RDMAInv, Travel
<1>2. Filed(in, InK, InW, PortCap, pos)' /\ Filed(end, EndK, EndW, EndCap, pos)'
  BY ZenonT(30), <1>1 DEF Located, Filed
<1>3. Lists(fromInside, Src, 2, 8, pos)' /\ Lists(fromOutside, Home, 4, 6, pos)'
  BY ZenonT(30), <1>1 DEF Located, Lists
<1>4. AtL2s(pos)' /\ Made(pos)' /\ Got(pos)'
  BY ZenonT(30), <1>1 DEF Located, AtL2s, Made, Got
<1> QED BY ZenonT(30), <1>1, <1>2, <1>3, <1>4 DEF Travel, Located

(* The phases exclude one another.                                          *)
LEMMA PhaseFacts ==
    ASSUME NEW c
    PROVE  /\ Idle(c) => ~Quiet(c) /\ in[c]["CtrlPort"] = <<>> /\ end[c]["CtrlPort"] = <<>>
                          /\ ~isDraining[c] /\ ~paused[c]
           /\ Asked(c) => ~Quiet(c) /\ in[c]["CtrlPort"] = <<"drain">>
                           /\ end[c]["CtrlPort"] = <<>> /\ ~isDraining[c] /\ ~paused[c]
           /\ Draining(c) => ~Quiet(c) /\ in[c]["CtrlPort"] = <<>>
                              /\ end[c]["CtrlPort"] = <<>> /\ isDraining[c] /\ paused[c]
           /\ Told(c) => ~Quiet(c) /\ in[c]["CtrlPort"] = <<>>
                          /\ end[c]["CtrlPort"] = <<"drained">> /\ ~isDraining[c] /\ paused[c]
           /\ Quiet(c) => ~Idle(c) /\ in[c]["CtrlPort"] = <<>> /\ end[c]["CtrlPort"] = <<>>
                           /\ ~isDraining[c] /\ paused[c]
           /\ Woken(c) => ~Idle(c) /\ in[c]["CtrlPort"] = <<"restart">>
                           /\ end[c]["CtrlPort"] = <<>> /\ ~isDraining[c] /\ paused[c]
           /\ Restarted(c) => ~Idle(c) /\ in[c]["CtrlPort"] = <<>>
                               /\ end[c]["CtrlPort"] = <<"restarted">> /\ ~isDraining[c]
                               /\ ~paused[c]
<1>1. <<"drain">> # <<>> /\ <<"drained">> # <<>> /\ <<"restart">> # <<>> /\ <<"restarted">> # <<>>
  OBVIOUS
<1> QED BY ZenonT(30), <1>1 DEF Idle, Asked, Draining, Told, Quiet, Woken, Restarted, Phase

(* The control messages, one at a time in a queue.                          *)
LEMMA Strings ==
    /\ Head(<<"drain">>) = "drain" /\ Tail(<<"drain">>) = <<>> /\ <<"drain">> # <<>>
    /\ Head(<<"restart">>) = "restart" /\ Tail(<<"restart">>) = <<>> /\ <<"restart">> # <<>>
    /\ Tail(<<"drained">>) = <<>> /\ Tail(<<"restarted">>) = <<>>
    /\ <<"drained">> # <<>> /\ <<"restarted">> # <<>>
    /\ \A x : Append(<<>>, x) = <<x>>
  BY SMTT(30), SMTT(30)

(* Every other engine stays in its phase.                                   *)
OnlyAt(c) ==
    \A d \in Chiplets \ {c} : /\ in'[d]["CtrlPort"] = in[d]["CtrlPort"]
                              /\ end'[d]["CtrlPort"] = end[d]["CtrlPort"]
                              /\ isDraining'[d] = isDraining[d] /\ paused'[d] = paused[d]

(* Every engine but the one that steps stays in its phase.                  *)
LEMMA OtherPhases ==
    ASSUME NEW c, OnlyAt(c)
    PROVE  \A d \in Chiplets \ {c} :
             /\ Idle(d)' <=> Idle(d)
             /\ Asked(d)' <=> Asked(d)
             /\ Draining(d)' <=> Draining(d)
             /\ Told(d)' <=> Told(d)
             /\ Quiet(d)' <=> Quiet(d)
             /\ Woken(d)' <=> Woken(d)
             /\ Restarted(d)' <=> Restarted(d)
  BY ZenonT(30) DEF OnlyAt, Idle, Asked, Draining, Told, Quiet, Woken, Restarted, Phase

(* An engine goes on in a drain, short of having its answer taken.          *)
LEMMA DrainGoesOn ==
    ASSUME Control, EmptyWhenTold, driver = "draining", NEW c \in Chiplets, OnlyAt(c),
           ~Quiet(c), Draining(c)' \/ Told(c)', Told(c)' => fromInside[c] = <<>>,
           fromInside' = fromInside, driver' = driver, acks' = acks
    PROVE  Control' /\ EmptyWhenTold'
<1>1. /\ acks = Cardinality({d \in Chiplets : Quiet(d)})
      /\ \A d \in Chiplets : Asked(d) \/ Draining(d) \/ Told(d) \/ Quiet(d)
  BY ZenonT(30) DEF Control
<1>2. ~Quiet(c)'
  BY ZenonT(30), Strings DEF Quiet, Draining, Told, Phase
<1>3. {d \in Chiplets : Quiet(d)'} = {d \in Chiplets : Quiet(d)}
  BY ZenonT(30), <1>2, OtherPhases
<1>4. \A d \in Chiplets : (Asked(d) \/ Draining(d) \/ Told(d) \/ Quiet(d))'
  BY ZenonT(30), <1>1, OtherPhases
<1>5. Control'
  BY ZenonT(30), <1>1, <1>3, <1>4 DEF Control
<1>6. ASSUME NEW d \in Chiplets, paused'[d], ~isDraining'[d] PROVE fromInside'[d] = <<>>
  <2>1. CASE d = c
    BY ZenonT(30), <1>6, <2>1 DEF Draining, Told, Phase
  <2>2. CASE d # c
    BY ZenonT(30), <1>6, <2>2 DEF OnlyAt, EmptyWhenTold
  <2> QED BY ZenonT(30), <2>1, <2>2
<1> QED BY ZenonT(30), <1>5, <1>6 DEF EmptyWhenTold

(* processDrainReq: from Asked to Draining.                                 *)
LEMMA DrainReqStep ==
    ASSUME RDMAInv, NEW c \in Chiplets, processDrainReq(c)
    PROVE  RDMAInv'
<1>1. /\ in[c]["CtrlPort"] # <<>> /\ Head(in[c]["CtrlPort"]) = "drain"
      /\ in' = [in EXCEPT ![c]["CtrlPort"] = Tail(in[c]["CtrlPort"])]
      /\ isDraining' = [isDraining EXCEPT ![c] = TRUE] /\ paused' = [paused EXCEPT ![c] = TRUE]
      /\ UNCHANGED <<end, fromInside, fromOutside, made, got, atL2, driver, acks>>
  BY ZenonT(30) DEF processDrainReq, Has, outside, control
<1>2. driver = "draining" /\ Asked(c)
  BY ZenonT(30), <1>1, PhaseFacts, Strings DEF RDMAInv, Control
<1>3. /\ Shape(in') /\ in'[c]["CtrlPort"] = Tail(in[c]["CtrlPort"])
      /\ \A d \in Chiplets, q \in Ports : d # c \/ q # "CtrlPort" => in'[d][q] = in[d][q]
  BY ZenonT(30), <1>1, Tables DEF RDMAInv, EngineTypes, Shape
<1>4. EngineTypes'
  BY ZenonT(30), <1>1, <1>3 DEF RDMAInv, EngineTypes, Shape
<1>5. Travel'
  BY ZenonT(30), <1>1, <1>3, Tables, TravelKept
<1>6. OnlyAt(c)
  BY ZenonT(30), <1>1, <1>3, Tables DEF OnlyAt, RDMAInv, EngineTypes
<1>7. Draining(c)' /\ ~Quiet(c) /\ ~Told(c)'
  <2>1. Draining(c)'
    BY ZenonT(30), <1>1, <1>2, <1>3, PhaseFacts, Strings DEF Draining, Phase, RDMAInv, EngineTypes
  <2> QED BY ZenonT(30), <1>2, <2>1, PhaseFacts DEF Draining, Told, Phase
<1>8. Control' /\ EmptyWhenTold'
  BY ZenonT(30), <1>1, <1>2, <1>6, <1>7, DrainGoesOn DEF RDMAInv
<1> QED BY ZenonT(30), <1>4, <1>5, <1>8 DEF RDMAInv

(* drainRDMA: from Draining to Told, with no transaction from inside.       *)
LEMMA DrainedStep ==
    ASSUME RDMAInv, NEW c \in Chiplets, drainRDMA(c)
    PROVE  RDMAInv'
<1>1. /\ isDraining[c] /\ fromInside[c] = <<>>
      /\ end' = [end EXCEPT ![c]["CtrlPort"] = Append(end[c]["CtrlPort"], "drained")]
      /\ isDraining' = [isDraining EXCEPT ![c] = FALSE]
      /\ UNCHANGED <<in, fromInside, fromOutside, paused, made, got, atL2, driver, acks>>
  BY ZenonT(30) DEF drainRDMA, fullyDrained, outside, control
<1>2. driver = "draining" /\ Draining(c)
  BY ZenonT(30), <1>1, PhaseFacts DEF RDMAInv, Control
<1>3. /\ Shape(end') /\ end'[c]["CtrlPort"] = Append(end[c]["CtrlPort"], "drained")
      /\ \A d \in Chiplets, q \in Ports : d # c \/ q # "CtrlPort" => end'[d][q] = end[d][q]
  BY ZenonT(30), <1>1, Tables DEF RDMAInv, EngineTypes, Shape
<1>4. EngineTypes'
  BY ZenonT(30), <1>1, <1>3 DEF RDMAInv, EngineTypes, Shape
<1>5. Travel'
  BY ZenonT(30), <1>1, <1>3, Tables, TravelKept
<1>6. OnlyAt(c)
  BY ZenonT(30), <1>1, <1>3, Tables DEF OnlyAt, RDMAInv, EngineTypes
<1>7. Told(c)' /\ ~Quiet(c)
  <2>1. Told(c)'
    BY ZenonT(30), <1>1, <1>2, <1>3, PhaseFacts, Strings DEF Told, Phase, RDMAInv, EngineTypes
  <2> QED BY ZenonT(30), <1>2, <2>1, PhaseFacts
<1>8. Control' /\ EmptyWhenTold'
  BY ZenonT(30), <1>1, <1>2, <1>6, <1>7, DrainGoesOn DEF RDMAInv
<1> QED BY ZenonT(30), <1>4, <1>5, <1>8 DEF RDMAInv

(* processRDMARestartReq: from Woken to Restarted; its answer has room.     *)
LEMMA RestartStep ==
    ASSUME RDMAInv, NEW c \in Chiplets, processRDMARestartReq(c)
    PROVE  RDMAInv'
<1>1. /\ in[c]["CtrlPort"] # <<>> /\ Head(in[c]["CtrlPort"]) = "restart"
      /\ in' = [in EXCEPT ![c]["CtrlPort"] = Tail(in[c]["CtrlPort"])]
      /\ UNCHANGED <<fromInside, fromOutside, isDraining, made, got, atL2, driver, acks>>
  BY ZenonT(30) DEF processRDMARestartReq, Has, outside, control
<1>2. driver = "restarting" /\ Woken(c)
  BY ZenonT(30), <1>1, PhaseFacts, Strings DEF RDMAInv, Control
<1>3. Room(c, "CtrlPort")
  BY ZenonT(30), <1>2, PhaseFacts, Capacities DEF Room
<1>4. /\ end' = [end EXCEPT ![c]["CtrlPort"] = Append(end[c]["CtrlPort"], "restarted")]
      /\ paused' = [paused EXCEPT ![c] = FALSE]
  BY ZenonT(30), <1>3 DEF processRDMARestartReq, PausedAfterRestart
<1>5. /\ Shape(in') /\ in'[c]["CtrlPort"] = Tail(in[c]["CtrlPort"])
      /\ \A d \in Chiplets, q \in Ports : d # c \/ q # "CtrlPort" => in'[d][q] = in[d][q]
  BY ZenonT(30), <1>1, Tables DEF RDMAInv, EngineTypes, Shape
<1>6. /\ Shape(end') /\ end'[c]["CtrlPort"] = Append(end[c]["CtrlPort"], "restarted")
      /\ \A d \in Chiplets, q \in Ports : d # c \/ q # "CtrlPort" => end'[d][q] = end[d][q]
  BY ZenonT(30), <1>4, Tables DEF RDMAInv, EngineTypes, Shape
<1>7. EngineTypes'
  BY ZenonT(30), <1>1, <1>4, <1>5, <1>6 DEF RDMAInv, EngineTypes, Shape
<1>8. Travel'
  BY ZenonT(30), <1>1, <1>5, <1>6, Tables, TravelKept
<1>9. OnlyAt(c)
  BY ZenonT(30), <1>1, <1>4, <1>5, <1>6, Tables DEF OnlyAt, RDMAInv, EngineTypes
<1>10. Restarted(c)'
  BY ZenonT(30), <1>1, <1>2, <1>4, <1>5, <1>6, PhaseFacts, Strings
  DEF Restarted, Phase, RDMAInv, EngineTypes
<1>11. ~Idle(c)' /\ ~Idle(c)
  BY ZenonT(30), <1>2, <1>10, Strings DEF Woken, Restarted, Idle, Phase
<1>12. {d \in Chiplets : Idle(d)'} = {d \in Chiplets : Idle(d)}
  BY ZenonT(30), <1>9, <1>11, OtherPhases
<1>13. \A d \in Chiplets : (Woken(d) \/ Restarted(d) \/ Idle(d))'
  BY ZenonT(30), <1>2, <1>9, <1>10, OtherPhases DEF RDMAInv, Control
<1>14. Control'
  BY ZenonT(30), <1>1, <1>2, <1>12, <1>13 DEF RDMAInv, Control
<1>15. EmptyWhenTold'
  BY ZenonT(30), <1>1, <1>2 DEF EmptyWhenTold
<1> QED BY ZenonT(30), <1>7, <1>8, <1>14, <1>15 DEF RDMAInv

(* The driver takes an answer, and counts one engine more.                  *)
LEMMA AckStep ==
    ASSUME RDMAInv, NEW c \in Chiplets, TakeAck(c)
    PROVE  RDMAInv'
<1>1. /\ end[c]["CtrlPort"] # <<>> /\ acks' = acks + 1
      /\ end' = [end EXCEPT ![c]["CtrlPort"] = Tail(end[c]["CtrlPort"])]
      /\ UNCHANGED <<in, fromInside, fromOutside, isDraining, paused, made, got, atL2, driver>>
  BY ZenonT(30) DEF TakeAck, engine, outside
<1>2. \/ driver = "draining" /\ Told(c)
      \/ driver = "restarting" /\ Restarted(c)
  BY ZenonT(30), <1>1, PhaseFacts DEF RDMAInv, Control
<1>3. /\ Shape(end') /\ end'[c]["CtrlPort"] = Tail(end[c]["CtrlPort"])
      /\ \A d \in Chiplets, q \in Ports : d # c \/ q # "CtrlPort" => end'[d][q] = end[d][q]
  BY ZenonT(30), <1>1, Tables DEF RDMAInv, EngineTypes, Shape
<1>4. EngineTypes'
  BY ZenonT(30), <1>1, <1>3 DEF RDMAInv, EngineTypes, Shape
<1>5. Travel'
  BY ZenonT(30), <1>1, <1>3, Tables, TravelKept
<1>6. OnlyAt(c)
  BY ZenonT(30), <1>1, <1>3, Tables DEF OnlyAt
<1>7. EmptyWhenTold'
  BY ZenonT(30), <1>1 DEF RDMAInv, EmptyWhenTold
<1>8. ASSUME NEW S \in SUBSET Chiplets, c \notin S
      PROVE  Cardinality(S \cup {c}) = Cardinality(S) + 1
  BY ZenonT(30), <1>8, RDMAAssumption, FS_Subset, FS_AddElement
<1>9. CASE driver = "draining" /\ Told(c)
  <2>1. Quiet(c)' /\ ~Quiet(c)
    <3>1. end'[c]["CtrlPort"] = <<>>
      BY ZenonT(30), <1>3, <1>9, PhaseFacts, Strings
    <3> QED BY ZenonT(30), <1>1, <1>9, <3>1, PhaseFacts DEF Quiet, Told, Phase
  <2>2. {d \in Chiplets : Quiet(d)'} = {d \in Chiplets : Quiet(d)} \cup {c}
    BY ZenonT(30), <1>6, <2>1, OtherPhases
  <2>3. acks' = Cardinality({d \in Chiplets : Quiet(d)'})
    BY ZenonT(30), <1>1, <1>8, <1>9, <2>1, <2>2 DEF RDMAInv, Control
  <2>4. \A d \in Chiplets : (Asked(d) \/ Draining(d) \/ Told(d) \/ Quiet(d))'
    BY ZenonT(30), <1>6, <1>9, <2>1, OtherPhases DEF RDMAInv, Control
  <2>5. Control'
    BY ZenonT(30), <1>1, <1>9, <2>3, <2>4 DEF Control
  <2> QED BY ZenonT(30), <1>4, <1>5, <1>7, <2>5 DEF RDMAInv
<1>10. CASE driver = "restarting" /\ Restarted(c)
  <2>1. Idle(c)' /\ ~Idle(c)
    <3>1. end'[c]["CtrlPort"] = <<>>
      BY ZenonT(30), <1>3, <1>10, PhaseFacts, Strings
    <3> QED BY ZenonT(30), <1>1, <1>10, <3>1, PhaseFacts DEF Idle, Restarted, Phase
  <2>2. {d \in Chiplets : Idle(d)'} = {d \in Chiplets : Idle(d)} \cup {c}
    BY ZenonT(30), <1>6, <2>1, OtherPhases
  <2>3. acks' = Cardinality({d \in Chiplets : Idle(d)'})
    BY ZenonT(30), <1>1, <1>8, <1>10, <2>1, <2>2 DEF RDMAInv, Control
  <2>4. \A d \in Chiplets : (Woken(d) \/ Restarted(d) \/ Idle(d))'
    BY ZenonT(30), <1>6, <1>10, <2>1, OtherPhases DEF RDMAInv, Control
  <2>5. Control'
    BY ZenonT(30), <1>1, <1>10, <2>3, <2>4 DEF Control
  <2> QED BY ZenonT(30), <1>4, <1>5, <1>7, <2>5 DEF RDMAInv
<1> QED BY ZenonT(30), <1>2, <1>9, <1>10

(* A message to every engine.                                               *)
LEMMA AllTold ==
    ASSUME RDMAInv, NEW msg, in' = ToAll(msg)
    PROVE  /\ Shape(in')
           /\ \A c \in Chiplets : in'[c]["CtrlPort"] = Append(in[c]["CtrlPort"], msg)
           /\ \A c \in Chiplets, p \in Data : in'[c][p] = in[c][p]
<1>1. DOMAIN in = Chiplets /\ \A c \in Chiplets : DOMAIN in[c] = Ports
  BY ZenonT(30) DEF RDMAInv, EngineTypes, Shape
<1>2. /\ DOMAIN in' = Chiplets
      /\ \A c \in Chiplets : in'[c] = [in[c] EXCEPT !["CtrlPort"] = Append(in[c]["CtrlPort"], msg)]
  BY ZenonT(30) DEF ToAll
<1> QED BY ZenonT(30), <1>1, <1>2, Tables DEF Shape

(* The driver asks every engine to drain.                                   *)
LEMMA StartDrainStep ==
    ASSUME RDMAInv, StartDrain
    PROVE  RDMAInv'
<1>1. /\ driver = "running" /\ in' = ToAll("drain") /\ driver' = "draining" /\ acks' = 0
      /\ UNCHANGED <<end, fromInside, fromOutside, isDraining, paused, made, got, atL2>>
  BY ZenonT(30) DEF StartDrain, engine, outside
<1>2. \A c \in Chiplets : Idle(c)
  BY ZenonT(30), <1>1 DEF RDMAInv, Control
<1>3. /\ Shape(in') /\ \A c \in Chiplets : in'[c]["CtrlPort"] = Append(in[c]["CtrlPort"], "drain")
      /\ \A c \in Chiplets, p \in Data : in'[c][p] = in[c][p]
  BY ZenonT(30), <1>1, AllTold
<1>4. EngineTypes' /\ Travel'
  BY ZenonT(30), <1>1, <1>3, TravelKept DEF RDMAInv, EngineTypes, Shape
<1>5. \A c \in Chiplets : Asked(c)'
  BY ZenonT(30), <1>1, <1>2, <1>3, Strings DEF Idle, Asked, Phase
<1>6. {c \in Chiplets : Quiet(c)'} = {}
  BY ZenonT(30), <1>5, Strings DEF Asked, Quiet, Phase
<1>7. Control'
  BY ZenonT(30), <1>1, <1>5, <1>6, FS_EmptySet DEF Control
<1>8. EmptyWhenTold'
  BY ZenonT(30), <1>5 DEF Asked, Phase, EmptyWhenTold
<1> QED BY ZenonT(30), <1>4, <1>7, <1>8 DEF RDMAInv

(* The driver asks every engine to restart.                                 *)
LEMMA StartRestartStep ==
    ASSUME RDMAInv, StartRestart
    PROVE  RDMAInv'
<1>1. /\ driver = "migrating" /\ in' = ToAll("restart") /\ driver' = "restarting" /\ acks' = 0
      /\ UNCHANGED <<end, fromInside, fromOutside, isDraining, paused, made, got, atL2>>
  BY ZenonT(30) DEF StartRestart, engine, outside
<1>2. \A c \in Chiplets : Quiet(c)
  BY ZenonT(30), <1>1 DEF RDMAInv, Control
<1>3. /\ Shape(in')
      /\ \A c \in Chiplets : in'[c]["CtrlPort"] = Append(in[c]["CtrlPort"], "restart")
      /\ \A c \in Chiplets, p \in Data : in'[c][p] = in[c][p]
  BY ZenonT(30), <1>1, AllTold
<1>4. EngineTypes' /\ Travel'
  BY ZenonT(30), <1>1, <1>3, TravelKept DEF RDMAInv, EngineTypes, Shape
<1>5. \A c \in Chiplets : Woken(c)'
  BY ZenonT(30), <1>1, <1>2, <1>3, Strings DEF Quiet, Woken, Phase
<1>6. {c \in Chiplets : Idle(c)'} = {}
  BY ZenonT(30), <1>5, Strings DEF Woken, Idle, Phase
<1>7. Control'
  BY ZenonT(30), <1>1, <1>5, <1>6, FS_EmptySet DEF Control
<1>8. EmptyWhenTold'
  BY ZenonT(30), <1>1 DEF EmptyWhenTold
<1> QED BY ZenonT(30), <1>4, <1>7, <1>8 DEF RDMAInv

(* All have answered: the count that the driver keeps is of all engines.    *)
LEMMA AckedStep ==
    ASSUME RDMAInv, Migrate \/ Resume
    PROVE  RDMAInv'
<1>1. /\ acks = Cardinality(Chiplets)
      /\ UNCHANGED <<in, end, fromInside, fromOutside, isDraining, paused, made, got, atL2>>
  BY ZenonT(30) DEF Migrate, Resume, AllAcked, engine, outside
<1>2. EngineTypes' /\ Travel'
  BY ZenonT(30), <1>1, TravelKept DEF RDMAInv, EngineTypes, Shape
<1>3. \A c \in Chiplets : (Idle(c)' <=> Idle(c)) /\ (Quiet(c)' <=> Quiet(c))
  BY ZenonT(30), <1>1 DEF Idle, Quiet, Phase
<1>4. \A S \in SUBSET Chiplets : Cardinality(S) = Cardinality(Chiplets) => S = Chiplets
  BY ZenonT(30), RDMAAssumption, FS_Subset
<1>5. CASE Migrate
  <2>1. driver = "draining" /\ driver' = "migrating"
    BY ZenonT(30), <1>5 DEF Migrate
  <2>2. {c \in Chiplets : Quiet(c)} = Chiplets
    BY SMTT(30), <1>1, <1>4, <2>1 DEF RDMAInv, Control
  <2>3. Control'
    BY ZenonT(30), <1>3, <2>1, <2>2 DEF Control
  <2>4. EmptyWhenTold'
    BY ZenonT(30), <1>1, <2>1 DEF RDMAInv, EmptyWhenTold
  <2> QED BY ZenonT(30), <1>2, <2>3, <2>4 DEF RDMAInv
<1>6. CASE Resume
  <2>1. driver = "restarting" /\ driver' = "running"
    BY ZenonT(30), <1>6 DEF Resume
  <2>2. {c \in Chiplets : Idle(c)} = Chiplets
    BY SMTT(30), <1>1, <1>4, <2>1 DEF RDMAInv, Control
  <2>3. Control'
    BY ZenonT(30), <1>3, <2>1, <2>2 DEF Control
  <2>4. EmptyWhenTold'
    BY ZenonT(30), <2>1 DEF EmptyWhenTold
  <2> QED BY ZenonT(30), <1>2, <2>3, <2>4 DEF RDMAInv
<1> QED BY ZenonT(30), <1>5, <1>6

-----------------------------------------------------------------------------
(* The invariant.                                                           *)

(* The invariant holds at first: no access is made, and every engine is     *)
(* idle.                                                                    *)
LEMMA InitInv == Init => RDMAInv
<1> SUFFICES ASSUME Init PROVE RDMAInv
  OBVIOUS
<1>1. PICK pos : pos = [a \in Accesses |-> 0]
  BY ZenonT(30)
<1>2. pos \in [Accesses -> Stations] /\ \A a \in Accesses : pos[a] = 0
  BY SMTT(30), <1>1 DEF Stations
<1>3. /\ \A c \in Chiplets, p \in Ports : in[c][p] = <<>> /\ end[c][p] = <<>>
      /\ Shape(in) /\ Shape(end)
  BY ZenonT(30) DEF Init, Shape
<1>4. EngineTypes
  BY ZenonT(30), <1>3 DEF EngineTypes, Init
<1>5. \A S : <<>> \in Seq(S) /\ IsInjective(<<>>) /\ Len(<<>>) = 0 /\ Range(<<>>) = {}
  BY SMTT(30) DEF IsInjective, Range
<1>6. ASSUME NEW c \in Chiplets, NEW p \in Data
      PROVE  Box(InK, InW, pos, c, p) = {} /\ Box(EndK, EndW, pos, c, p) = {}
  BY SMTT(30), <1>2, Tables DEF Box
<1>7. Filed(in, InK, InW, PortCap, pos) /\ Filed(end, EndK, EndW, EndCap, pos)
  <2>1. ASSUME NEW c \in Chiplets, NEW p \in Data
        PROVE  in[c][p] = <<>> /\ end[c][p] = <<>> /\ 0 <= PortCap /\ 0 <= EndCap
    BY SMTT(30), <1>3, Tables, Capacities
  <2> QED BY ZenonT(30), <1>5, <1>6, <2>1 DEF Filed
<1>8. Lists(fromInside, Src, 2, 8, pos) /\ Lists(fromOutside, Home, 4, 6, pos)
  BY SMTT(30), <1>2, <1>5 DEF Lists, Init
<1>9. AtL2s(pos) /\ Made(pos) /\ Got(pos)
  <2>1. \A c \in Chiplets : ServedAt(pos, c) = {}
    BY SMTT(30), <1>2 DEF ServedAt
  <2>2. AtL2s(pos) /\ Made(pos)
    BY ZenonT(30), <1>2, <2>1 DEF AtL2s, Made, Init
  <2>3. {<<Src[a], a>> : a \in {b \in Accesses : pos[b] = 10}} = {}
    BY SMTT(30), <1>2
  <2>4. Got(pos)
    BY ZenonT(30), <1>5, <2>3 DEF Got, Init
  <2> QED BY ZenonT(30), <2>2, <2>4
<1>10. Travel
  BY ZenonT(30), <1>2, <1>7, <1>8, <1>9 DEF Travel, Located
<1>11. Control /\ EmptyWhenTold
  BY ZenonT(30), <1>3, Tables DEF Control, EmptyWhenTold, Idle, Phase, Init
<1> QED BY ZenonT(30), <1>4, <1>10, <1>11 DEF RDMAInv

(* A step that only moves accesses keeps the invariant.                     *)
LEMMA KeptInv ==
    ASSUME RDMAInv, Kept
    PROVE  RDMAInv'
  BY ZenonT(30), ControlKept DEF Kept, RDMAInv

(* Every step keeps the invariant.                                          *)
LEMMA NextInv ==
    ASSUME RDMAInv, [Next]_vars
    PROVE  RDMAInv'
<1>1. ASSUME NEW c \in Chiplets, Engine(c) PROVE RDMAInv'
  BY ZenonT(30), <1>1, InsideStep, OutsideStep, FromL2Step, ResponseStep, KeptInv,
     DrainReqStep, DrainedStep, RestartStep DEF Engine, Inside
<1>2. ASSUME NEW c \in Chiplets, Around(c) PROVE RDMAInv'
  BY ZenonT(30), <1>2, CarryStep, ToL2Step, AtL2Step, AnswerStep, KeptInv, AckStep DEF Around, Inside
<1>3. ASSUME Driver PROVE RDMAInv'
  BY ZenonT(30), <1>3, AckedStep, StartRestartStep DEF Driver
<1>4. CASE UNCHANGED vars
  <2>1. Unnoticed
    BY ZenonT(30), <1>4 DEF vars, Unnoticed
  <2>2. Travel'
    BY ZenonT(30), <1>4, TravelKept DEF vars
  <2>3. EngineTypes'
    BY ZenonT(30), <1>4 DEF vars, EngineTypes, Shape, RDMAInv
  <2> QED BY ZenonT(30), <2>1, <2>2, <2>3, KeptInv DEF Kept
<1> QED BY ZenonT(30), <1>1, <1>2, <1>3, <1>4, StartDrainStep, MakeStep, KeptInv DEF Next, Work

(* The invariant holds always: every access is at one station, the queues   *)
(* and lists agree with it, and the driver counts the phases of the         *)
(* engines.                                                                 *)
THEOREM Invariant == Spec => []RDMAInv
<1>1. RDMAInv /\ [Next]_vars => RDMAInv'
  BY ZenonT(30), NextInv
<1> QED BY <1>1, InitInv, PTL DEF Spec

(* Between the last answer to a drain and the restart no access is between  *)
(* the chiplets: an access that is, is a transaction of the engine it came  *)
(* from, and that engine has answered with no such transaction (fullyDrained *)
(* looks at both lists) and takes none since (pauseIncomingReqsFromL1).     *)
THEOREM DrainedIsQuiet == Spec => []QuietWhenDrained
<1>1. RDMAInv => QuietWhenDrained
  <2> SUFFICES ASSUME RDMAInv, driver = "migrating", NEW c \in Chiplets
               PROVE  fromInside[c] = <<>> /\ fromOutside[c] = <<>> /\ Travelling(c) = {}
    BY ZenonT(30) DEF QuietWhenDrained
  <2>1. PICK pos \in [Accesses -> Stations] : Located(pos)
    BY ZenonT(30) DEF RDMAInv, Travel
  <2>2. \A d \in Chiplets : fromInside[d] = <<>>
    BY ZenonT(30), PhaseFacts DEF RDMAInv, Control, EmptyWhenTold
  <2>3. \A a \in Accesses : pos[a] \notin 2..8
    <3>1. \A d \in Chiplets : Range(fromInside[d]) = {}
      BY SMTT(30), <2>2 DEF Range
    <3> QED BY SMTT(30), <2>1, <3>1, RDMAAssumption DEF Located, Lists
  <2>4. \A s \in Seq(Accesses) : Range(s) = {} => s = <<>>
    BY SMTT(30) DEF Range
  <2>5. Range(fromOutside[c]) = {} /\ fromOutside[c] \in Seq(Accesses)
    <3>1. /\ fromOutside[c] \in Seq(Accesses)
          /\ Range(fromOutside[c]) = {a \in Accesses : pos[a] \in 4..6 /\ Home[a] = c}
      BY ZenonT(30), <2>1 DEF Located, Lists
    <3>2. \A a \in Accesses : pos[a] \notin 4..6
      BY SMTT(30), <2>1, <2>3 DEF Stations
    <3> QED BY ZenonT(30), <3>1, <3>2
  <2>6. atL2[c] = {}
    BY SMTT(30), <2>1, <2>3 DEF Located, AtL2s, ServedAt
  <2>7. ASSUME NEW p \in {"RequestPort", "ResponsePort", "ToL2"}
        PROVE  Range(in[c][p]) = {} /\ Range(end[c][p]) = {}
    <3>1. p \in Data /\ InK[p] \in 2..8 /\ EndK[p] \in 2..8
      BY SMTT(30), Tables
    <3>2. Box(InK, InW, pos, c, p) = {} /\ Box(EndK, EndW, pos, c, p) = {}
      BY ZenonT(30), <2>3, <3>1 DEF Box
    <3> QED BY ZenonT(30), <2>1, <3>1, <3>2 DEF Located, Filed
  <2>8. Travelling(c) = {}
    BY ZenonT(30), <2>6, <2>7 DEF Travelling
  <2> QED BY ZenonT(30), <2>2, <2>4, <2>5, <2>8
<1> QED BY <1>1, Invariant, PTL

(* A response finds its transaction, on both sides: neither call of         *)
(* findTransactionByRspToID panics.                                         *)
THEOREM ResponsesFindTransactions == Spec => []TransactionFound
<1>1. RDMAInv => TransactionFound
  <2> SUFFICES ASSUME RDMAInv, NEW c \in Chiplets
               PROVE  /\ Range(in[c]["ResponsePort"]) \subseteq Range(fromInside[c])
                      /\ Range(in[c]["ToL2"]) \cup atL2[c] \cup Range(end[c]["ToL2"])
                            \subseteq Range(fromOutside[c])
    BY ZenonT(30) DEF TransactionFound
  <2>1. PICK pos \in [Accesses -> Stations] : Located(pos)
    BY ZenonT(30) DEF RDMAInv, Travel
  <2>2. /\ Range(fromInside[c]) = {a \in Accesses : pos[a] \in 2..8 /\ Src[a] = c}
        /\ Range(fromOutside[c]) = {a \in Accesses : pos[a] \in 4..6 /\ Home[a] = c}
        /\ atL2[c] = {a \in Accesses : pos[a] = 5 /\ Home[a] = c}
    BY ZenonT(30), <2>1 DEF Located, Lists, AtL2s, ServedAt
  <2>3. /\ Range(in[c]["ResponsePort"]) = Box(InK, InW, pos, c, "ResponsePort")
        /\ Range(in[c]["ToL2"]) = Box(InK, InW, pos, c, "ToL2")
        /\ Range(end[c]["ToL2"]) = Box(EndK, EndW, pos, c, "ToL2")
    BY ZenonT(30), <2>1, Tables DEF Located, Filed
  <2>4. /\ \A a \in Box(InK, InW, pos, c, "ResponsePort") : a \in Accesses /\ pos[a] = 8 /\ Src[a] = c
        /\ \A a \in Box(InK, InW, pos, c, "ToL2") : a \in Accesses /\ pos[a] = 6 /\ Home[a] = c
        /\ \A a \in Box(EndK, EndW, pos, c, "ToL2") : a \in Accesses /\ pos[a] = 4 /\ Home[a] = c
    BY ZenonT(30), Tables DEF Box
  <2> QED BY SMTT(30), <2>2, <2>3, <2>4
<1> QED BY <1>1, Invariant, PTL

(* An access is answered at most once, and on the chiplet that made it.     *)
THEOREM AnswersGoHomeOnce == Spec => []AnsweredOnce
<1>1. RDMAInv => AnsweredOnce
  <2> SUFFICES ASSUME RDMAInv PROVE AnsweredOnce
    OBVIOUS
  <2>1. PICK pos \in [Accesses -> Stations] : Located(pos)
    BY ZenonT(30) DEF RDMAInv, Travel
  <2>2. /\ got \in Seq(Chiplets \X Accesses) /\ IsInjective(got)
        /\ Range(got) = {<<Src[a], a>> : a \in {b \in Accesses : pos[b] = 10}}
    BY ZenonT(30), <2>1 DEF Located, Got
  <2>3. ASSUME NEW i \in DOMAIN got PROVE got[i][1] = Src[got[i][2]]
    <3>1. got[i] \in Range(got)
      BY ZenonT(30) DEF Range
    <3>2. PICK a \in Accesses : got[i] = <<Src[a], a>>
      BY ZenonT(30), <2>2, <3>1
    <3> QED BY SMTT(30), <3>2
  <2> QED BY ZenonT(30), <2>2, <2>3 DEF AnsweredOnce
<1> QED BY <1>1, Invariant, PTL

(* No port and no connection holds more messages than it has room for -     *)
(* control messages included, of which an engine has at most one - and no   *)
(* transaction is listed twice.                                             *)
THEOREM WithinCapacity == Spec => []TypeOK
<1>1. RDMAInv => TypeOK
  <2> SUFFICES ASSUME RDMAInv PROVE TypeOK
    OBVIOUS
  <2>1. PICK pos \in [Accesses -> Stations] : Located(pos)
    BY ZenonT(30) DEF RDMAInv, Travel
  <2>2. ASSUME NEW c \in Chiplets, NEW p \in Data
        PROVE  Len(in[c][p]) <= PortCap /\ Len(end[c][p]) <= EndCap
    BY ZenonT(30), <2>1 DEF Located, Filed
  <2>3. ASSUME NEW c \in Chiplets
        PROVE  Len(in[c]["CtrlPort"]) <= PortCap /\ Len(end[c]["CtrlPort"]) <= EndCap
    <3>1. /\ in[c]["CtrlPort"] \in {<<>>, <<"drain">>, <<"restart">>}
          /\ end[c]["CtrlPort"] \in {<<>>, <<"drained">>, <<"restarted">>}
      BY ZenonT(30), PhaseFacts DEF RDMAInv, Control
    <3>2. /\ Len(<<>>) = 0 /\ Len(<<"drain">>) = 1 /\ Len(<<"restart">>) = 1
          /\ Len(<<"drained">>) = 1 /\ Len(<<"restarted">>) = 1
      OBVIOUS
    <3>3. Len(in[c]["CtrlPort"]) \in {0, 1} /\ Len(end[c]["CtrlPort"]) \in {0, 1}
      BY ZenonT(30), <3>1, <3>2
    <3>4. \A i \in {0, 1} : i <= PortCap /\ i <= EndCap
      BY SMTT(30), Capacities
    <3> QED BY <3>3, <3>4, Zenon
  <2>4. \A c \in Chiplets : IsInjective(fromInside[c]) /\ IsInjective(fromOutside[c])
    BY ZenonT(30), <2>1 DEF Located, Lists
  <2> QED BY ZenonT(30), <2>2, <2>3, <2>4 DEF TypeOK, Data
<1> QED BY <1>1, Invariant, PTL

=============================================================================
