-------------------------- MODULE ReorderBufferProofs --------------------------
(* TLAPS proofs about the reorder buffer, for every number of requests, every *)
(* buffer and port capacity and every number of control messages.             *)
EXTENDS ReorderBuffer, TLAPS, SequenceTheorems

\* What Append and Tail do to the elements of a sequence.
LEMMA AppendFacts ==
    ASSUME NEW S, NEW s \in Seq(S), NEW e \in S
    PROVE  /\ Append(s, e) \in Seq(S)
           /\ Len(Append(s, e)) = Len(s) + 1
           /\ \A i \in 1..Len(s) : Append(s, e)[i] = s[i]
           /\ Append(s, e)[Len(s) + 1] = e
  OBVIOUS

\* The same for Head and Tail of a non-empty sequence.
LEMMA TailFacts ==
    ASSUME NEW S, NEW s \in Seq(S), s # <<>>
    PROVE  /\ Tail(s) \in Seq(S) /\ Head(s) \in S /\ Head(s) = s[1]
           /\ Len(s) \in Nat \ {0} /\ Len(Tail(s)) = Len(s) - 1
           /\ \A i \in 1..(Len(s) - 1) : Tail(s)[i] = s[i + 1]
  OBVIOUS

-----------------------------------------------------------------------------
(* Type correctness, in two parts: the Boolean flags and all the rest.        *)

FlagsOK == isFlushing \in BOOLEAN /\ progress \in BOOLEAN /\ awake \in BOOLEAN

DataOK ==
    /\ issued \in 0..NumReqs
    /\ topIn \in Seq(Reqs) /\ Len(topIn) <= PortCap
    /\ transactions \in Seq(Transaction)
    /\ Len(transactions) <= bufferSize
    /\ table \subseteq Nat /\ lastID \in Nat
    /\ bottomOut \in Seq(BottomReq) /\ Len(bottomOut) <= EndCap
    /\ atBottom \subseteq BottomReq
    /\ bottomIn \in Seq(BottomRsp) /\ Len(bottomIn) <= PortCap
    /\ sent \in Seq(TopRsp)
    /\ topPending \in 0..EndCap /\ ctrlPending \in 0..EndCap
    /\ busy \subseteq {"top", "bottom", "ctrl"}
    /\ dropped \subseteq Reqs
    /\ ctrlIn \in {<<>>, <<"discard">>, <<"restart">>} /\ ctrlLeft \in 0..NumCtrl
    /\ stage \in Stages /\ rep \in 0..numReqPerCycle

\* The flags stay Boolean.
LEMMA FlagsStep == FlagsOK /\ [Next]_vars => FlagsOK'
<1> SUFFICES ASSUME FlagsOK, [Next]_vars PROVE FlagsOK'
  OBVIOUS
<1> USE DEF FlagsOK
<1>1. CASE UNCHANGED vars
  BY <1>1, Zenon DEF vars, bufVars, tickVars
<1>2. CASE Environment
  BY <1>2, Zenon DEF Environment, RecvTop, ForwardTop, ForwardBottom, ForwardCtrl,
     RecvBottom, RecvCtrl, Wake, NotifyAvailable, bufVars, tickVars
<1>3. CASE StartTick \/ NoControlMsg \/ CtrlRejected \/ discardTransactions \/ restart
  BY <1>3, Zenon DEF StartTick, NoControlMsg, CtrlRejected, discardTransactions,
     restart, AfterCtrl, FinishTick, Goto, bufVars
<1>4. CASE bottomUp \/ bottomUpEnd \/ parseBottom \/ parseBottomEnd \/ topDown \/ topDownEnd
  BY <1>4, Zenon DEF bottomUp, bottomUpEnd, parseBottom, parseBottomEnd, topDown,
     topDownEnd, FinishTick, Goto, Again, bufVars
<1> QED BY ZenonT(30), <1>1, <1>2, <1>3, <1>4 DEF Next, Tick

\* Every step keeps the types and the capacities.
LEMMA DataStep == DataOK /\ [Next]_vars => DataOK'
  <2> SUFFICES ASSUME DataOK, [Next]_vars PROVE DataOK'
    OBVIOUS
  <2> USE RobAssumption DEF DataOK, Stages
  <2>1. CASE StartTick
    BY SMTT(30), <2>1 DEF StartTick, bufVars, portVars, ctrlVars
  <2>2. CASE NoControlMsg
    BY SMTT(30), <2>2 DEF NoControlMsg, AfterCtrl, FinishTick, Goto, bufVars, portVars, ctrlVars
  <2>3. CASE CtrlRejected
    BY SMTT(30), <2>3 DEF CtrlRejected, AfterCtrl, FinishTick, Goto, bufVars, portVars, ctrlVars
  <2>e. \A i \in DOMAIN transactions : transactions[i] \in Transaction
    OBVIOUS
  <2>f. \A t \in Transaction : t.top \in Reqs
    BY ZenonT(30) DEF Transaction
  <2>t. Tops(transactions) \subseteq Reqs
    BY ZenonT(30), <2>e, <2>f DEF Tops
  <2>4. CASE discardTransactions
    <3>1. dropped' \subseteq Reqs /\ transactions' = <<>> /\ table' = {}
      BY ZenonT(30), <2>4, <2>t DEF discardTransactions
    <3>2. ctrlPending' \in 0..EndCap /\ ctrlIn' = <<>> /\ ctrlLeft' = ctrlLeft
      BY SMTT(30), <2>4 DEF discardTransactions, Acknowledge
    <3> QED BY SMTT(30), <2>4, <3>1, <3>2 DEF discardTransactions, portVars
  <2>5. CASE restart
    <3>1. /\ dropped' \subseteq Reqs /\ transactions' = <<>> /\ table' = {}
          /\ topIn' = <<>> /\ bottomIn' = <<>>
      BY SMTT(30), <2>5, <2>t DEF restart
    <3>2. ctrlPending' \in 0..EndCap /\ ctrlIn' = <<>> /\ ctrlLeft' = ctrlLeft
      BY SMTT(30), <2>5 DEF restart, Acknowledge
    <3> QED BY SMTT(30), <2>5, <3>1, <3>2 DEF restart
  <2>6. CASE bottomUp
    <3>1. /\ Head(transactions) \in Transaction
          /\ Tail(transactions) \in Seq(Transaction)
          /\ Len(Tail(transactions)) <= bufferSize
      BY SMTT(30), <2>6 DEF bottomUp, HeadDone
    <3>2. [rspTo |-> Head(transactions).top, data |-> Head(transactions).rsp] \in TopRsp
      BY ZenonT(30), <2>6, <3>1 DEF bottomUp, HeadDone, Transaction, TopRsp
    <3>3. sent' \in Seq(TopRsp)
      BY SMTT(30), <2>6, <3>2 DEF bottomUp
    <3>4. rep' \in 0..numReqPerCycle /\ stage' = stage /\ topPending' \in 0..EndCap
      BY SMTT(30), <2>6 DEF bottomUp, Again
    <3>5. table' \subseteq Nat
      BY Zenon, <2>6 DEF bottomUp, TableAfterDelete
    <3> QED BY ZenonT(30), <2>6, <3>1, <3>3, <3>4, <3>5 DEF bottomUp, ListAfterDelete, ctrlVars
  <2>7. CASE bottomUpEnd
    <3>1. busy' \subseteq {"top", "bottom", "ctrl"}
      BY ZenonT(30), <2>7 DEF bottomUpEnd
    <3> QED BY SMTT(30), <2>7, <3>1 DEF bottomUpEnd, Goto, bufVars, portVars, ctrlVars
  <2>8. CASE parseBottom
    <3>0. bottomIn # <<>> /\ bottomIn \in Seq(BottomRsp)
      BY ZenonT(30), <2>8 DEF parseBottom
    <3>1. /\ Head(bottomIn) \in BottomRsp
          /\ Tail(bottomIn) \in Seq(BottomRsp)
          /\ Len(Tail(bottomIn)) <= PortCap
      BY SMTT(30), <3>0
    <3>2. \A t \in Transaction : [t EXCEPT !.rsp = Head(bottomIn).data] \in Transaction
      BY Zenon, <3>1 DEF Transaction, BottomRsp
    <3>3. /\ transactions' \in Seq(Transaction)
          /\ Len(transactions') = Len(transactions)
      <4>1. CASE Head(bottomIn).rspTo \notin table
        BY Zenon, <2>8, <4>1 DEF parseBottom
      <4>2. CASE Head(bottomIn).rspTo \in table
        <5> DEFINE r == Head(bottomIn)
                   upd(i) == IF transactions[i].bot = r.rspTo
                             THEN [transactions[i] EXCEPT !.rsp = r.data]
                             ELSE transactions[i]
        <5>1. transactions' = [i \in DOMAIN transactions |-> upd(i)]
          BY <2>8, <4>2, Zenon DEF parseBottom, Answers
        <5>2. \A i \in DOMAIN transactions : upd(i) \in Transaction
          BY Zenon, <2>e, <3>2
        <5>3. DOMAIN transactions = 1..Len(transactions)
          OBVIOUS
        <5> HIDE DEF upd
        <5>4. transactions' \in [1..Len(transactions) -> Transaction]
          BY ZenonT(30), <5>1, <5>2, <5>3
        <5> QED BY SMTT(30), <5>4, <5>1, <5>3
      <4> QED BY ZenonT(30), <4>1, <4>2
    <3>a. Again /\ rep < numReqPerCycle
      BY <2>8, Zenon DEF parseBottom
    <3>4. rep' \in 0..numReqPerCycle /\ stage' = stage
      BY SMTT(30), <3>a DEF Again
    <3>5. bottomIn' \in Seq(BottomRsp) /\ Len(bottomIn') <= PortCap
      BY ZenonT(30), <2>8, <3>1 DEF parseBottom
    <3> QED BY Zenon, <2>8, <3>3, <3>4, <3>5 DEF parseBottom, ctrlVars
  <2>9. CASE parseBottomEnd
    BY SMTT(30), <2>9 DEF parseBottomEnd, Goto, bufVars, portVars, ctrlVars
  <2>10. CASE topDown
    <3>1. /\ Head(topIn) \in Reqs /\ Tail(topIn) \in Seq(Reqs)
          /\ Len(Tail(topIn)) <= PortCap
      BY SMTT(30), <2>10 DEF topDown
    <3>2. /\ [id |-> lastID + 1, data |-> Head(topIn)] \in BottomReq
          /\ [top |-> Head(topIn), bot |-> lastID + 1, rsp |-> NoRsp] \in Transaction
      BY SMTT(30), <3>1 DEF BottomReq, Transaction
    <3>3. /\ bottomOut' \in Seq(BottomReq) /\ Len(bottomOut') <= EndCap
          /\ transactions' \in Seq(Transaction)
          /\ Len(transactions') <= bufferSize
      BY SMTT(30), <2>10, <3>2 DEF topDown, ListAfterAdd, isFull
    <3> QED BY SMTT(40), <2>10, <3>1, <3>3 DEF topDown, Again, ctrlVars
  <2>11. CASE topDownEnd
    <3>1. busy' \subseteq {"top", "bottom", "ctrl"}
      BY ZenonT(30), <2>11 DEF topDownEnd
    <3> QED BY SMTT(30), <2>11, <3>1 DEF topDownEnd, FinishTick, bufVars, portVars, ctrlVars
  <2>12. CASE Environment
    <3>1. CASE RecvTop
      BY SMTT(30), <3>1 DEF RecvTop, Wake, bufVars, ctrlVars, Reqs
    <3>2. CASE ForwardTop
      BY SMTT(30), <3>2 DEF ForwardTop, NotifyAvailable, Wake, tickVars, bufVars, ctrlVars
    <3>3. CASE ForwardBottom
      <4>1. /\ Head(bottomOut) \in BottomReq
            /\ Tail(bottomOut) \in Seq(BottomReq)
            /\ Len(Tail(bottomOut)) <= EndCap
        BY SMTT(30), <3>3 DEF ForwardBottom
      <4> QED BY ZenonT(30), <3>3, <4>1 DEF ForwardBottom, NotifyAvailable, Wake, tickVars,
                                 bufVars, ctrlVars
    <3>4. CASE ForwardCtrl
      BY SMTT(30), <3>4 DEF ForwardCtrl, NotifyAvailable, Wake, tickVars, bufVars, portVars
    <3>5. ASSUME NEW q \in atBottom, RecvBottom(q) PROVE DataOK'
      <4>1. [rspTo |-> q.id, data |-> q.data] \in BottomRsp
        BY ZenonT(30) DEF BottomReq, BottomRsp
      <4> QED BY SMTT(30), <3>5, <4>1 DEF RecvBottom, Wake, bufVars, ctrlVars
    <3>6. ASSUME NEW m \in {"discard", "restart"}, RecvCtrl(m) PROVE DataOK'
      BY SMTT(30), <3>6 DEF RecvCtrl, Wake, bufVars, portVars
    <3> QED BY Zenon, <2>12, <3>1, <3>2, <3>3, <3>4, <3>5, <3>6 DEF Environment
  <2>13. CASE UNCHANGED vars
    BY ZenonT(30), <2>13 DEF vars, bufVars, portVars, ctrlVars, tickVars
  <2> QED
    BY Zenon, <2>1, <2>2, <2>3, <2>4, <2>5, <2>6, <2>7, <2>8, <2>9, <2>10, <2>11,
       <2>12, <2>13 DEF Next, Tick

\* Every variable keeps its type and every buffer its bound: the list never
\* exceeds bufferSize, no port or connection end exceeds its capacity.
THEOREM TypeCorrect == Spec => []TypeOK
<1>1. Init => FlagsOK
  BY Zenon DEF Init, FlagsOK
<1>2. Init => DataOK
  BY SMTT(30), RobAssumption DEF Init, DataOK, Reqs, NoRsp, Stages
<1>3. FlagsOK /\ DataOK => TypeOK
  BY Zenon DEF FlagsOK, DataOK, TypeOK
<1> QED BY <1>1, <1>2, <1>3, FlagsStep, DataStep, PTL DEF Spec

-----------------------------------------------------------------------------
(* The inductive invariant behind the other properties.                       *)

\* IDs of duplicates are fresh, so a response leads to one list element at most,
\* and everything under way for that element carries its request's data.
IdOrder == \A i, j \in DOMAIN transactions : i < j => transactions[i].bot < transactions[j].bot
IdOld ==
    \A i \in DOMAIN transactions :
        transactions[i].bot <= lastID /\ transactions[i].rsp \in {NoRsp, transactions[i].top}

\* A message with that ID and that data fits the list.
Fits(id, data) ==
    /\ id <= lastID
    /\ \A i \in DOMAIN transactions : transactions[i].bot = id => data = transactions[i].top

OutFits == \A k \in DOMAIN bottomOut : Fits(bottomOut[k].id, bottomOut[k].data)
AtFits  == \A q \in atBottom : Fits(q.id, q.data)
InFits  == \A k \in DOMAIN bottomIn : Fits(bottomIn[k].rspTo, bottomIn[k].data)

IdInv == TableMatchesList /\ IdOrder /\ IdOld /\ OutFits /\ AtFits /\ InFits

\* The requests pass TopPort, the list and the answers in the order of issue.
Before(S, T) == \A a \in S, b \in T : a < b

OrderInv ==
    /\ \A i, j \in DOMAIN topIn : i < j => topIn[i] < topIn[j]
    /\ \A i, j \in DOMAIN transactions : i < j => transactions[i].top < transactions[j].top
    /\ InOrder
    /\ Before(Tops(transactions), Waiting)
    /\ Before(Answered \cup dropped, Tops(transactions) \cup Waiting)
    /\ Answered \cap dropped = {}
    /\ 1..issued = Waiting \cup Tops(transactions) \cup Answered \cup dropped

BufferInv == DataOK /\ IdInv /\ OrderInv /\ RightData

\* What the types say about the elements.
LEMMA ElementFacts ==
    ASSUME DataOK
    PROVE  /\ DOMAIN transactions = 1..Len(transactions) /\ Len(transactions) \in Nat
           /\ DOMAIN bottomOut = 1..Len(bottomOut) /\ Len(bottomOut) \in Nat
           /\ DOMAIN bottomIn = 1..Len(bottomIn) /\ Len(bottomIn) \in Nat
           /\ \A i \in 1..Len(transactions) :
                /\ transactions[i] \in Transaction
                /\ transactions[i].bot \in Nat /\ transactions[i].top \in Nat
           /\ \A k \in 1..Len(bottomOut) : bottomOut[k] \in BottomReq /\ bottomOut[k].id \in Nat
           /\ \A k \in 1..Len(bottomIn) : bottomIn[k] \in BottomRsp /\ bottomIn[k].rspTo \in Nat
           /\ \A q \in atBottom : q \in BottomReq /\ q.id \in Nat
           /\ lastID \in Nat
<1>1. /\ transactions \in Seq(Transaction) /\ bottomOut \in Seq(BottomReq)
      /\ bottomIn \in Seq(BottomRsp) /\ atBottom \subseteq BottomReq /\ lastID \in Nat
  BY ZenonT(30) DEF DataOK
<1>2. \A t \in Transaction : t.bot \in Nat /\ t.top \in Nat
  BY SMTT(30), RobAssumption DEF Transaction, Reqs
<1>3. \A t \in BottomReq : t.id \in Nat
  BY ZenonT(30) DEF BottomReq
<1>4. \A t \in BottomRsp : t.rspTo \in Nat
  BY ZenonT(30) DEF BottomRsp
<1>5. \A i \in 1..Len(transactions) : transactions[i] \in Transaction
  BY SMTT(30), <1>1
<1>6. \A i \in 1..Len(bottomOut) : bottomOut[i] \in BottomReq
  BY SMTT(30), <1>1
<1>7. \A i \in 1..Len(bottomIn) : bottomIn[i] \in BottomRsp
  BY SMTT(30), <1>1
<1> QED BY SMTT(30), <1>1, <1>2, <1>3, <1>4, <1>5, <1>6, <1>7

\* An empty list satisfies IdInv as long as the IDs under way are old ones.
LEMMA IdEmpty ==
    ASSUME IdInv, transactions' = <<>>, table' = {}, UNCHANGED <<lastID, bottomOut, atBottom>>,
           bottomIn' = bottomIn \/ bottomIn' = <<>>
    PROVE  IdInv'
<1>1. DOMAIN transactions' = {} /\ Bots(transactions') = {}
  BY SMTT(30) DEF Bots
<1>2. \A id, data : Fits(id, data) => Fits(id, data)'
  BY ZenonT(30), <1>1 DEF Fits
<1>3. TableMatchesList' /\ IdOrder' /\ IdOld'
  BY ZenonT(30), <1>1 DEF TableMatchesList, IdOrder, IdOld
<1>4. OutFits' /\ AtFits'
  BY ZenonT(30), <1>2 DEF IdInv, OutFits, AtFits
<1>5. InFits'
  <2>1. CASE bottomIn' = bottomIn
    BY ZenonT(30), <2>1, <1>2 DEF IdInv, InFits
  <2>2. CASE bottomIn' = <<>>
    BY SMTT(30), <2>2 DEF InFits
  <2> QED BY ZenonT(30), <2>1, <2>2
<1> QED BY ZenonT(30), <1>3, <1>4, <1>5 DEF IdInv

\* bottomUp removes the oldest element, whose ID is below all the others'.
LEMMA IdBottomUp == ASSUME DataOK, IdInv, bottomUp PROVE IdInv'
<1>1. /\ transactions # <<>> /\ transactions' = Tail(transactions)
      /\ table' = table \ {Head(transactions).bot}
      /\ UNCHANGED <<lastID, bottomOut, atBottom, bottomIn>>
  BY ZenonT(30) DEF bottomUp, HeadDone, ListAfterDelete, TableAfterDelete
<1>2. transactions \in Seq(Transaction)
  BY ZenonT(30) DEF DataOK
<1> DEFINE n == Len(transactions)
<1>3. /\ n \in Nat \ {0} /\ DOMAIN transactions' = 1..(n - 1)
      /\ DOMAIN transactions = 1..n /\ Head(transactions) = transactions[1]
      /\ \A i \in 1..(n - 1) : transactions'[i] = transactions[i + 1] /\ i + 1 \in 1..n
  BY SMTT(30), <1>1, <1>2
<1> HIDE DEF n
<1>4. \A i \in 1..n : transactions[i].bot \in Nat
  BY ZenonT(30), <1>3, ElementFacts DEF n
<1>5. \A i, j \in 1..n : i < j => transactions[i].bot < transactions[j].bot
  BY ZenonT(30), <1>3 DEF IdInv, IdOrder
<1>6. TableMatchesList'
  <2>1. table = {transactions[i].bot : i \in 1..n}
    BY ZenonT(30), <1>3 DEF IdInv, Bots, TableMatchesList
  <2>2. 1 \in 1..n /\ \A i \in 1..n : i # 1 => 1 < i
    BY SMTT(30), <1>3
  <2>3. \A i \in 1..n : i # 1 => transactions[1].bot # transactions[i].bot
    BY SMTT(30), <2>2, <1>5, <1>4
  <2>4. Bots(transactions') = {transactions[i + 1].bot : i \in 1..(n - 1)}
    BY Zenon, <1>3 DEF Bots
  <2>5. ASSUME NEW x \in table' PROVE x \in {transactions[i + 1].bot : i \in 1..(n - 1)}
    <3>1. PICK i \in 1..n : i # 1 /\ x = transactions[i].bot
      BY ZenonT(30), <1>1, <1>3, <2>1, <2>5
    <3>2. i - 1 \in 1..(n - 1) /\ (i - 1) + 1 = i
      BY SMTT(30), <3>1, <1>3
    <3> QED BY ZenonT(30), <3>1, <3>2
  <2>6. ASSUME NEW i \in 1..(n - 1) PROVE transactions[i + 1].bot \in table'
    <3>1. i + 1 # 1
      BY SMTT(30), <1>3
    <3> QED BY ZenonT(30), <3>1, <1>1, <1>3, <2>1, <2>3
  <2> QED BY ZenonT(30), <2>4, <2>5, <2>6 DEF TableMatchesList
<1>7. IdOrder'
  <2>1. \A i, j \in 1..(n - 1) : i < j => i + 1 < j + 1
    BY SMTT(30), <1>3
  <2> QED BY ZenonT(30), <2>1, <1>3, <1>5 DEF IdOrder
<1>8. IdOld'
  BY SMTT(30), <1>1, <1>3 DEF IdInv, IdOld
<1>9. \A id, data : Fits(id, data) => Fits(id, data)'
  BY SMTT(30), <1>1, <1>3 DEF Fits
<1>10. OutFits' /\ AtFits' /\ InFits'
  BY ZenonT(30), <1>1, <1>9 DEF IdInv, OutFits, AtFits, InFits
<1> QED BY ZenonT(30), <1>6, <1>7, <1>8, <1>10 DEF IdInv

\* parseBottom answers the one element with the response's ID.
LEMMA IdParseBottom == ASSUME DataOK, IdInv, parseBottom PROVE IdInv'
<1> DEFINE r == Head(bottomIn)
           n == Len(transactions)
           m == Len(bottomIn)
<1>1. /\ bottomIn # <<>> /\ bottomIn' = Tail(bottomIn)
      /\ UNCHANGED <<table, lastID, bottomOut, atBottom>>
      /\ transactions' = IF r.rspTo \in table
                         THEN [i \in DOMAIN transactions |->
                                 IF transactions[i].bot = r.rspTo
                                 THEN [transactions[i] EXCEPT !.rsp = r.data]
                                 ELSE transactions[i]]
                         ELSE transactions
  BY Zenon DEF parseBottom, Answers
<1>2. bottomIn \in Seq(BottomRsp) /\ transactions \in Seq(Transaction)
  BY ZenonT(30) DEF DataOK
<1>3. /\ m \in Nat \ {0} /\ DOMAIN bottomIn' = 1..(m - 1) /\ DOMAIN bottomIn = 1..m
      /\ r = bottomIn[1] /\ 1 \in 1..m
      /\ \A i \in 1..(m - 1) : bottomIn'[i] = bottomIn[i + 1] /\ i + 1 \in 1..m
  BY SMTT(30), <1>1, <1>2
<1>4. DOMAIN transactions = 1..n /\ \A i \in 1..n : transactions[i] \in Transaction
  BY SMTT(30), <1>2
<1> HIDE DEF r, n, m
<1>5. /\ DOMAIN transactions' = 1..n
      /\ \A i \in 1..n :
           /\ transactions'[i].bot = transactions[i].bot
           /\ transactions'[i].top = transactions[i].top
           /\ \/ transactions'[i].rsp = transactions[i].rsp
              \/ transactions[i].bot = r.rspTo /\ transactions'[i].rsp = r.data
  <2>1. CASE r.rspTo \notin table
    <3>1. transactions' = transactions
      BY Zenon, <2>1, <1>1
    <3> QED BY ZenonT(30), <3>1, <1>4
  <2>2. CASE r.rspTo \in table
    <3>1. DOMAIN transactions' = 1..n
      BY ZenonT(30), <2>2, <1>1, <1>4
    <3>2. \A i \in 1..n : transactions'[i] = IF transactions[i].bot = r.rspTo
                                             THEN [transactions[i] EXCEPT !.rsp = r.data]
                                             ELSE transactions[i]
      BY ZenonT(30), <2>2, <1>1, <1>4
    <3>3. \A t \in Transaction : /\ [t EXCEPT !.rsp = r.data].bot = t.bot
                                 /\ [t EXCEPT !.rsp = r.data].top = t.top
                                 /\ [t EXCEPT !.rsp = r.data].rsp = r.data
      BY ZenonT(30) DEF Transaction
    <3>4. ASSUME NEW i \in 1..n
          PROVE  /\ transactions'[i].bot = transactions[i].bot
                 /\ transactions'[i].top = transactions[i].top
                 /\ \/ transactions'[i].rsp = transactions[i].rsp
                    \/ transactions[i].bot = r.rspTo /\ transactions'[i].rsp = r.data
      <4>1. CASE transactions[i].bot = r.rspTo
        <5>1. transactions'[i] = [transactions[i] EXCEPT !.rsp = r.data]
          BY Zenon, <4>1, <3>2
        <5>2. transactions[i] \in Transaction
          BY ZenonT(30), <1>4
        <5>3. /\ transactions'[i].bot = transactions[i].bot
              /\ transactions'[i].top = transactions[i].top
              /\ transactions'[i].rsp = r.data
          BY Zenon, <5>1, <5>2, <3>3
        <5> QED BY ZenonT(30), <4>1, <5>3
      <4>2. CASE transactions[i].bot # r.rspTo
        <5>1. transactions'[i] = transactions[i]
          BY Zenon, <4>2, <3>2
        <5> QED BY ZenonT(30), <5>1
      <4> QED BY ZenonT(30), <4>1, <4>2
    <3> QED BY Zenon, <3>1, <3>4
  <2> QED BY ZenonT(30), <2>1, <2>2
<1>6. TableMatchesList'
  <2>1. table = {transactions[i].bot : i \in 1..n}
    BY ZenonT(30), <1>4 DEF IdInv, TableMatchesList, Bots
  <2>2. Bots(transactions') = {transactions'[i].bot : i \in 1..n}
    BY ZenonT(30), <1>5 DEF Bots
  <2>3. \A i \in 1..n : transactions'[i].bot = transactions[i].bot
    BY ZenonT(30), <1>5
  <2>4. {transactions[i].bot : i \in 1..n} = {transactions'[i].bot : i \in 1..n}
    BY ZenonT(30), <2>3
  <2> QED BY Zenon, <2>1, <2>2, <2>4, <1>1 DEF TableMatchesList
<1>7. IdOrder'
  BY ZenonT(30), <1>4, <1>5 DEF IdInv, IdOrder
<1>8. IdOld'
  <2>1. \A i \in 1..n : transactions[i].bot = r.rspTo => r.data = transactions[i].top
    BY ZenonT(30), <1>3, <1>4 DEF IdInv, InFits, Fits
  <2> QED BY SMTT(30), <2>1, <1>1, <1>4, <1>5 DEF IdInv, IdOld
<1>9. \A id, data : Fits(id, data) => Fits(id, data)'
  BY SMTT(30), <1>1, <1>4, <1>5 DEF Fits
<1>10. OutFits' /\ AtFits'
  BY ZenonT(30), <1>1, <1>9 DEF IdInv, OutFits, AtFits
<1>11. InFits'
  BY ZenonT(30), <1>3, <1>9 DEF IdInv, InFits
<1> QED BY ZenonT(30), <1>6, <1>7, <1>8, <1>10, <1>11 DEF IdInv

\* topDown appends an element with a fresh ID, and sends that ID with its data.
LEMMA IdTopDown == ASSUME DataOK, IdInv, topDown PROVE IdInv'
<1> DEFINE x == Head(topIn)
           n == Len(transactions)
           m == Len(bottomOut)
           t == [top |-> x, bot |-> lastID + 1, rsp |-> NoRsp]
           q == [id |-> lastID + 1, data |-> x]
<1>1. /\ topIn # <<>> /\ lastID' = lastID + 1
      /\ bottomOut' = Append(bottomOut, q) /\ transactions' = Append(transactions, t)
      /\ table' = table \cup {lastID + 1} /\ UNCHANGED <<atBottom, bottomIn>>
  BY ZenonT(30) DEF topDown, ListAfterAdd
<1>2. /\ transactions \in Seq(Transaction) /\ bottomOut \in Seq(BottomReq) /\ lastID \in Nat
      /\ topIn \in Seq(Reqs)
  BY ZenonT(30) DEF DataOK
<1>3. x \in Reqs
  BY SMTT(30), <1>1, <1>2
<1>4. t \in Transaction /\ q \in BottomReq
  BY SMTT(30), <1>2, <1>3 DEF Transaction, BottomReq
<1>5. t.top = x /\ t.bot = lastID + 1 /\ t.rsp = NoRsp /\ q.id = lastID + 1 /\ q.data = x
  OBVIOUS
<1> HIDE DEF x, t, q
<1>6. /\ n \in Nat /\ DOMAIN transactions = 1..n /\ DOMAIN transactions' = 1..(n + 1)
      /\ transactions'[n + 1] = t /\ \A i \in 1..n : transactions'[i] = transactions[i]
  BY SMTT(30), <1>1, <1>2, <1>4
<1>7. /\ m \in Nat /\ DOMAIN bottomOut = 1..m /\ DOMAIN bottomOut' = 1..(m + 1)
      /\ bottomOut'[m + 1] = q /\ \A i \in 1..m : bottomOut'[i] = bottomOut[i]
  BY SMTT(30), <1>1, <1>2, <1>4
<1>8. \A i \in 1..n : transactions[i].bot \in Nat /\ transactions[i].bot <= lastID
  BY ZenonT(30), <1>6, ElementFacts DEF IdInv, IdOld
<1> HIDE DEF n, m
<1>9. \A i \in 1..(n + 1) : i \in 1..n \/ i = n + 1
  BY SMTT(30), <1>6
<1>10. TableMatchesList'
  <2>1. table = {transactions[i].bot : i \in 1..n}
    BY ZenonT(30), <1>6 DEF IdInv, TableMatchesList, Bots
  <2>2. Bots(transactions') = {transactions'[i].bot : i \in 1..(n + 1)}
    BY ZenonT(30), <1>6 DEF Bots
  <2>3. 1..n \subseteq 1..(n + 1) /\ n + 1 \in 1..(n + 1)
    BY SMTT(30), <1>6
  <2> QED BY SMTT(30), <2>1, <2>2, <2>3, <1>1, <1>5, <1>6, <1>9 DEF TableMatchesList
<1>11. IdOrder'
  <2> SUFFICES ASSUME NEW i \in 1..(n + 1), NEW j \in 1..(n + 1), i < j
               PROVE  transactions'[i].bot < transactions'[j].bot
    BY ZenonT(30), <1>6 DEF IdOrder
  <2>1. i \in 1..n
    BY SMTT(30), <1>6
  <2>2. CASE j \in 1..n
    BY ZenonT(30), <2>1, <2>2, <1>6 DEF IdInv, IdOrder
  <2>3. CASE j = n + 1
    <3>1. transactions'[j].bot = lastID + 1 /\ transactions'[i].bot = transactions[i].bot
      BY ZenonT(30), <2>1, <2>3, <1>5, <1>6
    <3> QED BY SMTT(30), <3>1, <2>1, <1>2, <1>8
  <2> QED BY ZenonT(30), <2>2, <2>3, <1>9
<1>12. IdOld'
  <2>1. \A i \in 1..n : transactions[i].bot <= lastID + 1
    BY SMTT(30), <1>2, <1>8
  <2> QED BY SMTT(30), <2>1, <1>1, <1>2, <1>5, <1>6, <1>9 DEF IdInv, IdOld
<1>13. ASSUME NEW id \in Nat, NEW data, Fits(id, data) PROVE Fits(id, data)'
  <2>1. id <= lastID /\ id # lastID + 1 /\ id <= lastID + 1
    BY SMTT(30), <1>2, <1>13 DEF Fits
  <2>2. ASSUME NEW i \in 1..(n + 1), transactions'[i].bot = id PROVE data = transactions'[i].top
    <3>1. i \in 1..n
      BY ZenonT(30), <2>1, <2>2, <1>5, <1>6, <1>9
    <3> QED BY ZenonT(30), <3>1, <2>2, <1>6, <1>13 DEF Fits
  <2> QED BY ZenonT(30), <2>1, <2>2, <1>1, <1>6 DEF Fits
<1>14. AtFits' /\ InFits'
  BY ZenonT(30), <1>1, <1>13, ElementFacts DEF IdInv, AtFits, InFits
<1>15. OutFits'
  <2>1. ASSUME NEW i \in 1..(n + 1), transactions'[i].bot = lastID + 1 PROVE x = transactions'[i].top
    <3>1. i \notin 1..n
      BY SMTT(30), <2>1, <1>2, <1>6, <1>8
    <3> QED BY ZenonT(30), <3>1, <1>5, <1>6, <1>9
  <2>2. ASSUME NEW id, NEW data, id = lastID + 1, data = x PROVE Fits(id, data)'
    BY SMTT(40), <2>1, <2>2, <1>1, <1>2, <1>6 DEF Fits
  <2>3. \A k \in 1..m : Fits(bottomOut[k].id, bottomOut[k].data)'
    BY ZenonT(30), <1>7, <1>13, ElementFacts DEF IdInv, OutFits
  <2>4. ASSUME NEW k \in 1..(m + 1) PROVE Fits(bottomOut[k].id, bottomOut[k].data)'
    <3>1. CASE k \in 1..m
      BY ZenonT(30), <3>1, <2>3
    <3>2. CASE k = m + 1
      <4>1. bottomOut'[k].id = lastID + 1 /\ bottomOut'[k].data = x
        BY ZenonT(30), <3>2, <1>5, <1>7
      <4> QED BY ZenonT(30), <4>1, <2>2
    <3> QED BY SMTT(30), <3>1, <3>2, <1>7
  <2> QED BY ZenonT(30), <2>4, <1>7 DEF OutFits
<1> QED BY ZenonT(30), <1>10, <1>11, <1>12, <1>14, <1>15 DEF IdInv

\* The duplicate moves from the connection to the lower unit.
LEMMA IdForwardBottom == ASSUME DataOK, IdInv, ForwardBottom PROVE IdInv'
<1> DEFINE m == Len(bottomOut)
<1>1. /\ bottomOut # <<>> /\ bottomOut' = Tail(bottomOut)
      /\ atBottom' = atBottom \cup {Head(bottomOut)}
      /\ UNCHANGED <<transactions, table, lastID, bottomIn>>
  BY ZenonT(30) DEF ForwardBottom, bufVars
<1>2. bottomOut \in Seq(BottomReq)
  BY ZenonT(30) DEF DataOK
<1>3. /\ m \in Nat \ {0} /\ DOMAIN bottomOut' = 1..(m - 1) /\ DOMAIN bottomOut = 1..m
      /\ Head(bottomOut) = bottomOut[1] /\ 1 \in 1..m
      /\ \A i \in 1..(m - 1) : bottomOut'[i] = bottomOut[i + 1] /\ i + 1 \in 1..m
  BY SMTT(30), <1>1, <1>2
<1> HIDE DEF m
<1>4. \A id, data : Fits(id, data) => Fits(id, data)'
  BY ZenonT(30), <1>1 DEF Fits
<1>5. TableMatchesList' /\ IdOrder' /\ IdOld' /\ InFits'
  BY ZenonT(30), <1>1, <1>4 DEF IdInv, TableMatchesList, IdOrder, IdOld, InFits
<1>6. OutFits'
  BY ZenonT(30), <1>3, <1>4 DEF IdInv, OutFits
<1>7. AtFits'
  BY ZenonT(30), <1>1, <1>3, <1>4 DEF IdInv, OutFits, AtFits
<1> QED BY ZenonT(30), <1>5, <1>6, <1>7 DEF IdInv

\* The lower unit's answer carries the ID and the data of the duplicate.
LEMMA IdRecvBottom ==
    ASSUME DataOK, IdInv, NEW q \in atBottom, RecvBottom(q) PROVE IdInv'
<1> DEFINE m == Len(bottomIn)
           r == [rspTo |-> q.id, data |-> q.data]
<1>1. /\ bottomIn' = Append(bottomIn, r) /\ atBottom' = atBottom \ {q}
      /\ UNCHANGED <<transactions, table, lastID, bottomOut>>
  BY ZenonT(30) DEF RecvBottom, bufVars
<1>2. bottomIn \in Seq(BottomRsp) /\ atBottom \subseteq BottomReq
  BY ZenonT(30) DEF DataOK
<1>3. r \in BottomRsp /\ r.rspTo = q.id /\ r.data = q.data
  BY ZenonT(30), <1>2 DEF BottomReq, BottomRsp
<1> HIDE DEF r
<1>4. /\ m \in Nat /\ DOMAIN bottomIn = 1..m /\ DOMAIN bottomIn' = 1..(m + 1)
      /\ bottomIn'[m + 1] = r /\ \A i \in 1..m : bottomIn'[i] = bottomIn[i]
      /\ \A i \in 1..(m + 1) : i \in 1..m \/ i = m + 1
  BY SMTT(30), <1>1, <1>2, <1>3
<1> HIDE DEF m
<1>5. \A id, data : Fits(id, data) => Fits(id, data)'
  BY ZenonT(30), <1>1 DEF Fits
<1>6. TableMatchesList' /\ IdOrder' /\ IdOld' /\ OutFits' /\ AtFits'
  BY ZenonT(30), <1>1, <1>5 DEF IdInv, TableMatchesList, IdOrder, IdOld, OutFits, AtFits
<1>7. InFits'
  <2> SUFFICES ASSUME NEW k \in 1..(m + 1)
               PROVE  Fits(bottomIn[k].rspTo, bottomIn[k].data)'
    BY ZenonT(30), <1>4 DEF InFits
  <2>1. CASE k \in 1..m
    BY ZenonT(30), <2>1, <1>4, <1>5 DEF IdInv, InFits
  <2>2. CASE k = m + 1
    <3>1. bottomIn'[k].rspTo = q.id /\ bottomIn'[k].data = q.data
      BY ZenonT(30), <2>2, <1>3, <1>4
    <3>2. Fits(q.id, q.data)
      BY ZenonT(30) DEF IdInv, AtFits
    <3> QED BY ZenonT(30), <3>1, <3>2, <1>5
  <2> QED BY ZenonT(30), <2>1, <2>2, <1>4
<1> QED BY ZenonT(30), <1>6, <1>7 DEF IdInv

\* Nothing that IdInv speaks of changes.
LEMMA IdSame ==
    ASSUME IdInv, UNCHANGED <<transactions, table, lastID, bottomOut, atBottom, bottomIn>>
    PROVE  IdInv'
BY ZenonT(30) DEF IdInv, TableMatchesList, Bots, IdOrder, IdOld, OutFits, AtFits, InFits, Fits

\* Every step keeps IdInv.
LEMMA IdStep == ASSUME DataOK, IdInv, [Next]_vars PROVE IdInv'
<1>1. CASE discardTransactions
  BY ZenonT(30), <1>1, IdEmpty DEF discardTransactions, portVars
<1>2. CASE restart
  BY ZenonT(30), <1>2, IdEmpty DEF restart
<1>3. CASE StartTick \/ NoControlMsg \/ CtrlRejected \/ bottomUpEnd \/ parseBottomEnd \/ topDownEnd
  BY ZenonT(30), <1>3, IdSame DEF StartTick, NoControlMsg, CtrlRejected, bottomUpEnd, parseBottomEnd,
                      topDownEnd, bufVars, portVars
<1>4. CASE RecvTop \/ ForwardTop \/ ForwardCtrl \/ \E m \in {"discard", "restart"} : RecvCtrl(m)
  BY ZenonT(30), <1>4, IdSame DEF RecvTop, ForwardTop, ForwardCtrl, RecvCtrl, bufVars, portVars
<1>5. CASE UNCHANGED vars
  BY ZenonT(30), <1>5, IdSame DEF vars, bufVars, portVars
<1> QED
  BY ZenonT(30), <1>1, <1>2, <1>3, <1>4, <1>5, IdBottomUp, IdParseBottom, IdTopDown, IdForwardBottom,
     IdRecvBottom DEF Next, Tick, Environment

\* The sets that OrderInv relates contain request numbers.
LEMMA SetFacts ==
    ASSUME DataOK
    PROVE  /\ Waiting \subseteq Nat /\ Tops(transactions) \subseteq Nat
           /\ Answered \subseteq Nat /\ dropped \subseteq Nat
           /\ issued \in Nat
<1>1. Reqs \subseteq Nat
  BY SMTT(30) DEF Reqs
<1>2. /\ topIn \in Seq(Reqs) /\ transactions \in Seq(Transaction) /\ sent \in Seq(TopRsp)
      /\ dropped \subseteq Reqs /\ issued \in 0..NumReqs
  BY ZenonT(30) DEF DataOK
<1>3. Waiting \subseteq Nat
  <2>1. \A i \in DOMAIN topIn : topIn[i] \in Reqs
    BY SMTT(30), <1>2
  <2> QED BY ZenonT(30), <1>1, <2>1 DEF Waiting
<1>4. Tops(transactions) \subseteq Nat
  <2>1. \A i \in DOMAIN transactions : transactions[i] \in Transaction
    BY SMTT(30), <1>2
  <2>2. \A t \in Transaction : t.top \in Reqs
    BY ZenonT(30) DEF Transaction
  <2> QED BY Zenon, <1>1, <2>1, <2>2 DEF Tops
<1>5. Answered \subseteq Nat
  <2>1. \A i \in DOMAIN sent : sent[i] \in TopRsp
    BY SMTT(30), <1>2
  <2>2. \A t \in TopRsp : t.rspTo \in Reqs
    BY ZenonT(30) DEF TopRsp
  <2> QED BY Zenon, <1>1, <2>1, <2>2 DEF Answered
<1> QED BY SMTT(30), <1>1, <1>2, <1>3, <1>4, <1>5, RobAssumption

\* bottomUp answers the oldest request.
LEMMA OrderBottomUp == ASSUME DataOK, IdInv, OrderInv, RightData, bottomUp PROVE OrderInv' /\ RightData'
<1> DEFINE n == Len(transactions)
           m == Len(sent)
           h == Head(transactions)
           r == [rspTo |-> h.top, data |-> h.rsp]
<1>1. /\ transactions # <<>> /\ transactions' = Tail(transactions) /\ h.rsp # NoRsp
      /\ sent' = Append(sent, r)
      /\ UNCHANGED <<topIn, issued, dropped>>
  BY ZenonT(30) DEF bottomUp, HeadDone, ListAfterDelete
<1>2. transactions \in Seq(Transaction) /\ sent \in Seq(TopRsp)
  BY ZenonT(30) DEF DataOK
<1>3. /\ n \in Nat \ {0} /\ DOMAIN transactions' = 1..(n - 1) /\ 1 \in 1..n
      /\ DOMAIN transactions = 1..n /\ h = transactions[1] /\ h \in Transaction
      /\ \A i \in 1..(n - 1) : transactions'[i] = transactions[i + 1] /\ i + 1 \in 1..n
  BY SMTT(30), <1>1, <1>2
<1>4. h.rsp = h.top /\ h.top \in Reqs
  BY ZenonT(30), <1>1, <1>3 DEF IdInv, IdOld, Transaction
<1>5. r \in TopRsp /\ r.rspTo = h.top /\ r.data = h.top
  BY ZenonT(30), <1>4 DEF TopRsp
<1> HIDE DEF n, h, r
<1>6. /\ m \in Nat /\ DOMAIN sent = 1..m /\ DOMAIN sent' = 1..(m + 1)
      /\ sent'[m + 1] = r /\ \A i \in 1..m : sent'[i] = sent[i]
      /\ \A i \in 1..(m + 1) : i \in 1..m \/ i = m + 1
      /\ m + 1 \in 1..(m + 1) /\ 1..m \subseteq 1..(m + 1)
  BY SMTT(30), <1>1, <1>2, <1>5
<1> HIDE DEF m
<1>7. \A i, j \in 1..n : i < j => transactions[i].top < transactions[j].top
  BY ZenonT(30), <1>3 DEF OrderInv
<1>8. \A i \in 1..n : transactions[i].top \in Nat
  BY ZenonT(30), <1>3, ElementFacts DEF n
<1>9. \A i \in 1..(n - 1) : h.top < transactions'[i].top
  <2>1. \A i \in 1..(n - 1) : 1 < i + 1
    BY SMTT(30), <1>3
  <2> QED BY ZenonT(30), <2>1, <1>3, <1>7
<1>10. h.top \in Tops(transactions) /\ Tops(transactions') \subseteq Tops(transactions)
  BY ZenonT(30), <1>3 DEF Tops
<1>11. Tops(transactions) = Tops(transactions') \cup {h.top}
  <2>1. \A i \in 1..n : i = 1 \/ (i - 1 \in 1..(n - 1) /\ (i - 1) + 1 = i)
    BY SMTT(30), <1>3
  <2>2. ASSUME NEW i \in 1..n PROVE transactions[i].top \in Tops(transactions') \cup {h.top}
    <3>1. CASE i = 1
      BY ZenonT(30), <3>1, <1>3
    <3>2. CASE i - 1 \in 1..(n - 1) /\ (i - 1) + 1 = i
      <4>1. transactions'[i - 1].top = transactions[i].top
        BY ZenonT(30), <3>2, <1>3
      <4> QED BY ZenonT(30), <4>1, <3>2, <1>3 DEF Tops
    <3> QED BY ZenonT(30), <2>1, <3>1, <3>2
  <2>3. Tops(transactions) = {transactions[i].top : i \in 1..n}
    BY ZenonT(30), <1>3 DEF Tops
  <2> QED BY ZenonT(30), <2>2, <2>3, <1>10
<1>12. Answered' = Answered \cup {h.top}
  <2>1. Answered = {sent[i].rspTo : i \in 1..m}
    BY ZenonT(30), <1>6 DEF Answered
  <2>2. Answered' = {sent'[i].rspTo : i \in 1..(m + 1)}
    BY ZenonT(30), <1>6 DEF Answered
  <2> QED BY ZenonT(30), <2>1, <2>2, <1>5, <1>6
<1>13. Waiting' = Waiting
  BY ZenonT(30), <1>1 DEF Waiting
<1>14. \A b \in Tops(transactions') : h.top < b
  BY ZenonT(30), <1>3, <1>9 DEF Tops
<1>15. InOrder'
  <2> SUFFICES ASSUME NEW i \in 1..(m + 1), NEW j \in 1..(m + 1), i < j
               PROVE  sent'[i].rspTo < sent'[j].rspTo
    BY ZenonT(30), <1>6 DEF InOrder
  <2>1. i \in 1..m
    BY SMTT(30), <1>6
  <2>2. CASE j \in 1..m
    BY ZenonT(30), <2>1, <2>2, <1>6 DEF OrderInv, InOrder
  <2>3. CASE j = m + 1
    <3>1. sent[i].rspTo \in Answered
      BY ZenonT(30), <2>1, <1>6 DEF Answered
    <3> QED BY ZenonT(30), <3>1, <2>1, <2>3, <1>5, <1>6, <1>10 DEF OrderInv, Before
  <2> QED BY ZenonT(30), <2>2, <2>3, <1>6
<1>16. \A i, j \in DOMAIN transactions' : i < j => transactions'[i].top < transactions'[j].top
  <2> SUFFICES ASSUME NEW i \in 1..(n - 1), NEW j \in 1..(n - 1), i < j
               PROVE  transactions'[i].top < transactions'[j].top
    BY ZenonT(30), <1>3
  <2>1. i + 1 \in 1..n /\ j + 1 \in 1..n /\ i + 1 < j + 1
    BY SMTT(30), <1>3
  <2>2. transactions[i + 1].top < transactions[j + 1].top
    BY ZenonT(30), <2>1, <1>7
  <2>3. transactions'[i] = transactions[i + 1] /\ transactions'[j] = transactions[j + 1]
    BY ZenonT(30), <1>3
  <2> QED BY ZenonT(30), <2>2, <2>3
<1>17. /\ Before(Tops(transactions), Waiting)'
       /\ Before(Answered \cup dropped, Tops(transactions) \cup Waiting)'
  BY ZenonT(30), <1>1, <1>10, <1>12, <1>13, <1>14 DEF OrderInv, Before
<1>18. Answered' \cap dropped' = {}
  <2>1. h.top \notin dropped
    BY SMTT(40), <1>4, <1>10 DEF OrderInv, Before, Reqs
  <2> QED BY ZenonT(30), <2>1, <1>1, <1>12 DEF OrderInv
<1>19. (1..issued)' = Waiting' \cup Tops(transactions') \cup Answered' \cup dropped'
  BY ZenonT(30), <1>1, <1>11, <1>12, <1>13 DEF OrderInv
<1>20. RightData'
  BY ZenonT(30), <1>5, <1>6 DEF RightData
<1> QED BY ZenonT(30), <1>1, <1>15, <1>16, <1>17, <1>18, <1>19, <1>20 DEF OrderInv

\* parseBottom leaves the requests of the list alone.
LEMMA OrderParseBottom == ASSUME DataOK, OrderInv, RightData, parseBottom PROVE OrderInv' /\ RightData'
<1> DEFINE d == Head(bottomIn).data
<1>1. /\ UNCHANGED <<topIn, issued, dropped, sent>>
      /\ \/ transactions' = transactions
         \/ transactions' = [i \in DOMAIN transactions |->
                               IF transactions[i].bot = Head(bottomIn).rspTo
                               THEN [transactions[i] EXCEPT !.rsp = d]
                               ELSE transactions[i]]
  BY Zenon DEF parseBottom, Answers
<1>2. \A i \in DOMAIN transactions : transactions[i] \in Transaction
  BY SMTT(30) DEF DataOK
<1>3. \A t \in Transaction : [t EXCEPT !.rsp = d].top = t.top
  BY ZenonT(30) DEF Transaction
<1> HIDE DEF d
<1>4. /\ DOMAIN transactions' = DOMAIN transactions
      /\ \A i \in DOMAIN transactions : transactions'[i].top = transactions[i].top
  BY Zenon, <1>1, <1>2, <1>3
<1>5. Tops(transactions') = Tops(transactions)
  BY ZenonT(30), <1>4 DEF Tops
<1>6. Waiting' = Waiting /\ Answered' = Answered
  BY ZenonT(30), <1>1 DEF Waiting, Answered
<1>7. \A i, j \in DOMAIN transactions' : i < j => transactions'[i].top < transactions'[j].top
  BY SMTT(40), <1>4 DEF OrderInv
<1> QED BY ZenonT(30), <1>1, <1>5, <1>6, <1>7 DEF OrderInv, Before, InOrder, RightData

\* topDown moves the oldest waiting request to the back of the list.
LEMMA OrderTopDown == ASSUME DataOK, OrderInv, RightData, topDown PROVE OrderInv' /\ RightData'
<1> DEFINE n == Len(transactions)
           m == Len(topIn)
           x == Head(topIn)
           t == [top |-> x, bot |-> lastID + 1, rsp |-> NoRsp]
<1>1. /\ topIn # <<>> /\ topIn' = Tail(topIn) /\ transactions' = Append(transactions, t)
      /\ UNCHANGED <<issued, dropped, sent>>
  BY ZenonT(30) DEF topDown, ListAfterAdd
<1>2. transactions \in Seq(Transaction) /\ topIn \in Seq(Reqs) /\ lastID \in Nat
  BY ZenonT(30) DEF DataOK
<1>3. /\ m \in Nat \ {0} /\ DOMAIN topIn' = 1..(m - 1) /\ 1 \in 1..m
      /\ DOMAIN topIn = 1..m /\ x = topIn[1] /\ x \in Reqs
      /\ \A i \in 1..(m - 1) : topIn'[i] = topIn[i + 1] /\ i + 1 \in 1..m
  BY SMTT(30), <1>1, <1>2
<1>4. t \in Transaction /\ t.top = x
  <2> HIDE DEF m, x
  <2>1. x \in Reqs /\ lastID + 1 \in Nat /\ NoRsp \in Reqs \cup {NoRsp}
    BY SMTT(30), <1>2, <1>3
  <2> QED BY ONLY <2>1 DEF Transaction
<1> HIDE DEF m, x, t
<1>5. /\ n \in Nat /\ DOMAIN transactions = 1..n /\ DOMAIN transactions' = 1..(n + 1)
      /\ transactions'[n + 1] = t /\ \A i \in 1..n : transactions'[i] = transactions[i]
      /\ \A i \in 1..(n + 1) : i \in 1..n \/ i = n + 1
      /\ n + 1 \in 1..(n + 1) /\ 1..n \subseteq 1..(n + 1)
  BY SMTT(30), <1>1, <1>2, <1>4
<1> HIDE DEF n
<1>6. Tops(transactions') = Tops(transactions) \cup {x}
  <2>1. Tops(transactions) = {transactions[i].top : i \in 1..n}
    BY ZenonT(30), <1>5 DEF Tops
  <2>2. Tops(transactions') = {transactions'[i].top : i \in 1..(n + 1)}
    BY ZenonT(30), <1>5 DEF Tops
  <2> QED BY ZenonT(30), <2>1, <2>2, <1>4, <1>5
<1>7. x \in Waiting /\ Waiting' \subseteq Waiting
  BY ZenonT(30), <1>3 DEF Waiting
<1>8. Waiting = Waiting' \cup {x}
  <2>1. \A i \in 1..m : i = 1 \/ (i - 1 \in 1..(m - 1) /\ (i - 1) + 1 = i)
    BY SMTT(30), <1>3
  <2>2. ASSUME NEW i \in 1..m PROVE topIn[i] \in Waiting' \cup {x}
    <3>1. CASE i = 1
      BY ZenonT(30), <3>1, <1>3
    <3>2. CASE i - 1 \in 1..(m - 1) /\ (i - 1) + 1 = i
      <4>1. topIn'[i - 1] = topIn[i]
        BY ZenonT(30), <3>2, <1>3
      <4> QED BY ZenonT(30), <4>1, <3>2, <1>3 DEF Waiting
    <3> QED BY ZenonT(30), <2>1, <3>1, <3>2
  <2>3. Waiting = {topIn[i] : i \in 1..m}
    BY ZenonT(30), <1>3 DEF Waiting
  <2> QED BY ZenonT(30), <2>2, <2>3, <1>7
<1>9. \A i, j \in 1..m : i < j => topIn[i] < topIn[j]
  BY ZenonT(30), <1>3 DEF OrderInv
<1>10. \A b \in Waiting' : x < b
  <2>1. \A i \in 1..(m - 1) : 1 < i + 1
    BY SMTT(30), <1>3
  <2>2. \A i \in 1..(m - 1) : x < topIn'[i]
    BY ZenonT(30), <2>1, <1>3, <1>9
  <2> QED BY ZenonT(30), <2>2, <1>3 DEF Waiting
<1>11. \A i, j \in DOMAIN topIn' : i < j => topIn'[i] < topIn'[j]
  <2>1. \A i, j \in 1..(m - 1) : i < j => i + 1 < j + 1
    BY SMTT(30), <1>3
  <2> QED BY ZenonT(30), <2>1, <1>3, <1>9
<1>12. \A i, j \in DOMAIN transactions' : i < j => transactions'[i].top < transactions'[j].top
  <2> SUFFICES ASSUME NEW i \in 1..(n + 1), NEW j \in 1..(n + 1), i < j
               PROVE  transactions'[i].top < transactions'[j].top
    BY ZenonT(30), <1>5
  <2>1. i \in 1..n
    BY SMTT(40), <1>5
  <2>2. CASE j \in 1..n
    BY ZenonT(30), <2>1, <2>2, <1>5 DEF OrderInv
  <2>3. CASE j = n + 1
    <3>1. transactions[i].top \in Tops(transactions)
      BY ZenonT(30), <2>1, <1>5 DEF Tops
    <3> QED BY ZenonT(30), <3>1, <2>1, <2>3, <1>4, <1>5, <1>7 DEF OrderInv, Before
  <2> QED BY ZenonT(30), <2>2, <2>3, <1>5
<1>13. Answered' = Answered /\ InOrder' /\ RightData'
  BY ZenonT(30), <1>1 DEF Answered, OrderInv, InOrder, RightData
<1>14. /\ Before(Tops(transactions), Waiting)'
       /\ Before(Answered \cup dropped, Tops(transactions) \cup Waiting)'
  BY ZenonT(30), <1>1, <1>6, <1>7, <1>10, <1>13 DEF OrderInv, Before
<1>15. (1..issued)' = Waiting' \cup Tops(transactions') \cup Answered' \cup dropped'
  BY ZenonT(30), <1>1, <1>6, <1>8, <1>13 DEF OrderInv
<1> QED BY ZenonT(30), <1>1, <1>11, <1>12, <1>13, <1>14, <1>15 DEF OrderInv

\* A new request has the highest number so far.
LEMMA OrderRecvTop == ASSUME DataOK, OrderInv, RightData, RecvTop PROVE OrderInv' /\ RightData'
<1> DEFINE m == Len(topIn)
<1>1. /\ issued' = issued + 1 /\ topIn' = Append(topIn, issued + 1)
      /\ UNCHANGED <<transactions, sent, dropped>>
  BY ZenonT(30) DEF RecvTop, bufVars
<1>2. topIn \in Seq(Reqs) /\ issued \in Nat /\ issued + 1 \in Reqs
  <2>1. issued \in Nat /\ issued < NumReqs
    BY ZenonT(30), SetFacts DEF RecvTop
  <2>2. issued + 1 \in Reqs
    BY SMTT(30), <2>1, RobAssumption DEF Reqs
  <2> QED BY ZenonT(30), <2>1, <2>2 DEF DataOK
<1>3. /\ m \in Nat /\ DOMAIN topIn = 1..m /\ DOMAIN topIn' = 1..(m + 1)
      /\ topIn'[m + 1] = issued + 1 /\ \A i \in 1..m : topIn'[i] = topIn[i]
      /\ \A i \in 1..(m + 1) : i \in 1..m \/ i = m + 1
      /\ m + 1 \in 1..(m + 1) /\ 1..m \subseteq 1..(m + 1)
  BY SMTT(30), <1>1, <1>2
<1> HIDE DEF m
<1>4. Waiting' = Waiting \cup {issued + 1}
  <2>1. Waiting = {topIn[i] : i \in 1..m}
    BY ZenonT(30), <1>3 DEF Waiting
  <2>2. Waiting' = {topIn'[i] : i \in 1..(m + 1)}
    BY ZenonT(30), <1>3 DEF Waiting
  <2> QED BY ZenonT(30), <2>1, <2>2, <1>3
<1>5. Tops(transactions') = Tops(transactions) /\ Answered' = Answered
  BY ZenonT(30), <1>1 DEF Answered
<1>6. \A a \in Waiting \cup Tops(transactions) \cup Answered \cup dropped : a < issued + 1
  <2>1. \A a \in 1..issued : a < issued + 1
    BY SMTT(30), <1>2
  <2> QED BY ZenonT(30), <2>1 DEF OrderInv
<1>7. \A i, j \in DOMAIN topIn' : i < j => topIn'[i] < topIn'[j]
  <2> SUFFICES ASSUME NEW i \in 1..(m + 1), NEW j \in 1..(m + 1), i < j
               PROVE  topIn'[i] < topIn'[j]
    BY ZenonT(30), <1>3
  <2>1. i \in 1..m
    BY SMTT(40), <1>3
  <2>2. CASE j \in 1..m
    BY ZenonT(30), <2>1, <2>2, <1>3 DEF OrderInv
  <2>3. CASE j = m + 1
    <3>1. topIn[i] \in Waiting
      BY ZenonT(30), <2>1, <1>3 DEF Waiting
    <3> QED BY ZenonT(30), <3>1, <2>1, <2>3, <1>3, <1>6
  <2> QED BY ZenonT(30), <2>2, <2>3, <1>3
<1>8. /\ Before(Tops(transactions), Waiting)'
      /\ Before(Answered \cup dropped, Tops(transactions) \cup Waiting)'
  BY ZenonT(30), <1>1, <1>4, <1>5, <1>6 DEF OrderInv, Before
<1>9. (1..issued)' = Waiting' \cup Tops(transactions') \cup Answered' \cup dropped'
  <2>1. 1..(issued + 1) = (1..issued) \cup {issued + 1}
    BY SMTT(40), <1>2
  <2> QED BY ZenonT(30), <2>1, <1>1, <1>4, <1>5 DEF OrderInv
<1> QED BY ZenonT(30), <1>1, <1>5, <1>7, <1>8, <1>9 DEF OrderInv, InOrder, RightData

\* A discard or a restart moves requests to dropped.
LEMMA OrderDrop ==
    ASSUME DataOK, OrderInv, RightData, transactions' = <<>>, UNCHANGED <<issued, sent>>,
           \/ topIn' = topIn /\ dropped' = dropped \cup Tops(transactions)
           \/ topIn' = <<>> /\ dropped' = dropped \cup Tops(transactions) \cup Waiting
    PROVE  OrderInv' /\ RightData'
<1>1. DOMAIN transactions' = {} /\ Tops(transactions') = {} /\ Answered' = Answered
  BY SMTT(40) DEF Tops, Answered
<1>2. InOrder' /\ RightData'
  BY ZenonT(30) DEF OrderInv, InOrder, RightData
<1>3. \/ DOMAIN topIn' = {} /\ Waiting' = {}
      \/ topIn' = topIn /\ Waiting' = Waiting
  BY SMTT(30) DEF Waiting
<1>4. \A i, j \in DOMAIN topIn' : i < j => topIn'[i] < topIn'[j]
  BY ZenonT(30), <1>3 DEF OrderInv
<1>5. Answered' \cap dropped' = {}
  <2>1. \A a \in Answered, b \in Tops(transactions) \cup Waiting : a # b
    BY SMTT(30), SetFacts DEF OrderInv, Before
  <2> QED BY ZenonT(30), <2>1, <1>1 DEF OrderInv
<1>6. Waiting' \cup Tops(transactions') \cup Answered' \cup dropped'
        = Waiting \cup Tops(transactions) \cup Answered \cup dropped
  <2>1. CASE topIn' = topIn /\ dropped' = dropped \cup Tops(transactions)
    BY ZenonT(30), <2>1, <1>1 DEF Waiting
  <2>2. CASE topIn' = <<>> /\ dropped' = dropped \cup Tops(transactions) \cup Waiting
    <3>1. Waiting' = {}
      BY SMTT(30), <2>2 DEF Waiting
    <3> QED BY ZenonT(30), <2>2, <3>1, <1>1
  <2> QED BY ZenonT(30), <2>1, <2>2
<1>7. /\ Before(Tops(transactions), Waiting)'
      /\ Before(Answered \cup dropped, Tops(transactions) \cup Waiting)'
  <2>1. CASE topIn' = topIn /\ dropped' = dropped \cup Tops(transactions)
    <3>1. Waiting' = Waiting
      BY ZenonT(30), <2>1 DEF Waiting
    <3> QED BY ZenonT(30), <2>1, <3>1, <1>1 DEF OrderInv, Before
  <2>2. CASE topIn' = <<>>
    <3>1. Waiting' = {}
      BY SMTT(40), <2>2 DEF Waiting
    <3> QED BY ZenonT(30), <3>1, <1>1 DEF Before
  <2> QED BY ZenonT(30), <2>1, <2>2
<1> QED BY ZenonT(30), <1>1, <1>2, <1>4, <1>5, <1>6, <1>7 DEF OrderInv

\* Nothing that OrderInv speaks of changes.
LEMMA OrderSame ==
    ASSUME OrderInv, RightData, UNCHANGED <<topIn, transactions, sent, dropped, issued>>
    PROVE  OrderInv' /\ RightData'
BY SMTT(30) DEF OrderInv, RightData, InOrder, Before, Tops, Waiting, Answered

\* Every step keeps OrderInv and RightData.
LEMMA OrderStep ==
    ASSUME DataOK, IdInv, OrderInv, RightData, [Next]_vars PROVE OrderInv' /\ RightData'
<1>1. CASE discardTransactions
  BY ZenonT(30), <1>1, OrderDrop DEF discardTransactions, portVars
<1>2. CASE restart
  BY ZenonT(30), <1>2, OrderDrop DEF restart, Waiting
<1>3. CASE StartTick \/ NoControlMsg \/ CtrlRejected \/ bottomUpEnd \/ parseBottomEnd \/ topDownEnd
  BY ZenonT(30), <1>3, OrderSame DEF StartTick, NoControlMsg, CtrlRejected, bottomUpEnd, parseBottomEnd,
                         topDownEnd, bufVars, portVars
<1>4. CASE \/ ForwardTop \/ ForwardBottom \/ ForwardCtrl
           \/ \E q \in atBottom : RecvBottom(q)
           \/ \E m \in {"discard", "restart"} : RecvCtrl(m)
  BY Zenon, <1>4, OrderSame DEF ForwardTop, ForwardBottom, ForwardCtrl, RecvBottom, RecvCtrl, bufVars,
                         portVars
<1>5. CASE UNCHANGED vars
  BY ZenonT(30), <1>5, OrderSame DEF vars, bufVars, portVars
<1> QED
  BY ZenonT(30), <1>1, <1>2, <1>3, <1>4, <1>5, OrderBottomUp, OrderParseBottom, OrderTopDown, OrderRecvTop
  DEF Next, Tick, Environment

\* BufferInv holds in every reachable state.
THEOREM Invariance == Spec => []BufferInv
<1>1. Init => BufferInv
  <2> SUFFICES ASSUME Init PROVE BufferInv
    OBVIOUS
  <2>1. DataOK
    BY SMTT(30), RobAssumption DEF Init, DataOK, Reqs, NoRsp, Stages
  <2>2. IdInv
    <3>1. /\ transactions = <<>> /\ table = {} /\ bottomOut = <<>> /\ atBottom = {} /\ bottomIn = <<>>
      BY ZenonT(30) DEF Init
    <3>2. DOMAIN transactions = {} /\ DOMAIN bottomOut = {} /\ DOMAIN bottomIn = {}
      BY SMTT(30), <3>1
    <3>3. Bots(transactions) = {}
      BY ZenonT(30), <3>2 DEF Bots
    <3>4. TableMatchesList
      BY ZenonT(30), <3>1, <3>3 DEF TableMatchesList
    <3>5. IdOrder /\ IdOld
      BY ZenonT(30), <3>1, <3>2, <3>3 DEF IdOrder, IdOld
    <3>6. OutFits /\ AtFits /\ InFits
      BY ZenonT(30), <3>1, <3>2 DEF OutFits, AtFits, InFits
    <3> QED BY ZenonT(30), <3>4, <3>5, <3>6 DEF IdInv
  <2>3. /\ topIn = <<>> /\ transactions = <<>> /\ sent = <<>> /\ dropped = {} /\ issued = 0
    BY ZenonT(30) DEF Init
  <2>4. DOMAIN topIn = {} /\ DOMAIN transactions = {} /\ DOMAIN sent = {} /\ 1..issued = {}
    BY SMTT(30), <2>3
  <2>5. Waiting = {} /\ Tops(transactions) = {} /\ Answered = {}
    BY ZenonT(30), <2>4 DEF Waiting, Tops, Answered
  <2>6. InOrder /\ RightData
    BY ZenonT(30), <2>4 DEF InOrder, RightData
  <2>7. /\ Before(Tops(transactions), Waiting)
        /\ Before(Answered \cup dropped, Tops(transactions) \cup Waiting)
    BY ZenonT(30), <2>3, <2>5 DEF Before
  <2>8. OrderInv
    BY Zenon, <2>3, <2>4, <2>5, <2>6, <2>7 DEF OrderInv
  <2> QED BY ZenonT(30), <2>1, <2>2, <2>6, <2>8 DEF BufferInv
<1>2. BufferInv /\ [Next]_vars => BufferInv'
  BY ZenonT(30), DataStep, IdStep, OrderStep DEF BufferInv
<1> QED BY <1>1, <1>2, PTL DEF Spec

\* Responses leave in the order of the requests, for every size of the buffer, of
\* the ports and of the repetition count, across discards and restarts (bottomUp,
\* addTransaction, deleteTransaction).
THEOREM AnswersInOrder == Spec => []InOrder
<1>1. BufferInv => InOrder
  BY ZenonT(30) DEF BufferInv, OrderInv
<1> QED BY <1>1, Invariance, PTL

\* A response carries the data of the duplicate of its own request (parseBottom).
THEOREM AnswersRight == Spec => []RightData
<1>1. BufferInv => RightData
  BY ZenonT(30) DEF BufferInv
<1> QED BY <1>1, Invariance, PTL

\* The lookup table and the list describe the same transactions.
THEOREM TableExact == Spec => []TableMatchesList
<1>1. BufferInv => TableMatchesList
  BY ZenonT(30) DEF BufferInv, IdInv
<1> QED BY <1>1, Invariance, PTL

\* No request is lost, answered twice, or answered after a discard.
THEOREM NothingLost == Spec => []ExactlyOnce
<1>1. BufferInv => ExactlyOnce
  <2> SUFFICES ASSUME BufferInv PROVE ExactlyOnce
    OBVIOUS
  <2>1. DataOK /\ OrderInv
    BY ZenonT(30) DEF BufferInv
  <2>2. \A a \in Tops(transactions), b \in Waiting : a # b
    BY SMTT(30), <2>1, SetFacts DEF OrderInv, Before
  <2>3. \A a \in Answered \cup dropped, b \in Tops(transactions) \cup Waiting : a # b
    BY SMTT(30), <2>1, SetFacts DEF OrderInv, Before
  <2> QED BY ZenonT(30), <2>1, <2>2, <2>3 DEF OrderInv, ExactlyOnce
<1> QED BY <1>1, Invariance, PTL

-----------------------------------------------------------------------------
(* Refinement of OrderedResponder. *)

\* The abstract list of pending requests.
Pending == [i \in DOMAIN transactions |-> transactions[i].top]

\* Pending is a sequence as long as the list.
LEMMA PendingFacts ==
    ASSUME DataOK
    PROVE  /\ Pending \in Seq(Reqs) /\ Len(Pending) = Len(transactions)
           /\ DOMAIN Pending = 1..Len(transactions)
           /\ \A i \in 1..Len(transactions) : Pending[i] = transactions[i].top
<1>1. transactions \in Seq(Transaction)
  BY ZenonT(30) DEF DataOK
<1>2. \A t \in Transaction : t.top \in Reqs
  BY ZenonT(30) DEF Transaction
<1>3. /\ DOMAIN transactions = 1..Len(transactions) /\ Len(transactions) \in Nat
      /\ \A i \in 1..Len(transactions) : transactions[i] \in Transaction
  BY SMTT(30), <1>1
<1> DEFINE n == Len(transactions)
<1> HIDE DEF n
<1>4. DOMAIN Pending = 1..n /\ \A i \in 1..n : Pending[i] = transactions[i].top
  BY ZenonT(30), <1>3 DEF Pending, n
<1>5. Pending = [i \in 1..n |-> transactions[i].top]
  BY ZenonT(30), <1>3 DEF Pending, n
<1>6. \A i \in 1..n : transactions[i].top \in Reqs
  BY ZenonT(30), <1>2, <1>3 DEF n
<1>7. n \in Nat
  BY ZenonT(30), <1>3 DEF n
<1>8. [i \in 1..n |-> transactions[i].top] \in Seq(Reqs)
  BY SMTT(30), <1>6, <1>7
<1>9. Len([i \in 1..n |-> transactions[i].top]) = n
  BY SMTT(30), <1>7
<1> QED BY ZenonT(30), <1>4, <1>5, <1>8, <1>9 DEF n

PendingOK ==
    /\ Pending \in Seq(Reqs) /\ Len(Pending) = Len(transactions)
    /\ \A i \in 1..Len(transactions) : Pending[i] = transactions[i].top

\* The same facts of the next state.
LEMMA PendingNext == DataOK /\ [Next]_vars => PendingOK'
<1>1. DataOK => PendingOK
  BY ZenonT(30), PendingFacts DEF PendingOK
<1>2. DataOK' => PendingOK'
  BY <1>1, PTL
<1> QED BY ZenonT(30), <1>2, DataStep

\* bottomUp is Answer.
LEMMA RefBottomUp == ASSUME BufferInv, bottomUp PROVE FIFO!Answer
<1> DEFINE n == Len(transactions)
           h == Head(transactions)
<1>1. /\ transactions # <<>> /\ transactions' = Tail(transactions) /\ h.rsp # NoRsp
      /\ sent' = Append(sent, [rspTo |-> h.top, data |-> h.rsp])
  BY ZenonT(30) DEF bottomUp, HeadDone, ListAfterDelete
<1>2. transactions \in Seq(Transaction) /\ DataOK
  BY ZenonT(30) DEF BufferInv, DataOK
<1>3. /\ n \in Nat \ {0} /\ Len(transactions') = n - 1 /\ 1 \in 1..n
      /\ DOMAIN transactions = 1..n /\ h = transactions[1]
      /\ \A i \in 1..(n - 1) : transactions'[i] = transactions[i + 1] /\ i + 1 \in 1..n
  BY SMTT(40), <1>1, <1>2
<1>4. h.rsp = h.top
  BY ZenonT(30), <1>1, <1>3 DEF BufferInv, IdInv, IdOld
<1> HIDE DEF n, h
<1>5. /\ Pending \in Seq(Reqs) /\ Len(Pending) = n
      /\ \A i \in 1..n : Pending[i] = transactions[i].top
  BY ZenonT(30), <1>2, PendingFacts DEF n
<1>6. /\ Pending' \in Seq(Reqs) /\ Len(Pending') = n - 1
      /\ \A i \in 1..(n - 1) : Pending'[i] = transactions'[i].top
  BY ZenonT(30), <1>2, <1>3, PendingNext DEF Next, Tick, PendingOK
<1>7. Pending # <<>> /\ Head(Pending) = h.top
  BY SMTT(30), <1>3, <1>5
<1>8. /\ Tail(Pending) \in Seq(Reqs) /\ Len(Tail(Pending)) = n - 1
      /\ \A i \in 1..(n - 1) : Tail(Pending)[i] = Pending[i + 1]
  BY ZenonT(30), <1>3, <1>5, <1>7, HeadTailProperties
<1>9. \A i \in 1..(n - 1) : Pending'[i] = Tail(Pending)[i]
  BY SMTT(40), <1>3, <1>5, <1>6, <1>8
<1>10. Pending' = Tail(Pending)
  BY ZenonT(30), <1>6, <1>8, <1>9, SeqEqual
<1>11. sent' = Append(sent, [rspTo |-> Head(Pending), data |-> Head(Pending)])
  BY ZenonT(30), <1>1, <1>4, <1>7
<1> QED BY <1>7, <1>10, <1>11, Zenon DEF FIFO!Answer, Pending

\* topDown is Accept.
LEMMA RefTopDown == ASSUME BufferInv, topDown PROVE FIFO!Accept
<1> DEFINE n == Len(transactions)
           x == Head(topIn)
           t == [top |-> x, bot |-> lastID + 1, rsp |-> NoRsp]
<1>1. topIn # <<>> /\ transactions' = Append(transactions, t) /\ sent' = sent
  BY ZenonT(30) DEF topDown, ListAfterAdd
<1>2. /\ transactions \in Seq(Transaction) /\ topIn \in Seq(Reqs) /\ lastID \in Nat /\ DataOK
  BY ZenonT(30) DEF BufferInv, DataOK
<1>3. x \in Reqs
  BY SMTT(40), <1>1, <1>2
<1>4. t \in Transaction /\ t.top = x
  BY SMTT(30), <1>2, <1>3 DEF Transaction
<1> HIDE DEF x, t
<1>5. /\ n \in Nat /\ Len(transactions') = n + 1
      /\ transactions'[n + 1] = t /\ \A i \in 1..n : transactions'[i] = transactions[i]
      /\ \A i \in 1..(n + 1) : i \in 1..n \/ i = n + 1
  BY SMTT(30), <1>1, <1>2, <1>4
<1> HIDE DEF n
<1>6. /\ Pending \in Seq(Reqs) /\ Len(Pending) = n
      /\ \A i \in 1..n : Pending[i] = transactions[i].top
  BY ZenonT(30), <1>2, PendingFacts DEF n
<1>7. /\ Pending' \in Seq(Reqs) /\ Len(Pending') = n + 1
      /\ \A i \in 1..(n + 1) : Pending'[i] = transactions'[i].top
  BY ZenonT(30), <1>2, <1>5, PendingNext DEF Next, Tick, PendingOK
<1>8. /\ Append(Pending, x) \in Seq(Reqs) /\ Len(Append(Pending, x)) = n + 1
      /\ Append(Pending, x)[n + 1] = x /\ \A i \in 1..n : Append(Pending, x)[i] = Pending[i]
  BY SMTT(40), <1>3, <1>6, AppendFacts
<1>9. ASSUME NEW i \in 1..(n + 1) PROVE Pending'[i] = Append(Pending, x)[i]
  <2>1. CASE i \in 1..n
    BY ZenonT(30), <2>1, <1>5, <1>6, <1>7, <1>8
  <2>2. CASE i = n + 1
    BY ZenonT(30), <2>2, <1>4, <1>5, <1>7, <1>8
  <2> QED BY Zenon, <2>1, <2>2, <1>5
<1>10. Pending' = Append(Pending, x)
  BY ZenonT(30), <1>7, <1>8, <1>9, SeqEqual
<1> QED BY <1>1, <1>3, <1>10, Zenon DEF FIFO!Accept, Pending

\* A discard or a restart is Forget.
LEMMA RefDrop ==
    ASSUME transactions' = <<>>, sent' = sent PROVE FIFO!Forget
<1>1. Pending' = <<>>
  BY SMTT(30) DEF Pending
<1> QED BY <1>1, Zenon DEF FIFO!Forget, Pending

\* The other steps stutter: parseBottom changes no request of the list.
LEMMA RefParseBottom == ASSUME BufferInv, parseBottom PROVE UNCHANGED FIFO!avars
<1> DEFINE d == Head(bottomIn).data
<1>1. /\ sent' = sent
      /\ \/ transactions' = transactions
         \/ transactions' = [i \in DOMAIN transactions |->
                               IF transactions[i].bot = Head(bottomIn).rspTo
                               THEN [transactions[i] EXCEPT !.rsp = d]
                               ELSE transactions[i]]
  BY Zenon DEF parseBottom, Answers
<1>2. \A i \in DOMAIN transactions : transactions[i] \in Transaction
  BY SMTT(30) DEF BufferInv, DataOK
<1>3. \A t \in Transaction : [t EXCEPT !.rsp = d].top = t.top
  BY ZenonT(30) DEF Transaction
<1> HIDE DEF d
<1>4. /\ DOMAIN transactions' = DOMAIN transactions
      /\ \A i \in DOMAIN transactions : transactions'[i].top = transactions[i].top
  BY Zenon, <1>1, <1>2, <1>3
<1>5. Pending' = Pending
  BY ZenonT(30), <1>4 DEF Pending
<1> QED BY <1>1, <1>5, Zenon DEF FIFO!avars, Pending

\* Every step of the buffer is a step of the responder or leaves it unchanged.
LEMMA RefStep == ASSUME BufferInv, [Next]_vars PROVE [FIFO!ANext]_(FIFO!avars)
<1>1. ASSUME UNCHANGED <<transactions, sent>> PROVE UNCHANGED FIFO!avars
  BY <1>1, Zenon DEF FIFO!avars
<1>2. CASE discardTransactions \/ restart
  BY ZenonT(30), <1>2, RefDrop DEF discardTransactions, restart, FIFO!ANext
<1>3. CASE StartTick \/ NoControlMsg \/ CtrlRejected \/ bottomUpEnd \/ parseBottomEnd \/ topDownEnd
  BY ZenonT(30), <1>3, <1>1 DEF StartTick, NoControlMsg, CtrlRejected, bottomUpEnd, parseBottomEnd,
                         topDownEnd, bufVars
<1>4. CASE Environment
  BY Zenon, <1>4, <1>1 DEF Environment, RecvTop, ForwardTop, ForwardBottom, ForwardCtrl, RecvBottom,
                    RecvCtrl, bufVars
<1>5. CASE UNCHANGED vars
  BY ZenonT(30), <1>5, <1>1 DEF vars, bufVars
<1> QED
  BY ZenonT(30), <1>2, <1>3, <1>4, <1>5, RefBottomUp, RefTopDown, RefParseBottom DEF Next, Tick, FIFO!ANext

\* The reorder buffer implements the safety part of OrderedResponder: with its
\* table, IDs, ports and stages it answers the oldest accepted request, with that
\* request's data, or forgets all of them.
THEOREM RefinesResponder == Spec => FIFO!Safety
<1>1. Init => FIFO!AInit
  BY SMTT(30) DEF Init, FIFO!AInit
<1> QED BY <1>1, Invariance, RefStep, PTL DEF Spec, FIFO!Safety
-----------------------------------------------------------------------------
(* No wake-up is missed.  What keeps a stage from working is, in each case,   *)
(* something whose end wakes the component: an empty port, or a full one that *)
(* is marked busy.  A tick that has made no progress so far has found its     *)
(* stages in that condition, and when it is over all of them are.             *)

CtrlWaits == ctrlIn = <<>> \/ (ctrlPending >= EndCap /\ "ctrl" \in busy)
UpWaits   == ~HeadDone \/ (topPending >= EndCap /\ "top" \in busy)
DownWaits == topIn = <<>> \/ isFull \/ (Len(bottomOut) >= EndCap /\ "bottom" \in busy)
AllWait   == CtrlWaits /\ (isFlushing \/ (UpWaits /\ bottomIn = <<>> /\ DownWaits))

Fruitless(stages) == stage \in stages /\ ~progress

WakeInv ==
    /\ stage = "ctrl" => ~progress
    /\ Fruitless(Stages \ {"idle"}) => rep = 0
    /\ stage \in {"bottomUp", "parseBottom", "topDown"} => ~isFlushing
    /\ Fruitless({"bottomUp", "parseBottom", "topDown"}) => CtrlWaits
    /\ Fruitless({"parseBottom", "topDown"}) => UpWaits
    /\ Fruitless({"topDown"}) => bottomIn = <<>>
    /\ stage = "idle" /\ ~awake => AllWait

\* The invariant holds at the start and in every step, an action at a time.
LEMMA WakeStep == DataOK /\ WakeInv /\ [Next]_vars => WakeInv'
<1> SUFFICES ASSUME DataOK, WakeInv, [Next]_vars PROVE WakeInv'
  OBVIOUS
<1> DEFINE Working == {"bottomUp", "parseBottom", "topDown"}
<1>1. CASE StartTick
  <2>1. stage' = "ctrl" /\ progress' = FALSE /\ rep' = 0
    BY ZenonT(30), <1>1 DEF StartTick
  <2> QED BY ZenonT(30), <2>1 DEF WakeInv, Fruitless
<1>2. CASE NoControlMsg \/ CtrlRejected
  <2>1. /\ stage = "ctrl" /\ ~progress /\ progress' = progress /\ rep' = 0
        /\ isFlushing' = isFlushing
    BY ZenonT(30), <1>2 DEF WakeInv, NoControlMsg, CtrlRejected, AfterCtrl, FinishTick, Goto, bufVars
  <2>2. CtrlWaits'
    BY ZenonT(30), <1>2 DEF NoControlMsg, CtrlRejected, CtrlWaits, ctrlVars
  <2>3. \/ ~isFlushing /\ stage' = "bottomUp"
        \/ isFlushing /\ stage' = "idle"
    BY ZenonT(30), <1>2 DEF NoControlMsg, CtrlRejected, AfterCtrl, FinishTick, Goto
  <2> QED BY ZenonT(30), <2>1, <2>2, <2>3 DEF WakeInv, Fruitless, AllWait
<1>3. CASE discardTransactions
  <2>1. stage' = "idle" /\ awake' = TRUE
    BY ZenonT(30), <1>3 DEF discardTransactions
  <2> QED BY ZenonT(30), <2>1 DEF WakeInv, Fruitless
<1>4. CASE restart
  <2>1. stage' = "bottomUp" /\ progress' = TRUE /\ isFlushing' = FALSE
    BY ZenonT(30), <1>4 DEF restart
  <2> QED BY ZenonT(30), <2>1 DEF WakeInv, Fruitless
<1>5. CASE bottomUp \/ parseBottom \/ topDown
  <2>1. stage \in Working /\ stage' = stage /\ progress' = TRUE /\ isFlushing' = isFlushing
    BY ZenonT(30), <1>5 DEF bottomUp, parseBottom, topDown, Again
  <2> QED BY ZenonT(30), <2>1 DEF WakeInv, Fruitless
<1>6. CASE bottomUpEnd
  <2>1. /\ stage = "bottomUp" /\ stage' = "parseBottom" /\ rep' = 0 /\ progress' = progress
        /\ UNCHANGED bufVars /\ UNCHANGED portVars /\ UNCHANGED ctrlVars /\ busy \subseteq busy'
    BY ZenonT(30), <1>6 DEF bottomUpEnd, Goto
  <2>2. ~isFlushing' /\ (~progress => rep = 0 /\ CtrlWaits)
    BY ZenonT(30), <2>1 DEF WakeInv, Fruitless, Stages, bufVars
  <2>3. ~progress => CtrlWaits'
    BY ZenonT(30), <2>1, <2>2 DEF CtrlWaits, ctrlVars
  <2>4. ~progress => rep < numReqPerCycle /\ rep # numReqPerCycle
    BY SMTT(30), <2>2, RobAssumption
  <2>5. ~progress => UpWaits'
    BY ZenonT(30), <1>6, <2>1, <2>4 DEF bottomUpEnd, UpWaits, HeadDone, bufVars, portVars
  <2> QED BY ZenonT(30), <2>1, <2>2, <2>3, <2>5 DEF WakeInv, Fruitless
<1>7. CASE parseBottomEnd
  <2>1. /\ stage = "parseBottom" /\ stage' = "topDown" /\ rep' = 0 /\ progress' = progress
        /\ UNCHANGED bufVars /\ UNCHANGED portVars /\ UNCHANGED ctrlVars /\ busy' = busy
        /\ rep = numReqPerCycle \/ bottomIn = <<>>
    BY ZenonT(30), <1>7 DEF parseBottomEnd, Goto
  <2>2. ~isFlushing' /\ (~progress => rep = 0 /\ CtrlWaits /\ UpWaits)
    BY ZenonT(30), <2>1 DEF WakeInv, Fruitless, Stages, bufVars
  <2>3. ~progress => CtrlWaits' /\ UpWaits'
    BY ZenonT(30), <2>1, <2>2 DEF CtrlWaits, UpWaits, HeadDone, ctrlVars, bufVars, portVars
  <2>4. ~progress => bottomIn' = <<>>
    BY ZenonT(30), <2>1, <2>2, RobAssumption DEF portVars
  <2> QED BY ZenonT(30), <2>1, <2>2, <2>3, <2>4 DEF WakeInv, Fruitless
<1>8. CASE topDownEnd
  <2>1. /\ stage = "topDown" /\ stage' = "idle" /\ awake' = progress
        /\ UNCHANGED bufVars /\ UNCHANGED portVars /\ UNCHANGED ctrlVars /\ busy \subseteq busy'
    BY ZenonT(30), <1>8 DEF topDownEnd, FinishTick
  <2>2. ~progress => rep = 0 /\ CtrlWaits /\ UpWaits /\ bottomIn = <<>>
    BY ZenonT(30), <2>1 DEF WakeInv, Fruitless, Stages
  <2>3. ~progress => CtrlWaits' /\ UpWaits' /\ bottomIn' = <<>>
    BY ZenonT(30), <2>1, <2>2 DEF CtrlWaits, UpWaits, HeadDone, ctrlVars, bufVars, portVars
  <2>4. ~progress => rep < numReqPerCycle /\ rep # numReqPerCycle
    BY SMTT(30), <2>2, RobAssumption
  <2>5. ~progress => DownWaits'
    BY ZenonT(30), <1>8, <2>1, <2>4 DEF topDownEnd, DownWaits, isFull, bufVars, portVars
  <2> QED BY ZenonT(30), <2>1, <2>3, <2>5 DEF WakeInv, Fruitless, AllWait
<1>9. CASE \/ RecvTop \/ (\E q \in atBottom : RecvBottom(q))
          \/ \E m \in {"discard", "restart"} : RecvCtrl(m)
  <2>1. stage' = "idle" /\ awake' = TRUE
    BY ZenonT(30), <1>9 DEF RecvTop, RecvBottom, RecvCtrl, Wake
  <2> QED BY ZenonT(30), <2>1 DEF WakeInv, Fruitless
<1>10. ASSUME NEW e, stage = "idle", NotifyAvailable(e), UNCHANGED bufVars,
              e \notin busy => (AllWait => AllWait')
       PROVE  WakeInv'
  <2>1. stage' = "idle" /\ (e \in busy => awake' = TRUE) /\ (e \notin busy => awake' = awake)
    BY ZenonT(30), <1>10 DEF NotifyAvailable, Wake, tickVars
  <2>2. awake' = TRUE \/ AllWait'
    BY ZenonT(30), <1>10, <2>1 DEF WakeInv
  <2> QED BY ZenonT(30), <2>1, <2>2 DEF WakeInv, Fruitless
<1>11. CASE ForwardTop
  <2>1. /\ UNCHANGED bufVars /\ UNCHANGED ctrlVars /\ busy' = busy \ {"top"} /\ topIn' = topIn
        /\ bottomIn' = bottomIn /\ bottomOut' = bottomOut
    BY ZenonT(30), <1>11 DEF ForwardTop, NotifyAvailable
  <2>2. "top" \notin busy => (AllWait => AllWait')
    BY ZenonT(30), <2>1 DEF AllWait, CtrlWaits, UpWaits, DownWaits, HeadDone, isFull, bufVars, ctrlVars
  <2> QED BY ZenonT(30), <1>10, <1>11, <2>2 DEF ForwardTop
<1>12. CASE ForwardBottom
  <2>1. /\ UNCHANGED bufVars /\ UNCHANGED ctrlVars /\ busy' = busy \ {"bottom"} /\ topIn' = topIn
        /\ bottomIn' = bottomIn /\ topPending' = topPending
    BY ZenonT(30), <1>12 DEF ForwardBottom, NotifyAvailable
  <2>2. "bottom" \notin busy => (AllWait => AllWait')
    BY ZenonT(30), <2>1 DEF AllWait, CtrlWaits, UpWaits, DownWaits, HeadDone, isFull, bufVars, ctrlVars
  <2> QED BY ZenonT(30), <1>10, <1>12, <2>2 DEF ForwardBottom
<1>13. CASE ForwardCtrl
  <2>1. /\ UNCHANGED bufVars /\ UNCHANGED portVars /\ busy' = busy \ {"ctrl"} /\ ctrlIn' = ctrlIn
    BY ZenonT(30), <1>13 DEF ForwardCtrl, NotifyAvailable
  <2>2. "ctrl" \notin busy => (AllWait => AllWait')
    BY ZenonT(30), <2>1 DEF AllWait, CtrlWaits, UpWaits, DownWaits, HeadDone, isFull, bufVars, portVars
  <2> QED BY ZenonT(30), <1>10, <1>13, <2>2 DEF ForwardCtrl
<1>14. CASE UNCHANGED vars
  BY ZenonT(30), <1>14 DEF vars, bufVars, portVars, ctrlVars, tickVars, WakeInv, Fruitless, AllWait,
     CtrlWaits, UpWaits, DownWaits, HeadDone, isFull
<1> QED BY ZenonT(30), <1>1, <1>2, <1>3, <1>4, <1>5, <1>6, <1>7, <1>8, <1>9, <1>11, <1>12, <1>13, <1>14
        DEF Next, Tick, Environment

\* The component never sleeps while a tick could do something: whatever stops a stage, its end
\* reaches the component as NotifyRecv or NotifyPortFree.
THEOREM NoLostWakeup == Spec => []NoMissedWakeup
<1>1. Init => WakeInv
  BY ZenonT(30) DEF Init, WakeInv, Fruitless, AllWait, CtrlWaits, UpWaits, DownWaits, HeadDone
<1>2. DataOK /\ WakeInv => NoMissedWakeup
  <2> SUFFICES ASSUME DataOK, WakeInv, stage = "idle", ~awake PROVE ~CanProgress
    BY ZenonT(30) DEF NoMissedWakeup
  <2>1. AllWait
    BY ZenonT(30) DEF WakeInv
  <2>2. topPending \in Nat /\ ctrlPending \in Nat /\ Len(bottomOut) \in Nat /\ EndCap \in Nat
    BY SMTT(30), RobAssumption DEF DataOK
  <2>3. /\ topPending >= EndCap => ~(topPending < EndCap)
        /\ ctrlPending >= EndCap => ~(ctrlPending < EndCap)
        /\ Len(bottomOut) >= EndCap => ~(Len(bottomOut) < EndCap)
    BY SMTT(30), <2>2
  <2> QED BY ZenonT(30), <2>1, <2>3 DEF AllWait, CtrlWaits, UpWaits, DownWaits, CanProgress
<1>3. Init => DataOK
  BY SMTT(30), RobAssumption DEF Init, DataOK, Stages
<1> QED BY <1>1, <1>2, <1>3, WakeStep, DataStep, PTL DEF Spec
=============================================================================
