------------------------ MODULE DirectConnectionOrder ------------------------
(* TLAPS proof that the direct connection loses, duplicates and reorders      *)
(* nothing between two ports.                                                 *)
EXTENDS DirectConnectionProofs, TLAPS

\* A message that moves from the front of one queue to the back of the one before it
\* leaves the two together as they were.
LEMMA MoveOver ==
    ASSUME NEW s \in Seq(Message), NEW t \in Seq(Message), t # <<>>
    PROVE  Append(s, Head(t)) \o Tail(t) = s \o t
<1>1. /\ Append(s, Head(t)) \o Tail(t) \in Seq(Message) /\ s \o t \in Seq(Message)
      /\ Len(Append(s, Head(t)) \o Tail(t)) = Len(s \o t)
  OBVIOUS
<1>2. ASSUME NEW i \in 1..Len(s \o t)
      PROVE  (Append(s, Head(t)) \o Tail(t))[i] = (s \o t)[i]
  OBVIOUS
<1> QED BY SMTT(30), <1>1, <1>2

\* A queue of two parts gains a message at the back of the second.
LEMMA BackGains ==
    ASSUME NEW s \in Seq(Message), NEW t \in Seq(Message), NEW x \in Message
    PROVE  s \o Append(t, x) = Append(s \o t, x)
<1>1. /\ s \o Append(t, x) \in Seq(Message) /\ Append(s \o t, x) \in Seq(Message)
      /\ Len(s \o Append(t, x)) = Len(Append(s \o t, x))
  OBVIOUS
<1>2. ASSUME NEW i \in 1..Len(s \o Append(t, x))
      PROVE  (s \o Append(t, x))[i] = Append(s \o t, x)[i]
  OBVIOUS
<1> QED BY SMTT(30), <1>1, <1>2

\* A queue of two parts loses its head from the first of them.
LEMMA FrontLeaves ==
    ASSUME NEW s \in Seq(Message), NEW t \in Seq(Message)
    PROVE  /\ s \o t \in Seq(Message)
           /\ s # <<>> => s \o t # <<>> /\ Head(s \o t) = Head(s) /\ Tail(s) \o t = Tail(s \o t)
<1>1. s \o t \in Seq(Message) /\ Len(s \o t) = Len(s) + Len(t)
  OBVIOUS
<1>2. ASSUME s # <<>>
      PROVE  s \o t # <<>> /\ Head(s \o t) = Head(s) /\ Tail(s) \o t = Tail(s \o t)
  <2>1. s \o t # <<>> /\ Head(s \o t) = Head(s)
    BY SMTT(30), <1>2
  <2>2. /\ Tail(s) \o t \in Seq(Message) /\ Tail(s \o t) \in Seq(Message)
        /\ Len(Tail(s) \o t) = Len(Tail(s \o t))
    BY SMTT(30), <1>2, <2>1
  <2>3. ASSUME NEW i \in 1..Len(Tail(s) \o t) PROVE (Tail(s) \o t)[i] = Tail(s \o t)[i]
    BY SMTT(30), <1>2, <2>1
  <2> QED BY SMTT(30), <2>1, <2>2, <2>3
<1> QED BY ZenonT(30), <1>1, <1>2


\* What the order of messages needs of IInv.
DataTypes == /\ traffic \in [Ports -> Seq(Ports)]
             /\ MsgsToSend \in [Ports -> Seq(Message)] /\ endBuf \in [Ports -> Seq(Message)]
             /\ portBuf \in [Ports -> Seq(Message)] /\ received \in [Ports -> Seq(Message)]

\* IInv gives the types.
LEMMA HaveTypes == IInv => DataTypes
  BY ZenonT(30), ConnAssumption DEF IInv, SysOK, TypeOK, DataTypes

\* What ToSend lists.
LEMMA Listed ==
    ASSUME DataTypes, NEW p \in Ports
    PROVE  /\ Len(traffic[p]) \in Nat /\ Len(OnTheWay(p)) \in Nat /\ Gone(p) \in Int
           /\ OnTheWay(p) \in Seq(Message) /\ Arrived(p) \in Seq(Message)
           /\ \A i \in 1..Len(traffic[p]) :
                /\ traffic[p][i] \in Ports
                /\ ToSend(p)[i] = [src |-> p, dst |-> traffic[p][i], num |-> i]
<1>1. traffic[p] \in Seq(Ports) /\ endBuf[p] \in Seq(Message) /\ MsgsToSend[p] \in Seq(Message)
      /\ received[p] \in Seq(Message) /\ portBuf[p] \in Seq(Message)
  BY ZenonT(30) DEF DataTypes
<1>2. OnTheWay(p) \in Seq(Message) /\ Arrived(p) \in Seq(Message)
  BY SMTT(30), <1>1 DEF OnTheWay, Arrived
<1>3. Len(traffic[p]) \in Nat /\ Len(OnTheWay(p)) \in Nat
  BY SMTT(30), <1>1, <1>2
<1>4. Gone(p) \in Int
  BY SMTT(30), <1>3 DEF Gone
<1>5. \A i \in 1..Len(traffic[p]) : traffic[p][i] \in Ports
  BY SMTT(30), <1>1
<1> QED BY ZenonT(30), <1>2, <1>3, <1>4, <1>5 DEF ToSend

\* A step after which the same messages have arrived and the same are on the way.
LEMMA NothingMoved ==
    ASSUME FIFOPerPair, traffic' = traffic,
           \A p \in Ports : OnTheWay(p)' = OnTheWay(p) /\ Arrived(p)' = Arrived(p),
           DataTypes
    PROVE  FIFOPerPair'
<1>1. \A p : ToSend(p)' = ToSend(p)
  BY ZenonT(30) DEF ToSend
<1>2. \A p \in Ports : Gone(p)' = Gone(p)
  BY ZenonT(30) DEF Gone
<1>3. RestInOrder'
  BY ZenonT(30), <1>1, <1>2 DEF FIFOPerPair, RestInOrder
<1>4. NothingElse'
  <2> SUFFICES ASSUME NEW d \in Ports, NEW j \in 1..Len(Arrived(d))
               PROVE  /\ Arrived(d)[j].dst = d /\ Arrived(d)[j].num <= Gone(Arrived(d)[j].src)'
                      /\ Arrived(d)[j] = ToSend(Arrived(d)[j].src)'[Arrived(d)[j].num]
    BY SMTT(30) DEF NothingElse
  <2>1. Arrived(d)[j] \in Message
    BY SMTT(30), Listed
  <2>2. Arrived(d)[j].src \in Ports
    BY ZenonT(30), <2>1 DEF Message
  <2> QED BY SMTT(30), <1>1, <1>2, <2>2 DEF FIFOPerPair, NothingElse
<1>5. NoneLost'
  <2> SUFFICES ASSUME NEW p \in Ports, NEW n \in 1..Gone(p)
               PROVE  \E j \in 1..Len(Arrived(traffic[p][n])') :
                          Arrived(traffic[p][n])'[j] = ToSend(p)[n]
    BY ZenonT(30), <1>1, <1>2 DEF NoneLost
  <2>1. n \in 1..Len(traffic[p])
    BY SMTT(30), Listed DEF Gone
  <2>2. traffic[p][n] \in Ports
    BY ZenonT(30), <2>1, Listed
  <2> QED BY ZenonT(30), <2>2 DEF FIFOPerPair, NoneLost
<1>6. NoneOvertaken'
  BY ZenonT(30) DEF FIFOPerPair, NoneOvertaken
<1> QED BY ZenonT(30), <1>3, <1>4, <1>5, <1>6 DEF FIFOPerPair

\* A Send moves a message from what is left to send to the end of the connection's buffer.
LEMMA SendFIFO ==
    ASSUME FIFOPerPair, DataTypes, NEW p \in Ports, Send(p), UNCHANGED sysVars
    PROVE  FIFOPerPair'
<1>1. /\ MsgsToSend[p] # <<>> /\ traffic' = traffic
      /\ endBuf' = [endBuf EXCEPT ![p] = Append(@, Head(MsgsToSend[p]))]
      /\ MsgsToSend' = [MsgsToSend EXCEPT ![p] = Tail(@)]
      /\ portBuf' = portBuf /\ received' = received
  BY ZenonT(30) DEF Send, CanSend, sysVars
<1>2. \A q \in Ports : endBuf[q] \in Seq(Message) /\ MsgsToSend[q] \in Seq(Message)
  BY ZenonT(30) DEF DataTypes
<1>3. /\ endBuf'[p] = Append(endBuf[p], Head(MsgsToSend[p]))
      /\ MsgsToSend'[p] = Tail(MsgsToSend[p])
      /\ \A q \in Ports : q # p => endBuf'[q] = endBuf[q] /\ MsgsToSend'[q] = MsgsToSend[q]
  BY ZenonT(30), <1>1 DEF DataTypes
<1>4. Append(endBuf[p], Head(MsgsToSend[p])) \o Tail(MsgsToSend[p]) = endBuf[p] \o MsgsToSend[p]
  BY ZenonT(30), <1>1, <1>2, MoveOver
<1>5. \A q \in Ports : OnTheWay(q)' = OnTheWay(q)
  BY ZenonT(30), <1>3, <1>4 DEF OnTheWay
<1>6. \A q \in Ports : Arrived(q)' = Arrived(q)
  BY ZenonT(30), <1>1 DEF Arrived
<1> QED BY ZenonT(30), <1>1, <1>5, <1>6, NothingMoved

\* A Retrieve moves a message from the port to the agent.
LEMMA RetrieveFIFO ==
    ASSUME FIFOPerPair, DataTypes, NEW p \in Ports, Retrieve(p), UNCHANGED sysVars
    PROVE  FIFOPerPair'
<1>1. /\ portBuf[p] # <<>> /\ traffic' = traffic
      /\ received' = [received EXCEPT ![p] = Append(@, Head(portBuf[p]))]
      /\ portBuf' = [portBuf EXCEPT ![p] = Tail(@)]
      /\ MsgsToSend' = MsgsToSend /\ endBuf' = endBuf
  BY ZenonT(30) DEF Retrieve, sysVars
<1>2. \A q \in Ports : received[q] \in Seq(Message) /\ portBuf[q] \in Seq(Message)
  BY ZenonT(30) DEF DataTypes
<1>3. /\ received'[p] = Append(received[p], Head(portBuf[p]))
      /\ portBuf'[p] = Tail(portBuf[p])
      /\ \A q \in Ports : q # p => received'[q] = received[q] /\ portBuf'[q] = portBuf[q]
  BY ZenonT(30), <1>1 DEF DataTypes
<1>4. Append(received[p], Head(portBuf[p])) \o Tail(portBuf[p]) = received[p] \o portBuf[p]
  BY ZenonT(30), <1>1, <1>2, MoveOver
<1>5. \A q \in Ports : Arrived(q)' = Arrived(q)
  BY ZenonT(30), <1>3, <1>4 DEF Arrived
<1>6. \A q \in Ports : OnTheWay(q)' = OnTheWay(q)
  BY ZenonT(30), <1>1 DEF OnTheWay
<1> QED BY ZenonT(30), <1>1, <1>5, <1>6, NothingMoved

\* The first message of e on the way, its number n + 1, is now the last that arrived at d.
Takes(e, d, m, n) ==
    /\ traffic' = traffic /\ \A q : ToSend(q)' = ToSend(q)
    /\ OnTheWay(e) # <<>> /\ OnTheWay(e)' = Tail(OnTheWay(e))
    /\ \A q \in Ports : q # e => OnTheWay(q)' = OnTheWay(q) /\ Gone(q)' = Gone(q)
    /\ n = Gone(e) /\ Gone(e)' = n + 1 /\ n + 1 \in 1..Len(traffic[e])
    /\ Arrived(d)' = Append(Arrived(d), m)
    /\ \A q \in Ports : q # d => Arrived(q)' = Arrived(q)
    /\ m = ToSend(e)[n + 1] /\ m.src = e /\ m.num = n + 1 /\ m.dst = d /\ d = traffic[e][n + 1]

\* A delivery takes the next message of its sender to the end of what has arrived.
LEMMA DeliverTakes ==
    ASSUME FIFOPerPair, IInv, DataTypes, Deliver, UNCHANGED sysVars
    PROVE  \E e \in Ports, d \in Ports, m \in Message, n \in Nat : Takes(e, d, m, n)
<1>1. PICK e \in Ports :
        /\ endBuf[e] # <<>> /\ traffic' = traffic
        /\ portBuf' = [portBuf EXCEPT ![Head(endBuf[e]).dst] = Append(@, Head(endBuf[e]))]
        /\ endBuf' = [endBuf EXCEPT ![e] = Tail(@)]
        /\ MsgsToSend' = MsgsToSend /\ received' = received
  <2>1. EndAt(rep[Conn]) \in Ports
    <3>1. /\ rep[Conn] \in 0..(NumPorts - 1) /\ nextPortID \in 0..(NumPorts - 1)
          /\ NumPorts \in Nat \ {0}
      BY SMTT(30), PortFacts, ConnAssumption DEF IInv, Deliver, TypeOK, Ports
    <3>2. rep[Conn] + nextPortID \in 0..(2 * NumPorts - 1)
      BY SMTT(30), <3>1
    <3> QED BY ZenonT(30), <3>1, <3>2, ModCases DEF EndAt, Ports
  <2> QED BY ZenonT(30), <2>1 DEF Deliver, Delivered, sysVars
<1>2. PICK m \in Message : m = Head(endBuf[e])
  BY SMTT(30), <1>1 DEF DataTypes
<1>3. PICK d \in Ports : d = m.dst
  BY ZenonT(30) DEF Message
<1>4. /\ \A q \in Ports : /\ endBuf[q] \in Seq(Message) /\ MsgsToSend[q] \in Seq(Message)
                          /\ received[q] \in Seq(Message) /\ portBuf[q] \in Seq(Message)
      /\ endBuf'[e] = Tail(endBuf[e]) /\ portBuf'[d] = Append(portBuf[d], m)
      /\ \A q \in Ports : q # e => endBuf'[q] = endBuf[q]
      /\ \A q \in Ports : q # d => portBuf'[q] = portBuf[q]
  BY ZenonT(30), <1>1, <1>2, <1>3 DEF DataTypes
<1>5. /\ OnTheWay(e) # <<>> /\ Head(OnTheWay(e)) = m /\ OnTheWay(e)' = Tail(OnTheWay(e))
      /\ \A q \in Ports : q # e => OnTheWay(q)' = OnTheWay(q)
  <2>1. /\ endBuf[e] \o MsgsToSend[e] # <<>> /\ Head(endBuf[e] \o MsgsToSend[e]) = Head(endBuf[e])
        /\ Tail(endBuf[e]) \o MsgsToSend[e] = Tail(endBuf[e] \o MsgsToSend[e])
    BY ZenonT(30), <1>1, <1>4, FrontLeaves
  <2> QED BY ZenonT(30), <1>1, <1>2, <1>4, <2>1 DEF OnTheWay
<1>6. /\ Arrived(d)' = Append(Arrived(d), m)
      /\ \A q \in Ports : q # d => Arrived(q)' = Arrived(q)
  <2>1. received[d] \o Append(portBuf[d], m) = Append(received[d] \o portBuf[d], m)
    BY ZenonT(30), <1>4, BackGains
  <2> QED BY ZenonT(30), <1>1, <1>4, <2>1 DEF Arrived
<1>7. \A q : ToSend(q)' = ToSend(q)
  BY ZenonT(30), <1>1 DEF ToSend
<1>8. PICK n \in Nat : n = Gone(e)
  BY ZenonT(30) DEF FIFOPerPair, RestInOrder
<1>9. /\ Gone(e)' = n + 1 /\ n + 1 \in 1..Len(traffic[e])
      /\ \A q \in Ports : q # e => Gone(q)' = Gone(q)
  <2>1. Len(OnTheWay(e)') = Len(OnTheWay(e)) - 1 /\ Len(OnTheWay(e)) \in Nat \ {0}
    BY SMTT(30), <1>5, Listed
  <2>2. n = Len(traffic[e]) - Len(OnTheWay(e)) /\ Len(traffic[e]) \in Nat
    BY ZenonT(30), <1>8, Listed DEF Gone
  <2>3. Gone(e)' = n + 1
    BY SMTT(30), <1>1, <2>1, <2>2 DEF Gone
  <2>4. \A q \in Ports : q # e => Gone(q)' = Gone(q)
    BY ZenonT(30), <1>1, <1>5 DEF Gone
  <2> QED BY SMTT(30), <2>1, <2>2, <2>3, <2>4
<1>10. m = ToSend(e)[n + 1] /\ m.src = e /\ m.num = n + 1 /\ d = traffic[e][n + 1]
  <2>1. OnTheWay(e)[1] = ToSend(e)[n + 1] /\ OnTheWay(e)[1] = m
    BY SMTT(30), <1>5, <1>8, Listed DEF FIFOPerPair, RestInOrder
  <2>2. ToSend(e)[n + 1] = [src |-> e, dst |-> traffic[e][n + 1], num |-> n + 1]
    BY ZenonT(30), <1>9, Listed
  <2>3. m = [src |-> e, dst |-> traffic[e][n + 1], num |-> n + 1]
    BY ZenonT(30), <2>1, <2>2
  <2>4. m.src = e /\ m.dst = traffic[e][n + 1] /\ m.num = n + 1
    BY ZenonT(30), <2>3
  <2> QED BY ZenonT(30), <1>3, <2>1, <2>4
<1> QED BY ZenonT(30), <1>1, <1>3, <1>5, <1>6, <1>7, <1>8, <1>9, <1>10 DEF Takes

\* What is left on the way is still the end of the list.
LEMMA RestTakes ==
    ASSUME FIFOPerPair, DataTypes, NEW e \in Ports, NEW d \in Ports, NEW m \in Message,
           NEW n \in Nat, Takes(e, d, m, n)
    PROVE  RestInOrder'
<1> SUFFICES ASSUME NEW q \in Ports
             PROVE  /\ Gone(q)' \in Nat
                    /\ \A i \in 1..Len(OnTheWay(q)') : OnTheWay(q)'[i] = ToSend(q)[Gone(q)' + i]
  BY ZenonT(30) DEF RestInOrder, Takes
<1>1. /\ Gone(q) \in Nat
      /\ \A i \in 1..Len(OnTheWay(q)) : OnTheWay(q)[i] = ToSend(q)[Gone(q) + i]
  BY ZenonT(30) DEF FIFOPerPair, RestInOrder
<1>2. CASE q # e
  BY ZenonT(30), <1>1, <1>2 DEF Takes
<1>3. CASE q = e
  <2>1. OnTheWay(e) \in Seq(Message) /\ OnTheWay(e) # <<>>
    BY ZenonT(30), Listed DEF Takes
  <2>2. ASSUME NEW i \in 1..Len(Tail(OnTheWay(e)))
        PROVE  /\ i + 1 \in 1..Len(OnTheWay(e))
               /\ Tail(OnTheWay(e))[i] = OnTheWay(e)[i + 1] /\ n + (i + 1) = (n + 1) + i
    BY SMTT(30), <2>1
  <2>3. n = Gone(e) /\ Gone(e)' = n + 1 /\ OnTheWay(e)' = Tail(OnTheWay(e))
    BY ZenonT(30) DEF Takes
  <2>4. ASSUME NEW i \in 1..Len(Tail(OnTheWay(e)))
        PROVE  Tail(OnTheWay(e))[i] = ToSend(e)[(n + 1) + i]
    BY ZenonT(30), <1>1, <1>3, <2>2, <2>3
  <2> QED BY SMTT(30), <1>3, <2>3, <2>4
<1> QED BY ZenonT(30), <1>2, <1>3

\* What arrived before stays where it is, and the message comes after it.
LEMMA Grown ==
    ASSUME DataTypes, NEW e \in Ports, NEW d \in Ports, NEW m \in Message, NEW n \in Nat,
           Takes(e, d, m, n)
    PROVE  /\ Len(Arrived(d)) + 1 \in 1..Len(Arrived(d)') /\ Arrived(d)'[Len(Arrived(d)) + 1] = m
           /\ \A q \in Ports : \A x \in 1..Len(Arrived(q)) :
                /\ x \in 1..Len(Arrived(q)') /\ Arrived(q)'[x] = Arrived(q)[x]
                /\ Arrived(q)[x] \in Message
           /\ \A q \in Ports : \A x \in 1..Len(Arrived(q)') :
                x \in 1..Len(Arrived(q)) \/ (q = d /\ x = Len(Arrived(d)) + 1)
<1>1. PICK s \in Seq(Message) : s = Arrived(d)
  BY ZenonT(30), Listed
<1>2. /\ Len(s) \in Nat /\ Len(s) + 1 \in 1..Len(Append(s, m)) /\ Append(s, m)[Len(s) + 1] = m
      /\ \A x \in 1..Len(s) : /\ x \in 1..Len(Append(s, m)) /\ Append(s, m)[x] = s[x]
                              /\ s[x] \in Message
      /\ \A x \in 1..Len(Append(s, m)) : x \in 1..Len(s) \/ x = Len(s) + 1
  OBVIOUS
<1>3. Arrived(d)' = Append(s, m) /\ \A q \in Ports : q # d => Arrived(q)' = Arrived(q)
  BY ZenonT(30), <1>1 DEF Takes
<1>4. \A q \in Ports : \A x \in 1..Len(Arrived(q)) : Arrived(q)[x] \in Message
  BY SMTT(30), Listed
<1> QED BY ZenonT(30), <1>1, <1>2, <1>3, <1>4

\* Of no port fewer messages are gone than before.
LEMMA MoreGone ==
    ASSUME FIFOPerPair, NEW e \in Ports, NEW d \in Ports, NEW m \in Message, NEW n \in Nat,
           Takes(e, d, m, n)
    PROVE  \A q \in Ports : /\ Gone(q) \in Nat /\ Gone(q)' \in Nat /\ Gone(q) <= Gone(q)'
                            /\ \A x \in 1..Gone(q)' : x \in 1..Gone(q) \/ (q = e /\ x = n + 1)
  BY SMTT(30) DEF FIFOPerPair, RestInOrder, Takes

\* What arrived was sent.
LEMMA NothingElseTakes ==
    ASSUME FIFOPerPair, DataTypes, NEW e \in Ports, NEW d \in Ports, NEW m \in Message,
           NEW n \in Nat, Takes(e, d, m, n)
    PROVE  NothingElse'
<1> SUFFICES ASSUME NEW q \in Ports, NEW x \in 1..Len(Arrived(q)'), NEW y, y = Arrived(q)'[x]
             PROVE  y.dst = q /\ y.num <= Gone(y.src)' /\ y = ToSend(y.src)[y.num]
  BY SMTT(30) DEF NothingElse, Takes
<1>1. CASE x \in 1..Len(Arrived(q))
  <2>1. y = Arrived(q)[x] /\ y \in Message
    BY ZenonT(30), <1>1, Grown
  <2>2. y.dst = q /\ y.num <= Gone(y.src) /\ y = ToSend(y.src)[y.num]
    BY SMTT(30), <1>1, <2>1 DEF FIFOPerPair, NothingElse
  <2>3. y.src \in Ports /\ y.num \in Nat
    BY ZenonT(30), <2>1 DEF Message
  <2>4. Gone(y.src) \in Nat /\ Gone(y.src)' \in Nat /\ Gone(y.src) <= Gone(y.src)'
    BY ZenonT(30), <2>3, MoreGone
  <2> QED BY SMTT(30), <2>2, <2>3, <2>4
<1>2. CASE q = d /\ x = Len(Arrived(d)) + 1
  <2>1. y = m
    BY ZenonT(30), <1>2, Grown
  <2>2. m.dst = d /\ m.num = n + 1 /\ m.src = e /\ Gone(e)' = n + 1 /\ m = ToSend(e)[n + 1]
    BY ZenonT(30) DEF Takes
  <2> QED BY SMTT(30), <1>2, <2>1, <2>2
<1> QED BY ZenonT(30), <1>1, <1>2, Grown

\* What is gone arrived.
LEMMA NoneLostTakes ==
    ASSUME FIFOPerPair, DataTypes, NEW e \in Ports, NEW d \in Ports, NEW m \in Message,
           NEW n \in Nat, Takes(e, d, m, n)
    PROVE  NoneLost'
<1> SUFFICES ASSUME NEW q \in Ports, NEW x \in 1..Gone(q)'
             PROVE  \E j \in 1..Len(Arrived(traffic[q][x])') :
                        Arrived(traffic[q][x])'[j] = ToSend(q)[x]
  BY ZenonT(30) DEF NoneLost, Takes
<1>0. traffic' = traffic
  BY ZenonT(30) DEF Takes
<1>1. CASE x \in 1..Gone(q)
  <2>1. x \in 1..Len(traffic[q])
    BY SMTT(30), <1>1, Listed DEF Gone
  <2>2. PICK c \in Ports : c = traffic[q][x]
    BY ZenonT(30), <2>1, Listed
  <2>3. PICK j \in 1..Len(Arrived(c)) : Arrived(c)[j] = ToSend(q)[x]
    BY ZenonT(30), <1>1, <2>2 DEF FIFOPerPair, NoneLost
  <2>4. j \in 1..Len(Arrived(c)') /\ Arrived(c)'[j] = Arrived(c)[j]
    BY ZenonT(30), Grown
  <2> QED BY ZenonT(30), <1>0, <2>2, <2>3, <2>4
<1>2. CASE q = e /\ x = n + 1
  <2>1. m = ToSend(e)[n + 1] /\ d = traffic[e][n + 1]
    BY ZenonT(30) DEF Takes
  <2>2. Len(Arrived(d)) + 1 \in 1..Len(Arrived(d)') /\ Arrived(d)'[Len(Arrived(d)) + 1] = m
    BY ZenonT(30), Grown
  <2> QED BY ZenonT(30), <1>0, <1>2, <2>1, <2>2
<1> QED BY ZenonT(30), <1>1, <1>2, MoreGone

\* The message has a larger number than any that arrived from its sender.
LEMMA NoneOvertakenTakes ==
    ASSUME FIFOPerPair, DataTypes, NEW e \in Ports, NEW d \in Ports, NEW m \in Message,
           NEW n \in Nat, Takes(e, d, m, n)
    PROVE  NoneOvertaken'
<1> SUFFICES ASSUME NEW q \in Ports, NEW x \in 1..Len(Arrived(q)'), NEW y \in 1..Len(Arrived(q)'),
                    x < y, Arrived(q)'[x].src = Arrived(q)'[y].src
             PROVE  Arrived(q)'[x].num < Arrived(q)'[y].num
  BY ZenonT(30) DEF NoneOvertaken
<1>1. Len(Arrived(q)) \in Nat
  BY SMTT(30), Listed
<1>2. CASE y \in 1..Len(Arrived(q))
  <2>1. x \in 1..Len(Arrived(q))
    BY SMTT(30), <1>1, <1>2
  <2>2. Arrived(q)'[x] = Arrived(q)[x] /\ Arrived(q)'[y] = Arrived(q)[y]
    BY ZenonT(30), <1>2, <2>1, Grown
  <2> QED BY ZenonT(30), <1>2, <2>1, <2>2 DEF FIFOPerPair, NoneOvertaken
<1>3. CASE q = d /\ y = Len(Arrived(d)) + 1
  <2>1. x \in 1..Len(Arrived(d))
    BY SMTT(30), <1>1, <1>3
  <2>2. Arrived(d)'[x] = Arrived(d)[x] /\ Arrived(d)[x] \in Message /\ Arrived(d)'[y] = m
    BY ZenonT(30), <1>3, <2>1, Grown
  <2>3. m.src = e /\ m.num = n + 1 /\ n = Gone(e)
    BY ZenonT(30) DEF Takes
  <2>4. Arrived(d)[x].num <= Gone(Arrived(d)[x].src)
    BY ZenonT(30), <2>1 DEF FIFOPerPair, NothingElse
  <2>5. Arrived(d)[x].num \in Nat /\ Arrived(d)[x].num <= n
    BY ZenonT(30), <1>3, <2>2, <2>3, <2>4 DEF Message
  <2> QED BY SMTT(30), <1>3, <2>2, <2>3, <2>5
<1> QED BY ZenonT(30), <1>2, <1>3, Grown

\* A delivery keeps the messages in order.
LEMMA DeliverFIFO ==
    ASSUME FIFOPerPair, IInv, DataTypes, Deliver, UNCHANGED sysVars
    PROVE  FIFOPerPair'
<1>1. PICK e \in Ports, d \in Ports, m \in Message, n \in Nat : Takes(e, d, m, n)
  BY ZenonT(30), DeliverTakes
<1>2. RestInOrder' /\ NothingElse' /\ NoneLost' /\ NoneOvertaken'
  BY ZenonT(30), <1>1, RestTakes, NothingElseTakes, NoneLostTakes, NoneOvertakenTakes
<1> QED BY ZenonT(30), <1>2 DEF FIFOPerPair

\* No step loses, duplicates or reorders a message.
LEMMA StepFIFO ==
    ASSUME FIFOPerPair, IInv, [Next]_vars
    PROVE  FIFOPerPair'
<1>1. DataTypes
  BY ZenonT(30), HaveTypes
<1>2. ASSUME UNCHANGED <<MsgsToSend, endBuf, portBuf, received, traffic>> PROVE FIFOPerPair'
  <2>1. \A q \in Ports : OnTheWay(q)' = OnTheWay(q) /\ Arrived(q)' = Arrived(q)
    BY ZenonT(30), <1>2 DEF OnTheWay, Arrived
  <2> QED BY ZenonT(30), <1>1, <1>2, <2>1, NothingMoved
<1>3. CASE UNCHANGED vars
  BY ZenonT(30), <1>2, <1>3 DEF vars, dataVars, sysVars
<1>4. ASSUME UNCHANGED sysVars, Connection PROVE FIFOPerPair'
  <2>1. ASSUME StartConn \/ NextEnd \/ ConnEnd
        PROVE  UNCHANGED <<MsgsToSend, endBuf, portBuf, received, traffic>>
    BY ZenonT(30), <1>4, <2>1 DEF StartConn, NextEnd, ConnEnd, Finish, dataVars, sysVars
  <2> QED BY ZenonT(30), <1>1, <1>2, <1>4, <2>1, DeliverFIFO DEF Connection
<1>5. ASSUME UNCHANGED sysVars, NEW p \in Ports, Agent(p) PROVE FIFOPerPair'
  <2>1. ASSUME StartAgent(p) \/ SendEnd(p) \/ RecvEnd(p)
        PROVE  UNCHANGED <<MsgsToSend, endBuf, portBuf, received, traffic>>
    BY ZenonT(30), <1>5, <2>1 DEF StartAgent, SendEnd, RecvEnd, Finish, dataVars, sysVars
  <2> QED BY ZenonT(30), <1>1, <1>2, <1>5, <2>1, SendFIFO, RetrieveFIFO DEF Agent
<1> QED BY ZenonT(30), <1>3, <1>4, <1>5 DEF Next

\* Before the first tick all messages are on the way and none has arrived.
LEMMA InitFIFO == Init => FIFOPerPair
<1> SUFFICES ASSUME Init PROVE FIFOPerPair
  OBVIOUS
<1>1. DataTypes
  BY InitInv, HaveTypes
<1>2. ASSUME NEW p \in Ports
      PROVE  Arrived(p) = <<>> /\ OnTheWay(p) = ToSend(p) /\ Len(ToSend(p)) = Len(traffic[p])
  <2>1. received[p] = <<>> /\ portBuf[p] = <<>> /\ endBuf[p] = <<>> /\ MsgsToSend[p] = ToSend(p)
    BY DEF Init
  <2>2. ToSend(p) \in Seq(Message)
    BY SMTT(30), <1>1, <2>1 DEF DataTypes
  <2>3. Len(traffic[p]) \in Nat
    BY <1>1, Listed
  <2>4. Len(ToSend(p)) = Len(traffic[p])
    BY <2>3 DEF ToSend
  <2> QED BY <2>1, <2>2, <2>4 DEF Arrived, OnTheWay
<1>3. \A p \in Ports : Gone(p) = 0
  BY <1>1, <1>2, Listed DEF Gone
<1>4. RestInOrder
  BY <1>1, <1>2, <1>3, Listed DEF RestInOrder
<1>5. NothingElse
  BY <1>2 DEF NothingElse
<1>6. NoneLost
  BY <1>3 DEF NoneLost
<1>7. NoneOvertaken
  BY <1>2 DEF NoneOvertaken
<1> QED BY <1>4, <1>5, <1>6, <1>7 DEF FIFOPerPair

\* No message is lost, duplicated or overtaken by a later one of the same sender to the
\* same receiver, for every number of agents, traffic, clocks and buffer sizes.
THEOREM MessagesKeepOrder == Spec => []FIFOPerPair
<1>1. IInv /\ FIFOPerPair /\ [Next]_vars => FIFOPerPair'
  BY StepFIFO
<1> QED BY InitFIFO, Invariance, <1>1, PTL DEF Spec
=============================================================================
