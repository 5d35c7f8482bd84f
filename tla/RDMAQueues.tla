----------------------------- MODULE RDMAQueues ------------------------------
(***************************************************************************)
(* Where an access is between two chiplets, what the queues of the ports   *)
(* and the lists of transactions then hold, what one move does to them,    *)
(* and that the steps by which an engine moves an access keep every access *)
(* at one station.                                                         *)
(***************************************************************************)
EXTENDS RDMAEngine, TLAPS

Inside == {"ToL1", "PwPort"}
Data   == Ports \ {"CtrlPort"}

(* The stations of an access: 0 it is not made; in the received messages of *)
(* a port 1, 3, 6 or 8; sent and still in a connection 2, 4, 7 or 9; 5 at   *)
(* an L2 cache; 10 its answer is taken.                                     *)
Stations == 0..10
InK  == [p \in Data |-> IF p \in Inside THEN 1 ELSE IF p = "RequestPort" THEN 3
                        ELSE IF p = "ToL2" THEN 6 ELSE 8]
EndK == [p \in Data |-> IF p \in Inside THEN 9 ELSE IF p = "RequestPort" THEN 2
                        ELSE IF p = "ToL2" THEN 4 ELSE 7]
(* The chiplet an access is on when it is in a port.                        *)
InW  == [p \in Data |-> IF p \in {"RequestPort", "ToL2"} THEN Home ELSE Src]
EndW == [p \in Data |-> IF p \in {"ResponsePort", "ToL2"} THEN Home ELSE Src]

(* The queues of the ports hold, once each, the accesses whose station that *)
(* is.                                                                      *)
Box(K, W, pos, c, p) ==
    {a \in Accesses : pos[a] = K[p] /\ W[p][a] = c /\ (p \in Inside => Via[a] = p)}
Filed(f, K, W, cap, pos) ==
    \A c \in Chiplets, p \in Data :
        /\ f[c][p] \in Seq(Accesses) /\ IsInjective(f[c][p]) /\ Len(f[c][p]) <= cap
        /\ Range(f[c][p]) = Box(K, W, pos, c, p)

(* So do the lists of transactions, for a stretch of stations.              *)
Lists(l, W, lo, hi, pos) ==
    /\ l \in [Chiplets -> Seq(Accesses)]
    /\ \A c \in Chiplets :
          IsInjective(l[c]) /\ Range(l[c]) = {a \in Accesses : pos[a] \in lo..hi /\ W[a] = c}

ServedAt(pos, c) == {a \in Accesses : pos[a] = 5 /\ Home[a] = c}
AtL2s(pos) == atL2 = [c \in Chiplets |-> ServedAt(pos, c)]
Made(pos)  == made = {a \in Accesses : pos[a] # 0}
Got(pos)   == /\ got \in Seq(Chiplets \X Accesses) /\ IsInjective(got)
              /\ Range(got) = {<<Src[a], a>> : a \in {b \in Accesses : pos[b] = 10}}

Located(pos) ==
    /\ Filed(in, InK, InW, PortCap, pos) /\ Filed(end, EndK, EndW, EndCap, pos)
    /\ Lists(fromInside, Src, 2, 8, pos) /\ Lists(fromOutside, Home, 4, 6, pos)
    /\ AtL2s(pos) /\ Made(pos) /\ Got(pos)

(* Every access is at one station.                                          *)
Travel == \E pos \in [Accesses -> Stations] : Located(pos)

(* The tables of the queues are functions of a chiplet and a port.          *)
Shape(f) == DOMAIN f = Chiplets /\ \A c \in Chiplets : DOMAIN f[c] = Ports

(* The phases of an engine in a drain and a restart.                        *)
Phase(c, i, e, d, s) == /\ in[c]["CtrlPort"] = i /\ end[c]["CtrlPort"] = e
                        /\ isDraining[c] = d /\ paused[c] = s
Idle(c)      == Phase(c, <<>>, <<>>, FALSE, FALSE)
Asked(c)     == Phase(c, <<"drain">>, <<>>, FALSE, FALSE)
Draining(c)  == Phase(c, <<>>, <<>>, TRUE, TRUE)
Told(c)      == Phase(c, <<>>, <<"drained">>, FALSE, TRUE)
Quiet(c)     == Phase(c, <<>>, <<>>, FALSE, TRUE)
Woken(c)     == Phase(c, <<"restart">>, <<>>, FALSE, TRUE)
Restarted(c) == Phase(c, <<>>, <<"restarted">>, FALSE, FALSE)

(* The driver counts the engines that are past the phase it waits for.      *)
Control ==
    \/ driver = "running" /\ \A c \in Chiplets : Idle(c)
    \/ /\ driver = "draining" /\ acks = Cardinality({c \in Chiplets : Quiet(c)})
       /\ \A c \in Chiplets : Asked(c) \/ Draining(c) \/ Told(c) \/ Quiet(c)
    \/ driver = "migrating" /\ \A c \in Chiplets : Quiet(c)
    \/ /\ driver = "restarting" /\ acks = Cardinality({c \in Chiplets : Idle(c)})
       /\ \A c \in Chiplets : Woken(c) \/ Restarted(c) \/ Idle(c)

(* An engine that has answered a drain has no transaction from inside.  One *)
(* from outside it may get again.                                           *)
EmptyWhenTold ==
    driver \in {"draining", "migrating"} =>
        \A c \in Chiplets : paused[c] /\ ~isDraining[c] => fromInside[c] = <<>>

EngineTypes == /\ Shape(in) /\ Shape(end)
               /\ isDraining \in [Chiplets -> BOOLEAN] /\ paused \in [Chiplets -> BOOLEAN]

RDMAInv == EngineTypes /\ Travel /\ Control /\ EmptyWhenTold

-----------------------------------------------------------------------------
(* Sequences without repetition.                                            *)

(* Taking the first element off a list without repetition takes it out of   *)
(* the set.                                                                 *)
LEMMA HeadTaken ==
    ASSUME NEW S, NEW s \in Seq(S), IsInjective(s), s # <<>>
    PROVE  /\ Head(s) \in Range(s) /\ Head(s) \in S
           /\ Tail(s) \in Seq(S) /\ IsInjective(Tail(s)) /\ Len(Tail(s)) = Len(s) - 1
           /\ Range(Tail(s)) = Range(s) \ {Head(s)}
<1>1. /\ Len(s) \in Nat \ {0} /\ Head(s) = s[1] /\ DOMAIN s = 1..Len(s)
      /\ Tail(s) \in Seq(S) /\ Len(Tail(s)) = Len(s) - 1 /\ DOMAIN Tail(s) = 1..(Len(s) - 1)
      /\ \A i \in 1..(Len(s) - 1) : Tail(s)[i] = s[i + 1]
      /\ s[1] \in S
  OBVIOUS
<1>2. \A i, j \in 1..Len(s) : s[i] = s[j] => i = j
  BY ZenonT(30), <1>1 DEF IsInjective
<1>3. IsInjective(Tail(s))
  BY SMTT(30), <1>1, <1>2 DEF IsInjective
<1>4. Range(Tail(s)) \subseteq Range(s) \ {Head(s)}
  <2>1. ASSUME NEW i \in 1..(Len(s) - 1)
        PROVE  s[i + 1] \in Range(s) /\ s[i + 1] # s[1]
    BY SMTT(30), <1>1, <1>2 DEF Range
  <2> QED BY SMTT(30), <1>1, <2>1 DEF Range
<1>5. Range(s) \ {Head(s)} \subseteq Range(Tail(s))
  <2>1. ASSUME NEW i \in 1..Len(s), s[i] # s[1]
        PROVE  s[i] \in Range(Tail(s))
    <3>1. i - 1 \in 1..(Len(s) - 1) /\ Tail(s)[i - 1] = s[i]
      BY SMTT(30), <1>1, <2>1
    <3> QED BY ZenonT(30), <1>1, <3>1 DEF Range
  <2>2. ASSUME NEW y \in Range(s) \ {Head(s)} PROVE y \in Range(Tail(s))
    <3>1. PICK i \in 1..Len(s) : y = s[i]
      BY ZenonT(30), <1>1 DEF Range
    <3> QED BY ZenonT(30), <1>1, <2>1, <3>1
  <2> QED BY ZenonT(30), <2>2
<1>6. Head(s) \in Range(s)
  BY SMTT(30), <1>1 DEF Range
<1> QED BY ZenonT(30), <1>1, <1>3, <1>4, <1>5, <1>6

(* A new element at the back joins the set of the elements.                 *)
LEMMA OneAdded ==
    ASSUME NEW S, NEW s \in Seq(S), IsInjective(s), NEW x \in S, x \notin Range(s)
    PROVE  /\ Append(s, x) \in Seq(S) /\ IsInjective(Append(s, x))
           /\ Len(Append(s, x)) = Len(s) + 1
           /\ Range(Append(s, x)) = Range(s) \cup {x}
<1>1. /\ Len(s) \in Nat /\ DOMAIN s = 1..Len(s)
      /\ Append(s, x) \in Seq(S) /\ Len(Append(s, x)) = Len(s) + 1
      /\ DOMAIN Append(s, x) = 1..(Len(s) + 1)
      /\ \A i \in 1..Len(s) : Append(s, x)[i] = s[i]
      /\ Append(s, x)[Len(s) + 1] = x
  OBVIOUS
<1>2. \A i \in 1..Len(s) : s[i] # x
  BY ZenonT(30), <1>1 DEF Range
<1>3. IsInjective(Append(s, x))
  BY SMTT(30), <1>1, <1>2 DEF IsInjective
<1>4. Range(Append(s, x)) = Range(s) \cup {x}
  BY SMTT(30), <1>1 DEF Range
<1> QED BY ZenonT(30), <1>1, <1>3, <1>4

(* A list without its element at i.                                         *)
LEMMA Pieces ==
    ASSUME NEW S, NEW s \in Seq(S), NEW n \in Nat, n = Len(s), NEW i \in 1..n
    PROVE  /\ SubSeq(s, 1, i - 1) \in Seq(S) /\ Len(SubSeq(s, 1, i - 1)) = i - 1
           /\ \A j \in 1..(i - 1) : SubSeq(s, 1, i - 1)[j] = s[j]
           /\ SubSeq(s, i + 1, n) \in Seq(S) /\ Len(SubSeq(s, i + 1, n)) = n - i
           /\ \A j \in 1..(n - i) : SubSeq(s, i + 1, n)[j] = s[j + i]
<1>1. SubSeq(s, 1, i - 1) \in Seq(S)
  OBVIOUS
<1>2. Len(SubSeq(s, 1, i - 1)) = i - 1
  OBVIOUS
<1>3. \A j \in 1..(i - 1) : SubSeq(s, 1, i - 1)[j] = s[j]
  OBVIOUS
<1>4. SubSeq(s, i + 1, n) \in Seq(S)
  OBVIOUS
<1>5. Len(SubSeq(s, i + 1, n)) = n - i
  <2>1. CASE i = n
    BY SMTT(30), <2>1
  <2>2. CASE i < n
    BY SMTT(30), <2>2
  <2> QED BY SMTT(30), <2>1, <2>2
<1>6. ASSUME NEW j \in 1..(n - i) PROVE SubSeq(s, i + 1, n)[j] = s[j + i]
  OBVIOUS
<1> QED BY ZenonT(30), <1>1, <1>2, <1>3, <1>4, <1>5, <1>6

(* What is left when position i is cut out, as Without does it.             *)
LEMMA Spliced ==
    ASSUME NEW S, NEW s \in Seq(S), NEW n \in Nat, n = Len(s), NEW i \in 1..n
    PROVE  LET t == SubSeq(s, 1, i - 1) \o SubSeq(s, i + 1, n)
           IN  /\ t \in Seq(S) /\ Len(t) = n - 1
               /\ \A j \in 1..(n - 1) : t[j] = IF j < i THEN s[j] ELSE s[j + 1]
<1>0. PICK u, w : u = SubSeq(s, 1, i - 1) /\ w = SubSeq(s, i + 1, n)
  BY Zenon
<1>1. /\ u \in Seq(S) /\ Len(u) = i - 1 /\ \A j \in 1..(i - 1) : u[j] = s[j]
      /\ w \in Seq(S) /\ Len(w) = n - i /\ \A j \in 1..(n - i) : w[j] = s[j + i]
  <2>1. /\ SubSeq(s, 1, i - 1) \in Seq(S) /\ Len(SubSeq(s, 1, i - 1)) = i - 1
        /\ \A j \in 1..(i - 1) : SubSeq(s, 1, i - 1)[j] = s[j]
        /\ SubSeq(s, i + 1, n) \in Seq(S) /\ Len(SubSeq(s, i + 1, n)) = n - i
        /\ \A j \in 1..(n - i) : SubSeq(s, i + 1, n)[j] = s[j + i]
    BY ZenonT(30), Pieces
  <2> QED BY Zenon, <1>0, <2>1
<1>2. /\ u \o w \in Seq(S) /\ Len(u \o w) = n - 1
      /\ \A j \in 1..(n - 1) : (u \o w)[j] = IF j < i THEN u[j] ELSE w[j - (i - 1)]
  <2>1. u \in Seq(S) /\ Len(u) = i - 1 /\ w \in Seq(S) /\ Len(w) = n - i
    BY Zenon, <1>1
  <2>2. u \o w \in Seq(S)
    BY SMTT(30), <2>1
  <2>3. Len(u \o w) = n - 1
    <3>1. Len(u \o w) = Len(u) + Len(w)
      BY SMTT(30), <2>1
    <3>2. (i - 1) + (n - i) = n - 1
      OBVIOUS
    <3> QED BY Zenon, <2>1, <3>1, <3>2
  <2>4. ASSUME NEW j \in 1..(n - 1)
        PROVE  (u \o w)[j] = IF j < i THEN u[j] ELSE w[j - (i - 1)]
    <3>1. CASE j < i
      <4>1. j \in 1..Len(u)
        BY SMTT(30), <2>1, <3>1
      <4>2. (u \o w)[j] = u[j]
        BY SMTT(30), <2>1, <4>1
      <4> QED BY ZenonT(30), <3>1, <4>2
    <3>2. CASE ~(j < i)
      <4>1. PICK x \in 1..Len(w) : x = j - (i - 1) /\ j = Len(u) + x
        BY SMTT(30), <2>1, <3>2
      <4>2. (u \o w)[Len(u) + x] = w[x]
        BY SMTT(30), <2>1
      <4> QED BY ZenonT(30), <3>2, <4>1, <4>2
    <3> QED BY ZenonT(30), <3>1, <3>2
  <2> QED BY Zenon, <2>2, <2>3, <2>4
<1>3. ASSUME NEW j \in 1..(n - 1) PROVE (u \o w)[j] = IF j < i THEN s[j] ELSE s[j + 1]
  <2>1. CASE j < i
    <3>1. j \in 1..(i - 1)
      BY SMTT(30), <2>1
    <3> QED BY ZenonT(30), <1>1, <1>2, <2>1, <3>1
  <2>2. CASE ~(j < i)
    <3>1. j - (i - 1) \in 1..(n - i) /\ j - (i - 1) + i = j + 1
      BY SMTT(30), <2>2
    <3>2. w[j - (i - 1)] = s[j + 1]
      BY ZenonT(30), <1>1, <3>1
    <3> QED BY ZenonT(30), <1>2, <2>2, <3>2
  <2> QED BY ZenonT(30), <2>1, <2>2
<1> QED BY Zenon, <1>0, <1>2, <1>3

(* The loop of findTransactionByRspToID finds the transaction, and the list *)
(* is left without it and without any other change.                         *)
LEMMA OneRemoved ==
    ASSUME NEW S, NEW s \in Seq(S), IsInjective(s), NEW x \in Range(s)
    PROVE  /\ Without(s, x) \in Seq(S) /\ IsInjective(Without(s, x))
           /\ Range(Without(s, x)) = Range(s) \ {x}
<1>1. Len(s) \in Nat /\ DOMAIN s = 1..Len(s) /\ \A i \in 1..Len(s) : s[i] \in S
  OBVIOUS
<1>2. \A i, j \in 1..Len(s) : s[i] = s[j] => i = j
  BY ZenonT(30), <1>1 DEF IsInjective
<1>3. PICK i \in 1..Len(s) : s[i] = x
  BY ZenonT(30), <1>1 DEF Range
<1>4. findTransactionByRspToID(x, s) = i
  <2>1. \A j \in 1..(i - 1) : s[j] # x
    BY SMTT(30), <1>1, <1>2, <1>3
  <2>2. ASSUME NEW j \in 1..Len(s), s[j] = x PROVE j = i
    BY ZenonT(30), <1>2, <1>3, <2>2
  <2> QED BY ZenonT(30), <1>1, <1>3, <2>1, <2>2 DEF findTransactionByRspToID
<1>5. PICK t : t = SubSeq(s, 1, i - 1) \o SubSeq(s, i + 1, Len(s))
  BY ZenonT(30)
<1>6. Without(s, x) = t
  BY ZenonT(30), <1>4, <1>5 DEF Without
<1>7. /\ t \in Seq(S) /\ Len(t) = Len(s) - 1 /\ DOMAIN t = 1..(Len(s) - 1)
      /\ \A j \in 1..(Len(s) - 1) : t[j] = IF j < i THEN s[j] ELSE s[j + 1]
  <2>1. /\ t \in Seq(S) /\ Len(t) = Len(s) - 1
        /\ \A j \in 1..(Len(s) - 1) : t[j] = IF j < i THEN s[j] ELSE s[j + 1]
    BY ZenonT(30), <1>1, <1>5, Spliced
  <2> QED BY SMTT(30), <2>1
<1>8. IsInjective(t)
  <2>1. ASSUME NEW j \in 1..(Len(s) - 1), NEW k \in 1..(Len(s) - 1), t[j] = t[k] PROVE j = k
    <3>1. /\ j \in 1..Len(s) /\ j + 1 \in 1..Len(s) /\ k \in 1..Len(s) /\ k + 1 \in 1..Len(s)
      BY SMTT(30), <1>1
    <3>2. CASE j < i /\ k < i
      BY ZenonT(30), <1>2, <1>7, <2>1, <3>1, <3>2
    <3>3. CASE j < i /\ ~(k < i)
      <4>1. j # k + 1 /\ s[j] = s[k + 1]
        BY SMTT(30), <1>7, <2>1, <3>3
      <4> QED BY ZenonT(30), <1>2, <3>1, <4>1
    <3>4. CASE ~(j < i) /\ k < i
      <4>1. k # j + 1 /\ s[k] = s[j + 1]
        BY SMTT(30), <1>7, <2>1, <3>4
      <4> QED BY ZenonT(30), <1>2, <3>1, <4>1
    <3>5. CASE ~(j < i) /\ ~(k < i)
      <4>1. s[j + 1] = s[k + 1]
        BY ZenonT(30), <1>7, <2>1, <3>5
      <4>2. j + 1 = k + 1
        BY ZenonT(30), <1>2, <3>1, <4>1
      <4> QED BY SMTT(30), <4>2
    <3> QED BY ZenonT(30), <3>2, <3>3, <3>4, <3>5
  <2> QED BY ZenonT(30), <1>7, <2>1 DEF IsInjective
<1>9. ASSUME NEW j \in 1..(Len(s) - 1) PROVE t[j] \in Range(s) \ {x}
  <2>1. PICK k \in 1..Len(s) : t[j] = s[k] /\ k # i
    BY SMTT(30), <1>1, <1>7
  <2>2. s[k] \in Range(s)
    BY ZenonT(30), <1>1 DEF Range
  <2> QED BY ZenonT(30), <1>2, <1>3, <2>1, <2>2
<1>10. ASSUME NEW j \in 1..Len(s), s[j] # x PROVE s[j] \in Range(t)
  <2>1. CASE j < i
    BY SMTT(30), <1>1, <1>7, <2>1 DEF Range
  <2>2. CASE j > i
    <3>1. j - 1 \in 1..(Len(s) - 1) /\ t[j - 1] = s[j]
      BY SMTT(30), <1>1, <1>7, <2>2
    <3> QED BY ZenonT(30), <1>7, <3>1 DEF Range
  <2> QED BY SMTT(30), <1>1, <1>3, <1>10, <2>1, <2>2
<1>11. Range(t) = Range(s) \ {x}
  BY ZenonT(30), <1>1, <1>7, <1>9, <1>10 DEF Range
<1> QED BY ZenonT(30), <1>6, <1>7, <1>8, <1>11

-----------------------------------------------------------------------------
(* One access goes on to its next station, in general.                      *)

Step(pos, new, a, k) ==
    pos[a] = k /\ new[a] = k + 1 /\ \A b \in Accesses \ {a} : new[b] = pos[b]

(* An access can go on to its next station, with all others where they are. *)
LEMMA NextStation ==
    ASSUME NEW pos \in [Accesses -> Stations], NEW a \in Accesses, NEW k \in 0..9, pos[a] = k
    PROVE  \E new \in [Accesses -> Stations] : Step(pos, new, a, k)
<1>1. [pos EXCEPT ![a] = k + 1] \in [Accesses -> Stations]
  BY SMTT(30) DEF Stations
<1>2. Step(pos, [pos EXCEPT ![a] = k + 1], a, k)
  BY ZenonT(30) DEF Step
<1> QED BY ZenonT(30), <1>1, <1>2

(* Only the two ports to the inside of a chiplet share a station.           *)
OneStation(K) == \A p, q \in Data : K[p] = K[q] /\ p # q => p \in Inside /\ q \in Inside

(* The tables of stations and chiplets, port by port.                       *)
LEMMA Tables ==
    /\ OneStation(InK) /\ OneStation(EndK)
    /\ InK["ToL1"] = 1 /\ InK["PwPort"] = 1 /\ InK["RequestPort"] = 3 /\ InK["ToL2"] = 6
    /\ InK["ResponsePort"] = 8 /\ EndK["RequestPort"] = 2 /\ EndK["ToL2"] = 4
    /\ EndK["ResponsePort"] = 7 /\ EndK["ToL1"] = 9 /\ EndK["PwPort"] = 9
    /\ \A p \in Data : InK[p] \in {1, 3, 6, 8} /\ EndK[p] \in {2, 4, 7, 9}
    /\ InW["ToL1"] = Src /\ InW["PwPort"] = Src /\ InW["ResponsePort"] = Src
    /\ InW["RequestPort"] = Home /\ InW["ToL2"] = Home
    /\ EndW["ToL1"] = Src /\ EndW["PwPort"] = Src /\ EndW["RequestPort"] = Src
    /\ EndW["ResponsePort"] = Home /\ EndW["ToL2"] = Home
    /\ Inside \subseteq Data /\ {"RequestPort", "ToL2", "ResponsePort"} \subseteq Data
    /\ Data \subseteq Ports /\ "CtrlPort" \in Ports /\ "CtrlPort" \notin Data
<1>1. Data = {"ToL1", "PwPort", "ToL2", "RequestPort", "ResponsePort"}
  BY ZenonT(30) DEF Data, Ports
<1>2. OneStation(InK) /\ OneStation(EndK)
  BY SMTT(30), <1>1 DEF OneStation, InK, EndK, Inside
<1>3. /\ InK["ToL1"] = 1 /\ InK["PwPort"] = 1 /\ InK["RequestPort"] = 3 /\ InK["ToL2"] = 6
      /\ InK["ResponsePort"] = 8
  BY ZenonT(30), <1>1 DEF InK, Inside
<1>4. /\ EndK["RequestPort"] = 2 /\ EndK["ToL2"] = 4
      /\ EndK["ResponsePort"] = 7 /\ EndK["ToL1"] = 9 /\ EndK["PwPort"] = 9
  BY ZenonT(30), <1>1 DEF EndK, Inside
<1>5. /\ InW["ToL1"] = Src /\ InW["PwPort"] = Src /\ InW["ResponsePort"] = Src
      /\ InW["RequestPort"] = Home /\ InW["ToL2"] = Home
  BY ZenonT(30), <1>1 DEF InW
<1>6. /\ EndW["ToL1"] = Src /\ EndW["PwPort"] = Src /\ EndW["RequestPort"] = Src
      /\ EndW["ResponsePort"] = Home /\ EndW["ToL2"] = Home
  BY ZenonT(30), <1>1 DEF EndW
<1>7. \A p \in Data : InK[p] \in {1, 3, 6, 8} /\ EndK[p] \in {2, 4, 7, 9}
  BY ZenonT(30), <1>1, <1>3, <1>4
<1> QED BY ZenonT(30), <1>1, <1>2, <1>3, <1>4, <1>5, <1>6, <1>7 DEF Inside, Ports

NoneAt(K, k) == \A q \in Data : K[q] # k
Others(f, g, c, p) == \A d \in Chiplets, q \in Data : d # c \/ q # p => g[d][q] = f[d][q]
Loses(f, g, c, p, a) ==
    f[c][p] # <<>> /\ a = Head(f[c][p]) /\ g[c][p] = Tail(f[c][p]) /\ Others(f, g, c, p)
Gains(f, g, c, p, a, cap) ==
    Len(f[c][p]) < cap /\ g[c][p] = Append(f[c][p], a) /\ Others(f, g, c, p)
Same(f, g) == \A d \in Chiplets, q \in Data : g[d][q] = f[d][q]

(* Received messages have one kind of station and sent ones another.        *)
LEMMA Numbers == \A p \in Data : InK[p] \in {1, 3, 6, 8} /\ EndK[p] \in {2, 4, 7, 9}
  BY ZenonT(30), Tables

(* The queue an access leaves.                                              *)
LEMMA QueueLoses ==
    ASSUME NEW f, NEW g, NEW K, NEW W, NEW cap \in Nat, NEW pos, NEW new, NEW a \in Accesses,
           NEW k \in Nat, Step(pos, new, a, k), OneStation(K), Filed(f, K, W, cap, pos),
           NEW c \in Chiplets, NEW p \in Data, K[p] = k, NoneAt(K, k + 1),
           Loses(f, g, c, p, a)
    PROVE  Filed(g, K, W, cap, new)
<1> USE DEF NoneAt, Loses, Others
<1>1. /\ f[c][p] \in Seq(Accesses) /\ IsInjective(f[c][p]) /\ Len(f[c][p]) <= cap
      /\ Range(f[c][p]) = Box(K, W, pos, c, p)
  BY ZenonT(30) DEF Filed
<1>2. /\ g[c][p] \in Seq(Accesses) /\ IsInjective(g[c][p]) /\ Len(g[c][p]) <= cap
      /\ Range(g[c][p]) = Box(K, W, pos, c, p) \ {a} /\ a \in Box(K, W, pos, c, p)
  <2>1. /\ a \in Range(f[c][p]) /\ g[c][p] \in Seq(Accesses) /\ IsInjective(g[c][p])
        /\ Range(g[c][p]) = Range(f[c][p]) \ {a} /\ Len(g[c][p]) = Len(f[c][p]) - 1
    BY SMTT(30), <1>1, HeadTaken
  <2>2. Len(f[c][p]) \in Nat
    BY SMTT(30), <1>1
  <2> QED BY SMTT(30), <1>1, <2>1, <2>2
<1>3. ASSUME NEW d \in Chiplets, NEW q \in Data
      PROVE  Box(K, W, new, d, q) = Box(K, W, pos, d, q) \ {a}
  BY SMTT(30) DEF Box, Step
<1>4. ASSUME NEW d \in Chiplets, NEW q \in Data, d # c \/ q # p
      PROVE  a \notin Box(K, W, pos, d, q)
  BY ZenonT(30), <1>2, <1>4 DEF Box, OneStation
<1>5. ASSUME NEW d \in Chiplets, NEW q \in Data
      PROVE  /\ g[d][q] \in Seq(Accesses) /\ IsInjective(g[d][q]) /\ Len(g[d][q]) <= cap
             /\ Range(g[d][q]) = Box(K, W, new, d, q)
  <2>1. CASE d = c /\ q = p
    BY ZenonT(30), <1>2, <1>3, <2>1
  <2>2. CASE d # c \/ q # p
    <3>1. g[d][q] = f[d][q]
      BY ZenonT(30), <2>2
    <3>2. Box(K, W, new, d, q) = Box(K, W, pos, d, q)
      <4>1. a \notin Box(K, W, pos, d, q)
        BY ZenonT(30), <1>4, <2>2
      <4>2. Box(K, W, new, d, q) = Box(K, W, pos, d, q) \ {a}
        BY ZenonT(30), <1>3
      <4> QED BY ZenonT(30), <4>1, <4>2
    <3> QED BY ZenonT(30), <3>1, <3>2 DEF Filed
  <2> QED BY ZenonT(30), <2>1, <2>2
<1> QED BY ZenonT(30), <1>5 DEF Filed

(* The queue it enters.                                                     *)
LEMMA QueueGains ==
    ASSUME NEW f, NEW g, NEW K, NEW W, NEW cap \in Nat, NEW pos, NEW new, NEW a \in Accesses,
           NEW k \in Nat, Step(pos, new, a, k), OneStation(K), Filed(f, K, W, cap, pos),
           NEW c \in Chiplets, NEW p \in Data, K[p] = k + 1, NoneAt(K, k),
           W[p][a] = c, p \in Inside => Via[a] = p, Gains(f, g, c, p, a, cap)
    PROVE  Filed(g, K, W, cap, new)
<1> USE DEF NoneAt, Gains, Others
<1>1. /\ f[c][p] \in Seq(Accesses) /\ IsInjective(f[c][p])
      /\ Range(f[c][p]) = Box(K, W, pos, c, p)
  BY ZenonT(30) DEF Filed
<1>2. a \notin Box(K, W, pos, c, p) /\ a \in Box(K, W, new, c, p)
  BY ZenonT(30) DEF Box, Step
<1>3. /\ g[c][p] \in Seq(Accesses) /\ IsInjective(g[c][p]) /\ Len(g[c][p]) <= cap
      /\ Range(g[c][p]) = Box(K, W, pos, c, p) \cup {a}
  <2>1. /\ g[c][p] \in Seq(Accesses) /\ IsInjective(g[c][p])
        /\ Range(g[c][p]) = Range(f[c][p]) \cup {a} /\ Len(g[c][p]) = Len(f[c][p]) + 1
    BY SMTT(30), <1>1, <1>2, OneAdded
  <2> QED BY SMTT(30), <1>1, <2>1
<1>4. ASSUME NEW d \in Chiplets, NEW q \in Data
      PROVE  Box(K, W, pos, d, q) = Box(K, W, new, d, q) \ {a}
  BY SMTT(30) DEF Box, Step
<1>5. ASSUME NEW d \in Chiplets, NEW q \in Data, d # c \/ q # p
      PROVE  a \notin Box(K, W, new, d, q)
  BY ZenonT(30), <1>2, <1>5 DEF Box, OneStation
<1>6. ASSUME NEW d \in Chiplets, NEW q \in Data
      PROVE  /\ g[d][q] \in Seq(Accesses) /\ IsInjective(g[d][q]) /\ Len(g[d][q]) <= cap
             /\ Range(g[d][q]) = Box(K, W, new, d, q)
  <2>1. CASE d = c /\ q = p
    <3>1. Box(K, W, pos, c, p) = Box(K, W, new, c, p) \ {a}
      BY ZenonT(30), <1>4
    <3>2. Box(K, W, pos, c, p) \cup {a} = Box(K, W, new, c, p)
      BY ZenonT(30), <1>2, <3>1
    <3> QED BY ZenonT(30), <1>3, <2>1, <3>2
  <2>2. CASE d # c \/ q # p
    <3>1. g[d][q] = f[d][q]
      BY ZenonT(30), <2>2
    <3>2. Box(K, W, new, d, q) = Box(K, W, pos, d, q)
      <4>1. a \notin Box(K, W, new, d, q)
        BY ZenonT(30), <1>5, <2>2
      <4>2. Box(K, W, pos, d, q) = Box(K, W, new, d, q) \ {a}
        BY ZenonT(30), <1>4
      <4> QED BY ZenonT(30), <4>1, <4>2
    <3> QED BY ZenonT(30), <3>1, <3>2 DEF Filed
  <2> QED BY ZenonT(30), <2>1, <2>2
<1> QED BY ZenonT(30), <1>6 DEF Filed

(* Queues of other stations.                                                *)
LEMMA QueueKeeps ==
    ASSUME NEW f, NEW g, NEW K, NEW W, NEW cap, NEW pos, NEW new, NEW a \in Accesses, NEW k,
           Step(pos, new, a, k), Filed(f, K, W, cap, pos),
           NoneAt(K, k), NoneAt(K, k + 1), Same(f, g)
    PROVE  Filed(g, K, W, cap, new)
<1> USE DEF NoneAt, Same
<1>1. ASSUME NEW d \in Chiplets, NEW q \in Data
      PROVE  Box(K, W, new, d, q) = Box(K, W, pos, d, q)
  BY ZenonT(30) DEF Box, Step
<1> QED BY ZenonT(30), <1>1 DEF Filed

(* The list of transactions an access enters, leaves, or neither.           *)
Stretch(W, lo, hi, pos, c) == {a \in Accesses : pos[a] \in lo..hi /\ W[a] = c}

Adds(l, m, c, a)  == m = [l EXCEPT ![c] = Append(l[c], a)]
Drops(l, m, c, a) == m = [l EXCEPT ![c] = Without(l[c], a)]

(* A list gains an access that comes to the first station of its stretch.   *)
LEMMA ListGains ==
    ASSUME NEW l, NEW m, NEW W, NEW hi \in Nat, NEW pos, NEW new, NEW a \in Accesses,
           NEW k \in Nat, Step(pos, new, a, k),
           NEW lo \in Nat, lo = k + 1, lo <= hi, Lists(l, W, lo, hi, pos),
           NEW c \in Chiplets, W[a] = c, Adds(l, m, c, a)
    PROVE  Lists(m, W, lo, hi, new)
<1>1. /\ l \in [Chiplets -> Seq(Accesses)]
      /\ \A d \in Chiplets : IsInjective(l[d]) /\ Range(l[d]) = Stretch(W, lo, hi, pos, d)
  BY ZenonT(30) DEF Lists, Stretch
<1>2. a \notin Stretch(W, lo, hi, pos, c)
  BY SMTT(30) DEF Stretch, Step
<1>3. \A d \in Chiplets : Stretch(W, lo, hi, new, d)
            = Stretch(W, lo, hi, pos, d) \cup (IF d = c THEN {a} ELSE {})
  BY SMTT(30) DEF Stretch, Step
<1>4. /\ Append(l[c], a) \in Seq(Accesses) /\ IsInjective(Append(l[c], a))
      /\ Range(Append(l[c], a)) = Range(l[c]) \cup {a}
  BY SMTT(30), <1>1, <1>2, OneAdded
<1>5. m \in [Chiplets -> Seq(Accesses)] /\ m[c] = Append(l[c], a)
      /\ \A d \in Chiplets : d # c => m[d] = l[d]
  BY ZenonT(30), <1>1, <1>4 DEF Adds
<1>6. ASSUME NEW d \in Chiplets
      PROVE  IsInjective(m[d]) /\ Range(m[d]) = Stretch(W, lo, hi, new, d)
  <2>1. CASE d = c
    <3>1. Stretch(W, lo, hi, new, c) = Stretch(W, lo, hi, pos, c) \cup {a}
      BY ZenonT(30), <1>3
    <3> QED BY ZenonT(30), <1>1, <1>4, <1>5, <2>1, <3>1
  <2>2. CASE d # c
    <3>1. Stretch(W, lo, hi, new, d) = Stretch(W, lo, hi, pos, d)
      BY SMTT(30), <1>3, <2>2
    <3> QED BY ZenonT(30), <1>1, <1>5, <2>2, <3>1
  <2> QED BY ZenonT(30), <2>1, <2>2
<1> QED BY ZenonT(30), <1>5, <1>6 DEF Lists, Stretch

(* A list loses an access that leaves the last station of its stretch.      *)
LEMMA ListLoses ==
    ASSUME NEW l, NEW m, NEW W, NEW lo \in Nat, NEW pos, NEW new, NEW a \in Accesses,
           NEW k \in Nat, Step(pos, new, a, k), Lists(l, W, lo, k, pos), lo <= k,
           NEW c \in Chiplets, W[a] = c, Drops(l, m, c, a)
    PROVE  Lists(m, W, lo, k, new)
<1>1. /\ l \in [Chiplets -> Seq(Accesses)]
      /\ \A d \in Chiplets : IsInjective(l[d]) /\ Range(l[d]) = Stretch(W, lo, k, pos, d)
  BY ZenonT(30) DEF Lists, Stretch
<1>2. a \in Stretch(W, lo, k, pos, c)
  BY SMTT(30) DEF Stretch, Step
<1>3. \A d \in Chiplets : Stretch(W, lo, k, new, d)
            = Stretch(W, lo, k, pos, d) \ (IF d = c THEN {a} ELSE {})
  BY SMTT(30) DEF Stretch, Step
<1>4. /\ Without(l[c], a) \in Seq(Accesses) /\ IsInjective(Without(l[c], a))
      /\ Range(Without(l[c], a)) = Range(l[c]) \ {a}
  BY ZenonT(30), <1>1, <1>2, OneRemoved
<1>5. m \in [Chiplets -> Seq(Accesses)] /\ m[c] = Without(l[c], a)
      /\ \A d \in Chiplets : d # c => m[d] = l[d]
  BY ZenonT(30), <1>1, <1>4 DEF Drops
<1>6. ASSUME NEW d \in Chiplets
      PROVE  IsInjective(m[d]) /\ Range(m[d]) = Stretch(W, lo, k, new, d)
  <2>1. CASE d = c
    <3>1. Stretch(W, lo, k, new, c) = Stretch(W, lo, k, pos, c) \ {a}
      BY ZenonT(30), <1>3
    <3> QED BY ZenonT(30), <1>1, <1>4, <1>5, <2>1, <3>1
  <2>2. CASE d # c
    <3>1. Stretch(W, lo, k, new, d) = Stretch(W, lo, k, pos, d)
      BY ZenonT(30), <1>3, <2>2
    <3> QED BY ZenonT(30), <1>1, <1>5, <2>2, <3>1
  <2> QED BY ZenonT(30), <2>1, <2>2
<1> QED BY ZenonT(30), <1>5, <1>6 DEF Lists, Stretch

(* A list keeps its content when the access stays in the stretch, or out of *)
(* it.                                                                      *)
LEMMA ListKeeps ==
    ASSUME NEW l, NEW W, NEW lo \in Nat, NEW hi \in Nat, NEW pos, NEW new, NEW a \in Accesses,
           NEW k \in Nat, Step(pos, new, a, k), Lists(l, W, lo, hi, pos),
           k \in lo..hi <=> k + 1 \in lo..hi
    PROVE  Lists(l, W, lo, hi, new)
<1>1. \A d \in Chiplets : {b \in Accesses : new[b] \in lo..hi /\ W[b] = d}
            = {b \in Accesses : pos[b] \in lo..hi /\ W[b] = d}
  BY ZenonT(30) DEF Step
<1> QED BY ZenonT(30), <1>1 DEF Lists

-----------------------------------------------------------------------------
(* One access goes on to its next station in the system.                    *)

(* What is known of the first message of a queue.                           *)
LEMMA FirstMessage ==
    ASSUME NEW f, NEW K, NEW W, NEW cap, NEW pos, Filed(f, K, W, cap, pos),
           NEW c \in Chiplets, NEW p \in Data, f[c][p] # <<>>, NEW a, a = Head(f[c][p])
    PROVE  a \in Accesses /\ pos[a] = K[p] /\ W[p][a] = c /\ (p \in Inside => Via[a] = p)
<1>1. a \in Box(K, W, pos, c, p)
  BY SMTT(30), HeadTaken DEF Filed
<1> QED BY ZenonT(30), <1>1 DEF Box

(* The L2 caches, the accesses made and the answers taken, where they do    *)
(* not change.                                                              *)
LEMMA OutsideKept ==
    ASSUME NEW pos, NEW new, NEW a \in Accesses, NEW k \in 0..9, Step(pos, new, a, k)
    PROVE  /\ k \notin {4, 5} /\ atL2' = atL2 /\ AtL2s(pos) => AtL2s(new)'
           /\ k # 0 /\ made' = made /\ Made(pos) => Made(new)'
           /\ k # 9 /\ got' = got /\ Got(pos) => Got(new)'
<1>1. k \notin {4, 5} => \A c : ServedAt(new, c) = ServedAt(pos, c)
  BY SMTT(30) DEF Step, ServedAt
<1>2. k # 0 => {b \in Accesses : new[b] # 0} = {b \in Accesses : pos[b] # 0}
  BY SMTT(30) DEF Step
<1>3. k # 9 => {b \in Accesses : new[b] = 10} = {b \in Accesses : pos[b] = 10}
  BY SMTT(30) DEF Step
<1>4. k \notin {4, 5} /\ atL2' = atL2 /\ AtL2s(pos) => AtL2s(new)'
  BY ZenonT(30), <1>1 DEF AtL2s
<1>5. k # 0 /\ made' = made /\ Made(pos) => Made(new)'
  BY ZenonT(30), <1>2 DEF Made
<1>6. k # 9 /\ got' = got /\ Got(pos) => Got(new)'
  BY ZenonT(30), <1>3 DEF Got
<1> QED BY ZenonT(30), <1>4, <1>5, <1>6

(* The drain and the restart do not notice.                                 *)
Unnoticed ==
    /\ \A c \in Chiplets : /\ in'[c]["CtrlPort"] = in[c]["CtrlPort"]
                           /\ end'[c]["CtrlPort"] = end[c]["CtrlPort"]
                           /\ paused[c] /\ fromInside[c] = <<>> => fromInside'[c] = <<>>
    /\ UNCHANGED <<isDraining, paused, driver, acks>>

(* The phases of the drain hold after a step that touches none of them.     *)
LEMMA ControlKept ==
    ASSUME RDMAInv, Unnoticed
    PROVE  Control' /\ EmptyWhenTold'
<1>1. \A c \in Chiplets :
        /\ Idle(c)' = Idle(c) /\ Asked(c)' = Asked(c) /\ Draining(c)' = Draining(c)
        /\ Told(c)' = Told(c) /\ Quiet(c)' = Quiet(c) /\ Woken(c)' = Woken(c)
        /\ Restarted(c)' = Restarted(c)
  BY ZenonT(30) DEF Unnoticed, Idle, Asked, Draining, Told, Quiet, Woken, Restarted, Phase
<1>2. /\ {c \in Chiplets : Quiet(c)'} = {c \in Chiplets : Quiet(c)}
      /\ {c \in Chiplets : Idle(c)'} = {c \in Chiplets : Idle(c)}
  BY ZenonT(30), <1>1
<1>3. driver' = driver /\ acks' = acks
  BY ZenonT(30) DEF Unnoticed
<1>4. Control'
  BY ZenonT(30), <1>1, <1>2, <1>3 DEF RDMAInv, Control
<1> QED BY ZenonT(30), <1>4 DEF RDMAInv, EmptyWhenTold, Unnoticed

(* The capacities are numbers, and not zero.                                *)
LEMMA Capacities == PortCap \in Nat /\ PortCap > 0 /\ EndCap \in Nat /\ EndCap > 0
  BY SMTT(30), RDMAAssumption

Queues(pos) == /\ Shape(in) /\ Shape(end)
               /\ Filed(in, InK, InW, PortCap, pos) /\ Filed(end, EndK, EndW, EndCap, pos)
Put(f, g, c, p, a) == g = [f EXCEPT ![c][p] = Append(f[c][p], a)]
Pull(f, g, c, p)   == g = [f EXCEPT ![c][p] = Tail(f[c][p])]
CtrlSame == \A e \in Chiplets : /\ in'[e]["CtrlPort"] = in[e]["CtrlPort"]
                                /\ end'[e]["CtrlPort"] = end[e]["CtrlPort"]

(* The engine passes the first message of one port to another.              *)
LEMMA Passed ==
    ASSUME EngineTypes, NEW pos, NEW new, Located(pos), NEW c \in Chiplets, NEW p \in Data,
           NEW q \in Data, Pass(c, p, q), NEW k \in Nat, InK[p] = k, EndK[q] = k + 1,
           NEW a \in Accesses, a = Head(in[c][p]), EndW[q][a] = c, q \in Inside => Via[a] = q,
           Step(pos, new, a, k)
    PROVE  Queues(new)' /\ CtrlSame
<1>0. /\ Shape(in) /\ Shape(end) /\ Data \subseteq Ports /\ PortCap \in Nat /\ EndCap \in Nat
      /\ "CtrlPort" \in Ports /\ "CtrlPort" \notin Data
  BY ZenonT(30), Tables, Capacities DEF EngineTypes
<1>1. /\ in[c][p] # <<>> /\ Len(end[c][q]) < EndCap
      /\ in' = [in EXCEPT ![c][p] = Tail(in[c][p])]
      /\ end' = [end EXCEPT ![c][q] = Append(end[c][q], a)]
  BY ZenonT(30) DEF Pass, Has, Room
<1>2. /\ Shape(in') /\ in'[c][p] = Tail(in[c][p])
      /\ \A e \in Chiplets, x \in Ports : e # c \/ x # p => in'[e][x] = in[e][x]
  BY ZenonT(30), <1>0, <1>1 DEF Shape
<1>3. /\ Shape(end') /\ end'[c][q] = Append(end[c][q], a)
      /\ \A e \in Chiplets, x \in Ports : e # c \/ x # q => end'[e][x] = end[e][x]
  BY ZenonT(30), <1>0, <1>1 DEF Shape
<1>4. /\ Filed(in, InK, InW, PortCap, pos) /\ Filed(end, EndK, EndW, EndCap, pos)
      /\ OneStation(InK) /\ OneStation(EndK)
  BY ZenonT(30), Tables DEF Located
<1>6. Filed(in', InK, InW, PortCap, new)
  <2>1. Loses(in, in', c, p, a)
    BY ZenonT(30), <1>0, <1>1, <1>2 DEF Loses, Others
  <2>2. NoneAt(InK, k + 1)
    BY SMTT(30), Numbers DEF NoneAt
  <2> QED BY ZenonT(30), <1>0, <1>4, <2>1, <2>2, QueueLoses
<1>7. Filed(end', EndK, EndW, EndCap, new)
  <2>1. Gains(end, end', c, q, a, EndCap)
    BY ZenonT(30), <1>0, <1>1, <1>3 DEF Gains, Others
  <2>2. NoneAt(EndK, k)
    BY SMTT(30), Numbers DEF NoneAt
  <2> QED BY ZenonT(30), <1>0, <1>4, <2>1, <2>2, QueueGains
<1>9. Queues(new)'
  BY ZenonT(30), <1>2, <1>3, <1>6, <1>7 DEF Queues, Filed, Shape
<1>10. CtrlSame
  BY ZenonT(30), <1>0, <1>2, <1>3 DEF CtrlSame
<1> QED BY ZenonT(30), <1>9, <1>10

(* A connection carries the first message of an end to a port.              *)
LEMMA Delivered ==
    ASSUME EngineTypes, NEW pos, NEW new, Located(pos), NEW c \in Chiplets, NEW p \in Data,
           NEW d \in Chiplets, Deliver(c, p, d), end[c][p] # <<>>, NEW k \in Nat, EndK[p] = k,
           InK[p] = k + 1, p \notin Inside,
           NEW a \in Accesses, a = Head(end[c][p]), InW[p][a] = d, Step(pos, new, a, k)
    PROVE  Queues(new)' /\ CtrlSame
<1>0. /\ Shape(in) /\ Shape(end) /\ Data \subseteq Ports /\ PortCap \in Nat /\ EndCap \in Nat
      /\ "CtrlPort" \in Ports /\ "CtrlPort" \notin Data
  BY ZenonT(30), Tables, Capacities DEF EngineTypes
<1>1. /\ Len(in[d][p]) < PortCap
      /\ end' = [end EXCEPT ![c][p] = Tail(end[c][p])]
      /\ in' = [in EXCEPT ![d][p] = Append(in[d][p], a)]
  BY ZenonT(30) DEF Deliver
<1>2. /\ Shape(in') /\ in'[d][p] = Append(in[d][p], a)
      /\ \A e \in Chiplets, x \in Ports : e # d \/ x # p => in'[e][x] = in[e][x]
  BY ZenonT(30), <1>0, <1>1 DEF Shape
<1>3. /\ Shape(end') /\ end'[c][p] = Tail(end[c][p])
      /\ \A e \in Chiplets, x \in Ports : e # c \/ x # p => end'[e][x] = end[e][x]
  BY ZenonT(30), <1>0, <1>1 DEF Shape
<1>4. /\ Filed(in, InK, InW, PortCap, pos) /\ Filed(end, EndK, EndW, EndCap, pos)
      /\ OneStation(InK) /\ OneStation(EndK)
  BY ZenonT(30), Tables DEF Located
<1>6. Filed(in', InK, InW, PortCap, new)
  <2>1. Gains(in, in', d, p, a, PortCap)
    BY ZenonT(30), <1>0, <1>1, <1>2 DEF Gains, Others
  <2>2. NoneAt(InK, k)
    BY SMTT(30), Numbers DEF NoneAt
  <2> QED BY ZenonT(30), <1>0, <1>4, <2>1, <2>2, QueueGains
<1>7. Filed(end', EndK, EndW, EndCap, new)
  <2>1. Loses(end, end', c, p, a)
    BY ZenonT(30), <1>0, <1>1, <1>3 DEF Loses, Others
  <2>2. NoneAt(EndK, k + 1)
    BY SMTT(30), Numbers DEF NoneAt
  <2> QED BY ZenonT(30), <1>0, <1>4, <2>1, <2>2, QueueLoses
<1>9. Queues(new)'
  BY ZenonT(30), <1>2, <1>3, <1>6, <1>7 DEF Queues, Filed, Shape
<1>10. CtrlSame
  BY ZenonT(30), <1>0, <1>2, <1>3 DEF CtrlSame
<1> QED BY ZenonT(30), <1>9, <1>10

(* A message arrives at a port from elsewhere.                              *)
LEMMA Arrived ==
    ASSUME EngineTypes, NEW pos, NEW new, Located(pos), NEW d \in Chiplets, NEW p \in Data,
           NEW a \in Accesses, Len(in[d][p]) < PortCap,
           Put(in, in', d, p, a), end' = end,
           NEW k \in Nat, InK[p] = k + 1, NoneAt(EndK, k), NoneAt(EndK, k + 1),
           InW[p][a] = d, p \in Inside => Via[a] = p, Step(pos, new, a, k)
    PROVE  Queues(new)' /\ CtrlSame
<1>0. /\ Shape(in) /\ Shape(end) /\ Data \subseteq Ports /\ PortCap \in Nat /\ EndCap \in Nat
      /\ "CtrlPort" \in Ports /\ "CtrlPort" \notin Data
  BY ZenonT(30), Tables, Capacities DEF EngineTypes
<1>2. /\ Shape(in') /\ in'[d][p] = Append(in[d][p], a)
      /\ \A e \in Chiplets, x \in Ports : e # d \/ x # p => in'[e][x] = in[e][x]
  BY ZenonT(30), <1>0 DEF Shape, Put
<1>3. Shape(end') /\ \A e \in Chiplets, x \in Ports : end'[e][x] = end[e][x]
  BY ZenonT(30), <1>0
<1>4. /\ Filed(in, InK, InW, PortCap, pos) /\ Filed(end, EndK, EndW, EndCap, pos)
      /\ OneStation(InK) /\ OneStation(EndK)
  BY ZenonT(30), Tables DEF Located
<1>6. Filed(in', InK, InW, PortCap, new)
  <2>1. Gains(in, in', d, p, a, PortCap)
    BY ZenonT(30), <1>0, <1>2 DEF Gains, Others
  <2>2. NoneAt(InK, k)
    BY SMTT(30), Numbers DEF NoneAt
  <2> QED BY ZenonT(30), <1>0, <1>4, <2>1, <2>2, QueueGains
<1>7. Filed(end', EndK, EndW, EndCap, new)
  <2>1. Same(end, end')
    BY ZenonT(30) DEF Same
  <2> QED BY ZenonT(30), <1>4, <2>1, QueueKeeps
<1>9. Queues(new)'
  BY ZenonT(30), <1>2, <1>3, <1>6, <1>7 DEF Queues, Filed, Shape
<1>10. CtrlSame
  BY ZenonT(30), <1>0, <1>2, <1>3 DEF CtrlSame
<1> QED BY ZenonT(30), <1>9, <1>10

(* A message is taken from an end to elsewhere.                             *)
LEMMA Departed ==
    ASSUME EngineTypes, NEW pos, NEW new, Located(pos), NEW c \in Chiplets, NEW p \in Data,
           NEW a \in Accesses, end[c][p] # <<>>, a = Head(end[c][p]),
           Pull(end, end', c, p), in' = in,
           NEW k \in Nat, EndK[p] = k, NoneAt(InK, k), NoneAt(InK, k + 1),
           Step(pos, new, a, k)
    PROVE  Queues(new)' /\ CtrlSame
<1>0. /\ Shape(in) /\ Shape(end) /\ Data \subseteq Ports /\ PortCap \in Nat /\ EndCap \in Nat
      /\ "CtrlPort" \in Ports /\ "CtrlPort" \notin Data
  BY ZenonT(30), Tables, Capacities DEF EngineTypes
<1>3. /\ Shape(end') /\ end'[c][p] = Tail(end[c][p])
      /\ \A e \in Chiplets, x \in Ports : e # c \/ x # p => end'[e][x] = end[e][x]
  BY ZenonT(30), <1>0 DEF Shape, Pull
<1>2. Shape(in') /\ \A e \in Chiplets, x \in Ports : in'[e][x] = in[e][x]
  BY ZenonT(30), <1>0
<1>4. /\ Filed(in, InK, InW, PortCap, pos) /\ Filed(end, EndK, EndW, EndCap, pos)
      /\ OneStation(InK) /\ OneStation(EndK)
  BY ZenonT(30), Tables DEF Located
<1>6. Filed(in', InK, InW, PortCap, new)
  <2>1. Same(in, in')
    BY ZenonT(30) DEF Same
  <2> QED BY ZenonT(30), <1>4, <2>1, QueueKeeps
<1>7. Filed(end', EndK, EndW, EndCap, new)
  <2>1. Loses(end, end', c, p, a)
    BY ZenonT(30), <1>0, <1>3 DEF Loses, Others
  <2>2. NoneAt(EndK, k + 1)
    BY SMTT(30), Numbers DEF NoneAt
  <2> QED BY ZenonT(30), <1>0, <1>4, <2>1, <2>2, QueueLoses
<1>9. Queues(new)'
  BY ZenonT(30), <1>2, <1>3, <1>6, <1>7 DEF Queues, Filed, Shape
<1>10. CtrlSame
  BY ZenonT(30), <1>0, <1>2, <1>3 DEF CtrlSame
<1> QED BY ZenonT(30), <1>9, <1>10

-----------------------------------------------------------------------------
(* The steps of an engine that move an access.                              *)

Kept == EngineTypes' /\ Travel' /\ Unnoticed

(* The queues, the lists and the rest agree again on where each access is,  *)
(* and a paused engine has taken no transaction from inside.                *)
LEMMA Moved ==
    ASSUME EngineTypes, NEW new \in [Accesses -> Stations], Queues(new)', CtrlSame,
           Lists(fromInside', Src, 2, 8, new), Lists(fromOutside', Home, 4, 6, new),
           AtL2s(new)', Made(new)', Got(new)', UNCHANGED <<isDraining, paused, driver, acks>>,
           \A c \in Chiplets : paused[c] /\ fromInside[c] = <<>> => fromInside'[c] = <<>>
    PROVE  Kept
<1>1. Located(new)'
  BY ZenonT(30) DEF Located, Queues
<1>2. Travel'
  BY ZenonT(30), <1>1 DEF Travel
<1> QED BY ZenonT(30), <1>2 DEF Kept, Unnoticed, EngineTypes, Queues, CtrlSame

(* processReqFromL1, processReqFromPwPort: station 1 to 2, and a            *)
(* transaction more.                                                        *)
LEMMA InsideStep ==
    ASSUME RDMAInv, NEW c \in Chiplets, NEW p \in Inside, processReqFromInside(c, p)
    PROVE  Kept
<1>0. EngineTypes
  BY ZenonT(30) DEF RDMAInv
<1>1. PICK pos \in [Accesses -> Stations] : Located(pos)
  BY ZenonT(30) DEF RDMAInv, Travel
<1>l. /\ Queues(pos) /\ AtL2s(pos) /\ Made(pos) /\ Got(pos)
      /\ Filed(in, InK, InW, PortCap, pos) /\ Filed(end, EndK, EndW, EndCap, pos)
      /\ Lists(fromInside, Src, 2, 8, pos) /\ Lists(fromOutside, Home, 4, 6, pos)
  BY ZenonT(30), <1>0, <1>1 DEF Located, Queues, EngineTypes
<1>2. PICK a : a = Head(in[c][p])
  OBVIOUS
<1>3. /\ ~paused[c] /\ in[c][p] # <<>> /\ Pass(c, p, "RequestPort")
      /\ Adds(fromInside, fromInside', c, a)
      /\ UNCHANGED <<fromOutside, isDraining, paused, made, got, atL2, driver, acks>>
  BY ZenonT(30), <1>2 DEF processReqFromInside, Adds, Has, outside, control
<1>4. /\ p \in Data /\ "RequestPort" \in Data /\ "RequestPort" \notin Inside
      /\ InK[p] = 1 /\ InW[p] = Src /\ EndK["RequestPort"] = 2 /\ EndW["RequestPort"] = Src
  BY ZenonT(30), Tables DEF Inside
<1>5. a \in Accesses /\ pos[a] = 1 /\ Src[a] = c
  BY SMTT(30), <1>l, <1>2, <1>3, <1>4, FirstMessage
<1>6. PICK new \in [Accesses -> Stations] : Step(pos, new, a, 1)
  BY SMTT(30), <1>5, NextStation
<1>7. Queues(new)' /\ CtrlSame
  BY SMTT(30), <1>0, <1>1, <1>2, <1>3, <1>4, <1>5, <1>6, Passed
<1>8. Lists(fromInside', Src, 2, 8, new)
  <2>1. 1 \in Nat /\ 2 \in Nat /\ 8 \in Nat /\ 2 = 1 + 1 /\ 2 <= 8
    OBVIOUS
  <2> QED BY <1>l, <1>3, <1>5, <1>6, <2>1, ListGains, Zenon
<1>9. Lists(fromOutside', Home, 4, 6, new)
  BY SMTT(30), <1>l, <1>3, <1>5, <1>6, ListKeeps
<1>10. AtL2s(new)' /\ Made(new)' /\ Got(new)'
  BY SMTT(30), <1>l, <1>3, <1>5, <1>6, OutsideKept
<1>13. \A d \in Chiplets : paused[d] /\ fromInside[d] = <<>> => fromInside'[d] = <<>>
  BY ZenonT(30), <1>1, <1>3 DEF Located, Lists, Adds
<1> QED BY ZenonT(30), <1>0, <1>3, <1>6, <1>7, <1>8, <1>9, <1>10, <1>13, Moved

(* processReqFromOutside: station 3 to 4, and a transaction more.           *)
LEMMA OutsideStep ==
    ASSUME RDMAInv, NEW c \in Chiplets, processReqFromOutside(c)
    PROVE  Kept
<1>0. EngineTypes
  BY ZenonT(30) DEF RDMAInv
<1>1. PICK pos \in [Accesses -> Stations] : Located(pos)
  BY ZenonT(30) DEF RDMAInv, Travel
<1>l. /\ Queues(pos) /\ AtL2s(pos) /\ Made(pos) /\ Got(pos)
      /\ Filed(in, InK, InW, PortCap, pos) /\ Filed(end, EndK, EndW, EndCap, pos)
      /\ Lists(fromInside, Src, 2, 8, pos) /\ Lists(fromOutside, Home, 4, 6, pos)
  BY ZenonT(30), <1>0, <1>1 DEF Located, Queues, EngineTypes
<1>2. PICK a : a = Head(in[c]["RequestPort"])
  OBVIOUS
<1>3. /\ in[c]["RequestPort"] # <<>> /\ Pass(c, "RequestPort", "ToL2")
      /\ Adds(fromOutside, fromOutside', c, a)
      /\ UNCHANGED <<fromInside, isDraining, paused, made, got, atL2, driver, acks>>
  BY ZenonT(30), <1>2 DEF processReqFromOutside, Adds, Has, outside, control
<1>4. /\ "RequestPort" \in Data /\ "ToL2" \in Data /\ "ToL2" \notin Inside
      /\ InK["RequestPort"] = 3 /\ InW["RequestPort"] = Home
      /\ EndK["ToL2"] = 4 /\ EndW["ToL2"] = Home
  BY ZenonT(30), Tables DEF Inside
<1>5. a \in Accesses /\ pos[a] = 3 /\ Home[a] = c
  BY SMTT(30), <1>l, <1>2, <1>3, <1>4, FirstMessage
<1>6. PICK new \in [Accesses -> Stations] : Step(pos, new, a, 3)
  BY SMTT(30), <1>5, NextStation
<1>7. Queues(new)' /\ CtrlSame
  BY SMTT(30), <1>0, <1>1, <1>2, <1>3, <1>4, <1>5, <1>6, Passed
<1>8. Lists(fromOutside', Home, 4, 6, new)
  <2>1. 3 \in Nat /\ 4 \in Nat /\ 6 \in Nat /\ 4 = 3 + 1 /\ 4 <= 6
    OBVIOUS
  <2> QED BY <1>l, <1>3, <1>5, <1>6, <2>1, ListGains, Zenon
<1>9. Lists(fromInside', Src, 2, 8, new)
  BY SMTT(30), <1>l, <1>3, <1>5, <1>6, ListKeeps
<1>10. AtL2s(new)' /\ Made(new)' /\ Got(new)'
  BY SMTT(30), <1>l, <1>3, <1>5, <1>6, OutsideKept
<1> QED BY ZenonT(30), <1>0, <1>3, <1>6, <1>7, <1>8, <1>9, <1>10, Moved

(* processRspFromL2: station 6 to 7, and its transaction ends.              *)
LEMMA FromL2Step ==
    ASSUME RDMAInv, NEW c \in Chiplets, processRspFromL2(c)
    PROVE  Kept
<1>0. EngineTypes
  BY ZenonT(30) DEF RDMAInv
<1>1. PICK pos \in [Accesses -> Stations] : Located(pos)
  BY ZenonT(30) DEF RDMAInv, Travel
<1>l. /\ Queues(pos) /\ AtL2s(pos) /\ Made(pos) /\ Got(pos)
      /\ Filed(in, InK, InW, PortCap, pos) /\ Filed(end, EndK, EndW, EndCap, pos)
      /\ Lists(fromInside, Src, 2, 8, pos) /\ Lists(fromOutside, Home, 4, 6, pos)
  BY ZenonT(30), <1>0, <1>1 DEF Located, Queues, EngineTypes
<1>2. PICK a : a = Head(in[c]["ToL2"])
  OBVIOUS
<1>3. /\ in[c]["ToL2"] # <<>> /\ Pass(c, "ToL2", "ResponsePort")
      /\ Drops(fromOutside, fromOutside', c, a)
      /\ UNCHANGED <<fromInside, isDraining, paused, made, got, atL2, driver, acks>>
  BY ZenonT(30), <1>2 DEF processRspFromL2, OutsideLeft, Drops, Has, outside, control
<1>4. /\ "ToL2" \in Data /\ "ResponsePort" \in Data /\ "ResponsePort" \notin Inside
      /\ InK["ToL2"] = 6 /\ InW["ToL2"] = Home
      /\ EndK["ResponsePort"] = 7 /\ EndW["ResponsePort"] = Home
  BY ZenonT(30), Tables DEF Inside
<1>5. a \in Accesses /\ pos[a] = 6 /\ Home[a] = c
  BY SMTT(30), <1>l, <1>2, <1>3, <1>4, FirstMessage
<1>6. PICK new \in [Accesses -> Stations] : Step(pos, new, a, 6)
  BY SMTT(30), <1>5, NextStation
<1>7. Queues(new)' /\ CtrlSame
  <2>1. /\ Pass(c, "ToL2", "ResponsePort") /\ "ToL2" \in Data /\ "ResponsePort" \in Data
        /\ 6 \in Nat /\ InK["ToL2"] = 6 /\ EndK["ResponsePort"] = 6 + 1
        /\ EndW["ResponsePort"][a] = c /\ ("ResponsePort" \in Inside => Via[a] = "ResponsePort")
        /\ a \in Accesses
    BY SMTT(30), <1>3, <1>4, <1>5
  <2> QED BY <1>0, <1>1, <1>2, <1>6, <2>1, Passed, ZenonT(30)
<1>8. Lists(fromOutside', Home, 4, 6, new)
  BY SMTT(30), <1>l, <1>3, <1>5, <1>6, ListLoses
<1>9. Lists(fromInside', Src, 2, 8, new)
  BY SMTT(30), <1>l, <1>3, <1>5, <1>6, ListKeeps
<1>10. AtL2s(new)' /\ Made(new)' /\ Got(new)'
  BY SMTT(30), <1>l, <1>3, <1>5, <1>6, OutsideKept
<1> QED BY ZenonT(30), <1>0, <1>3, <1>6, <1>7, <1>8, <1>9, <1>10, Moved

(* processRspFromOutside: station 8 to 9, and its transaction ends.         *)
LEMMA ResponseStep ==
    ASSUME RDMAInv, NEW c \in Chiplets, processRspFromOutside(c)
    PROVE  Kept
<1>0. EngineTypes
  BY ZenonT(30) DEF RDMAInv
<1>1. PICK pos \in [Accesses -> Stations] : Located(pos)
  BY ZenonT(30) DEF RDMAInv, Travel
<1>l. /\ Queues(pos) /\ AtL2s(pos) /\ Made(pos) /\ Got(pos)
      /\ Filed(in, InK, InW, PortCap, pos) /\ Filed(end, EndK, EndW, EndCap, pos)
      /\ Lists(fromInside, Src, 2, 8, pos) /\ Lists(fromOutside, Home, 4, 6, pos)
  BY ZenonT(30), <1>0, <1>1 DEF Located, Queues, EngineTypes
<1>2. PICK a : a = Head(in[c]["ResponsePort"])
  OBVIOUS
<1>3. /\ in[c]["ResponsePort"] # <<>> /\ Pass(c, "ResponsePort", Via[a])
      /\ a \in Range(fromInside[c])
      /\ Drops(fromInside, fromInside', c, a)
      /\ UNCHANGED <<fromOutside, isDraining, paused, made, got, atL2, driver, acks>>
  BY ZenonT(30), <1>2 DEF processRspFromOutside, InsideLeft, Drops, BackBy, Has, outside, control
<1>4. "ResponsePort" \in Data /\ InK["ResponsePort"] = 8 /\ InW["ResponsePort"] = Src
  BY ZenonT(30), Tables DEF Inside
<1>5. a \in Accesses /\ pos[a] = 8 /\ Src[a] = c
  BY SMTT(30), <1>l, <1>2, <1>3, <1>4, FirstMessage
<1>6. PICK new \in [Accesses -> Stations] : Step(pos, new, a, 8)
  BY SMTT(30), <1>5, NextStation
<1>7. PICK q \in Data : q = Via[a] /\ EndK[q] = 9 /\ EndW[q] = Src
  BY ZenonT(30), <1>5, RDMAAssumption, Tables DEF Inside
<1>8. Queues(new)' /\ CtrlSame
  <2>1. /\ Pass(c, "ResponsePort", q) /\ "ResponsePort" \in Data
        /\ 8 \in Nat /\ InK["ResponsePort"] = 8 /\ EndK[q] = 8 + 1
        /\ EndW[q][a] = c /\ (q \in Inside => Via[a] = q) /\ a \in Accesses
    BY SMTT(30), <1>3, <1>4, <1>5, <1>7
  <2> QED BY <1>0, <1>1, <1>2, <1>6, <1>7, <2>1, Passed, ZenonT(30)
<1>9. Lists(fromInside', Src, 2, 8, new)
  BY SMTT(30), <1>l, <1>3, <1>5, <1>6, ListLoses
<1>10. Lists(fromOutside', Home, 4, 6, new)
  BY SMTT(30), <1>l, <1>3, <1>5, <1>6, ListKeeps
<1>11. AtL2s(new)' /\ Made(new)' /\ Got(new)'
  BY SMTT(30), <1>l, <1>3, <1>5, <1>6, OutsideKept
<1>14. fromInside[c] # <<>> /\ \A d \in Chiplets : d # c => fromInside'[d] = fromInside[d]
  BY SMTT(30), <1>1, <1>3 DEF Located, Lists, Range, Drops
<1> QED BY ZenonT(30), <1>0, <1>3, <1>6, <1>8, <1>9, <1>10, <1>11, <1>14, Moved
=============================================================================
