------------------------ MODULE DirectConnectionProofs ------------------------
(* TLAPS proofs about ports, tickers and the direct connection, for every     *)
(* number of agents, all traffic, all clock periods and all buffer sizes.     *)
EXTENDS DirectConnection, TLAPS

-----------------------------------------------------------------------------
(* The inductive invariant.                                                   *)

\* Who may be in which phase: the connection runs alone, and after all agents
\* whose tick is due at that time.
PhaseInv ==
    /\ phase[Conn] \in {"idle", "forward"}
    /\ \A p \in Ports : phase[p] \in {"idle", "send", "recv"}
    /\ phase[Conn] = "forward" =>
         \A p \in Ports : phase[p] = "idle" /\ \A x \in ticks[p] : x > now
    /\ rep[Conn] <= NumPorts

\* While an agent runs, or is due, the connection's tick of this time is not over.
ConnNotYet ==
    \A p \in Ports :
      (phase[p] # "idle" \/ now \in ticks[p]) /\ nextTickTime[Conn] = now + 1
        => now \in ticks[Conn]

\* A flag that promises a notification is set only while the buffer is full.
FlagInv ==
    /\ \A p \in busy : EndFull(p)
    /\ \A p \in portBusy : Len(portBuf[p]) >= PortCap

\* An agent in the middle of a tick will tick again or is promised a notification.
AgentInv ==
    \A p \in Ports :
      /\ phase[p] # "idle" /\ rep[p] > 0 => p \in progress
      /\ phase[p] = "recv" /\ MsgsToSend[p] # <<>> => p \in progress \/ p \in busy
      /\ phase[p] = "idle" /\ ticks[p] = {} =>
           portBuf[p] = <<>> /\ (MsgsToSend[p] = <<>> \/ p \in busy)

\* An end that the connection has passed in this tick, or any end when the
\* connection sleeps: its first message waits for a port that promised to tell.
Blocked(p) == endBuf[p] = <<>> \/ Head(endBuf[p]).dst \in portBusy
ConnInv ==
    /\ phase[Conn] = "forward" =>
         \A i \in 0..NumPorts : i < rep[Conn] => Blocked(EndAt(i))
    /\ phase[Conn] = "idle" /\ ticks[Conn] = {} => \A p \in Ports : Blocked(p)

SysOK == traffic \in Traffics /\ period \in Periods

IInv == SysOK /\ TypeOK /\ TicksAhead /\ PhaseInv /\ ConnNotYet /\ FlagInv /\ AgentInv /\ ConnInv

-----------------------------------------------------------------------------
(* Arithmetic. *)

\* The next tick of a clock is strictly later than now, whatever its period.
LEMMA NextTickLater ==
    ASSUME NEW P \in Nat \ {0}, NEW x \in Nat
    PROVE  /\ (x \div P + 1) * P \in Nat
           /\ (x \div P + 1) * P > x
<1>1. x \div P \in Nat /\ x % P \in 0..(P - 1)
  OBVIOUS
<1>2. x = P * (x \div P) + (x % P)
  OBVIOUS
<1> DEFINE q == x \div P
           r == x % P
<1> HIDE DEF q, r
<1>3. q \in Nat /\ r \in 0..(P - 1) /\ x = P * q + r
  BY ZenonT(30), <1>1, <1>2 DEF q, r
<1>4. (q + 1) * P = P * q + P /\ P * q \in Nat
  BY SMTT(30), <1>3
<1> QED BY SMTT(30), <1>3, <1>4 DEF q

\* Round robin passes every end: the positions 0 to NumPorts - 1 of a tick reach
\* all the ports, wherever the tick starts.
LEMMA RoundRobin ==
    ASSUME NEW N \in Nat \ {0}, NEW k \in 0..(N - 1), NEW p \in 0..(N - 1)
    PROVE  \E i \in 0..(N - 1) : (i + k) % N = p
<1>1. CASE p >= k
  <2>1. p - k \in 0..(N - 1) /\ (p - k) + k = p /\ p % N = p
    BY SMTT(30), <1>1
  <2> QED BY ZenonT(30), <2>1
<1>2. CASE p < k
  <2>1. (p - k) + N \in 0..(N - 1) /\ ((p - k) + N) + k = p + N
    BY SMTT(30), <1>2
  <2>2. (p + N) % N = p
    OBVIOUS
  <2> QED BY ZenonT(30), <2>1, <2>2
<1> QED BY SMTT(30), <1>1, <1>2

\* The remainder of a number below 2N.
LEMMA ModCases ==
    ASSUME NEW N \in Nat \ {0}, NEW x \in 0..(2 * N - 1)
    PROVE  /\ x < N => x % N = x
           /\ x >= N => x % N = x - N
           /\ x % N \in 0..(N - 1)
<1>1. x < N => x % N = x
  OBVIOUS
<1>2. ASSUME x >= N PROVE x % N = x - N
  <2>1. x - N \in 0..(N - 1) /\ x = 1 * N + (x - N)
    BY SMTT(30), <1>2
  <2> QED BY SMTT(30), <2>1
<1> QED BY SMTT(30), <1>1, <1>2

\* Different positions of a tick are different ends.
LEMMA EndsDiffer ==
    ASSUME NEW N \in Nat \ {0}, NEW k \in 0..(N - 1), NEW i \in 0..(N - 1),
           NEW j \in 0..(N - 1), i # j
    PROVE  (i + k) % N \in 0..(N - 1) /\ (i + k) % N # (j + k) % N
<1> DEFINE a == i + k
           b == j + k
<1>1. a \in 0..(2 * N - 1) /\ b \in 0..(2 * N - 1) /\ a - b = i - j
  OBVIOUS
<1> HIDE DEF a, b
<1>2. (a < N => a % N = a) /\ (a >= N => a % N = a - N) /\ a % N \in 0..(N - 1)
  BY ZenonT(30), <1>1, ModCases
<1>3. (b < N => b % N = b) /\ (b >= N => b % N = b - N)
  BY ZenonT(30), <1>1, ModCases
<1>4. a % N # b % N
  BY SMTT(30), <1>1, <1>2, <1>3
<1> QED BY ZenonT(30), <1>2, <1>4 DEF a, b

\* The connection and the agents are tickers.
LEMMA PortFacts == /\ Conn \in Tickers /\ Ports \subseteq Tickers
                   /\ \A p \in Ports : p # Conn
  BY SMTT(30), ConnAssumption DEF Tickers, Ports, Conn

-----------------------------------------------------------------------------
(* TickScheduler. *)

\* What a request for ticks does.  The last hypothesis says that a tick scheduled
\* for this very time has not been handled yet: without it the request could be
\* dropped in favour of a tick that is already over.
LEMMA ScheduleFacts ==
    ASSUME ticks \in [Tickers -> SUBSET Nat], nextTickTime \in [Tickers -> Nat],
           now \in Nat, TicksAhead, now' = now,
           NEW T \in SUBSET Tickers, NEW time \in [Tickers -> Nat],
           \A t \in T : time[t] >= now,
           \A t \in T : time[t] = now /\ nextTickTime[t] = now + 1 => now \in ticks[t],
           ScheduleAt(T, time)
    PROVE  /\ ticks' \in [Tickers -> SUBSET Nat] /\ nextTickTime' \in [Tickers -> Nat]
           /\ TicksAhead'
           /\ \A t \in T : ticks'[t] # {}
           /\ \A t \in Tickers : ticks[t] \subseteq ticks'[t]
           /\ \A t \in T : \A x \in ticks'[t] : x \in ticks[t] \/ x = time[t]
           /\ \A t \in Tickers \ T : ticks'[t] = ticks[t] /\ nextTickTime'[t] = nextTickTime[t]
           /\ \A t \in T : nextTickTime'[t] = nextTickTime[t]
                             \/ (nextTickTime'[t] = time[t] + 1 /\ time[t] \in ticks'[t])
<1> DEFINE New == {t \in T : nextTickTime[t] < time[t] + 1}
<1>1. \A t \in Tickers : IF t \in New THEN /\ ticks'[t] = ticks[t] \cup {time[t]}
                                           /\ nextTickTime'[t] = time[t] + 1
                                      ELSE /\ ticks'[t] = ticks[t]
                                           /\ nextTickTime'[t] = nextTickTime[t]
  BY ZenonT(30) DEF ScheduleAt
<1>2. ticks' \in [Tickers -> SUBSET Nat] /\ nextTickTime' \in [Tickers -> Nat]
  BY SMTT(30) DEF ScheduleAt
<1>3. \A t \in Tickers : /\ nextTickTime[t] \in Nat /\ time[t] \in Nat /\ ticks[t] \subseteq Nat
                         /\ \A x \in ticks[t] : x >= now /\ x + 1 <= nextTickTime[t]
                         /\ nextTickTime[t] > now + 1 => nextTickTime[t] - 1 \in ticks[t]
  BY ZenonT(30) DEF TicksAhead
<1>4. TicksAhead'
  <2> SUFFICES ASSUME NEW t \in Tickers
               PROVE  /\ \A x \in ticks'[t] : x >= now /\ x + 1 <= nextTickTime'[t]
                      /\ nextTickTime'[t] > now + 1 => nextTickTime'[t] - 1 \in ticks'[t]
    BY ZenonT(30) DEF TicksAhead
  <2>1. CASE t \in New
    BY SMTT(30), <2>1, <1>1, <1>3
  <2>2. CASE t \notin New
    BY ZenonT(30), <2>2, <1>1, <1>3
  <2> QED BY ZenonT(30), <2>1, <2>2
<1>5. ASSUME NEW t \in T PROVE ticks'[t] # {}
  <2>1. CASE t \in New
    BY ZenonT(30), <2>1, <1>1
  <2>2. CASE t \notin New
    <3>1. nextTickTime[t] >= time[t] + 1 /\ ticks'[t] = ticks[t]
      BY SMTT(30), <2>2, <1>1, <1>3
    <3>2. CASE nextTickTime[t] > now + 1
      BY ZenonT(30), <3>1, <3>2, <1>3
    <3>3. CASE nextTickTime[t] <= now + 1
      BY SMTT(30), <3>1, <3>3, <1>3
    <3> QED BY SMTT(30), <3>2, <3>3, <1>3
  <2> QED BY ZenonT(30), <2>1, <2>2
<1> QED BY ZenonT(30), <1>1, <1>2, <1>4, <1>5

\* TickLater asks for a time that is not over, so it is never dropped in vain.
LEMMA TickLaterFacts ==
    ASSUME SysOK, TypeOK, TicksAhead, now' = now, NEW T \in SUBSET Tickers, TickLater(T)
    PROVE  /\ ticks' \in [Tickers -> SUBSET Nat] /\ nextTickTime' \in [Tickers -> Nat]
           /\ TicksAhead'
           /\ \A t \in T : ticks'[t] # {}
           /\ \A t \in Tickers : ticks[t] \subseteq ticks'[t]
           /\ \A t \in T : \A x \in ticks'[t] : x \in ticks[t] \/ x > now
           /\ \A t \in Tickers \ T : ticks'[t] = ticks[t] /\ nextTickTime'[t] = nextTickTime[t]
           /\ \A t \in T : nextTickTime'[t] = nextTickTime[t] \/ nextTickTime'[t] > now + 1
<1> DEFINE time == [t \in Tickers |-> NextTick(t, now)]
<1>1. now \in Nat /\ ticks \in [Tickers -> SUBSET Nat] /\ nextTickTime \in [Tickers -> Nat]
  BY ZenonT(30) DEF TypeOK
<1>2. \A t \in Tickers : period[t] \in Nat \ {0}
  BY ZenonT(30), ConnAssumption DEF SysOK
<1>3. \A t \in Tickers : NextTick(t, now) \in Nat /\ NextTick(t, now) > now
  BY ZenonT(30), <1>1, <1>2, NextTickLater DEF NextTick
<1> HIDE DEF TickLater
<1>4. time \in [Tickers -> Nat] /\ \A t \in Tickers : time[t] > now
  BY ZenonT(30), <1>3
<1>5. ScheduleAt(T, time)
  BY ZenonT(30) DEF TickLater
<1> HIDE DEF time
<1>6. \A t \in T : time[t] >= now /\ time[t] # now
  BY SMTT(30), <1>1, <1>4
<1>7. /\ ticks' \in [Tickers -> SUBSET Nat] /\ nextTickTime' \in [Tickers -> Nat]
      /\ TicksAhead'
      /\ \A t \in T : ticks'[t] # {}
      /\ \A t \in Tickers : ticks[t] \subseteq ticks'[t]
      /\ \A t \in T : \A x \in ticks'[t] : x \in ticks[t] \/ x = time[t]
      /\ \A t \in Tickers \ T : ticks'[t] = ticks[t] /\ nextTickTime'[t] = nextTickTime[t]
      /\ \A t \in T : nextTickTime'[t] = nextTickTime[t]
                        \/ (nextTickTime'[t] = time[t] + 1 /\ time[t] \in ticks'[t])
  BY ZenonT(30), <1>1, <1>4, <1>5, <1>6, ScheduleFacts
<1> QED BY SMTT(30), <1>1, <1>4, <1>7

\* TickNow is called for the connection only, by an agent in its tick; the
\* connection's tick of that time is still to come, so the call is not in vain.
LEMMA TickNowFacts ==
    ASSUME TypeOK, TicksAhead, ConnNotYet, NEW p \in Ports, phase[p] # "idle",
           now' = now, NEW T \in SUBSET {Conn}, TickNow(T)
    PROVE  /\ ticks' \in [Tickers -> SUBSET Nat] /\ nextTickTime' \in [Tickers -> Nat]
           /\ TicksAhead'
           /\ Conn \in T => ticks'[Conn] # {}
           /\ ticks[Conn] \subseteq ticks'[Conn]
           /\ nextTickTime'[Conn] = now + 1 => now \in ticks'[Conn]
           /\ \A t \in Ports : ticks'[t] = ticks[t] /\ nextTickTime'[t] = nextTickTime[t]
<1> DEFINE time == [t \in Tickers |-> now]
<1>1. now \in Nat /\ ticks \in [Tickers -> SUBSET Nat] /\ nextTickTime \in [Tickers -> Nat]
  BY ZenonT(30) DEF TypeOK
<1>2. T \in SUBSET Tickers /\ \A t \in T : t = Conn
  BY ZenonT(30) DEF Tickers
<1>3. time \in [Tickers -> Nat] /\ \A t \in Tickers : time[t] = now
  BY ZenonT(30), <1>1
<1>4. ScheduleAt(T, time)
  BY ZenonT(30) DEF TickNow
<1> HIDE DEF time
<1>5. nextTickTime[Conn] = now + 1 => now \in ticks[Conn]
  BY ZenonT(30) DEF ConnNotYet
<1>6. /\ \A t \in T : time[t] >= now
      /\ \A t \in T : time[t] = now /\ nextTickTime[t] = now + 1 => now \in ticks[t]
  BY SMTT(30), <1>1, <1>2, <1>3, <1>5
<1>7. /\ ticks' \in [Tickers -> SUBSET Nat] /\ nextTickTime' \in [Tickers -> Nat]
      /\ TicksAhead'
      /\ \A t \in T : ticks'[t] # {}
      /\ \A t \in Tickers : ticks[t] \subseteq ticks'[t]
      /\ \A t \in Tickers \ T : ticks'[t] = ticks[t] /\ nextTickTime'[t] = nextTickTime[t]
      /\ \A t \in T : nextTickTime'[t] = nextTickTime[t]
                        \/ (nextTickTime'[t] = time[t] + 1 /\ time[t] \in ticks'[t])
  BY ZenonT(30), <1>1, <1>2, <1>3, <1>4, <1>6, ScheduleFacts
<1>8. Conn \in Tickers /\ \A t \in Ports : t \in Tickers /\ t # Conn
  BY SMTT(30), ConnAssumption DEF Tickers, Ports, Conn
<1>9. \A t \in Ports : t \in Tickers \ T
  BY ZenonT(30), <1>2, <1>8
<1>10. nextTickTime'[Conn] = now + 1 => now \in ticks'[Conn]
  <2>1. CASE Conn \in T
    BY ZenonT(30), <2>1, <1>1, <1>3, <1>5, <1>7, <1>8
  <2>2. CASE Conn \notin T
    BY ZenonT(30), <2>2, <1>5, <1>7, <1>8
  <2> QED BY ZenonT(30), <2>1, <2>2
<1> QED BY ZenonT(30), <1>7, <1>8, <1>9, <1>10

-----------------------------------------------------------------------------
(* The invariant, action by action. *)

\* An agent starts its tick: it is awake for as long as its tick lasts.
LEMMA StartAgentStep ==
    ASSUME IInv, NEW p \in Ports, StartAgent(p), UNCHANGED sysVars
    PROVE  IInv'
<1> USE PortFacts
<1>0. SysOK /\ TypeOK /\ TicksAhead /\ PhaseInv /\ ConnNotYet /\ FlagInv /\ AgentInv /\ ConnInv
  BY ZenonT(30) DEF IInv
<1>1. PICK time \in ticks[p] :
        /\ phase[p] = "idle" /\ phase[Conn] = "idle"
        /\ \A other \in Pending : time <= other
        /\ Idle \/ time = now
        /\ now' = time
        /\ ticks' = [ticks EXCEPT ![p] = @ \ {time}]
        /\ phase' = [phase EXCEPT ![p] = "send"] /\ rep' = [rep EXCEPT ![p] = 0]
        /\ progress' = progress \ {p}
        /\ UNCHANGED <<dataVars, nextTickTime, nextPortID>>
  BY ZenonT(30) DEF StartAgent
<1>2. /\ UNCHANGED <<MsgsToSend, endBuf, busy, portBuf, portBusy, received>>
      /\ UNCHANGED <<nextTickTime, nextPortID>>
  BY ZenonT(30), <1>1 DEF dataVars
<1>3. SysOK'
  BY ZenonT(30), <1>0 DEF SysOK, sysVars
<1>4. /\ ticks \in [Tickers -> SUBSET Nat] /\ nextTickTime \in [Tickers -> Nat] /\ now \in Nat
      /\ phase \in [Tickers -> {"idle", "send", "recv", "forward"}]
      /\ rep \in [Tickers -> Nat] /\ progress \subseteq Tickers
  BY ZenonT(30), <1>0 DEF TypeOK
<1>5. time \in Nat /\ time >= now
  BY ZenonT(30), <1>0, <1>1, <1>4 DEF TicksAhead
<1>6. TypeOK'
  BY ZenonT(30), <1>0, <1>1, <1>2, <1>5 DEF TypeOK
<1>7. \A t \in Tickers : t # p => ticks'[t] = ticks[t] /\ phase'[t] = phase[t] /\ rep'[t] = rep[t]
  BY ZenonT(30), <1>1, <1>4
<1>8. ticks'[p] = ticks[p] \ {time} /\ phase'[p] = "send" /\ rep'[p] = 0
  BY ZenonT(30), <1>1, <1>4
<1>9. \A t \in Tickers : \A x \in ticks[t] : time <= x
  BY ZenonT(30), <1>1 DEF Pending
<1>10. TicksAhead'
  <2> SUFFICES ASSUME NEW t \in Tickers
               PROVE  /\ \A x \in ticks'[t] : x >= time /\ x + 1 <= nextTickTime[t]
                      /\ nextTickTime[t] > time + 1 => nextTickTime[t] - 1 \in ticks'[t]
    BY ZenonT(30), <1>1, <1>2 DEF TicksAhead
  <2>1. /\ \A x \in ticks[t] : x + 1 <= nextTickTime[t]
        /\ nextTickTime[t] > now + 1 => nextTickTime[t] - 1 \in ticks[t]
        /\ nextTickTime[t] \in Nat /\ ticks[t] \subseteq Nat
    BY ZenonT(30), <1>0, <1>4 DEF TicksAhead
  <2> QED BY SMTT(30), <2>1, <1>4, <1>5, <1>7, <1>8, <1>9
<1>11. PhaseInv'
  BY ZenonT(30), <1>0, <1>1, <1>7, <1>8 DEF PhaseInv
<1>12. ConnNotYet'
  <2>1. nextTickTime[Conn] \in Nat
    BY ZenonT(30), <1>4
  <2>2. nextTickTime[Conn] = time + 1 => time \in ticks[Conn]
    <3>1. CASE time = now
      BY ZenonT(30), <3>1, <1>0, <1>1 DEF ConnNotYet
    <3>2. CASE time # now
      BY SMTT(30), <3>2, <2>1, <1>0, <1>4, <1>5 DEF TicksAhead
    <3> QED BY ZenonT(30), <3>1, <3>2
  <2> QED BY ZenonT(30), <2>2, <1>1, <1>2, <1>7 DEF ConnNotYet
<1>13. FlagInv'
  BY ZenonT(30), <1>0, <1>2 DEF FlagInv, EndFull
<1>14. AgentInv'
  BY SMTT(30), <1>0, <1>1, <1>2, <1>7, <1>8 DEF AgentInv
<1>15. ConnInv'
  BY ZenonT(30), <1>0, <1>1, <1>2, <1>7 DEF ConnInv, Blocked, EndAt
<1> QED BY ZenonT(30), <1>3, <1>6, <1>10, <1>11, <1>12, <1>13, <1>14, <1>15 DEF IInv

\* The connection starts its tick, after all agent ticks of this time.
LEMMA StartConnStep ==
    ASSUME IInv, StartConn, UNCHANGED sysVars
    PROVE  IInv'
<1> USE PortFacts
<1>0. SysOK /\ TypeOK /\ TicksAhead /\ PhaseInv /\ ConnNotYet /\ FlagInv /\ AgentInv /\ ConnInv
  BY ZenonT(30) DEF IInv
<1>1. PICK time \in ticks[Conn] :
        /\ Idle
        /\ \A t \in Ports : \A other \in ticks[t] : time < other
        /\ \A other \in ticks[Conn] : time <= other
        /\ now' = time
        /\ ticks' = [ticks EXCEPT ![Conn] = @ \ {time}]
        /\ phase' = [phase EXCEPT ![Conn] = "forward"] /\ rep' = [rep EXCEPT ![Conn] = 0]
        /\ progress' = progress \ {Conn}
        /\ UNCHANGED <<dataVars, nextTickTime, nextPortID>>
  BY ZenonT(30) DEF StartConn
<1>2. /\ UNCHANGED <<MsgsToSend, endBuf, busy, portBuf, portBusy, received>>
      /\ UNCHANGED <<nextTickTime, nextPortID>>
  BY ZenonT(30), <1>1 DEF dataVars
<1>3. SysOK'
  BY ZenonT(30), <1>0 DEF SysOK, sysVars
<1>4. /\ ticks \in [Tickers -> SUBSET Nat] /\ nextTickTime \in [Tickers -> Nat] /\ now \in Nat
      /\ phase \in [Tickers -> {"idle", "send", "recv", "forward"}]
      /\ rep \in [Tickers -> Nat] /\ progress \subseteq Tickers
  BY ZenonT(30), <1>0 DEF TypeOK
<1>5. time \in Nat /\ time >= now
  BY ZenonT(30), <1>0, <1>1, <1>4 DEF TicksAhead
<1>6. TypeOK'
  BY ZenonT(30), <1>0, <1>1, <1>2, <1>5 DEF TypeOK
<1>7. \A t \in Ports : ticks'[t] = ticks[t] /\ phase'[t] = "idle" /\ rep'[t] = rep[t]
  BY ZenonT(30), <1>1, <1>4 DEF Idle
<1>8. ticks'[Conn] = ticks[Conn] \ {time} /\ phase'[Conn] = "forward" /\ rep'[Conn] = 0
  BY ZenonT(30), <1>1, <1>4
<1>9. \A t \in Tickers : \A x \in ticks[t] : time <= x
  <2>1. \A t \in Tickers : t \in Ports \/ t = Conn
    BY ZenonT(30) DEF Tickers
  <2> QED BY SMTT(30), <2>1, <1>1, <1>4, <1>5
<1>10. TicksAhead'
  <2> SUFFICES ASSUME NEW t \in Tickers
               PROVE  /\ \A x \in ticks'[t] : x >= time /\ x + 1 <= nextTickTime[t]
                      /\ nextTickTime[t] > time + 1 => nextTickTime[t] - 1 \in ticks'[t]
    BY ZenonT(30), <1>1, <1>2 DEF TicksAhead
  <2>1. /\ \A x \in ticks[t] : x + 1 <= nextTickTime[t]
        /\ nextTickTime[t] > now + 1 => nextTickTime[t] - 1 \in ticks[t]
        /\ nextTickTime[t] \in Nat /\ ticks[t] \subseteq Nat
    BY ZenonT(30), <1>0, <1>4 DEF TicksAhead
  <2>2. ticks'[t] = ticks[t] \/ ticks'[t] = ticks[t] \ {time}
    BY ZenonT(30), <1>1, <1>4
  <2> QED BY SMTT(30), <2>1, <2>2, <1>4, <1>5, <1>9
<1>11. PhaseInv'
  BY SMTT(30), <1>0, <1>1, <1>7, <1>8, ConnAssumption DEF PhaseInv
<1>12. ConnNotYet'
  <2>1. \A p \in Ports : time \notin ticks[p]
    BY SMTT(30), <1>1, <1>4, <1>5
  <2> QED BY ZenonT(30), <2>1, <1>1, <1>7 DEF ConnNotYet
<1>13. FlagInv'
  BY ZenonT(30), <1>0, <1>2 DEF FlagInv, EndFull
<1>14. AgentInv'
  BY ZenonT(30), <1>0, <1>1, <1>2, <1>4, <1>7 DEF AgentInv, Idle
<1>15. ConnInv'
  BY SMTT(30), <1>8 DEF ConnInv
<1> QED BY ZenonT(30), <1>3, <1>6, <1>10, <1>11, <1>12, <1>13, <1>14, <1>15 DEF IInv

\* An accepted Send wakes the connection at this very time (TickNow).
LEMMA SendStep ==
    ASSUME IInv, NEW p \in Ports, Send(p), UNCHANGED sysVars
    PROVE  IInv'
<1> USE PortFacts
<1>0. SysOK /\ TypeOK /\ TicksAhead /\ PhaseInv /\ ConnNotYet /\ FlagInv /\ AgentInv /\ ConnInv
  BY ZenonT(30) DEF IInv
<1>1. /\ phase[p] = "send" /\ MsgsToSend[p] # <<>> /\ Len(endBuf[p]) < BufSize
      /\ endBuf' = [endBuf EXCEPT ![p] = Append(@, Head(MsgsToSend[p]))]
      /\ MsgsToSend' = [MsgsToSend EXCEPT ![p] = Tail(@)]
      /\ UNCHANGED <<busy, portBuf, portBusy, received, phase, now, nextPortID>>
      /\ rep' = [rep EXCEPT ![p] = @ + 1] /\ progress' = progress \cup {p}
      /\ TickNow({Conn})
  BY SMTT(30), <1>0, ConnAssumption DEF Send, CanSend, EndFull, Again, TypeOK
<1>2. /\ ticks' \in [Tickers -> SUBSET Nat] /\ nextTickTime' \in [Tickers -> Nat]
      /\ TicksAhead'
      /\ ticks'[Conn] # {}
      /\ nextTickTime'[Conn] = now + 1 => now \in ticks'[Conn]
      /\ \A t \in Ports : ticks'[t] = ticks[t]
  BY ZenonT(30), <1>0, <1>1, TickNowFacts
<1>3. SysOK'
  BY ZenonT(30), <1>0 DEF SysOK, sysVars
<1>4. /\ MsgsToSend \in [Ports -> Seq(Message)] /\ endBuf \in [Ports -> Seq(Message)]
      /\ rep \in [Tickers -> Nat]
  BY ZenonT(30), <1>0 DEF TypeOK
<1>5. /\ MsgsToSend[p] \in Seq(Message) /\ Head(MsgsToSend[p]) \in Message
      /\ Tail(MsgsToSend[p]) \in Seq(Message) /\ endBuf[p] \in Seq(Message)
  BY SMTT(30), <1>1, <1>4
<1>6. /\ Append(endBuf[p], Head(MsgsToSend[p])) \in Seq(Message)
      /\ Len(Append(endBuf[p], Head(MsgsToSend[p]))) <= BufSize
      /\ Len(Append(endBuf[p], Head(MsgsToSend[p]))) = Len(endBuf[p]) + 1
  BY SMTT(30), <1>1, <1>5, ConnAssumption
<1>a. /\ \A q \in Ports : q # p => endBuf'[q] = endBuf[q]
      /\ endBuf'[p] \in Seq(Message) /\ Len(endBuf'[p]) <= BufSize
      /\ endBuf' \in [Ports -> Seq(Message)] /\ MsgsToSend' \in [Ports -> Seq(Message)]
  BY ZenonT(30), <1>1, <1>4, <1>5, <1>6
<1>7. TypeOK'
  <2>1. \A q \in Ports : Len(endBuf'[q]) <= BufSize /\ Len(portBuf'[q]) <= PortCap
    BY ZenonT(30), <1>0, <1>1, <1>a DEF TypeOK
  <2>a. p \in Tickers /\ rep[p] + 1 \in Nat /\ progress \subseteq Tickers
    BY SMTT(30), <1>0, <1>4 DEF TypeOK
  <2>2. rep' \in [Tickers -> Nat] /\ progress' \subseteq Tickers
    BY ZenonT(30), <1>1, <1>4, <2>a
  <2> QED BY ZenonT(30), <1>0, <1>1, <1>2, <1>a, <2>1, <2>2 DEF TypeOK
<1>8. PhaseInv'
  BY ZenonT(30), <1>0, <1>1, <1>2, <1>4 DEF PhaseInv
<1>9. ConnNotYet'
  BY ZenonT(30), <1>1, <1>2 DEF ConnNotYet
<1>10. FlagInv'
  <2>0. busy \subseteq Ports /\ \A q \in busy : Len(endBuf[q]) >= BufSize
    BY ZenonT(30), <1>0 DEF FlagInv, EndFull, TypeOK
  <2>a. Len(endBuf[p]) \in Nat /\ BufSize \in Nat
    BY SMTT(30), <1>5, ConnAssumption
  <2>1. p \notin busy
    BY SMTT(30), <1>1, <2>0, <2>a
  <2> QED BY ZenonT(30), <1>0, <1>1, <1>a, <2>0, <2>1 DEF FlagInv, EndFull
<1>11. AgentInv'
  BY ZenonT(30), <1>0, <1>1, <1>2, <1>4 DEF AgentInv
<1>12. phase[Conn] = "idle"
  BY ZenonT(30), <1>0, <1>1 DEF PhaseInv
<1>13. ConnInv'
  BY ZenonT(30), <1>1, <1>2, <1>12 DEF ConnInv
<1> QED BY ZenonT(30), <1>2, <1>3, <1>7, <1>8, <1>9, <1>10, <1>11, <1>13 DEF IInv

\* A rejected Send leaves its end marked busy, so a notification is owed.
LEMMA SendEndStep ==
    ASSUME IInv, NEW p \in Ports, SendEnd(p), UNCHANGED sysVars
    PROVE  IInv'
<1> USE PortFacts
<1>0. SysOK /\ TypeOK /\ TicksAhead /\ PhaseInv /\ ConnNotYet /\ FlagInv /\ AgentInv /\ ConnInv
  BY ZenonT(30) DEF IInv
<1>1. /\ phase[p] = "send" /\ (~CanSend(p) \/ EndFull(p))
      /\ busy' = IF CanSend(p) THEN busy \cup {p} ELSE busy
      /\ phase' = [phase EXCEPT ![p] = "recv"] /\ rep' = [rep EXCEPT ![p] = 0]
      /\ UNCHANGED <<MsgsToSend, endBuf, portBuf, portBusy, received, ticks,
                     nextTickTime, now, progress, nextPortID>>
  BY ZenonT(30) DEF SendEnd, MarkBusy, tickVars
<1>2. SysOK'
  BY ZenonT(30), <1>0 DEF SysOK, sysVars
<1>3. phase \in [Tickers -> {"idle", "send", "recv", "forward"}] /\ rep \in [Tickers -> Nat]
  BY ZenonT(30), <1>0 DEF TypeOK
<1>4. busy' = busy \/ busy' = busy \cup {p}
  BY ZenonT(30), <1>1
<1>5. TypeOK'
  <2>1. busy' \subseteq Ports
    BY ZenonT(30), <1>0, <1>4 DEF TypeOK
  <2> QED BY ZenonT(30), <1>0, <1>1, <1>3, <2>1 DEF TypeOK
<1>6. TicksAhead'
  BY ZenonT(30), <1>0, <1>1 DEF TicksAhead
<1>7. PhaseInv'
  BY ZenonT(30), <1>0, <1>1, <1>3 DEF PhaseInv
<1>8. ConnNotYet'
  BY ZenonT(30), <1>0, <1>1, <1>3 DEF ConnNotYet
<1>9. FlagInv'
  BY ZenonT(30), <1>0, <1>1 DEF FlagInv, EndFull
<1>10. AgentInv'
  <2>1. \A q \in Ports : q # p => phase'[q] = phase[q] /\ rep'[q] = rep[q] /\ (q \in busy' <=> q \in busy)
    BY ZenonT(30), <1>1, <1>3, <1>4
  <2>2. phase'[p] = "recv" /\ rep'[p] = 0
    BY ZenonT(30), <1>1, <1>3
  <2>3. MsgsToSend[p] # <<>> => p \in progress \/ p \in busy'
    <3>1. CASE CanSend(p)
      BY ZenonT(30), <1>1, <3>1
    <3>2. CASE ~CanSend(p) /\ MsgsToSend[p] # <<>>
      <4>1. rep[p] > 0
        BY SMTT(40), <3>2, <1>3, ConnAssumption DEF CanSend
      <4> QED BY ZenonT(30), <4>1, <1>0, <1>1 DEF AgentInv
    <3> QED BY ZenonT(30), <3>1, <3>2
  <2> QED BY SMTT(30), <2>1, <2>2, <2>3, <1>0, <1>1 DEF AgentInv
<1>11. ConnInv'
  BY ZenonT(30), <1>0, <1>1, <1>3 DEF ConnInv, Blocked, EndAt
<1> QED BY ZenonT(30), <1>2, <1>5, <1>6, <1>7, <1>8, <1>9, <1>10, <1>11 DEF IInv

\* Retrieve frees the incoming buffer and wakes the connection if it was full.
LEMMA RetrieveStep ==
    ASSUME IInv, NEW p \in Ports, Retrieve(p), UNCHANGED sysVars
    PROVE  IInv'
<1> USE PortFacts
<1>0. SysOK /\ TypeOK /\ TicksAhead /\ PhaseInv /\ ConnNotYet /\ FlagInv /\ AgentInv /\ ConnInv
  BY ZenonT(30) DEF IInv
<1>1. /\ phase[p] = "recv" /\ portBuf[p] # <<>>
      /\ received' = [received EXCEPT ![p] = Append(@, Head(portBuf[p]))]
      /\ portBuf' = [portBuf EXCEPT ![p] = Tail(@)]
      /\ portBusy' = portBusy \ {p}
      /\ UNCHANGED <<MsgsToSend, endBuf, busy, phase, now, nextPortID>>
      /\ rep' = [rep EXCEPT ![p] = @ + 1] /\ progress' = progress \cup {p}
      /\ TickNow(ToNotify(p))
  BY ZenonT(30) DEF Retrieve, Again
<1>2. ToNotify(p) \in SUBSET {Conn} /\ (p \in portBusy => Conn \in ToNotify(p))
  BY ZenonT(30) DEF ToNotify
<1>3. /\ ticks' \in [Tickers -> SUBSET Nat] /\ nextTickTime' \in [Tickers -> Nat]
      /\ TicksAhead'
      /\ p \in portBusy => ticks'[Conn] # {}
      /\ ticks[Conn] \subseteq ticks'[Conn]
      /\ nextTickTime'[Conn] = now + 1 => now \in ticks'[Conn]
      /\ \A t \in Ports : ticks'[t] = ticks[t]
  <2>1. phase[p] # "idle" /\ now' = now
    BY ZenonT(30), <1>1
  <2> QED BY ZenonT(30), <1>0, <1>1, <1>2, <2>1, TickNowFacts
<1>4. SysOK'
  BY ZenonT(30), <1>0 DEF SysOK, sysVars
<1>5. /\ received \in [Ports -> Seq(Message)] /\ portBuf \in [Ports -> Seq(Message)]
      /\ rep \in [Tickers -> Nat]
  BY ZenonT(30), <1>0 DEF TypeOK
<1>6. /\ Head(portBuf[p]) \in Message /\ Tail(portBuf[p]) \in Seq(Message)
      /\ Len(Tail(portBuf[p])) <= Len(portBuf[p]) /\ Len(portBuf[p]) \in Nat
      /\ Append(received[p], Head(portBuf[p])) \in Seq(Message)
  BY SMTT(30), <1>1, <1>5
<1>7. /\ \A q \in Ports : q # p => portBuf'[q] = portBuf[q]
      /\ portBuf'[p] = Tail(portBuf[p])
      /\ portBuf' \in [Ports -> Seq(Message)] /\ received' \in [Ports -> Seq(Message)]
  BY ZenonT(30), <1>1, <1>5, <1>6
<1>8. TypeOK'
  <2>1. \A q \in Ports : Len(endBuf'[q]) <= BufSize /\ Len(portBuf'[q]) <= PortCap
    <3>1. Len(portBuf[p]) <= PortCap
      BY ZenonT(30), <1>0 DEF TypeOK
    <3>2. Len(Tail(portBuf[p])) <= PortCap
      BY SMTT(30), <3>1, <1>5, <1>6, ConnAssumption
    <3> QED BY ZenonT(30), <3>2, <1>0, <1>1, <1>7 DEF TypeOK
  <2>2. /\ rep' \in [Tickers -> Nat] /\ progress' \subseteq Tickers
        /\ portBusy' \subseteq Ports
    <3>1. /\ p \in Tickers /\ rep[p] + 1 \in Nat /\ progress \subseteq Tickers
          /\ portBusy \subseteq Ports
      BY SMTT(40), <1>0, <1>5 DEF TypeOK
    <3> QED BY ZenonT(30), <1>1, <1>5, <3>1
  <2> QED BY ZenonT(30), <1>0, <1>1, <1>3, <1>7, <2>1, <2>2 DEF TypeOK
<1>9. PhaseInv'
  BY ZenonT(30), <1>0, <1>1, <1>3, <1>5 DEF PhaseInv
<1>10. ConnNotYet'
  BY ZenonT(30), <1>1, <1>3 DEF ConnNotYet
<1>11. FlagInv'
  <2>1. portBusy \subseteq Ports
    BY ZenonT(30), <1>0 DEF TypeOK
  <2> QED BY ZenonT(30), <1>0, <1>1, <1>7, <2>1 DEF FlagInv, EndFull
<1>12. AgentInv'
  BY ZenonT(30), <1>0, <1>1, <1>3, <1>5, <1>7 DEF AgentInv
<1>13. phase[Conn] = "idle"
  BY ZenonT(30), <1>0, <1>1 DEF PhaseInv
<1>14. ConnInv'
  <2>1. CASE ticks'[Conn] # {}
    BY ZenonT(30), <2>1, <1>1, <1>13 DEF ConnInv
  <2>2. CASE ticks'[Conn] = {}
    <3>1. ticks[Conn] = {} /\ p \notin portBusy
      BY ZenonT(30), <2>2, <1>3
    <3> QED BY ZenonT(30), <3>1, <1>0, <1>1, <1>13 DEF ConnInv, Blocked
  <2> QED BY ZenonT(30), <2>1, <2>2
<1> QED BY ZenonT(30), <1>3, <1>4, <1>8, <1>9, <1>10, <1>11, <1>12, <1>14 DEF IInv

\* The end of an agent tick: with progress the agent ticks again.
LEMMA RecvEndStep ==
    ASSUME IInv, NEW p \in Ports, RecvEnd(p), UNCHANGED sysVars
    PROVE  IInv'
<1> USE PortFacts
<1>0. SysOK /\ TypeOK /\ TicksAhead /\ PhaseInv /\ ConnNotYet /\ FlagInv /\ AgentInv /\ ConnInv
  BY ZenonT(30) DEF IInv
<1> DEFINE T == IF p \in progress THEN {p} ELSE {}
<1>1. /\ phase[p] = "recv" /\ (rep[p] = PerTick \/ portBuf[p] = <<>>)
      /\ phase' = [phase EXCEPT ![p] = "idle"] /\ rep' = [rep EXCEPT ![p] = 0]
      /\ progress' = progress \ {p} /\ TickLater(T)
      /\ UNCHANGED <<MsgsToSend, endBuf, busy, portBuf, portBusy, received, now, nextPortID>>
  BY ZenonT(30) DEF RecvEnd, Finish, dataVars
<1>2. T \in SUBSET Tickers /\ (\A t \in T : t = p) /\ (p \in progress => p \in T)
  OBVIOUS
<1> HIDE DEF T
<1>3. /\ ticks' \in [Tickers -> SUBSET Nat] /\ nextTickTime' \in [Tickers -> Nat]
      /\ TicksAhead'
      /\ \A t \in T : ticks'[t] # {}
      /\ \A t \in Tickers : ticks[t] \subseteq ticks'[t]
      /\ \A t \in T : \A x \in ticks'[t] : x \in ticks[t] \/ x > now
      /\ \A t \in Tickers \ T : ticks'[t] = ticks[t] /\ nextTickTime'[t] = nextTickTime[t]
  BY ZenonT(30), <1>0, <1>1, <1>2, TickLaterFacts
<1>4. /\ \A t \in Tickers : t # p => ticks'[t] = ticks[t] /\ nextTickTime'[t] = nextTickTime[t]
      /\ p \in progress => ticks'[p] # {}
      /\ \A x \in ticks'[p] : x \in ticks[p] \/ x > now
  BY ZenonT(30), <1>2, <1>3
<1>5. SysOK'
  BY ZenonT(30), <1>0 DEF SysOK, sysVars
<1>6. /\ phase \in [Tickers -> {"idle", "send", "recv", "forward"}] /\ rep \in [Tickers -> Nat]
      /\ now \in Nat
  BY ZenonT(30), <1>0 DEF TypeOK
<1>7. TypeOK'
  BY ZenonT(30), <1>0, <1>1, <1>3 DEF TypeOK
<1>8. PhaseInv'
  BY ZenonT(30), <1>0, <1>1, <1>6 DEF PhaseInv
<1>9. ConnNotYet'
  BY ZenonT(30), <1>0, <1>1, <1>4, <1>6 DEF ConnNotYet
<1>10. FlagInv'
  BY ZenonT(30), <1>0, <1>1 DEF FlagInv, EndFull
<1>11. AgentInv'
  <2>1. \A q \in Ports : q # p => phase'[q] = phase[q] /\ rep'[q] = rep[q]
                                  /\ (q \in progress' <=> q \in progress)
    BY ZenonT(30), <1>1, <1>6
  <2>2. phase'[p] = "idle"
    BY ZenonT(30), <1>1, <1>6
  <2>3. ticks'[p] = {} => portBuf[p] = <<>> /\ (MsgsToSend[p] = <<>> \/ p \in busy)
    <3> SUFFICES ASSUME ticks'[p] = {}
                 PROVE  portBuf[p] = <<>> /\ (MsgsToSend[p] = <<>> \/ p \in busy)
      OBVIOUS
    <3>1. p \notin progress
      BY ZenonT(30), <1>4
    <3>2. ~(rep[p] > 0)
      BY ZenonT(30), <3>1, <1>0, <1>1 DEF AgentInv
    <3>3. portBuf[p] = <<>>
      BY SMTT(40), <3>2, <1>1, <1>6, ConnAssumption
    <3> QED BY ZenonT(30), <3>1, <3>3, <1>0, <1>1 DEF AgentInv
  <2> QED BY SMTT(30), <2>1, <2>2, <2>3, <1>0, <1>1, <1>4 DEF AgentInv
<1>12. ConnInv'
  BY ZenonT(30), <1>0, <1>1, <1>4, <1>6 DEF ConnInv, Blocked, EndAt
<1> QED BY ZenonT(30), <1>3, <1>5, <1>7, <1>8, <1>9, <1>10, <1>11, <1>12 DEF IInv

\* A delivery wakes the receiver, and the sender if its end was busy.
LEMMA DeliverStep ==
    ASSUME IInv, Deliver, UNCHANGED sysVars
    PROVE  IInv'
<1> USE PortFacts
<1>0. SysOK /\ TypeOK /\ TicksAhead /\ PhaseInv /\ ConnNotYet /\ FlagInv /\ AgentInv /\ ConnInv
  BY ZenonT(30) DEF IInv
<1> DEFINE e == EndAt(rep[Conn])
           m == Head(endBuf[e])
           d == m.dst
           T == ToWake(e, d)
<1>1. /\ phase[Conn] = "forward" /\ rep[Conn] < NumPorts
      /\ endBuf[e] # <<>> /\ Len(portBuf[d]) < PortCap
      /\ portBuf' = [portBuf EXCEPT ![d] = Append(@, m)]
      /\ endBuf' = [endBuf EXCEPT ![e] = Tail(@)]
      /\ busy' = busy \ {e}
      /\ TickLater(T)
      /\ progress' = progress \cup {Conn}
      /\ UNCHANGED <<MsgsToSend, portBusy, received, now, phase, rep, nextPortID>>
  BY ZenonT(40) DEF Deliver, Delivered
<1>a. /\ rep[Conn] \in 0..(NumPorts - 1) /\ nextPortID \in 0..(NumPorts - 1)
      /\ NumPorts \in Nat \ {0}
  BY SMTT(40), <1>0, <1>1, ConnAssumption DEF TypeOK, Ports
<1>2. e \in Ports
  <2>1. rep[Conn] + nextPortID \in 0..(2 * NumPorts - 1)
    BY SMTT(30), <1>a
  <2> QED BY ZenonT(30), <2>1, <1>a, ModCases DEF EndAt, Ports
<1> HIDE DEF e
<1>3. /\ portBuf \in [Ports -> Seq(Message)] /\ endBuf \in [Ports -> Seq(Message)]
      /\ now \in Nat /\ rep \in [Tickers -> Nat]
      /\ busy \subseteq Ports /\ portBusy \subseteq Ports
  BY ZenonT(30), <1>0 DEF TypeOK
<1>4. /\ endBuf[e] \in Seq(Message) /\ m \in Message /\ Tail(endBuf[e]) \in Seq(Message)
      /\ Len(Tail(endBuf[e])) <= Len(endBuf[e]) /\ Len(endBuf[e]) \in Nat
  BY SMTT(30), <1>1, <1>2, <1>3
<1>5. d \in Ports
  BY ZenonT(30), <1>4 DEF Message
<1> HIDE DEF m, d
<1>6. T \in SUBSET Tickers /\ d \in T /\ (e \in busy => e \in T) /\ T \subseteq {d, e} /\ Conn \notin T
  BY ZenonT(30), <1>2, <1>5 DEF ToWake
<1> HIDE DEF T
<1>7. /\ ticks' \in [Tickers -> SUBSET Nat] /\ nextTickTime' \in [Tickers -> Nat]
      /\ TicksAhead'
      /\ \A t \in T : ticks'[t] # {}
      /\ \A t \in Tickers : ticks[t] \subseteq ticks'[t]
      /\ \A t \in T : \A x \in ticks'[t] : x \in ticks[t] \/ x > now
      /\ \A t \in Tickers \ T : ticks'[t] = ticks[t] /\ nextTickTime'[t] = nextTickTime[t]
  BY ZenonT(30), <1>0, <1>1, <1>6, TickLaterFacts
<1>8. SysOK'
  BY ZenonT(30), <1>0 DEF SysOK, sysVars
<1>9. /\ portBuf[d] \in Seq(Message) /\ Append(portBuf[d], m) \in Seq(Message)
      /\ Len(Append(portBuf[d], m)) <= PortCap
  BY SMTT(30), <1>1, <1>3, <1>4, <1>5, ConnAssumption
<1>10. /\ endBuf' \in [Ports -> Seq(Message)] /\ portBuf' \in [Ports -> Seq(Message)]
       /\ \A q \in Ports : q # e => endBuf'[q] = endBuf[q]
       /\ \A q \in Ports : q # d => portBuf'[q] = portBuf[q]
       /\ endBuf'[e] = Tail(endBuf[e]) /\ portBuf'[d] = Append(portBuf[d], m)
  BY ZenonT(30), <1>1, <1>2, <1>3, <1>4, <1>5, <1>9
<1>11. TypeOK'
  <2>1. \A q \in Ports : Len(endBuf'[q]) <= BufSize /\ Len(portBuf'[q]) <= PortCap
    <3>1. Len(endBuf[e]) <= BufSize
      BY ZenonT(30), <1>0, <1>2 DEF TypeOK
    <3>2. Len(Tail(endBuf[e])) <= BufSize
      BY SMTT(30), <3>1, <1>4, ConnAssumption
    <3> QED BY ZenonT(30), <3>2, <1>0, <1>9, <1>10 DEF TypeOK
  <2>2. progress' \subseteq Tickers /\ busy' \subseteq Ports
    BY ZenonT(30), <1>0, <1>1 DEF TypeOK
  <2> QED BY ZenonT(30), <1>0, <1>1, <1>7, <1>10, <2>1, <2>2 DEF TypeOK
<1>12. \A p \in Ports : phase[p] = "idle" /\ \A x \in ticks[p] : x > now
  BY ZenonT(30), <1>0, <1>1 DEF PhaseInv
<1>13. \A p \in Ports : \A x \in ticks'[p] : x > now
  <2> SUFFICES ASSUME NEW p \in Ports, NEW x \in ticks'[p] PROVE x > now
    OBVIOUS
  <2>1. CASE p \in T
    BY ZenonT(30), <2>1, <1>7, <1>12
  <2>2. CASE p \notin T
    BY ZenonT(30), <2>2, <1>7, <1>12
  <2> QED BY ZenonT(30), <2>1, <2>2
<1>14. PhaseInv'
  BY ZenonT(30), <1>0, <1>1, <1>13 DEF PhaseInv
<1>15. ConnNotYet'
  BY SMTT(30), <1>1, <1>3, <1>12, <1>13 DEF ConnNotYet
<1>16. FlagInv'
  <2>1. d \notin portBusy
    <3>1. \A q \in portBusy : Len(portBuf[q]) >= PortCap
      BY ZenonT(30), <1>0 DEF FlagInv
    <3>2. Len(portBuf[d]) \in Nat /\ PortCap \in Nat
      BY SMTT(30), <1>9, ConnAssumption
    <3> QED BY SMTT(30), <3>1, <3>2, <1>1
  <2> QED BY ZenonT(30), <2>1, <1>0, <1>1, <1>3, <1>10 DEF FlagInv, EndFull
<1>17. AgentInv'
  <2> SUFFICES ASSUME NEW p \in Ports, ticks'[p] = {}
               PROVE  portBuf'[p] = <<>> /\ (MsgsToSend[p] = <<>> \/ p \in busy')
    BY ZenonT(30), <1>1, <1>12 DEF AgentInv
  <2>1. p \notin T /\ ticks[p] = {}
    BY ZenonT(30), <1>7
  <2>2. p # d /\ portBuf'[p] = portBuf[p] /\ (p = e => p \notin busy)
    BY ZenonT(30), <2>1, <1>6, <1>10
  <2>3. portBuf[p] = <<>> /\ (MsgsToSend[p] = <<>> \/ p \in busy)
    BY ZenonT(30), <2>1, <1>0, <1>12 DEF AgentInv
  <2> QED BY ZenonT(30), <2>2, <2>3, <1>1
<1>18. ConnInv'
  <2>1. \A i \in 0..NumPorts : i < rep[Conn] => EndAt(i) \in Ports /\ EndAt(i) # e
    <3> SUFFICES ASSUME NEW i \in 0..NumPorts, i < rep[Conn]
                 PROVE  EndAt(i) \in Ports /\ EndAt(i) # e
      OBVIOUS
    <3>1. i \in 0..(NumPorts - 1) /\ i # rep[Conn]
      BY SMTT(30), <1>a
    <3>2. (i + nextPortID) % NumPorts \in 0..(NumPorts - 1)
          /\ (i + nextPortID) % NumPorts # (rep[Conn] + nextPortID) % NumPorts
      BY <3>1, <1>a, EndsDiffer, ZenonT(30)
    <3> QED BY ZenonT(30), <3>2 DEF e, EndAt, Ports
  <2>2. \A i \in 0..NumPorts : i < rep[Conn] => Blocked(EndAt(i))
    BY ZenonT(30), <1>0, <1>1 DEF ConnInv
  <2> QED BY ZenonT(30), <2>1, <2>2, <1>1, <1>10 DEF ConnInv, Blocked, EndAt
<1> QED BY ZenonT(30), <1>7, <1>8, <1>11, <1>14, <1>15, <1>16, <1>17, <1>18 DEF IInv

\* forwardMany leaves an end: it is empty, or its receiver is marked busy.
LEMMA NextEndStep ==
    ASSUME IInv, NextEnd, UNCHANGED sysVars
    PROVE  IInv'
<1> USE PortFacts
<1>0. SysOK /\ TypeOK /\ TicksAhead /\ PhaseInv /\ ConnNotYet /\ FlagInv /\ AgentInv /\ ConnInv
  BY ZenonT(30) DEF IInv
<1> DEFINE e == EndAt(rep[Conn])
           d == Head(endBuf[e]).dst
<1>1. /\ phase[Conn] = "forward" /\ rep[Conn] < NumPorts
      /\ \/ endBuf[e] = <<>> /\ portBusy' = portBusy
         \/ /\ endBuf[e] # <<>> /\ Len(portBuf[d]) >= PortCap
            /\ portBusy' = portBusy \cup {d}
      /\ rep' = [rep EXCEPT ![Conn] = @ + 1]
      /\ UNCHANGED <<MsgsToSend, endBuf, busy, portBuf, received, ticks, nextTickTime,
                     now, phase, progress, nextPortID>>
  BY ZenonT(30) DEF NextEnd, tickVars
<1>2. /\ rep[Conn] \in 0..(NumPorts - 1) /\ nextPortID \in 0..(NumPorts - 1)
      /\ NumPorts \in Nat \ {0} /\ rep \in [Tickers -> Nat]
      /\ endBuf \in [Ports -> Seq(Message)]
  <2>1. /\ rep \in [Tickers -> Nat] /\ nextPortID \in Ports
        /\ endBuf \in [Ports -> Seq(Message)] /\ NumPorts \in Nat \ {0}
    BY ZenonT(30), <1>0, ConnAssumption DEF TypeOK
  <2>2. rep[Conn] \in Nat /\ rep[Conn] < NumPorts
    BY ZenonT(30), <2>1, <1>1
  <2> QED BY SMTT(40), <2>1, <2>2 DEF Ports
<1>3. e \in Ports
  <2>1. rep[Conn] + nextPortID \in 0..(2 * NumPorts - 1)
    BY SMTT(30), <1>2
  <2> QED BY ZenonT(30), <2>1, <1>2, ModCases DEF EndAt, Ports
<1>4. endBuf[e] # <<>> => d \in Ports
  <2>1. endBuf[e] # <<>> => Head(endBuf[e]) \in Message
    BY SMTT(30), <1>2, <1>3
  <2> QED BY ZenonT(30), <2>1 DEF Message
<1>5. /\ portBusy \subseteq portBusy' /\ portBusy' \subseteq Ports
      /\ endBuf[e] = <<>> \/ d \in portBusy'
      /\ \A q \in portBusy' : q \in portBusy \/ Len(portBuf[q]) >= PortCap
  BY ZenonT(30), <1>0, <1>1, <1>4 DEF TypeOK
<1>6. rep'[Conn] = rep[Conn] + 1 /\ \A p \in Ports : rep'[p] = rep[p]
  BY ZenonT(30), <1>1, <1>2
<1>7. SysOK'
  BY ZenonT(30), <1>0 DEF SysOK, sysVars
<1>8. TypeOK'
  <2>1. rep' \in [Tickers -> Nat]
    BY SMTT(30), <1>1, <1>2
  <2> QED BY <2>1, <1>0, <1>1, <1>5, ZenonT(30) DEF TypeOK
<1>9. TicksAhead'
  BY ZenonT(30), <1>0, <1>1 DEF TicksAhead
<1>10. PhaseInv'
  BY SMTT(30), <1>0, <1>1, <1>2, <1>6 DEF PhaseInv
<1>11. ConnNotYet'
  BY ZenonT(30), <1>0, <1>1 DEF ConnNotYet
<1>12. FlagInv'
  BY ZenonT(30), <1>0, <1>1, <1>5 DEF FlagInv, EndFull
<1>13. AgentInv'
  BY ZenonT(30), <1>0, <1>1, <1>6 DEF AgentInv
<1>14. ConnInv'
  <2> SUFFICES ASSUME NEW i \in 0..NumPorts, i < rep[Conn] + 1
               PROVE  endBuf[EndAt(i)] = <<>> \/ Head(endBuf[EndAt(i)]).dst \in portBusy'
    BY Zenon, <1>1, <1>6 DEF ConnInv, Blocked, EndAt
  <2>1. CASE i = rep[Conn]
    BY ZenonT(30), <2>1, <1>5
  <2>2. CASE i # rep[Conn]
    <3>1. i < rep[Conn]
      BY SMTT(30), <2>2, <1>2
    <3> QED BY ZenonT(30), <3>1, <1>0, <1>1, <1>5 DEF ConnInv, Blocked
  <2> QED BY ZenonT(30), <2>1, <2>2
<1> QED BY ZenonT(30), <1>7, <1>8, <1>9, <1>10, <1>11, <1>12, <1>13, <1>14 DEF IInv

\* The end of the connection tick: with progress it ticks again.
LEMMA ConnEndStep ==
    ASSUME IInv, ConnEnd, UNCHANGED sysVars
    PROVE  IInv'
<1> USE PortFacts
<1>0. SysOK /\ TypeOK /\ TicksAhead /\ PhaseInv /\ ConnNotYet /\ FlagInv /\ AgentInv /\ ConnInv
  BY ZenonT(30) DEF IInv
<1> DEFINE T == IF Conn \in progress THEN {Conn} ELSE {}
<1>1. /\ phase[Conn] = "forward" /\ rep[Conn] = NumPorts
      /\ nextPortID' = (nextPortID + 1) % NumPorts
      /\ phase' = [phase EXCEPT ![Conn] = "idle"] /\ rep' = [rep EXCEPT ![Conn] = 0]
      /\ progress' = progress \ {Conn} /\ TickLater(T)
      /\ UNCHANGED <<MsgsToSend, endBuf, busy, portBuf, portBusy, received, now>>
  BY ZenonT(30) DEF ConnEnd, Finish, dataVars
<1>2. T \in SUBSET Tickers /\ (\A t \in T : t = Conn)
  OBVIOUS
<1> HIDE DEF T
<1>3. /\ ticks' \in [Tickers -> SUBSET Nat] /\ nextTickTime' \in [Tickers -> Nat]
      /\ TicksAhead'
      /\ \A t \in Tickers : ticks[t] \subseteq ticks'[t]
      /\ \A t \in Tickers \ T : ticks'[t] = ticks[t] /\ nextTickTime'[t] = nextTickTime[t]
  BY ZenonT(30), <1>0, <1>1, <1>2, TickLaterFacts
<1>4. \A p \in Ports : ticks'[p] = ticks[p]
  BY ZenonT(30), <1>2, <1>3
<1>5. /\ phase \in [Tickers -> {"idle", "send", "recv", "forward"}] /\ rep \in [Tickers -> Nat]
      /\ now \in Nat /\ NumPorts \in Nat \ {0} /\ nextPortID \in 0..(NumPorts - 1)
  BY ZenonT(30), <1>0, ConnAssumption DEF TypeOK, Ports
<1>6. nextPortID' \in Ports
  <2>1. nextPortID + 1 \in 0..(2 * NumPorts - 1)
    BY SMTT(30), <1>5
  <2> QED BY ZenonT(30), <2>1, <1>1, <1>5, ModCases DEF Ports
<1>7. SysOK'
  BY ZenonT(30), <1>0 DEF SysOK, sysVars
<1>8. TypeOK'
  <2>1. /\ phase' \in [Tickers -> {"idle", "send", "recv", "forward"}]
        /\ rep' \in [Tickers -> Nat] /\ progress' \subseteq Tickers
    BY ZenonT(30), <1>0, <1>1, <1>5 DEF TypeOK
  <2> QED BY <1>0, <1>1, <1>3, <1>6, <2>1, ZenonT(30) DEF TypeOK
<1>9. /\ \A p \in Ports : phase'[p] = "idle" /\ phase[p] = "idle" /\ \A x \in ticks[p] : x > now
      /\ phase'[Conn] = "idle" /\ rep'[Conn] = 0
  BY ZenonT(30), <1>0, <1>1, <1>5 DEF PhaseInv
<1>10. PhaseInv'
  BY SMTT(30), <1>5, <1>9 DEF PhaseInv
<1>11. ConnNotYet'
  <2>1. \A p \in Ports : now \notin ticks'[p]
    BY SMTT(30), <1>4, <1>5, <1>9
  <2> QED BY ZenonT(30), <2>1, <1>1, <1>9 DEF ConnNotYet
<1>12. FlagInv'
  BY ZenonT(30), <1>0, <1>1 DEF FlagInv, EndFull
<1>13. AgentInv'
  BY ZenonT(30), <1>0, <1>1, <1>4, <1>9 DEF AgentInv
<1>14. \A p \in Ports : Blocked(p)
  <2> SUFFICES ASSUME NEW p \in Ports PROVE Blocked(p)
    OBVIOUS
  <2>0. p \in 0..(NumPorts - 1)
    BY ZenonT(30) DEF Ports
  <2>1. PICK i \in 0..(NumPorts - 1) : (i + nextPortID) % NumPorts = p
    BY <1>5, <2>0, RoundRobin, ZenonT(30)
  <2>2. i \in 0..NumPorts /\ i < rep[Conn] /\ EndAt(i) = p
    BY SMTT(30), <2>1, <1>1, <1>5 DEF EndAt
  <2> QED BY ZenonT(30), <2>2, <1>0, <1>1 DEF ConnInv
<1>15. ConnInv'
  BY ZenonT(30), <1>1, <1>9, <1>14 DEF ConnInv, Blocked
<1> QED BY ZenonT(30), <1>3, <1>7, <1>8, <1>10, <1>11, <1>12, <1>13, <1>15 DEF IInv

\* Stuttering steps keep the invariant.
LEMMA StutterStep == ASSUME IInv, UNCHANGED vars PROVE IInv'
<1>1. /\ UNCHANGED <<MsgsToSend, endBuf, busy, portBuf, portBusy, received>>
      /\ UNCHANGED <<ticks, nextTickTime, now, phase, rep, progress, nextPortID>>
      /\ UNCHANGED <<traffic, period>>
  BY ZenonT(30) DEF vars, dataVars, tickVars, runVars, sysVars
<1> QED BY ZenonT(30), <1>1 DEF IInv, SysOK, TypeOK, TicksAhead, PhaseInv, ConnNotYet, FlagInv,
                    EndFull, AgentInv, ConnInv, Blocked, EndAt

\* The invariant holds before the first event.
LEMMA InitInv == Init => IInv
<1> SUFFICES ASSUME Init PROVE IInv
  OBVIOUS
<1> USE PortFacts, ConnAssumption
<1>1. SysOK /\ now = 0 /\ nextPortID = 0
  BY ZenonT(30) DEF Init, SysOK
<1>2. \A t \in Tickers : period[t] \in Nat \ {0}
  BY ZenonT(30), <1>1 DEF SysOK
<1>3. \A t \in Tickers : NextTick(t, 0) \in Nat /\ NextTick(t, 0) > 0
  BY ZenonT(30), <1>2, NextTickLater DEF NextTick
<1>4. /\ ticks = [t \in Tickers |-> IF t = Conn THEN {} ELSE {NextTick(t, 0)}]
      /\ nextTickTime = [t \in Tickers |-> IF t = Conn THEN 0 ELSE NextTick(t, 0) + 1]
      /\ phase = [t \in Tickers |-> "idle"] /\ rep = [t \in Tickers |-> 0] /\ progress = {}
      /\ endBuf = [p \in Ports |-> <<>>] /\ busy = {}
      /\ portBuf = [p \in Ports |-> <<>>] /\ portBusy = {}
      /\ received = [p \in Ports |-> <<>>]
      /\ MsgsToSend = [p \in Ports |-> ToSend(p)]
  BY ZenonT(30) DEF Init
<1> HIDE DEF NextTick
<1>5. /\ ticks \in [Tickers -> SUBSET Nat] /\ nextTickTime \in [Tickers -> Nat]
      /\ \A t \in Tickers : \A x \in ticks[t] : x > 0 /\ x + 1 = nextTickTime[t]
      /\ \A t \in Tickers : nextTickTime[t] > 0 => nextTickTime[t] - 1 \in ticks[t]
      /\ ticks[Conn] = {} /\ nextTickTime[Conn] = 0
      /\ \A p \in Ports : ticks[p] # {}
  <2>1. \A t \in Tickers :
          /\ ticks[t] = IF t = Conn THEN {} ELSE {NextTick(t, 0)}
          /\ nextTickTime[t] = IF t = Conn THEN 0 ELSE NextTick(t, 0) + 1
    BY ZenonT(30), <1>4
  <2>2. ticks \in [Tickers -> SUBSET Nat] /\ nextTickTime \in [Tickers -> Nat]
    BY SMTT(30), <1>3, <1>4
  <2>3. ASSUME NEW t \in Tickers
        PROVE  /\ \A x \in ticks[t] : x > 0 /\ x + 1 = nextTickTime[t]
               /\ nextTickTime[t] > 0 => nextTickTime[t] - 1 \in ticks[t]
    <3>1. CASE t = Conn
      <4>1. ticks[t] = {} /\ nextTickTime[t] = 0
        BY ZenonT(30), <3>1, <2>1
      <4> QED BY SMTT(30), <4>1
    <3>2. CASE t # Conn
      <4>1. /\ ticks[t] = {NextTick(t, 0)} /\ nextTickTime[t] = NextTick(t, 0) + 1
            /\ NextTick(t, 0) \in Nat /\ NextTick(t, 0) > 0
        BY ZenonT(30), <3>2, <2>1, <1>3
      <4> QED BY SMTT(30), <4>1
    <3> QED BY ZenonT(30), <3>1, <3>2
  <2> QED BY SMTT(30), <2>1, <2>2, <2>3
<1>6. \A p \in Ports : ToSend(p) \in Seq(Message)
  <2> SUFFICES ASSUME NEW p \in Ports PROVE ToSend(p) \in Seq(Message)
    OBVIOUS
  <2>1. traffic[p] \in Seq(Ports)
    BY ZenonT(30), <1>1 DEF SysOK
  <2>2. \A i \in 1..Len(traffic[p]) : [src |-> p, dst |-> traffic[p][i], num |-> i] \in Message
    BY SMTT(30), <2>1 DEF Message
  <2>3. Len(traffic[p]) \in Nat
    BY SMTT(30), <2>1
  <2> QED BY SMTT(30), <2>2, <2>3 DEF ToSend
<1>7. TypeOK
  <2>1. MsgsToSend \in [Ports -> Seq(Message)]
    BY ZenonT(30), <1>4, <1>6
  <2>2. \A p \in Ports : Len(endBuf[p]) <= BufSize /\ Len(portBuf[p]) <= PortCap
    BY SMTT(30), <1>4
  <2>3. nextPortID \in Ports
    BY SMTT(30), <1>1 DEF Ports
  <2> QED BY SMTT(40), <1>1, <1>4, <1>5, <2>1, <2>2, <2>3 DEF TypeOK
<1>8. TicksAhead
  BY SMTT(30), <1>1, <1>5 DEF TicksAhead
<1>9. PhaseInv
  BY SMTT(30), <1>4 DEF PhaseInv
<1>10. ConnNotYet
  BY SMTT(30), <1>1, <1>5 DEF ConnNotYet
<1>11. FlagInv /\ AgentInv /\ ConnInv
  BY ZenonT(30), <1>4, <1>5 DEF FlagInv, AgentInv, ConnInv, Blocked
<1> QED BY ZenonT(30), <1>1, <1>7, <1>8, <1>9, <1>10, <1>11 DEF IInv

\* IInv is an inductive invariant: the flags, the scheduled ticks and the buffers
\* fit together after every step of every agent and of the connection.
THEOREM Invariance == Spec => []IInv
<1>1. IInv /\ [Next]_vars => IInv'
  <2> SUFFICES ASSUME IInv, [Next]_vars PROVE IInv'
    OBVIOUS
  <2>1. CASE UNCHANGED vars
    BY ZenonT(30), <2>1, StutterStep
  <2>2. CASE Next
    <3>1. UNCHANGED sysVars
      BY ZenonT(30), <2>2 DEF Next
    <3>2. CASE Connection
      BY ZenonT(30), <3>1, <3>2, StartConnStep, DeliverStep, NextEndStep, ConnEndStep DEF Connection
    <3>3. ASSUME NEW p \in Ports, Agent(p) PROVE IInv'
      BY ZenonT(30), <3>1, <3>3, StartAgentStep, SendStep, SendEndStep, RetrieveStep, RecvEndStep
         DEF Agent
    <3> QED BY ZenonT(30), <2>2, <3>2, <3>3 DEF Next
  <2> QED BY ZenonT(30), <2>1, <2>2
<1> QED BY InitInv, <1>1, PTL DEF Spec

\* No wake-up is ever lost, for every number of agents, traffic, clock periods and
\* buffer sizes: an agent or a connection with something to do has a tick scheduled.
THEOREM NoLostWakeup == Spec => []NoMissedWakeup
<1>1. IInv => NoMissedWakeup
  <2> SUFFICES ASSUME IInv, Idle PROVE /\ \A p \in Ports : AgentCanMove(p) => ticks[p] # {}
                                       /\ ConnCanMove => ticks[Conn] # {}
    BY ZenonT(30) DEF NoMissedWakeup
  <2>0. AgentInv /\ ConnInv /\ FlagInv /\ TypeOK
    BY ZenonT(30) DEF IInv
  <2>1. \A t \in Tickers : phase[t] = "idle"
    BY ZenonT(30) DEF Idle
  <2>2. ASSUME NEW p \in Ports, AgentCanMove(p) PROVE ticks[p] # {}
    BY ZenonT(30), <2>0, <2>1, <2>2, PortFacts DEF AgentInv, FlagInv, AgentCanMove
  <2>3. ASSUME ConnCanMove PROVE ticks[Conn] # {}
    <3>1. PICK p \in Ports : endBuf[p] # <<>> /\ Len(portBuf[Head(endBuf[p]).dst]) < PortCap
      BY ZenonT(30), <2>3 DEF ConnCanMove
    <3>2. Head(endBuf[p]) \in Message
      BY SMTT(30), <2>0, <3>1 DEF TypeOK
    <3>3. Head(endBuf[p]).dst \in Ports
      BY ZenonT(30), <3>2 DEF Message
    <3>4. Len(portBuf[Head(endBuf[p]).dst]) \in Nat /\ PortCap \in Nat
      BY SMTT(30), <2>0, <3>3, ConnAssumption DEF TypeOK
    <3>5. Head(endBuf[p]).dst \notin portBusy
      BY SMTT(30), <3>1, <3>4, <2>0 DEF FlagInv
    <3>6. ~Blocked(p)
      BY ZenonT(30), <3>1, <3>5 DEF Blocked
    <3> QED BY ZenonT(30), <3>6, <2>0, <2>1, PortFacts DEF ConnInv
  <2> QED BY ZenonT(30), <2>2, <2>3
<1> QED BY <1>1, Invariance, PTL

\* Every buffer keeps its bound and every variable its type.
THEOREM TypeCorrect == Spec => []TypeOK
<1>1. IInv => TypeOK
  BY ZenonT(30) DEF IInv
<1> QED BY <1>1, Invariance, PTL

\* No tick is scheduled for the past, and a request for a tick is dropped only in
\* favour of a tick that is still to come.
THEOREM TicksNeverPast == Spec => []TicksAhead
<1>1. IInv => TicksAhead
  BY ZenonT(30) DEF IInv
<1> QED BY <1>1, Invariance, PTL
=============================================================================
