----------------------------- MODULE RDMAEngine ------------------------------
(***************************************************************************)
(* The chiplets' RDMA engines (mgpusim/rdma/rdmaengine.go), through which   *)
(* the caches and the MMU of one chiplet reach the L2 caches of another,    *)
(* the network between them, and the drain and the restart that surround a  *)
(* page migration. Each step of Tick on one message is an action. An access *)
(* names itself: the copies an engine makes of it have new IDs, and each    *)
(* kind of copy is told apart by the port it is in.                         *)
(***************************************************************************)
EXTENDS Integers, Sequences, FiniteSets, Functions

CONSTANTS Chiplets, Accesses,
          Src, Home,        \* the chiplet an access is made on, and its data's
          Via,              \* the port it enters the engine by: ToL1 or PwPort
          PortCap, EndCap, MaxDrains

\* An access is made on one chiplet and has its data on one; ports and connections
\* have room for a message.
ASSUME RDMAAssumption ==
    /\ IsFiniteSet(Chiplets)
    /\ Src \in [Accesses -> Chiplets] /\ Home \in [Accesses -> Chiplets]
    /\ Via \in [Accesses -> {"ToL1", "PwPort"}]
    /\ PortCap \in Nat \ {0} /\ EndCap \in Nat \ {0}

VARIABLES
    in,         \* per engine and port, the messages it has received
    end,        \* per engine and port, those it has sent, still in the connection
    fromInside, fromOutside,    \* transactionsFromInside, transactionsFromOutside
    isDraining, paused,
    made,       \* accesses made so far
    got,        \* the answers the chiplets' caches have taken
    atL2,       \* per chiplet, the reads and writes its L2 has not answered
    driver,     \* what the driver is doing
    acks, drains
vars == <<in, end, fromInside, fromOutside, isDraining, paused, made, got, atL2, driver,
          acks, drains>>

Ports == {"ToL1", "PwPort", "ToL2", "RequestPort", "ResponsePort", "CtrlPort"}
engine == <<fromInside, fromOutside, isDraining, paused>>
outside == <<made, got, atL2>>
control == <<driver, acks, drains>>

Init ==
    /\ in = [c \in Chiplets |-> [p \in Ports |-> <<>>]]
    /\ end = [c \in Chiplets |-> [p \in Ports |-> <<>>]]
    /\ fromInside = [c \in Chiplets |-> <<>>] /\ fromOutside = [c \in Chiplets |-> <<>>]
    /\ isDraining = [c \in Chiplets |-> FALSE] /\ paused = [c \in Chiplets |-> FALSE]
    /\ made = {} /\ got = <<>> /\ atL2 = [c \in Chiplets |-> {}]
    /\ driver = "running" /\ acks = 0 /\ drains = 0

Room(c, p) == Len(end[c][p]) < EndCap
Has(c, p) == in[c][p] # <<>>

\* One message from one port to another: sent, and then retrieved.
Pass(c, p, q) ==
    /\ Has(c, p) /\ Room(c, q)
    /\ in' = [in EXCEPT ![c][p] = Tail(@)]
    /\ end' = [end EXCEPT ![c][q] = Append(@, Head(in[c][p]))]

\* The first transaction of the list that is of access a, and the list without it.
findTransactionByRspToID(a, list) ==
    CHOOSE i \in DOMAIN list : list[i] = a /\ \A j \in 1..(i - 1) : list[j] # a
Without(list, a) ==
    LET i == findTransactionByRspToID(a, list)
    IN  SubSeq(list, 1, i - 1) \o SubSeq(list, i + 1, Len(list))

----------------------------------------------------------------------------
(* The engine of chiplet c. *)

\* processReqFromL1, processReqFromPwPort.
processReqFromInside(c, p) ==
    /\ ~paused[c] /\ Has(c, p)
    /\ LET a == Head(in[c][p])
       IN  /\ Pass(c, p, "RequestPort")
           /\ fromInside' = [fromInside EXCEPT ![c] = Append(@, a)]
    /\ UNCHANGED <<fromOutside, isDraining, paused, outside, control>>

processReqFromOutside(c) ==
    /\ Has(c, "RequestPort")
    /\ LET a == Head(in[c]["RequestPort"])
       IN  /\ Pass(c, "RequestPort", "ToL2")
           /\ fromOutside' = [fromOutside EXCEPT ![c] = Append(@, a)]
    /\ UNCHANGED <<fromInside, isDraining, paused, outside, control>>

\* The engine the response goes to is read from the name of the request's source.
getResponsePort(a) == Src[a]

\* findTransactionByRspToID panics where there is none: the step is then not taken.
OutsideLeft(list, a) == Without(list, a)
processRspFromL2(c) ==
    /\ Has(c, "ToL2")
    /\ LET a == Head(in[c]["ToL2"])
       IN  /\ a \in Range(fromOutside[c])
           /\ Pass(c, "ToL2", "ResponsePort")
           /\ fromOutside' = [fromOutside EXCEPT ![c] = OutsideLeft(@, a)]
    /\ UNCHANGED <<fromInside, isDraining, paused, outside, control>>

\* The answer goes to the port the access came by.
BackBy(a) == Via[a]
InsideLeft(list, a) == Without(list, a)
processRspFromOutside(c) ==
    /\ Has(c, "ResponsePort")
    /\ LET a == Head(in[c]["ResponsePort"])
       IN  /\ a \in Range(fromInside[c])
           /\ Pass(c, "ResponsePort", BackBy(a))
           /\ fromInside' = [fromInside EXCEPT ![c] = InsideLeft(@, a)]
    /\ UNCHANGED <<fromOutside, isDraining, paused, outside, control>>

\* The control message is retrieved before its answer is known to be sent.
processDrainReq(c) ==
    /\ Has(c, "CtrlPort") /\ Head(in[c]["CtrlPort"]) = "drain"
    /\ in' = [in EXCEPT ![c]["CtrlPort"] = Tail(@)]
    /\ isDraining' = [isDraining EXCEPT ![c] = TRUE]
    /\ paused' = [paused EXCEPT ![c] = TRUE]
    /\ UNCHANGED <<end, fromInside, fromOutside, outside, control>>

fullyDrained_Inbound(c) == fromOutside[c] = <<>>
fullyDrained(c) == fromOutside[c] = <<>> /\ fromInside[c] = <<>>
drainRDMA(c) ==
    /\ isDraining[c] /\ fullyDrained(c) /\ Room(c, "CtrlPort")
    /\ end' = [end EXCEPT ![c]["CtrlPort"] = Append(@, "drained")]
    /\ isDraining' = [isDraining EXCEPT ![c] = FALSE]
    /\ UNCHANGED <<in, fromInside, fromOutside, paused, outside, control>>

PausedAfterRestart_Still == TRUE
PausedAfterRestart == FALSE
processRDMARestartReq(c) ==
    /\ Has(c, "CtrlPort") /\ Head(in[c]["CtrlPort"]) = "restart"
    /\ in' = [in EXCEPT ![c]["CtrlPort"] = Tail(@)]
    /\ IF Room(c, "CtrlPort")
       THEN /\ end' = [end EXCEPT ![c]["CtrlPort"] = Append(@, "restarted")]
            /\ paused' = [paused EXCEPT ![c] = PausedAfterRestart]
       ELSE UNCHANGED <<end, paused>>
    /\ UNCHANGED <<fromInside, fromOutside, isDraining, outside, control>>

Engine(c) ==
    \/ \E p \in {"ToL1", "PwPort"} : processReqFromInside(c, p)
    \/ processReqFromOutside(c) \/ processRspFromL2(c) \/ processRspFromOutside(c)
    \/ processDrainReq(c) \/ drainRDMA(c) \/ processRDMARestartReq(c)

----------------------------------------------------------------------------
(* What surrounds the engines. *)

MakeAccess(a) ==
    /\ a \notin made /\ Len(in[Src[a]][Via[a]]) < PortCap
    /\ made' = made \cup {a}
    /\ in' = [in EXCEPT ![Src[a]][Via[a]] = Append(@, a)]
    /\ UNCHANGED <<end, engine, got, atL2, control>>

\* The network carries the head of an end to the port it is for.
Deliver(c, p, d) ==
    /\ Len(in[d][p]) < PortCap
    /\ end' = [end EXCEPT ![c][p] = Tail(@)]
    /\ in' = [in EXCEPT ![d][p] = Append(@, Head(end[c][p]))]
    /\ UNCHANGED <<engine, outside, control>>
CarryRequest(c) ==
    /\ end[c]["RequestPort"] # <<>>
    /\ Deliver(c, "RequestPort", Home[Head(end[c]["RequestPort"])])
CarryResponse(c) ==
    /\ end[c]["ResponsePort"] # <<>>
    /\ Deliver(c, "ResponsePort", getResponsePort(Head(end[c]["ResponsePort"])))

TakeAtL2(c) ==
    /\ end[c]["ToL2"] # <<>>
    /\ atL2' = [atL2 EXCEPT ![c] = @ \cup {Head(end[c]["ToL2"])}]
    /\ end' = [end EXCEPT ![c]["ToL2"] = Tail(@)]
    /\ UNCHANGED <<in, engine, made, got, control>>

AnswerAtL2(c, a) ==
    /\ a \in atL2[c] /\ Len(in[c]["ToL2"]) < PortCap
    /\ atL2' = [atL2 EXCEPT ![c] = @ \ {a}]
    /\ in' = [in EXCEPT ![c]["ToL2"] = Append(@, a)]
    /\ UNCHANGED <<end, engine, made, got, control>>

TakeAnswer(c, p) ==
    /\ end[c][p] # <<>>
    /\ got' = Append(got, <<c, Head(end[c][p])>>)
    /\ end' = [end EXCEPT ![c][p] = Tail(@)]
    /\ UNCHANGED <<in, engine, made, atL2, control>>

\* The driver drains every engine, moves pages when all have answered, and
\* restarts them; it goes on when all have answered again.
ToAll(msg) == [c \in Chiplets |-> [in[c] EXCEPT !["CtrlPort"] = Append(@, msg)]]
StartDrain ==
    /\ driver = "running" /\ drains < MaxDrains
    /\ in' = ToAll("drain") /\ driver' = "draining" /\ acks' = 0 /\ drains' = drains + 1
    /\ UNCHANGED <<end, engine, outside>>

TakeAck(c) ==
    /\ end[c]["CtrlPort"] # <<>>
    /\ end' = [end EXCEPT ![c]["CtrlPort"] = Tail(@)]
    /\ acks' = acks + 1
    /\ UNCHANGED <<in, engine, outside, driver, drains>>

AllAcked == acks = Cardinality(Chiplets)
Migrate == driver = "draining" /\ AllAcked /\ driver' = "migrating"
           /\ UNCHANGED <<in, end, engine, outside, acks, drains>>
StartRestart ==
    /\ driver = "migrating"
    /\ in' = ToAll("restart") /\ driver' = "restarting" /\ acks' = 0
    /\ UNCHANGED <<end, engine, outside, drains>>
Resume == driver = "restarting" /\ AllAcked /\ driver' = "running"
          /\ UNCHANGED <<in, end, engine, outside, acks, drains>>

Around(c) ==
    \/ CarryRequest(c) \/ CarryResponse(c) \/ TakeAtL2(c) \/ TakeAck(c)
    \/ \E a \in Accesses : AnswerAtL2(c, a)
    \/ \E p \in {"ToL1", "PwPort"} : TakeAnswer(c, p)
Driver == Migrate \/ StartRestart \/ Resume

\* Engines tick, connections and caches serve, the driver goes on with a drain.
Work == Driver \/ \E c \in Chiplets : Engine(c) \/ Around(c)
Next == Work \/ StartDrain \/ \E a \in Accesses : MakeAccess(a)

Spec == Init /\ [][Next]_vars /\ WF_vars(Work)

----------------------------------------------------------------------------
(* Properties. *)

\* Queues stay within their capacities, and the lists have no duplicates.
TypeOK ==
    /\ \A c \in Chiplets, p \in Ports :
            Len(in[c][p]) <= PortCap /\ Len(end[c][p]) <= EndCap
    /\ \A c \in Chiplets : IsInjective(fromInside[c]) /\ IsInjective(fromOutside[c])

\* A response that reaches an engine finds the transaction it belongs to:
\* findTransactionByRspToID does not panic, on either side.
TransactionFound ==
    \A c \in Chiplets :
        /\ Range(in[c]["ResponsePort"]) \subseteq Range(fromInside[c])
        /\ Range(in[c]["ToL2"]) \cup atL2[c] \cup Range(end[c]["ToL2"])
                \subseteq Range(fromOutside[c])

\* An access is answered once, on the chiplet that made it.
AnsweredOnce ==
    /\ IsInjective(got)
    /\ \A i \in DOMAIN got : got[i][1] = Src[got[i][2]]

\* Between the last acknowledgement of a drain and the restart no access is
\* anywhere between the chiplets, though an engine by itself reports that it
\* has drained with requests in its ports and in the network: those are still
\* transactions of the engine they came from.
Travelling(c) ==
    UNION {Range(in[c][p]) \cup Range(end[c][p]) : p \in {"RequestPort", "ResponsePort", "ToL2"}}
    \cup atL2[c]
QuietWhenDrained ==
    driver = "migrating" =>
        \A c \in Chiplets :
            /\ fromInside[c] = <<>> /\ fromOutside[c] = <<>>
            /\ Travelling(c) = {}

AllTaken == driver = "running" /\ \A a \in made : <<Src[a], a>> \in Range(got)
==============================================================================
