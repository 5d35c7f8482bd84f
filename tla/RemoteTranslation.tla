--------------------------- MODULE RemoteTranslation ---------------------------
(***************************************************************************)
(* Address translation across chiplets: on each chiplet an L1 TLB, an L2 TLB *)
(* and the remote translation unit (RTU) of                                  *)
(* mgpusim/remotetranslation/remotetranslationunit.go, on one                *)
(* "L1TLB-L2TLB" direct connection, the RTUs joined by the inter-chiplet     *)
(* network.  A hash decides which chiplet's L2 TLB owns a page.  The command *)
(* processor replaces the hash of every unit by a control message, and each  *)
(* unit handles it on its own, while requests are under way.                 *)
(*                                                                           *)
(* A message is a record: the L1 request r it serves, its id, its Src, the    *)
(* port it goes to, whether it is a response, and PutInL2TLBBuffer.  A clone  *)
(* has a fresh id.  Handling one message is one step; a tick handles up to    *)
(* twelve of each port and the steps of different ports may come in any       *)
(* order here.  The TLBs are always awake; the RTU sleeps after a tick that   *)
(* moves nothing.                                                             *)
(***************************************************************************)
EXTENDS Integers, Sequences, FiniteSets, SequencesExt

CONSTANTS
    MaxChiplets,
    home, page,      \* of each request: the chiplet of its L1 TLB, the page it asks for
    hash,            \* hash[k][p]: the owner of page p after k switches
    L2Ways,          \* pages an L2 TLB holds
    Loads            \* triples of a number of chiplets, a buffer size and the requests made

Reqs      == DOMAIN home
Units     == {"RTU", "L2"}
MaxSwitch == Len(hash) - 1
LocalEnds == {"L1", "L2", "ToL1", "ToL2"}
RTUPorts  == {"ToL1", "ToL2", "Request", "Response"}

VARIABLES
    chiplets,  \* number of chiplets in this behaviour
    cap,       \* size of every buffer and port in this behaviour
    load,      \* requests made in this behaviour
    target,    \* index switches the command processor has sent
    mode,      \* index switches each unit has handled
    issued, answered, nextID,
    end,       \* source-side buffers of each chiplet's connection
    port,      \* incoming buffers of the L2 TLB and of the RTU's ports
    net,       \* messages in the inter-chiplet network, by the chiplet they left
    walk,      \* requests in an L2 TLB's MSHR
    cached,    \* pages in an L2 TLB, in order of arrival
    transactionsFromInside, transactionsFromOutside,
    asleep,    \* chiplets whose RTU stopped ticking with messages in its ports
    busy       \* ends whose owner was told to wait

ChipletIDs == 1..chiplets

trans == <<transactionsFromInside, transactionsFromOutside>>
l2    == <<walk, cached>>
ctl   == <<chiplets, cap, load, target, mode>>
vars  == <<ctl, issued, answered, nextID, end, port, net, l2, trans, asleep, busy>>

Init ==
    /\ \E l \in Loads : chiplets = l[1] /\ cap = l[2] /\ load = l[3]
    /\ target = 0 /\ mode = [c \in ChipletIDs |-> [u \in Units |-> 0]]
    /\ issued = {} /\ answered = {} /\ nextID = [r \in Reqs |-> 1]
    /\ end = [c \in ChipletIDs |-> [e \in LocalEnds |-> <<>>]]
    /\ port = [c \in ChipletIDs |-> [p \in RTUPorts \cup {"L2"} |-> <<>>]]
    /\ net = [c \in ChipletIDs |-> <<>>]
    /\ walk = [c \in ChipletIDs |-> {}] /\ cached = [c \in ChipletIDs |-> <<>>]
    /\ transactionsFromInside = [c \in ChipletIDs |-> {}]
    /\ transactionsFromOutside = [c \in ChipletIDs |-> {}]
    /\ asleep = {} /\ busy = [c \in ChipletIDs |-> {}]

Owner(c, u, r) == hash[mode[c][u] + 1][page[r]]
Here(c, u, r)  == Owner(c, u, r) = c

-----------------------------------------------------------------------------
(* DirectConnection.Send: the buffer is that of the message's Src - or, for a   *)
(* redirected message, the L2 TLB's - whoever sends it.                         *)

EndFor(m) == IF m.inL2Buffer THEN "L2" ELSE m.src[1]
Room(c, m) == Len(end[c][EndFor(m)]) < cap
Put(c, m)  == end' = [end EXCEPT ![c][EndFor(m)] = Append(@, m)]

NetRoom(c)   == Len(net[c]) < cap
PutNet(c, m) == net' = [net EXCEPT ![c] = Append(@, m)]

Retrieve(c, p) == port' = [port EXCEPT ![c][p] = Tail(@)]
At(c, p) == port[c][p] # <<>>
Msg(c, p) == Head(port[c][p])

To(m, p) == [m EXCEPT !.to = p]

\* Delivery wakes the receiver; a buffer that empties wakes the owner of the end that was
\* told to wait.
WokenBy(c, e, to) ==
    IF to \in RTUPorts \/ (e \in busy[c] /\ e \in RTUPorts) THEN {c} ELSE {}

Deliver(c, e) ==
    /\ end[c][e] # <<>>
    /\ LET m == Head(end[c][e]) IN
       /\ m.to # "L1" => Len(port[c][m.to]) < cap
       /\ IF m.to = "L1"
          THEN answered' = answered \cup {m.r} /\ UNCHANGED port
          ELSE port' = [port EXCEPT ![c][m.to] = Append(@, m)] /\ UNCHANGED answered
       /\ asleep' = asleep \ WokenBy(c, e, m.to)
    /\ end' = [end EXCEPT ![c][e] = Tail(@)]
    /\ busy' = [busy EXCEPT ![c] = @ \ {e}]
    /\ UNCHANGED <<ctl, issued, nextID, net, l2, trans>>

NetDeliver(c, i) ==
    /\ LET m == net[c][i] IN
       /\ Len(port[m.at][m.to]) < cap
       /\ port' = [port EXCEPT ![m.at][m.to] = Append(@, m)]
       /\ asleep' = asleep \ ({m.at} \cup (IF "net" \in busy[c] THEN {c} ELSE {}))
    /\ net' = [net EXCEPT ![c] = RemoveAt(@, i)]
    /\ busy' = [busy EXCEPT ![c] = @ \ {"net"}]
    /\ UNCHANGED <<ctl, issued, answered, nextID, end, l2, trans>>

-----------------------------------------------------------------------------
(* The TLBs, as far as the RTU sees them (modules TLB and LatTLB have the rest). *)

\* fetchBottom of the L1 TLB: its own hash picks the L2 TLB or the RTU.  A chiplet has many
\* L1 TLBs, and one of them may still have to handle the latest switch.
L1Fetch(r, k) ==
    LET c == home[r]
        m == [r |-> r, id |-> <<r, 0>>, src |-> <<"L1", c>>, at |-> c, rsp |-> FALSE,
              to |-> IF hash[k + 1][page[r]] = c THEN "L2" ELSE "ToL1", inL2Buffer |-> FALSE]
    IN  /\ r \in load \ issued /\ \A q \in load : q < r /\ home[q] = c => q \in issued
        /\ Room(c, m) /\ Put(c, m)
        /\ issued' = issued \cup {r}
        /\ UNCHANGED <<ctl, answered, nextID, port, net, l2, trans, asleep, busy>>

LatestHashes == {k \in {target - 1, target} : k >= 0}

RspFromL2(c, m) == [m EXCEPT !.rsp = TRUE, !.to = m.src[1], !.src = <<"L2", c>>,
                             !.inL2Buffer = FALSE]

InMSHR(c, r) == \E m \in walk[c] : page[m.r] = page[r]

L2Hit(c) ==
    /\ At(c, "L2") /\ page[Msg(c, "L2").r] \in ToSet(cached[c])
    /\ ~InMSHR(c, Msg(c, "L2").r)
    /\ Room(c, RspFromL2(c, Msg(c, "L2"))) /\ Put(c, RspFromL2(c, Msg(c, "L2")))
    /\ Retrieve(c, "L2")
    /\ UNCHANGED <<ctl, issued, answered, nextID, net, l2, trans, asleep, busy>>

\* A request joins a walk under way, or starts one for a page the L2 TLB owns.
L2Walk(c) ==
    /\ At(c, "L2")
    /\ LET r == Msg(c, "L2").r IN
       \/ InMSHR(c, r)
       \/ page[r] \notin ToSet(cached[c]) /\ Here(c, "L2", r)
    /\ walk' = [walk EXCEPT ![c] = @ \cup {Msg(c, "L2")}]
    /\ Retrieve(c, "L2")
    /\ UNCHANGED <<ctl, issued, answered, nextID, end, net, cached, trans, asleep, busy>>

\* Any other miss is redirected to the RTU, Src unchanged.
Redirected(m) == [To(m, "ToL2") EXCEPT !.inL2Buffer = TRUE]

L2Redirect(c) ==
    /\ At(c, "L2")
    /\ LET r == Msg(c, "L2").r
           m == Redirected(Msg(c, "L2"))
       IN  /\ ~InMSHR(c, r) /\ page[r] \notin ToSet(cached[c]) /\ ~Here(c, "L2", r)
           /\ Room(c, m) /\ Put(c, m)
    /\ Retrieve(c, "L2")
    /\ UNCHANGED <<ctl, issued, answered, nextID, net, l2, trans, asleep, busy>>

\* The MMU's answer: the page enters the TLB and a request that waits for it is answered.
L2Answer(c) ==
    \E m \in walk[c] :
        /\ Room(c, RspFromL2(c, m)) /\ Put(c, RspFromL2(c, m))
        /\ walk' = [walk EXCEPT ![c] = @ \ {m}]
        /\ LET q == Append(SelectSeq(cached[c], LAMBDA p : p # page[m.r]), page[m.r])
           IN  cached' = [cached EXCEPT ![c] = IF Len(q) > L2Ways THEN Tail(q) ELSE q]
        /\ UNCHANGED <<ctl, issued, answered, nextID, port, net, trans, asleep, busy>>

-----------------------------------------------------------------------------
(* The remote translation unit: one definition per branch of its handlers. *)

\* Every handler leaves the message in its port when the send fails.
ToOwner(c, m) == [m EXCEPT !.to = "Request", !.at = Owner(c, "RTU", m.r)]
\* Ids are unique; they count the clones made for a request.
Fresh(r) == <<r, nextID[r]>>
Clone_SameID(c, m, src) == [m EXCEPT !.src = <<src, c>>, !.inL2Buffer = FALSE]
Clone(c, m, src) == [m EXCEPT !.id = Fresh(m.r), !.src = <<src, c>>, !.inL2Buffer = FALSE]

Find(ts, id) == {t \in ts : t.id = id}

\* A request whose page is remote: cloned, sent out, remembered by the clone's id.
SendOutside(c, p, m) ==
    /\ NetRoom(c) /\ PutNet(c, ToOwner(c, Clone(c, m, "Request")))
    /\ transactionsFromInside' =
         [transactionsFromInside EXCEPT ![c] = @ \cup {[from |-> m, id |-> Fresh(m.r)]}]
    /\ nextID' = [nextID EXCEPT ![m.r] = @ + 1]
    /\ c \notin asleep /\ Retrieve(c, p)
    /\ UNCHANGED <<ctl, issued, answered, end, l2, transactionsFromOutside, asleep, busy>>

\* A message of the chiplet's own connection, sent on as it is.
SendL2(c, p, m) ==
    /\ Room(c, To(m, "L2")) /\ Put(c, To(m, "L2"))
    /\ c \notin asleep /\ Retrieve(c, p)
    /\ UNCHANGED <<ctl, issued, answered, nextID, net, l2, trans, asleep, busy>>

Forward(c, p, m) ==
    /\ NetRoom(c) /\ PutNet(c, ToOwner(c, m))
    /\ c \notin asleep /\ Retrieve(c, p)
    /\ UNCHANGED <<ctl, issued, answered, nextID, end, l2, trans, asleep, busy>>

processReqFromL1(c) ==
    /\ At(c, "ToL1")
    /\ LET m == Msg(c, "ToL1") IN
       IF Here(c, "RTU", m.r) THEN SendL2(c, "ToL1", m) ELSE SendOutside(c, "ToL1", m)

\* A request the L2 TLB redirected: back to it, out in a clone (from an L1 TLB), or out in
\* the form in which it came in (from another chiplet).
processReqFromL2(c) ==
    /\ At(c, "ToL2") /\ ~Msg(c, "ToL2").rsp
    /\ LET m == Msg(c, "ToL2") IN
       \/ Here(c, "RTU", m.r) /\ SendL2(c, "ToL2", m)
       \/ ~Here(c, "RTU", m.r) /\ m.src[1] = "L1" /\ SendOutside(c, "ToL2", m)
       \/ /\ ~Here(c, "RTU", m.r) /\ m.src[1] = "ToL2"
          /\ \E t \in Find(transactionsFromOutside[c], m.id) : Forward(c, "ToL2", t.from)

processReqFromOutside(c) ==
    /\ At(c, "Request")
    /\ LET m == Msg(c, "Request") IN
       \/ ~Here(c, "RTU", m.r) /\ Forward(c, "Request", m)
       \/ /\ Here(c, "RTU", m.r) /\ m.src[2] = c
          /\ \E t \in Find(transactionsFromInside[c], m.id) : SendL2(c, "Request", t.from)
       \/ /\ Here(c, "RTU", m.r) /\ m.src[2] # c
          /\ LET cloned == To(Clone(c, m, "ToL2"), "L2") IN Room(c, cloned) /\ Put(c, cloned)
          /\ transactionsFromOutside' =
               [transactionsFromOutside EXCEPT ![c] = @ \cup {[from |-> m, id |-> Fresh(m.r)]}]
          /\ nextID' = [nextID EXCEPT ![m.r] = @ + 1]
          /\ c \notin asleep /\ Retrieve(c, "Request")
          /\ UNCHANGED <<ctl, issued, answered, net, l2, transactionsFromInside, asleep, busy>>

\* The transactions left once one is answered.
Removed(ts, t) == ts \ {t}

processRspFromL2(c) ==
    /\ At(c, "ToL2") /\ Msg(c, "ToL2").rsp /\ c \notin asleep
    /\ LET m == Msg(c, "ToL2") IN
       \E t \in Find(transactionsFromOutside[c], m.id) :
          /\ NetRoom(c)
          /\ PutNet(c, [m EXCEPT !.id = t.from.id, !.src = <<"Response", c>>,
                                 !.to = "Response", !.at = t.from.src[2]])
          /\ transactionsFromOutside' =
               [transactionsFromOutside EXCEPT ![c] = Removed(@, t)]
    /\ Retrieve(c, "ToL2")
    /\ UNCHANGED <<ctl, issued, answered, nextID, end, l2, transactionsFromInside, asleep, busy>>

processRspFromOutside(c) ==
    /\ At(c, "Response") /\ c \notin asleep
    /\ LET m == Msg(c, "Response") IN
       \E t \in Find(transactionsFromInside[c], m.id) :
          /\ LET rsp == [m EXCEPT !.id = t.from.id, !.src = <<"ToL1", c>>, !.to = "L1"]
             IN  Room(c, rsp) /\ Put(c, rsp)
          /\ transactionsFromInside' =
               [transactionsFromInside EXCEPT ![c] = Removed(@, t)]
    /\ Retrieve(c, "Response")
    /\ UNCHANGED <<ctl, issued, answered, nextID, net, l2, transactionsFromOutside, asleep, busy>>

RTUStep(c) == \/ processReqFromL1(c) \/ processReqFromL2(c) \/ processRspFromL2(c)
              \/ processReqFromOutside(c) \/ processRspFromOutside(c)

\* The buffer that the message at the head of a port is waiting for: the end that
\* DirectConnection.Send marks busy, or the network.
BlockedOn(c, p) ==
    LET m == Msg(c, p) IN
    CASE p = "ToL1" -> IF Here(c, "RTU", m.r) THEN EndFor(m) ELSE "net"
      [] p = "ToL2" -> IF ~m.rsp /\ Here(c, "RTU", m.r) THEN EndFor(m) ELSE "net"
      [] p = "Request" ->
            IF ~Here(c, "RTU", m.r) THEN "net"
            ELSE IF m.src[2] # c THEN "ToL2"
            ELSE EndFor((CHOOSE t \in Find(transactionsFromInside[c], m.id) : TRUE).from)
      [] p = "Response" -> "ToL1"

Blocked(c, p) ==
    LET b == BlockedOn(c, p) IN IF b = "net" THEN ~NetRoom(c) ELSE Len(end[c][b]) >= cap

\* A tick in which every port is empty or blocked moves nothing and schedules no other.
RTUSleep(c) ==
    /\ c \notin asleep /\ \E p \in RTUPorts : At(c, p)
    /\ \A p \in RTUPorts : At(c, p) => Blocked(c, p)
    /\ asleep' = asleep \cup {c}
    /\ busy' = [busy EXCEPT ![c] = @ \cup {BlockedOn(c, p) : p \in {q \in RTUPorts : At(c, q)}}]
    /\ UNCHANGED <<ctl, issued, answered, nextID, end, port, net, l2, trans>>

-----------------------------------------------------------------------------
(* Index switches: the command processor sends one to every unit, and a unit   *)
(* handles its control message whatever its other ports hold.                  *)

SendSwitch ==
    /\ target < MaxSwitch /\ \A c \in ChipletIDs, u \in Units : mode[c][u] = target
    /\ target' = target + 1
    /\ UNCHANGED <<chiplets, cap, load, mode, issued, answered, nextID, end, port, net, l2, trans, asleep, busy>>

switchIndexing(c, u) ==
    /\ mode[c][u] < target
    /\ mode' = [mode EXCEPT ![c][u] = @ + 1]
    /\ asleep' = IF u = "RTU" THEN asleep \ {c} ELSE asleep
    /\ UNCHANGED <<chiplets, cap, load, target, issued, answered, nextID, end, port, net, l2, trans, busy>>

L2Step(c) == \/ L2Hit(c) \/ L2Walk(c) \/ L2Redirect(c)

\* The engine runs scheduled ticks, so each port that can move is served; connections and
\* network deliver what fits; control messages are handled.  Between two index switches a
\* request can circle, so that handling the switch is an obligation of its own.
Work ==
    \/ \E r \in Reqs, k \in LatestHashes : L1Fetch(r, k)
    \/ \E c \in ChipletIDs :
         \/ RTUStep(c) \/ L2Step(c) \/ L2Answer(c)
         \/ \E e \in LocalEnds : Deliver(c, e)
         \/ \E i \in DOMAIN net[c] : NetDeliver(c, i)
Switch == \E c \in ChipletIDs, u \in Units : switchIndexing(c, u)
Next == Work \/ Switch \/ SendSwitch \/ \E c \in ChipletIDs : RTUSleep(c)

Spec == Init /\ [][Next]_vars /\ WF_vars(Work) /\ WF_vars(Switch)

-----------------------------------------------------------------------------
(* Properties. *)

Buffers(c) == {end[c][e] : e \in LocalEnds} \cup {port[c][p] : p \in DOMAIN port[c]}

\* The requests under way, and the number of messages that serve them.
Serving(c) == {m.r : m \in walk[c] \cup UNION {ToSet(q) : q \in Buffers(c) \cup {net[c]}}}
Messages(c) == Len(net[c]) + Cardinality(walk[c])
               + FoldFunction(LAMBDA q, n : n + Len(q), 0, end[c])
               + FoldFunction(LAMBDA q, n : n + Len(q), 0, port[c])

\* Type invariant of the units (the RTU's transaction lists hold requests and fresh ids).
TypeOK ==
    /\ target \in 0..MaxSwitch /\ answered \subseteq issued /\ issued \subseteq Reqs
    /\ \A c \in ChipletIDs :
         /\ \A u \in Units : mode[c][u] <= target
         /\ \A q \in Buffers(c) \cup {net[c]} : Len(q) <= cap
         /\ \A t \in transactionsFromInside[c] \cup transactionsFromOutside[c] :
              t.from.r \in issued /\ t.id[2] < nextID[t.from.r]

\* A request is in exactly one place until it is answered, and is answered once, whatever
\* the units' hashes disagree on and however often it is redirected (forwarding sends the
\* message itself, cloning keeps the original out of circulation).
ExactlyOnce ==
    /\ answered \cup UNION {Serving(c) : c \in ChipletIDs} = issued
    /\ Cardinality(answered) + FoldFunction(+, 0, [c \in ChipletIDs |-> Messages(c)])
         = Cardinality(issued)

\* findTransactionByRspToID never panics: a response, a clone that comes back to the
\* chiplet it left, and a clone the L2 TLB redirects all find their transaction.
TransactionFound ==
    \A c \in ChipletIDs :
        /\ \A m \in ToSet(port[c]["ToL2"]) :
             m.rsp \/ m.src[1] = "ToL2" => Find(transactionsFromOutside[c], m.id) # {}
        /\ \A m \in ToSet(port[c]["Request"]) :
             m.src[2] = c => Find(transactionsFromInside[c], m.id) # {}
        /\ \A m \in ToSet(port[c]["Response"]) : Find(transactionsFromInside[c], m.id) # {}

\* A response reaches the L1 TLB that asked: a message on a chiplet's way back to "L1"
\* serves a request of that chiplet, under the id the L1 TLB gave it.
AnswersGoHome ==
    \A c \in ChipletIDs, e \in LocalEnds : \A m \in ToSet(end[c][e]) :
        m.to = "L1" => home[m.r] = c /\ m.id = <<m.r, 0>>

\* Without an index switch no transaction outlives its request.  (A request that a switch
\* sends back leaves its transaction in the list for good.)
NoStaleTransaction ==
    target = 0 => \A c \in ChipletIDs :
        \A t \in transactionsFromInside[c] \cup transactionsFromOutside[c] :
            t.from.r \notin answered

\* An RTU whose send was refused is ticked again when the send can succeed, so one that
\* sleeps has nothing it could move (port.go: "NotifyAvailable is called by the connection
\* to notify the port that the connection is available again").
RefusedIsNotified == \A c \in asleep, p \in RTUPorts : At(c, p) => Blocked(c, p)

\* The same until the first index switch: every buffer the RTU waits for then belongs to
\* one of its own ends, or to the network, and wakes it.
SleepsOnlyWhenBlocked == target = 0 => RefusedIsNotified

AllSettled == cap >= Cardinality(load) => answered = load

\* With buffers wide enough for the requests under way, every request is answered, through
\* any number of index switches under way (processReqFromL2 and processReqFromOutside pass
\* a request on until it meets the L2 TLB that owns its page).
Answered == []<>AllSettled
=============================================================================
