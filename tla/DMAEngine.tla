------------------------------ MODULE DMAEngine ------------------------------
(***************************************************************************)
(* The DMA engine (mgpusim/timing/cp/dma.go).  It works on one copy of the *)
(* command processor at a time: it cuts the copy into requests that do not *)
(* cross an access unit, sends them in order, one per cycle, through the   *)
(* port of the chiplet that owns the address, and answers when the last    *)
(* response is in.  Memories answer in any order.                          *)
(*                                                                         *)
(* Memory is a function from addresses to bytes, a byte written by copy c  *)
(* at offset k is the pair <<c, k>>.                                       *)
(***************************************************************************)
EXTENDS Integers, Sequences, FiniteSets, SequencesExt

CONSTANTS AccessSize,   \* 2 ^ Log2AccessSize
          Ports,        \* the ToMem ports, 0 .. n - 1
          PortCap,      \* places in a port and in its end of the connection
          MemSize, Copies

VARIABLES dma,      \* processingReq, toSendToMem, toSendToCP, pendingReqs
          toCP,     \* copies waiting in the port ToCP
          sent,     \* requests in the end buffers and at the memories
          back,     \* responses in each port
          store,    \* the memory
          answered, \* copies answered
          asked     \* copies sent by the command processor

vars == <<dma, toCP, sent, back, store, answered, asked>>

NoCopy == [id |-> 0, kind |-> "none", addr |-> 0, len |-> 0]

Addrs == 0..(MemSize - 1)

Port(a) == (a \div AccessSize) % Cardinality(Ports)

Init == /\ dma = [processing |-> NoCopy, toSendToMem |-> <<>>,
                  toSendToCP |-> <<>>, pending |-> {}, buffer |-> <<>>]
        /\ toCP = <<>>
        /\ sent = {}
        /\ back = [p \in Ports |-> <<>>]
        /\ store = [a \in Addrs |-> <<0, a>>]
        /\ answered = <<>>
        /\ asked = 0

-----------------------------------------------------------------------------
sendToCP ==
    /\ dma.toSendToCP # <<>>
    /\ answered' = Append(answered, Head(dma.toSendToCP))
    /\ dma' = [dma EXCEPT !.toSendToCP = Tail(@)]
    /\ UNCHANGED <<toCP, sent, back, store, asked>>

Waiting(p) == {r \in sent : Port(r.addr) = p}

sendToMem ==
    /\ dma.toSendToMem # <<>>
    /\ LET r == Head(dma.toSendToMem)
       IN /\ Cardinality(Waiting(Port(r.addr))) < PortCap
          /\ sent' = sent \cup {r}
    /\ dma' = [dma EXCEPT !.toSendToMem = Tail(@)]
    /\ UNCHANGED <<toCP, back, store, answered, asked>>

-----------------------------------------------------------------------------
(***************************************************************************)
(* The requests of a copy.  The length of one is what is left of the copy  *)
(* or of the unit its address lies in, whichever is less.                  *)
(***************************************************************************)
LengthInUnit(a) == AccessSize - (a % AccessSize)

Length(c, off) == IF LengthInUnit(c.addr + off) < c.len - off
                  THEN LengthInUnit(c.addr + off) ELSE c.len - off

Offsets(c) ==
    LET upTo[off \in 0..c.len] ==
          IF off >= c.len THEN <<>> ELSE <<off>> \o upTo[off + Length(c, off)]
    IN upTo[0]

Requests(c) == [i \in 1..Len(Offsets(c)) |->
                  [id |-> <<c.id, i>>, kind |-> c.kind, off |-> Offsets(c)[i],
                   addr |-> c.addr + Offsets(c)[i],
                   len |-> Length(c, Offsets(c)[i])]]

parseFromCP ==
    /\ dma.processing = NoCopy
    /\ toCP # <<>>
    /\ toCP' = Tail(toCP)
    /\ LET c == Head(toCP)
       IN dma' = [dma EXCEPT !.processing = c,
                             !.toSendToMem = @ \o Requests(c),
                             !.pending = @ \cup ToSet(Requests(c)),
                             !.buffer = [k \in 1..c.len |-> <<0, 0>>]]
    /\ UNCHANGED <<sent, back, store, answered, asked>>

-----------------------------------------------------------------------------
Offset(r, c) == r.addr - c.addr

Completes(pending, toSend) == pending = {}

removeReqFromPendingReqList_First(id) ==
    {r \in dma.pending : r.id[2] # 1 \/ id[2] # 1}

removeReqFromPendingReqList(id) == {r \in dma.pending : r.id # id}

(***************************************************************************)
(* A response takes its request off the pending list, puts the bytes it    *)
(* brings into the host's buffer, and the last one ends the copy.          *)
(***************************************************************************)
processRsp(m) ==
    LET r       == CHOOSE x \in dma.pending : x.id = m.id
        pending == removeReqFromPendingReqList(m.id)
        c       == dma.processing
        buffer  == IF c.kind = "D2H"
                   THEN [k \in 1..Len(dma.buffer) |->
                           LET j == k - Offset(r, c)
                           IN IF j \in 1..Len(m.data) THEN m.data[j]
                              ELSE dma.buffer[k]]
                   ELSE dma.buffer
        done    == Completes(pending, dma.toSendToMem)
    IN dma' = [dma EXCEPT !.pending = pending,
                          !.buffer = buffer,
                          !.processing = IF done THEN NoCopy ELSE @,
                          !.toSendToCP =
                             IF done THEN Append(@, [copy |-> c, buffer |-> buffer])
                             ELSE @]

(***************************************************************************)
(* The first port with a response is served.                               *)
(***************************************************************************)
parseFromMem ==
    \E p \in Ports :
       /\ back[p] # <<>>
       /\ \A q \in Ports : q < p => back[q] = <<>>
       /\ processRsp(Head(back[p]))
       /\ back' = [back EXCEPT ![p] = Tail(@)]
       /\ UNCHANGED <<toCP, sent, store, answered, asked>>

-----------------------------------------------------------------------------
(***************************************************************************)
(* The memories, and the command processor.                                *)
(***************************************************************************)
Serve(r) ==
    /\ Len(back[Port(r.addr)]) < PortCap
    /\ sent' = sent \ {r}
    /\ back' = [back EXCEPT ![Port(r.addr)] =
                  Append(@, [id |-> r.id,
                             data |-> IF r.kind = "D2H"
                                      THEN [j \in 1..r.len |-> store[r.addr + j - 1]]
                                      ELSE <<>>])]
    /\ store' = IF r.kind = "D2H" THEN store
                ELSE [a \in Addrs |-> IF a \in r.addr..(r.addr + r.len - 1)
                                      THEN <<r.id[1], r.off + (a - r.addr)>>
                                      ELSE store[a]]
    /\ UNCHANGED <<dma, toCP, answered, asked>>

Ask == /\ asked < Copies
       /\ \E kind \in {"H2D", "D2H"}, a \in Addrs, n \in 1..MemSize :
             /\ a + n <= MemSize
             /\ toCP' = Append(toCP, [id |-> asked + 1, kind |-> kind,
                                      addr |-> a, len |-> n])
       /\ asked' = asked + 1
       /\ UNCHANGED <<dma, sent, back, store, answered>>

Work == sendToCP \/ sendToMem \/ parseFromMem \/ parseFromCP
           \/ \E r \in sent : Serve(r)

Next == Work \/ Ask

(***************************************************************************)
(* The engine ticks while it has work, the memories answer.                *)
(***************************************************************************)
Spec == Init /\ [][Next]_vars /\ WF_vars(Work)

-----------------------------------------------------------------------------
(***************************************************************************)
(* No request leaves its access unit, so each is for one port; ports and   *)
(* end buffers keep their size.                                            *)
(***************************************************************************)
TypeOK ==
    /\ \A r \in dma.pending \cup sent :
          (r.addr \div AccessSize) = ((r.addr + r.len - 1) \div AccessSize)
    /\ \A p \in Ports : Len(back[p]) <= PortCap /\ Cardinality(Waiting(p)) <= PortCap

Copied(a, mem) ==
    \A k \in 1..a.copy.len :
       IF a.copy.kind = "D2H" THEN a.buffer[k] = mem[a.copy.addr + k - 1]
       ELSE mem[a.copy.addr + k - 1] = <<a.copy.id, k - 1>>

(***************************************************************************)
(* A copy that ends is complete: the bytes of a copy to the device are in  *)
(* memory, and the buffer of a copy to the host holds what memory holds,   *)
(* byte for byte, in whatever order the memories answered.                 *)
(***************************************************************************)
EndedIsCopied ==
    [][Len(dma'.toSendToCP) > Len(dma.toSendToCP)
          => Copied(Last(dma'.toSendToCP), store)]_vars

(***************************************************************************)
(* Every response finds the request and the copy it belongs to (no "not    *)
(* found", no nil processingReq): none outlives its copy.                  *)
(***************************************************************************)
ResponsesFindTheirCopy ==
    \A p \in Ports : \A i \in 1..Len(back[p]) :
       /\ \E r \in dma.pending : r.id = back[p][i].id
       /\ back[p][i].id[1] = dma.processing.id

AllAnswered == Len(answered) = asked

(***************************************************************************)
(* Every copy is answered.                                                 *)
(***************************************************************************)
Answered == []<>AllAnswered
=============================================================================
