----------------------- MODULE PageMigrationController -----------------------
(***************************************************************************)
(* The page migration controllers (mgpusim/pagemigrationcontroller/pmc.go).*)
(* The controller of the GPU that receives a page asks the controller of   *)
(* the GPU that hosts it for one piece of the page after the other; that   *)
(* one reads the piece from its memory and answers; the first writes it to *)
(* its memory and, when every write is acknowledged, answers the command   *)
(* processor.  Ports and the connection's end buffers hold one message, so *)
(* the lists of messages to send are drained over several cycles.          *)
(*                                                                         *)
(* A piece of a frame is the pair of the frame and a number.               *)
(***************************************************************************)
EXTENDS Integers, Sequences, FiniteSets, SequencesExt

CONSTANTS GPUs, NumTransfers

VARIABLES pmc,    \* the fields and the incoming ports of each controller
          wire,   \* the end buffer of each controller's RemotePort
          lmem,   \* requests at the memory of each GPU
          memory  \* the contents of the pieces of the frames

NoMigration == [host |-> 0, from |-> <<0, 0>>, to |-> <<0, 0>>]

NewPMC == [current |-> NoMigration, handling |-> FALSE, pending |-> -1,
           toPull |-> <<>>, toSendLocalMem |-> <<>>, toRsp |-> <<>>,
           writeReq |-> <<>>, toCtrl |-> FALSE, requesting |-> 0,
           writeAddr |-> {}, remoteIn |-> <<>>, memIn |-> <<>>,
           ctrlIn |-> <<>>]

(***************************************************************************)
(* A cycle works on the controller c, the free places w of its end buffers *)
(* and the memory requests it sends.                                       *)
(***************************************************************************)
State(g) == [c |-> pmc[g], wire |-> wire[g], lmem |-> {}, done |-> FALSE]

(***************************************************************************)
(* Sending a list: what the connection refuses stays in the list.          *)
(***************************************************************************)
sendMigrationReqToAnotherPMC(s) ==
    IF s.c.toPull = <<>> \/ s.wire # <<>> THEN s
    ELSE [s EXCEPT !.wire = <<Head(s.c.toPull)>>, !.c.toPull = Tail(@)]

sendReadReqLocalMemPort(s) ==
    IF s.c.toSendLocalMem = <<>> \/ s.lmem # {} THEN s
    ELSE [s EXCEPT !.lmem = {Head(s.c.toSendLocalMem)},
                   !.c.toSendLocalMem = Tail(@)]

sendMigrationCompleteRspToCtrlPort(s) ==
    IF ~s.c.toCtrl THEN s
    ELSE [s EXCEPT !.c.toCtrl = FALSE, !.c.handling = FALSE,
                   !.c.current = NoMigration, !.done = TRUE]

sendDataReadyRspToRequestingPMC(s) ==
    IF s.c.toRsp = <<>> \/ s.wire # <<>> THEN s
    ELSE [s EXCEPT !.wire = <<Head(s.c.toRsp)>>, !.c.toRsp = Tail(@)]

sendWriteReqLocalMemPort(s) ==
    IF s.c.writeReq = <<>> \/ s.lmem # {} THEN s
    ELSE [s EXCEPT !.lmem = {Head(s.c.writeReq)}, !.c.writeReq = Tail(@)]

-----------------------------------------------------------------------------
(***************************************************************************)
(* A message of another controller, and the request or answer it turns     *)
(* into in the same cycle (processReadPageReqFromAnotherPMC and            *)
(* processDataPullRsp work on lists this step fills).                      *)
(***************************************************************************)
handleDataPullReq(s, m) ==
    [s EXCEPT !.c.requesting = m.src,
              !.c.toSendLocalMem =
                 Append(@, [op |-> "read", id |-> m.id, piece |-> m.piece])]

Known(c, id) == {e \in c.writeAddr : e.id = id}

handleDataPullRsp(s, m) ==
    [s EXCEPT !.c.writeReq = @ \o
                 [i \in 1..Cardinality(Known(s.c, m.id)) |->
                    [op |-> "write", data |-> m.data,
                     piece |-> (CHOOSE e \in Known(s.c, m.id) : TRUE).piece]],
              !.c.writeAddr = @ \ Known(s.c, m.id)]

processFromOutside(s) ==
    IF s.c.remoteIn = <<>> THEN s
    ELSE LET m == Head(s.c.remoteIn)
             t == [s EXCEPT !.c.remoteIn = <<>>]
         IN IF m.op = "pull" THEN handleDataPullReq(t, m)
            ELSE handleDataPullRsp(t, m)

(***************************************************************************)
(* A migration request of the command processor becomes one pull per       *)
(* piece; where each answer is to be written is remembered.                *)
(***************************************************************************)
processPageMigrationReqFromCtrlPort(g, s) ==
    IF s.c.handling \/ s.c.ctrlIn = <<>> THEN s
    ELSE LET r  == Head(s.c.ctrlIn)
             id == [i \in 1..NumTransfers |-> <<r.to, i>>]
         IN [s EXCEPT
               !.c.ctrlIn = <<>>, !.c.current = r, !.c.handling = TRUE,
               !.c.pending = NumTransfers,
               !.c.toPull = @ \o [i \in 1..NumTransfers |->
                    [op |-> "pull", id |-> id[i], src |-> g, dst |-> r.host,
                     piece |-> <<r.from, i>>]],
               !.c.writeAddr = @ \cup {[id |-> id[i], piece |-> <<r.to, i>>] :
                                          i \in 1..NumTransfers}]

(***************************************************************************)
(* Data read goes to whoever asked last: the controller keeps one          *)
(* requester.  A write acknowledged counts down; at zero the answer to the *)
(* command processor is prepared.                                          *)
(***************************************************************************)
handleDataReadyRspFromMemCtrl(g, s, m) ==
    [s EXCEPT !.c.toRsp = Append(@, [op |-> "data", id |-> m.id, src |-> g,
                                     dst |-> s.c.requesting, data |-> m.data])]

processWriteDoneRspFromMemCtrl(s) ==
    LET last == s.c.pending = 1
    IN [s EXCEPT !.c.pending = IF last THEN -1 ELSE @ - 1,
                 !.c.toCtrl = last,
                 !.c.current = IF last THEN NoMigration ELSE @]

processFromMemCtrl(g, s) ==
    IF s.c.memIn = <<>> THEN s
    ELSE LET m == Head(s.c.memIn)
             t == [s EXCEPT !.c.memIn = <<>>]
         IN IF m.op = "read" THEN handleDataReadyRspFromMemCtrl(g, t, m)
            ELSE processWriteDoneRspFromMemCtrl(t)

TickOf(g) ==
    processPageMigrationReqFromCtrlPort(g,
      processFromMemCtrl(g,
        processFromOutside(
          sendWriteReqLocalMemPort(
            sendDataReadyRspToRequestingPMC(
              sendMigrationCompleteRspToCtrlPort(
                sendReadReqLocalMemPort(
                  sendMigrationReqToAnotherPMC(State(g)))))))))

(***************************************************************************)
(* A cycle that changes something.                                         *)
(***************************************************************************)
CanTick(g) ==
    LET c == pmc[g]
    IN \/ c.remoteIn # <<>> \/ c.memIn # <<>> \/ c.toCtrl
       \/ c.ctrlIn # <<>> /\ ~c.handling
       \/ (c.toPull # <<>> \/ c.toRsp # <<>>) /\ wire[g] = <<>>
       \/ c.toSendLocalMem # <<>> \/ c.writeReq # <<>>

-----------------------------------------------------------------------------
(***************************************************************************)
(* The connection between the controllers carries the message in an end    *)
(* buffer to its destination's port.                                       *)
(***************************************************************************)
CanCarry(g) == wire[g] # <<>> /\ pmc[Head(wire[g]).dst].remoteIn = <<>>

Carry(g) ==
    /\ CanCarry(g)
    /\ pmc' = [pmc EXCEPT ![Head(wire[g]).dst].remoteIn = <<Head(wire[g])>>]
    /\ wire' = [wire EXCEPT ![g] = <<>>]

(***************************************************************************)
(* The memory of a GPU serves its requests in any order.                   *)
(***************************************************************************)
CanServe(g) == lmem[g] # {} /\ pmc[g].memIn = <<>>

Serve(g) ==
    /\ CanServe(g)
    /\ \E m \in lmem[g] :
          /\ lmem' = [lmem EXCEPT ![g] = @ \ {m}]
          /\ IF m.op = "read"
             THEN /\ pmc' = [pmc EXCEPT ![g].memIn =
                               <<[op |-> "read", id |-> m.id,
                                  data |-> memory[m.piece]]>>]
                  /\ UNCHANGED memory
             ELSE /\ pmc' = [pmc EXCEPT ![g].memIn = <<[op |-> "write"]>>]
                  /\ memory' = [memory EXCEPT ![m.piece] = m.data]

(***************************************************************************)
(* Every answer reaches the controller that asked: a pull's answer finds   *)
(* the address it is to be written to (no "We do not know where the mem    *)
(* controller should write", the panic of processDataPullRsp).             *)
(***************************************************************************)
AnswersFindTheirPull ==
    \A g \in GPUs :
       \A i \in 1..Len(pmc[g].remoteIn) :
          pmc[g].remoteIn[i].op = "data"
             => Known(pmc[g], pmc[g].remoteIn[i].id) # {}
=============================================================================
