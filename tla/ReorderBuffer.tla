---------------------------- MODULE ReorderBuffer ----------------------------
(***************************************************************************)
(* The reorder buffer of mgpusim/timing/caches/rob: it forwards memory      *)
(* requests to a lower unit that may answer in any order, and answers its   *)
(* own requester in the order the requests arrived.                         *)
(*                                                                          *)
(* One Tick of the component is a chain of steps (variable stage): control  *)
(* message first, then bottomUp, parseBottom and topDown, each repeated up  *)
(* to numReqPerCycle times.  Deliveries by the connections happen between   *)
(* ticks, because connections tick as secondary events.  The component      *)
(* sleeps (awake = FALSE) after a tick without progress, and only NotifyRecv*)
(* and NotifyPortFree wake it.                                              *)
(***************************************************************************)
EXTENDS Naturals, Sequences, FiniteSets

CONSTANTS
    NumReqs,         \* requests the requester issues, numbered in issue order
    bufferSize,      \* transactions the buffer can hold
    numReqPerCycle,  \* repetitions of each stage in a tick
    PortCap,         \* capacity of TopPort and BottomPort
    EndCap,          \* source-side buffer of each connection end
    NumCtrl          \* bound: control messages sent by the command processor

ASSUME RobAssumption ==
    /\ NumReqs \in Nat /\ NumCtrl \in Nat
    /\ bufferSize \in Nat \ {0} /\ numReqPerCycle \in Nat \ {0}
    /\ PortCap \in Nat \ {0} /\ EndCap \in Nat \ {0}

Reqs == 1..NumReqs
NoRsp == 0           \* rspFromBottom == nil

Transaction == [top : Reqs, bot : Nat, rsp : Reqs \cup {NoRsp}]
BottomReq   == [id : Nat, data : Reqs]     \* data: whose duplicate it is
BottomRsp   == [rspTo : Nat, data : Reqs]
TopRsp      == [rspTo : Reqs, data : Reqs]

VARIABLES
    issued,        \* requests the requester has put into TopPort so far
    topIn,         \* TopPort: requests waiting
    transactions,  \* the list: [top, bot, rsp]
    table,         \* keys of toBottomReqIDToTransactionTable
    lastID,        \* last ID given to a duplicated request
    bottomOut,     \* duplicated requests waiting in the connection
    atBottom,      \* duplicated requests the lower unit still has to answer
    bottomIn,      \* BottomPort: responses waiting, [rspTo, data]
    sent,          \* every response given to TopPort, in order: [rspTo, data]
    topPending,    \* how many of them the connection has not delivered yet
    ctrlPending,   \* control notifications the connection has not delivered
    busy,          \* ends that rejected a Send and owe a notification
    dropped,       \* requests thrown away by a discard or a restart
    isFlushing,
    ctrlIn,        \* ControlPort: at most one message waits
    ctrlLeft,      \* control messages the command processor may still send
    stage, rep, progress, awake

bufVars  == <<transactions, table, lastID, sent, dropped, isFlushing>>
portVars == <<issued, topIn, bottomOut, atBottom, bottomIn, topPending>>
ctrlVars == <<ctrlIn, ctrlLeft, ctrlPending>>
tickVars == <<stage, rep, progress, awake>>
vars     == <<bufVars, portVars, busy, ctrlVars, tickVars>>

Stages == {"idle", "ctrl", "bottomUp", "parseBottom", "topDown"}

Tops(ts) == {ts[i].top : i \in DOMAIN ts}
Bots(ts) == {ts[i].bot : i \in DOMAIN ts}

Init ==
    /\ issued = 0 /\ topIn = <<>> /\ transactions = <<>> /\ table = {}
    /\ lastID = 0 /\ bottomOut = <<>> /\ atBottom = {} /\ bottomIn = <<>>
    /\ sent = <<>> /\ topPending = 0 /\ ctrlPending = 0
    /\ busy = {} /\ dropped = {} /\ isFlushing = FALSE
    /\ ctrlIn = <<>> /\ ctrlLeft = NumCtrl
    /\ stage = "idle" /\ rep = 0 /\ progress = FALSE /\ awake = FALSE

-----------------------------------------------------------------------------
(* The steps of a tick. *)

\* One repetition of the current stage made progress.
Again == /\ rep' = rep + 1 /\ progress' = TRUE /\ UNCHANGED <<stage, awake>>

\* The remaining repetitions of the stage find the same state and do nothing.
Goto(next) == /\ stage' = next /\ rep' = 0 /\ UNCHANGED <<progress, awake>>

StartTick ==
    /\ stage = "idle" /\ awake
    /\ stage' = "ctrl" /\ rep' = 0 /\ progress' = FALSE /\ awake' = FALSE
    /\ UNCHANGED <<bufVars, portVars, busy, ctrlVars>>

\* The end of TickingComponent.Handle: tick again if something moved.
FinishTick_NeverAgain == stage' = "idle" /\ rep' = 0 /\ awake' = FALSE /\ UNCHANGED progress
FinishTick == stage' = "idle" /\ rep' = 0 /\ awake' = progress /\ UNCHANGED progress

\* The pipeline runs in the same tick unless the buffer is flushing.
AfterCtrl == IF isFlushing THEN FinishTick ELSE Goto("bottomUp")

NoControlMsg ==
    /\ stage = "ctrl" /\ ctrlIn = <<>>
    /\ AfterCtrl
    /\ UNCHANGED <<bufVars, portVars, busy, ctrlVars>>

\* The acknowledgement of a control message is sent first; when the connection
\* has no room for it the message stays in the port.
CtrlRejected ==
    /\ stage = "ctrl" /\ ctrlIn # <<>> /\ ctrlPending >= EndCap
    /\ busy' = busy \cup {"ctrl"}
    /\ AfterCtrl
    /\ UNCHANGED <<bufVars, portVars, ctrlVars>>

Acknowledge(m) ==
    /\ stage = "ctrl" /\ ctrlIn = <<m>> /\ ctrlPending < EndCap
    /\ ctrlPending' = ctrlPending + 1
    /\ ctrlIn' = <<>>
    /\ UNCHANGED ctrlLeft

discardTransactions ==
    /\ Acknowledge("discard")
    /\ isFlushing' = TRUE
    /\ dropped' = dropped \cup Tops(transactions)
    /\ transactions' = <<>> /\ table' = {}
    /\ stage' = "idle" /\ rep' = 0 /\ progress' = TRUE /\ awake' = TRUE
    /\ UNCHANGED <<lastID, sent, portVars, busy>>

restart ==
    /\ Acknowledge("restart")
    /\ isFlushing' = FALSE
    /\ dropped' = dropped \cup Tops(transactions)
                          \cup {topIn[i] : i \in DOMAIN topIn}
    /\ transactions' = <<>> /\ table' = {}
    /\ topIn' = <<>> /\ bottomIn' = <<>>
    /\ stage' = "bottomUp" /\ rep' = 0 /\ progress' = TRUE /\ UNCHANGED awake
    /\ UNCHANGED <<lastID, sent, issued, bottomOut, atBottom, topPending,
                   busy>>

HeadDone == transactions # <<>> /\ Head(transactions).rsp # NoRsp

\* deleteTransaction removes the front element from the list and from the table.
ListAfterDelete_Kept == transactions
ListAfterDelete == Tail(transactions)
TableAfterDelete_Kept == table
TableAfterDelete == table \ {Head(transactions).bot}

bottomUp ==
    /\ stage = "bottomUp" /\ rep < numReqPerCycle
    /\ HeadDone /\ topPending < EndCap
    /\ sent' = Append(sent, [rspTo |-> Head(transactions).top,
                             data  |-> Head(transactions).rsp])
    /\ topPending' = topPending + 1
    /\ table' = TableAfterDelete
    /\ transactions' = ListAfterDelete
    /\ Again
    /\ UNCHANGED <<lastID, dropped, isFlushing, issued, topIn, bottomOut,
                   atBottom, bottomIn, busy, ctrlVars>>

bottomUpEnd ==
    /\ stage = "bottomUp"
    /\ rep = numReqPerCycle \/ ~HeadDone \/ topPending >= EndCap
    /\ busy' = IF rep < numReqPerCycle /\ HeadDone THEN busy \cup {"top"} ELSE busy
    /\ Goto("parseBottom")
    /\ UNCHANGED <<bufVars, portVars, ctrlVars>>

\* The list element that a response leads to.
Answers(r, t) == t.bot = r.rspTo

\* The transaction of a found key gets the response; an unknown response (its
\* transaction was discarded) is only removed from the port.
parseBottom ==
    /\ stage = "parseBottom" /\ rep < numReqPerCycle /\ bottomIn # <<>>
    /\ LET r == Head(bottomIn) IN
       transactions' = IF r.rspTo \in table
                       THEN [i \in DOMAIN transactions |->
                               IF Answers(r, transactions[i])
                               THEN [transactions[i] EXCEPT !.rsp = r.data]
                               ELSE transactions[i]]
                       ELSE transactions
    /\ bottomIn' = Tail(bottomIn)
    /\ Again
    /\ UNCHANGED <<table, lastID, sent, dropped, isFlushing, issued, topIn,
                   bottomOut, atBottom, topPending, busy, ctrlVars>>

parseBottomEnd ==
    /\ stage = "parseBottom"
    /\ rep = numReqPerCycle \/ bottomIn = <<>>
    /\ Goto("topDown")
    /\ UNCHANGED <<bufVars, portVars, busy, ctrlVars>>

isFull == Len(transactions) >= bufferSize

\* addTransaction puts the new element at the back of the list.
ListAfterAdd_Front(t) == <<t>> \o transactions
ListAfterAdd(t) == Append(transactions, t)

\* duplicateReq draws a new ID on every attempt; the ID of a rejected Send is
\* never used, so only accepted attempts advance lastID.
topDown ==
    /\ stage = "topDown" /\ rep < numReqPerCycle
    /\ ~isFull /\ topIn # <<>> /\ Len(bottomOut) < EndCap
    /\ lastID' = lastID + 1
    /\ bottomOut' = Append(bottomOut, [id |-> lastID + 1, data |-> Head(topIn)])
    /\ transactions' = ListAfterAdd([top |-> Head(topIn), bot |-> lastID + 1,
                                     rsp |-> NoRsp])
    /\ table' = table \cup {lastID + 1}
    /\ topIn' = Tail(topIn)
    /\ Again
    /\ UNCHANGED <<sent, dropped, isFlushing, issued, atBottom, bottomIn,
                   topPending, busy, ctrlVars>>

topDownEnd ==
    /\ stage = "topDown"
    /\ rep = numReqPerCycle \/ isFull \/ topIn = <<>> \/ Len(bottomOut) >= EndCap
    /\ busy' = IF rep < numReqPerCycle /\ ~isFull /\ topIn # <<>>
               THEN busy \cup {"bottom"} ELSE busy
    /\ FinishTick
    /\ UNCHANGED <<bufVars, portVars, ctrlVars>>

Tick == \/ StartTick \/ NoControlMsg \/ CtrlRejected \/ discardTransactions \/ restart
        \/ bottomUp \/ bottomUpEnd \/ parseBottom \/ parseBottomEnd
        \/ topDown \/ topDownEnd

-----------------------------------------------------------------------------
(* The other side of the ports, between ticks. *)

Wake == awake' = TRUE /\ UNCHANGED <<stage, rep, progress>>

\* A message left the buffer of end e: a component whose Send was rejected there
\* is notified.
NotifyAvailable_Forgotten(e) == busy' = busy \ {e} /\ UNCHANGED tickVars
NotifyAvailable(e) ==
    /\ busy' = busy \ {e}
    /\ IF e \in busy THEN Wake ELSE UNCHANGED tickVars

\* A request of the requester reaches TopPort.
RecvTop ==
    /\ stage = "idle" /\ issued < NumReqs /\ Len(topIn) < PortCap
    /\ issued' = issued + 1 /\ topIn' = Append(topIn, issued + 1)
    /\ Wake
    /\ UNCHANGED <<bufVars, bottomOut, atBottom, bottomIn, topPending, busy,
                   ctrlVars>>

\* The connection hands a response to the requester.
ForwardTop ==
    /\ stage = "idle" /\ topPending > 0
    /\ topPending' = topPending - 1
    /\ NotifyAvailable("top")
    /\ UNCHANGED <<bufVars, issued, topIn, bottomOut, atBottom, bottomIn,
                   ctrlVars>>

\* The connection hands a duplicated request to the lower unit.
ForwardBottom ==
    /\ stage = "idle" /\ bottomOut # <<>>
    /\ atBottom' = atBottom \cup {Head(bottomOut)}
    /\ bottomOut' = Tail(bottomOut)
    /\ NotifyAvailable("bottom")
    /\ UNCHANGED <<bufVars, issued, topIn, bottomIn, topPending, ctrlVars>>

\* The lower unit answers the duplicated request q, in an order of its own.
RecvBottom(q) ==
    /\ stage = "idle" /\ Len(bottomIn) < PortCap
    /\ atBottom' = atBottom \ {q}
    /\ bottomIn' = Append(bottomIn, [rspTo |-> q.id, data |-> q.data])
    /\ Wake
    /\ UNCHANGED <<bufVars, issued, topIn, bottomOut, topPending, busy,
                   ctrlVars>>

\* The command processor sends a control message.
RecvCtrl(m) ==
    /\ stage = "idle" /\ ctrlIn = <<>> /\ ctrlLeft > 0
    /\ ctrlIn' = <<m>> /\ ctrlLeft' = ctrlLeft - 1
    /\ Wake
    /\ UNCHANGED <<bufVars, portVars, busy, ctrlPending>>

\* The connection hands an acknowledgement to the command processor.
ForwardCtrl ==
    /\ stage = "idle" /\ ctrlPending > 0
    /\ ctrlPending' = ctrlPending - 1
    /\ NotifyAvailable("ctrl")
    /\ UNCHANGED <<bufVars, portVars, ctrlIn, ctrlLeft>>

Environment ==
    \/ RecvTop \/ ForwardTop \/ ForwardBottom \/ ForwardCtrl
    \/ \E q \in atBottom : RecvBottom(q)
    \/ \E m \in {"discard", "restart"} : RecvCtrl(m)

Next == Tick \/ Environment

Fairness ==
    /\ WF_vars(Tick)
    /\ WF_vars(ForwardTop) /\ WF_vars(ForwardBottom) /\ WF_vars(ForwardCtrl)
    /\ WF_vars(\E q \in atBottom : RecvBottom(q))

Spec == Init /\ [][Next]_vars /\ Fairness

-----------------------------------------------------------------------------
(* Properties. *)

TypeOK ==
    /\ issued \in 0..NumReqs
    /\ topIn \in Seq(Reqs) /\ Len(topIn) <= PortCap
    /\ transactions \in Seq(Transaction)
    /\ Len(transactions) <= bufferSize
    /\ table \subseteq Nat /\ lastID \in Nat
    /\ bottomOut \in Seq(BottomReq) /\ Len(bottomOut) <= EndCap
    /\ atBottom \subseteq BottomReq
    /\ bottomIn \in Seq(BottomRsp) /\ Len(bottomIn) <= PortCap
    /\ sent \in Seq(TopRsp)
    /\ topPending \in 0..EndCap /\ ctrlPending \in 0..EndCap
    /\ busy \subseteq {"top", "bottom", "ctrl"}
    /\ dropped \subseteq Reqs /\ isFlushing \in BOOLEAN
    /\ ctrlIn \in {<<>>, <<"discard">>, <<"restart">>} /\ ctrlLeft \in 0..NumCtrl
    /\ stage \in Stages /\ rep \in 0..numReqPerCycle
    /\ progress \in BOOLEAN /\ awake \in BOOLEAN

Answered == {sent[i].rspTo : i \in DOMAIN sent}
Waiting  == {topIn[i] : i \in DOMAIN topIn}

\* Responses leave TopPort in the order in which the requests were issued,
\* whatever the order of the lower unit's answers and whatever was discarded
\* in between (rob.go: "maintain the returning order of memory transactions").
InOrder == \A i, j \in DOMAIN sent : i < j => sent[i].rspTo < sent[j].rspTo

\* A response carries the data that the lower unit produced for the duplicate
\* of that very request: the table never leads parseBottom to a wrong list
\* element, not even for an answer that arrives after a discard.
RightData == \A i \in DOMAIN sent : sent[i].data = sent[i].rspTo

\* Every issued request is in exactly one of: waiting in TopPort, being
\* processed, answered, dropped.  In particular a discarded request is never
\* answered by a late response and nothing is lost without a discard.
ExactlyOnce ==
    /\ 1..issued = Waiting \cup Tops(transactions) \cup Answered \cup dropped
    /\ Waiting \cap (Tops(transactions) \cup Answered \cup dropped) = {}
    /\ Tops(transactions) \cap (Answered \cup dropped) = {}
    /\ Answered \cap dropped = {}

\* The lookup table and the list describe the same transactions after every
\* step (addTransaction, deleteTransaction, discard and restart).
TableMatchesList == table = Bots(transactions)

\* What a tick could do now.
CanProgress ==
    \/ ctrlIn # <<>> /\ ctrlPending < EndCap
    \/ /\ ~isFlushing
       /\ \/ HeadDone /\ topPending < EndCap
          \/ bottomIn # <<>>
          \/ topIn # <<>> /\ ~isFull /\ Len(bottomOut) < EndCap

\* The component never sleeps while a tick could do something: every event that
\* enables a stage also wakes it (doc/component_system.md: "we never miss any
\* opportunity to make progress").
NoMissedWakeup == (stage = "idle" /\ ~awake) => ~CanProgress

\* What the buffer promises: the abstract FIFO responder.
FIFO == INSTANCE OrderedResponder WITH
            pending <- [i \in DOMAIN transactions |-> transactions[i].top],
            answers <- sent

\* The reorder buffer, with its table, IDs, ports and stages, implements the
\* responder that answers the oldest accepted request, or forgets all of them.
ImplementsFIFO == FIFO!Spec
=============================================================================
