-------------------------- MODULE AddressTranslator --------------------------
(***************************************************************************)
(* The address translator between a compute unit and its L1 cache           *)
(* (mem/vm/addresstranslator/addresstranslator.go), with the unit above it, *)
(* the TLB and the cache below, and a page migration run by the command     *)
(* processor: flush the translator, move the page, restart it. A tick runs  *)
(* respond, sendToBottom, parseTranslation and translate, then the control  *)
(* request; here each is an action, taken in any order, and a connection    *)
(* holds what was sent and not delivered.                                   *)
(***************************************************************************)
EXTENDS Integers, Sequences, SequencesExt, FiniteSets

CONSTANTS Reqs,             \* accesses of the unit, numbered in the order they are made
          Page,             \* the page each of them touches
          Frames,           \* physical pages
          PortCap, EndCap,  \* capacities of a port and of a connection's end
          MaxFlushes

VARIABLES
    topIn, topEnd,      \* TopPort's queue, and the answers it sent
    transIn, transEnd,  \* TranslationPort's
    bottomIn, bottomEnd,\* BottomPort's
    ctrlIn,             \* CtrlPort's queue
    transactions, inflightReqToBottom, isFlushing,
    made, flying,       \* accesses the unit has made, and those on their way
    answered,           \* answers the unit has taken
    lookups, accesses,  \* at the TLB and at the cache, not answered yet
    frame,              \* where each page is
    ctrl, flushes       \* what the command processor does, and how often it did
vars == <<topIn, topEnd, transIn, transEnd, bottomIn, bottomEnd, ctrlIn,
          transactions, inflightReqToBottom, isFlushing, made, flying, answered,
          lookups, accesses, frame, ctrl, flushes>>

ports == <<topIn, topEnd, transIn, transEnd, bottomIn, bottomEnd>>
state == <<transactions, inflightReqToBottom, isFlushing>>
outside == <<made, flying, answered, lookups, accesses, frame>>
control == <<ctrlIn, ctrl, flushes>>

Pages == {Page[q] : q \in Reqs}

Init ==
    /\ topIn = <<>> /\ topEnd = <<>> /\ transIn = <<>> /\ transEnd = <<>>
    /\ bottomIn = <<>> /\ bottomEnd = <<>> /\ ctrlIn = <<>>
    /\ transactions = <<>> /\ inflightReqToBottom = <<>> /\ isFlushing = FALSE
    /\ made = 0 /\ flying = <<>> /\ answered = <<>>
    /\ lookups = {} /\ accesses = {}
    /\ frame = [p \in Pages |-> p]
    /\ ctrl = "running" /\ flushes = 0

Room(end) == Len(end) < EndCap

----------------------------------------------------------------------------
(* The translator. *)

NotDone == 0

\* The request to the TLB is named after the access it is for: each is new.
translate ==
    /\ ~isFlushing /\ topIn # <<>> /\ Room(transEnd)
    /\ transEnd' = Append(transEnd, Head(topIn))
    /\ transactions' = Append(transactions, [req |-> Head(topIn), frame |-> NotDone])
    /\ topIn' = Tail(topIn)
    /\ UNCHANGED <<topEnd, transIn, bottomIn, bottomEnd, inflightReqToBottom, isFlushing,
                   outside, control>>

findTranslationByReqID(q) == {i \in DOMAIN transactions : transactions[i].req = q}

\* An answer to a request nobody remembers is dropped.
parseTranslation ==
    /\ ~isFlushing /\ transIn # <<>>
    /\ LET rsp == Head(transIn)
       IN  transactions' = [i \in DOMAIN transactions |->
               IF i \in findTranslationByReqID(rsp.to)
               THEN [transactions[i] EXCEPT !.frame = rsp.frame] ELSE transactions[i]]
    /\ transIn' = Tail(transIn)
    /\ UNCHANGED <<topIn, topEnd, transEnd, bottomIn, bottomEnd, inflightReqToBottom,
                   isFlushing, outside, control>>

\* The first transaction that has its translation, if any.
Done == {i \in DOMAIN transactions : transactions[i].frame # NotDone}
FirstDone == CHOOSE i \in Done : \A j \in Done : i <= j

Without(seq, i) == SubSeq(seq, 1, i - 1) \o SubSeq(seq, i + 1, Len(seq))

sendToBottom ==
    /\ ~isFlushing /\ Done # {} /\ Room(bottomEnd)
    /\ LET t == transactions[FirstDone]
       IN  /\ bottomEnd' = Append(bottomEnd, t)
           /\ inflightReqToBottom' = Append(inflightReqToBottom, t.req)
    /\ transactions' = Without(transactions, FirstDone)
    /\ UNCHANGED <<topIn, topEnd, transIn, transEnd, bottomIn, isFlushing, outside, control>>

isReqInBottomByID(q) == q \in ToSet(inflightReqToBottom)

respond ==
    /\ ~isFlushing /\ bottomIn # <<>>
    /\ LET q == Head(bottomIn) IN
       IF isReqInBottomByID(q)
       THEN /\ Room(topEnd)
            /\ topEnd' = Append(topEnd, q)
            /\ inflightReqToBottom' = SelectSeq(inflightReqToBottom, LAMBDA r : r # q)
       ELSE UNCHANGED <<topEnd, inflightReqToBottom>>
    /\ bottomIn' = Tail(bottomIn)
    /\ UNCHANGED <<topIn, transIn, transEnd, bottomEnd, transactions, isFlushing, outside,
                   control>>

\* What a flush leaves of the translator's own lists.
AfterFlush_Kept(list) == list
AfterFlush(list) == <<>>

handleFlushReq ==
    /\ ctrlIn = <<"flush">>
    /\ ctrlIn' = <<>> /\ ctrl' = "flushed"
    /\ transactions' = AfterFlush(transactions) /\ inflightReqToBottom' = <<>>
    /\ isFlushing' = TRUE
    /\ UNCHANGED <<ports, outside, flushes>>

\* Restart empties the three ports; what is inside a connection stays there.
handleRestartReq ==
    /\ ctrlIn = <<"restart">>
    /\ ctrlIn' = <<>> /\ ctrl' = "running"
    /\ topIn' = <<>> /\ bottomIn' = <<>> /\ transIn' = <<>>
    /\ isFlushing' = FALSE
    /\ UNCHANGED <<topEnd, transEnd, bottomEnd, transactions, inflightReqToBottom, outside,
                   flushes>>

----------------------------------------------------------------------------
(* The components around it. *)

\* The unit makes an access; while it is flushed it makes none.
MakeAccess ==
    /\ ctrl = "running" /\ made < Cardinality(Reqs) /\ Len(flying) < EndCap
    /\ made' = made + 1 /\ flying' = Append(flying, made + 1)
    /\ UNCHANGED <<ports, state, answered, lookups, accesses, frame, control>>

DeliverAccess ==
    /\ flying # <<>> /\ Len(topIn) < PortCap
    /\ topIn' = Append(topIn, Head(flying)) /\ flying' = Tail(flying)
    /\ UNCHANGED <<topEnd, transIn, transEnd, bottomIn, bottomEnd, state, made, answered,
                   lookups, accesses, frame, control>>

TakeAnswer ==
    /\ topEnd # <<>>
    /\ answered' = Append(answered, Head(topEnd)) /\ topEnd' = Tail(topEnd)
    /\ UNCHANGED <<topIn, transIn, transEnd, bottomIn, bottomEnd, state, made, flying,
                   lookups, accesses, frame, control>>

TakeLookup ==
    /\ transEnd # <<>>
    /\ lookups' = lookups \cup {Head(transEnd)} /\ transEnd' = Tail(transEnd)
    /\ UNCHANGED <<topIn, topEnd, transIn, bottomIn, bottomEnd, state, made, flying,
                   answered, accesses, frame, control>>

\* The TLB answers in any order, with where the page is now.
AnswerLookup(q) ==
    /\ q \in lookups /\ Len(transIn) < PortCap
    /\ lookups' = lookups \ {q}
    /\ transIn' = Append(transIn, [to |-> q, frame |-> frame[Page[q]]])
    /\ UNCHANGED <<topIn, topEnd, transEnd, bottomIn, bottomEnd, state, made, flying,
                   answered, accesses, frame, control>>

TakeBottom ==
    /\ bottomEnd # <<>>
    /\ accesses' = accesses \cup {Head(bottomEnd)} /\ bottomEnd' = Tail(bottomEnd)
    /\ UNCHANGED <<topIn, topEnd, transIn, transEnd, bottomIn, state, made, flying,
                   answered, lookups, frame, control>>

AnswerBottom(q) ==
    /\ Len(bottomIn) < PortCap
    /\ \E a \in accesses : a.req = q /\ accesses' = accesses \ {a}
    /\ bottomIn' = Append(bottomIn, q)
    /\ UNCHANGED <<topIn, topEnd, transIn, transEnd, bottomEnd, state, made, flying,
                   answered, lookups, frame, control>>

\* A migration: the flush, the move once the flush is acknowledged, the restart.
\* Lookups, accesses and answers that are on their way stay on their way.
StartFlush ==
    /\ ctrl = "running" /\ ctrlIn = <<>> /\ flushes < MaxFlushes
    /\ ctrlIn' = <<"flush">> /\ flushes' = flushes + 1 /\ ctrl' = "flushing"
    /\ UNCHANGED <<ports, state, outside>>

MovePage(p, f) ==
    /\ ctrl = "flushed" /\ f \notin {frame[x] : x \in Pages}
    /\ frame' = [frame EXCEPT ![p] = f] /\ ctrl' = "moved"
    /\ UNCHANGED <<ports, state, made, flying, answered, lookups, accesses, ctrlIn, flushes>>

StartRestart ==
    /\ ctrl = "moved"
    /\ ctrlIn' = <<"restart">> /\ ctrl' = "restarting"
    /\ UNCHANGED <<ports, state, outside, flushes>>

Steps == translate \/ parseTranslation \/ sendToBottom \/ respond
Control == handleFlushReq \/ handleRestartReq
Around == \/ DeliverAccess \/ TakeAnswer \/ TakeLookup \/ TakeBottom
          \/ \E q \in Reqs : AnswerLookup(q) \/ AnswerBottom(q)
EndMigration == StartRestart \/ \E p \in Pages, f \in Frames : MovePage(p, f)

\* Owed by the engine, the connections, the units below and a migration under way.
\* No behaviour repeats a state, so fairness of all is fairness of each.
Work == Steps \/ Control \/ Around \/ EndMigration
Next == Work \/ MakeAccess \/ StartFlush

Spec == Init /\ [][Next]_vars /\ WF_vars(Work)

----------------------------------------------------------------------------
(* Properties. *)

\* Queues within their capacities; the frames of different pages differ.
TypeOK ==
    /\ \A n \in {Len(topIn), Len(transIn), Len(bottomIn)} : n <= PortCap
    /\ \A n \in {Len(topEnd), Len(transEnd), Len(bottomEnd), Len(flying)} : n <= EndCap
    /\ frame \in [Pages -> Frames] /\ IsInjective(frame)

Times(seq, q) == Len(SelectSeq(seq, LAMBDA x : x = q))
Translating(q) == Cardinality(findTranslationByReqID(q))
Known(q) == Times(flying \o topIn, q) + Translating(q) + Times(inflightReqToBottom, q)
            + Times(topEnd \o answered, q)
Discarded(q) == q <= made /\ Known(q) = 0

\* An access is in one place of the translator, or answered, and never both:
\* the search for the transaction a response belongs to has one result. Only
\* a flush makes the translator forget one.
ExactlyOnce ==
    \A q \in 1..made : Known(q) <= 1 /\ (flushes = 0 => Known(q) = 1)

\* A translation the translator is about to use is where the page is now. The
\* answer of the TLB may be older than the migration: then it belongs to a
\* transaction the flush has dropped.
FreshTranslation ==
    ctrl \in {"moved", "restarting", "running"} =>
        \A i \in Done : transactions[i].frame = frame[Page[transactions[i].req]]

\* An access that was discarded is not answered later, by a response of the
\* cache or the TLB that was on its way across the restart.
DiscardedForGood ==
    [][\A q \in Reqs : Discarded(q) => Discarded(q)']_vars

\* While an access is below, the request for it or the response is on the way:
\* restart, which empties the ports, strands nothing the translator remembers.
NothingStranded ==
    /\ \A q \in ToSet(inflightReqToBottom) :
            q \in {a.req : a \in accesses \cup ToSet(bottomEnd)} \cup ToSet(bottomIn)
    /\ \A i \in DOMAIN transactions \ Done :
            transactions[i].req \in lookups \cup ToSet(transEnd) \cup {r.to : r \in ToSet(transIn)}

AllSettled == \A q \in 1..made : q \in ToSet(answered) \/ Discarded(q)

\* Every access is answered, unless a flush discards it.
Answered == []<>AllSettled
==============================================================================
