---------------------------- MODULE CoalescingPort ----------------------------
(***************************************************************************)
(* The top port of the L2 TLB, mem/vm/tlb/coalescingport.go, with the        *)
(* DirectConnection it is plugged into.  Requests for a page that is already *)
(* asked for wait in the port's own MSHR and never reach the TLB; one Send of *)
(* the TLB answers all of them, as far as the connection has room.            *)
(*                                                                           *)
(* Nobody polls: a tick runs only when it was asked for.  The port refuses    *)
(* by numReqs, which Send lowers, but reports free space in Retrieve.         *)
(*                                                                           *)
(* The TLB is reduced to what the port sees of it: it retrieves a request     *)
(* per tick and answers the ones it holds, in any order, once their page is    *)
(* known.                                                                      *)
(***************************************************************************)
EXTENDS Naturals, Sequences, FiniteSets, SequencesExt, FiniteSetsExt

CONSTANTS
    Senders,     \* the units above: L1 TLBs and the RTU
    Asks,        \* Asks[s]: the pages s asks for, in order, as a set of choices
    bufCapacity, \* requests the port counts before it refuses
    EndCap,      \* source-side buffer of the port's end of the connection
    SinkCap      \* responses a sender's own port holds

VARIABLES
    toSend,      \* toSend[s]: the requests s has yet to make
    srcBuf,      \* srcBuf[s]: the requests of s in the connection
    buf, mshr, numReqs, portBusy,
    held,        \* requests the TLB took and has not answered
    known,       \* the ones among them whose page has arrived
    endBuf, endBusy,
    sink, sinkBusy,
    answered,
    connDue, tlbDue,
    running,     \* "none", "conn" or "tlb": whose Tick is running
    visited,     \* the ends this tick of the connection has dealt with
    progress,
    restarts,
    total        \* requests of this run

Pages == UNION {ToSet(a[s]) : a \in Asks, s \in Senders}

port     == <<buf, mshr, numReqs, portBusy>>
tlb      == <<held, known>>
above    == <<toSend, srcBuf, sink, sinkBusy, answered>>
conn     == <<endBuf, endBusy>>
history  == <<restarts, total>>
ticks    == <<connDue, tlbDue, running, visited, progress>>
vars     == <<port, tlb, above, conn, ticks, history>>

Init ==
    /\ \E a \in Asks : toSend = [s \in Senders |->
                          [i \in DOMAIN a[s] |-> [id |-> <<s, i>>, v |-> a[s][i]]]]
    /\ total = FoldFunctionOnSet(LAMBDA q, n : Len(q) + n, 0, toSend, Senders)
    /\ srcBuf = [s \in Senders |-> <<>>]
    /\ buf = <<>> /\ mshr = <<>> /\ numReqs = 0 /\ portBusy = FALSE
    /\ held = {} /\ known = {} /\ endBuf = <<>> /\ endBusy = FALSE
    /\ sink = [s \in Senders |-> <<>>] /\ sinkBusy = {} /\ answered = <<>>
    /\ connDue = FALSE /\ tlbDue = FALSE
    /\ running = "none" /\ visited = {} /\ progress = FALSE /\ restarts = 0

-----------------------------------------------------------------------------
(* The port. *)

Full == numReqs >= bufCapacity

\* Recv: a request for a page that is asked for joins the entry, any other opens one.
Entry(m) == IF m.v \in DOMAIN mshr THEN [mshr EXCEPT ![m.v] = Append(@, m.id)]
            ELSE [v \in DOMAIN mshr \cup {m.v} |-> IF v = m.v THEN <<m.id>> ELSE mshr[v]]
BufferWith(m) == IF m.v \in DOMAIN mshr THEN buf ELSE Append(buf, m)

Recv(m) ==
    /\ ~Full
    /\ mshr' = Entry(m) /\ buf' = BufferWith(m) /\ numReqs' = numReqs + 1
    /\ tlbDue' = TRUE /\ UNCHANGED portBusy

Refuse == Full /\ portBusy' = TRUE /\ UNCHANGED <<buf, mshr, numReqs>>

\* Retrieve: a connection that was refused is told, whether or not numReqs has fallen.
Retrieve ==
    /\ buf' = Tail(buf) /\ portBusy' = FALSE
    /\ connDue' = (connDue \/ portBusy)
    /\ UNCHANGED <<mshr, numReqs>>

\* Send: the requests of the entry are answered until the end is full; what is left
\* stays in the entry.  The connection is woken by every response it accepts.
Answerable(v) == Min({Len(mshr[v]), EndCap - Len(endBuf)})
Left(v, n) == SubSeq(mshr[v], n + 1, Len(mshr[v]))
Woken_Never(n) == connDue
Woken(n) == connDue \/ n > 0

Send(v) ==
    LET n == Answerable(v) IN
    /\ endBuf' = endBuf \o SubSeq(mshr[v], 1, n)
    /\ endBusy' = (endBusy \/ n < Len(mshr[v]))
    /\ numReqs' = numReqs - n
    /\ mshr' = IF Left(v, n) = <<>> THEN [w \in DOMAIN mshr \ {v} |-> mshr[w]]
               ELSE [mshr EXCEPT ![v] = Left(v, n)]
    /\ connDue' = Woken(n)
    /\ UNCHANGED <<buf, portBusy>>

-----------------------------------------------------------------------------
(* The tick of the TLB: answers, then one retrieval. *)

StartTLB ==
    /\ running = "none" /\ tlbDue
    /\ running' = "tlb" /\ tlbDue' = FALSE /\ progress' = FALSE
    /\ UNCHANGED <<port, tlb, above, conn, connDue, visited, history>>

\* respondMSHREntry or handleTranslationHit; an unsuccessful Send is tried again later.
Respond(r) ==
    LET n == Answerable(r.v) IN
    /\ running = "tlb" /\ r \in known
    /\ n > 0 \/ ~endBusy
    /\ Send(r.v)
    /\ IF n = Len(mshr[r.v]) THEN held' = held \ {r} /\ known' = known \ {r} /\ progress' = TRUE
       ELSE UNCHANGED <<held, known, progress>>
    /\ UNCHANGED <<above, tlbDue, running, visited, history>>

TakeRequest ==
    /\ running = "tlb" /\ buf # <<>>
    /\ Retrieve
    /\ held' = held \cup {Head(buf)} /\ progress' = TRUE
    /\ running' = "tlb"
    /\ UNCHANGED <<known, above, conn, tlbDue, visited, history>>

\* A tick ends when nothing more can be done; with progress it asks for another.
EndTLB ==
    /\ running = "tlb" /\ buf = <<>>
    /\ \A r \in known : Answerable(r.v) = 0 /\ endBusy
    /\ running' = "none" /\ tlbDue' = (tlbDue \/ progress)
    /\ UNCHANGED <<port, tlb, above, conn, connDue, visited, progress, history>>

\* A flush forgets requests that wait for their page, and handleTLBRestart empties the
\* port; the port's MSHR and its count stay.
Restart ==
    /\ running = "none" /\ restarts = 0
    /\ buf' = <<>> /\ portBusy' = (portBusy /\ buf = <<>>)
    /\ connDue' = (connDue \/ (portBusy /\ buf # <<>>))
    /\ \E dropped \in SUBSET (held \ known) : held' = held \ dropped
    /\ restarts' = 1
    /\ UNCHANGED <<mshr, numReqs, known, above, conn, tlbDue, running, visited, progress, total>>

\* The page of a held request arrives from below.
Arrive(r) ==
    /\ running = "none" /\ r \in held \ known
    /\ known' = known \cup {r} /\ tlbDue' = TRUE
    /\ UNCHANGED <<port, held, above, conn, connDue, running, visited, progress, history>>

-----------------------------------------------------------------------------
(* The connection's tick, and the units above. *)

StartConn ==
    /\ running = "none" /\ connDue
    /\ running' = "conn" /\ connDue' = FALSE /\ visited' = {} /\ progress' = FALSE
    /\ UNCHANGED <<port, tlb, above, conn, tlbDue, history>>

Forward(s) ==
    /\ running = "conn" /\ s \notin visited /\ srcBuf[s] # <<>>
    /\ Recv(Head(srcBuf[s]))
    /\ srcBuf' = [srcBuf EXCEPT ![s] = Tail(@)] /\ progress' = TRUE
    /\ UNCHANGED <<tlb, conn, toSend, sink, sinkBusy, answered, connDue, running, visited,
                   history>>

NextEnd(s) ==
    /\ running = "conn" /\ s \notin visited
    /\ \/ srcBuf[s] = <<>> /\ UNCHANGED port
       \/ srcBuf[s] # <<>> /\ Refuse
    /\ visited' = visited \cup {s}
    /\ UNCHANGED <<tlb, above, conn, connDue, tlbDue, running, progress, history>>

\* A response is delivered; the TLB is told when its end had refused it.
FreeNotice == tlbDue \/ endBusy
Respondee == Head(endBuf)[1]
ForwardResponse ==
    /\ running = "conn" /\ "port" \notin visited /\ endBuf # <<>>
    /\ Len(sink[Respondee]) < SinkCap
    /\ sink' = [sink EXCEPT ![Respondee] = Append(@, Head(endBuf))]
    /\ endBuf' = Tail(endBuf) /\ endBusy' = FALSE
    /\ tlbDue' = FreeNotice /\ progress' = TRUE
    /\ UNCHANGED <<port, tlb, toSend, srcBuf, sinkBusy, answered, connDue, running, visited,
                   history>>

NextResponse ==
    /\ running = "conn" /\ "port" \notin visited
    /\ \/ endBuf = <<>> /\ UNCHANGED sinkBusy
       \/ /\ endBuf # <<>> /\ Len(sink[Respondee]) >= SinkCap
          /\ sinkBusy' = sinkBusy \cup {Respondee}
    /\ visited' = visited \cup {"port"}
    /\ UNCHANGED <<port, tlb, conn, toSend, srcBuf, sink, answered, connDue, tlbDue, running,
                   progress, history>>

EndConn ==
    /\ running = "conn" /\ visited = Senders \cup {"port"}
    /\ running' = "none" /\ connDue' = (connDue \/ progress) /\ visited' = {}
    /\ UNCHANGED <<port, tlb, above, conn, tlbDue, progress, history>>

Request(s) ==
    /\ running = "none" /\ toSend[s] # <<>> /\ srcBuf[s] = <<>>
    /\ srcBuf' = [srcBuf EXCEPT ![s] = <<Head(toSend[s])>>]
    /\ toSend' = [toSend EXCEPT ![s] = Tail(@)]
    /\ connDue' = TRUE
    /\ UNCHANGED <<port, tlb, conn, sink, sinkBusy, answered, tlbDue, running, visited,
                   progress, history>>

TakeResponse(s) ==
    /\ running = "none" /\ sink[s] # <<>>
    /\ answered' = Append(answered, Head(sink[s])) /\ sink' = [sink EXCEPT ![s] = Tail(@)]
    /\ connDue' = (connDue \/ s \in sinkBusy) /\ sinkBusy' = sinkBusy \ {s}
    /\ UNCHANGED <<port, tlb, conn, toSend, srcBuf, tlbDue, running, visited, progress, history>>

TLBTick  == StartTLB \/ (\E r \in known : Respond(r)) \/ TakeRequest \/ EndTLB
ConnTick == \/ StartConn \/ EndConn \/ ForwardResponse \/ NextResponse
            \/ \E s \in Senders : Forward(s) \/ NextEnd(s)

\* The engine runs every tick that was asked for; pages arrive; senders take responses.
Work == \/ TLBTick \/ ConnTick
        \/ \E r \in held : Arrive(r)
        \/ \E s \in Senders : Request(s) \/ TakeResponse(s)
Next == Work \/ Restart

Spec == Init /\ [][Next]_vars /\ WF_vars(Work)

-----------------------------------------------------------------------------
(* Properties. *)

SumLen(f) == FoldFunctionOnSet(LAMBDA q, n : Len(q) + n, 0, f, DOMAIN f)
InEntries == UNION {ToSet(mshr[v]) : v \in DOMAIN mshr}

\* Type invariant of the port; numReqs counts exactly the requests of the port's MSHR,
\* answered or not, and stays within bufCapacity (Recv, Send).
TypeOK ==
    /\ DOMAIN mshr \subseteq Pages /\ portBusy \in BOOLEAN /\ known \subseteq held
    /\ Len(endBuf) <= EndCap /\ \A s \in Senders : Len(sink[s]) <= SinkCap
    /\ numReqs = SumLen(mshr) /\ numReqs <= bufCapacity

\* Exactly-once: each request is on its way, in one entry, or answered once, however many
\* attempts Send needs to answer an entry.
ExactlyOnce ==
    /\ SumLen(toSend) + SumLen(srcBuf) + numReqs + Len(endBuf) + SumLen(sink) + Len(answered)
         = total
    /\ LET done == ToSet(endBuf) \cup UNION {ToSet(sink[s]) : s \in Senders} \cup ToSet(answered)
       IN  Cardinality(InEntries) + Cardinality(done) = numReqs + Len(endBuf) + SumLen(sink)
                                                         + Len(answered)
           /\ InEntries \cap done = {}

\* One lookup per page: until the TLB is restarted, an entry of the port has exactly one
\* request before or in the TLB, so that somebody will answer the ones that joined it, and
\* Send finds the entry of what the TLB answers (otherwise "something went wrong").
OneLookupPerEntry ==
    restarts = 0 =>
      LET looked == held \cup ToSet(buf) IN
      /\ {m.v : m \in looked} = DOMAIN mshr
      /\ Cardinality(looked) = Cardinality(DOMAIN mshr)
      /\ Cardinality(held) + Len(buf) = Cardinality(looked)

\* No lost wake-up: whenever the connection could deliver something or the TLB could take or
\* answer something, a tick of it has been asked for - although the port gives the notice
\* in Retrieve and frees the space in Send.
NoMissedWakeup ==
    running = "none" =>
      /\ (\E s \in Senders : srcBuf[s] # <<>> /\ ~Full) => connDue
      /\ (endBuf # <<>> /\ Len(sink[Respondee]) < SinkCap) => connDue
      /\ (buf # <<>> \/ \E r \in known : Answerable(r.v) > 0) => tlbDue

AllAnswered == restarts > 0 \/ Len(answered) = total

\* Every request is answered, unless the TLB is restarted under it.
Answered == <>AllAnswered
=============================================================================
