--------------------------- MODULE IndexSwitching ---------------------------
(***************************************************************************)
(* The adaptive indexing of the distributed L2 TLB (commandprocessor.go,   *)
(* remotetranslationunit.go, tlb_with_latency.go, mmu.go).  A remote       *)
(* translation unit that has served an epoch of requests triggers the      *)
(* command processor, which asks every TLB, MMU and remote translation     *)
(* unit for statistics.  When each has answered, the command processor     *)
(* decides; after two rounds in a row in favour it tells every unit to     *)
(* index by 4 KB pages.  A kernel launch tells every unit to go back to    *)
(* the indexing of the data placement, and resets the counters.            *)
(*                                                                         *)
(* The links are FIFO: the senders of the command processor are unlimited, *)
(* the control ports hold one message and the connection's ends ten, far   *)
(* more than a unit sends between two cycles of the command processor.     *)
(***************************************************************************)
EXTENDS Integers, Sequences, FiniteSets, SequencesExt

CONSTANTS Units,        \* pairs of a kind ("TLB", "MMU", "RTU") and a chiplet
          MaxSwitches,  \* the limit of numSwitches, 10 in the code
          MaxTriggers, MaxLaunches

VARIABLES cpu,     \* the statistics fields of the command processor
          ctrl,    \* the messages on their way to each unit's control port
          back,    \* the messages of each unit to the command processor
          index,   \* the indexing each unit uses
          budget,  \* what the environment may still do
          round,   \* the rounds begun, what the last one will find, its answers
          cut      \* a launch has zeroed the counts of a round

vars == <<cpu, ctrl, back, index, budget, round, cut>>

Chiplets == {u[2] : u \in Units}
RTUs     == {u \in Units : u[1] = "RTU"}

(***************************************************************************)
(* How many units of a kind there are; the code has four of each.          *)
(***************************************************************************)
N(kind) == Cardinality({u \in Units : u[1] = kind})

Init == /\ cpu = [TLBResponseCount |-> 0, MMUResponseCount |-> 0,
                  RTUResponseCount |-> 0, numSwitches |-> 0,
                  statsCollectionInProgress |-> FALSE,
                  switchTo4kHysteris |-> FALSE, Hits |-> 0, Misses |-> 0,
                  IncomingReqs |-> [c \in Chiplets |-> 0]]
        /\ ctrl = [u \in Units |-> <<>>]
        /\ back = [u \in Units |-> <<>>]
        /\ index = [u \in Units |-> "HSL"]
        /\ budget = [triggers |-> MaxTriggers, launches |-> MaxLaunches]
        /\ round = [number |-> 0, answered |-> {}, hot |-> FALSE]
        /\ cut = FALSE

-----------------------------------------------------------------------------
(***************************************************************************)
(* The units.  An epoch of a remote translation unit ends with a trigger   *)
(* (its test for imbalance is overridden).                                 *)
(***************************************************************************)
consolidateStats(u) ==
    /\ budget.triggers > 0
    /\ budget' = [budget EXCEPT !.triggers = @ - 1]
    /\ back' = [back EXCEPT ![u] = Append(@, [op |-> "trigger"])]
    /\ UNCHANGED <<cpu, ctrl, index, round, cut>>

(***************************************************************************)
(* Nine requests each: all of them hits, and all of the remote ones for    *)
(* the first chiplet, or none.                                             *)
(***************************************************************************)
Stats(u) ==
    LET n == IF round.hot THEN 9 ELSE 0
    IN CASE u[1] = "TLB" -> [op |-> "stats", hits |-> n, misses |-> 9 - n,
                             round |-> round.number]
         [] u[1] = "RTU" -> [op |-> "stats", round |-> round.number,
                             incoming |-> IF u[2] = 1 THEN n ELSE 0]
         [] OTHER        -> [op |-> "stats", round |-> round.number]

sendCollectedStatsToCP(u) ==
    /\ ctrl[u] # <<>> /\ Head(ctrl[u]) = "stats"
    /\ ctrl' = [ctrl EXCEPT ![u] = Tail(@)]
    /\ back' = [back EXCEPT ![u] = Append(@, Stats(u))]
    /\ UNCHANGED <<cpu, index, budget, round, cut>>

switchIndexing(u) ==
    /\ ctrl[u] # <<>> /\ Head(ctrl[u]) # "stats"
    /\ ctrl' = [ctrl EXCEPT ![u] = Tail(@)]
    /\ index' = [index EXCEPT ![u] = Head(ctrl[u])]
    /\ UNCHANGED <<cpu, back, budget, round, cut>>

-----------------------------------------------------------------------------
(***************************************************************************)
(* The command processor.                                                  *)
(***************************************************************************)
ToUnits == Units

SendAll(m) == [u \in Units |-> IF u \in ToUnits THEN Append(ctrl[u], m) ELSE ctrl[u]]

InProgress(c) == c.statsCollectionInProgress

requestStatsFromComponents(u) ==
    /\ back[u] # <<>> /\ Head(back[u]).op = "trigger"
    /\ back' = [back EXCEPT ![u] = Tail(@)]
    /\ IF InProgress(cpu)
       THEN UNCHANGED <<cpu, ctrl, round, cut>>
       ELSE /\ cpu' = [cpu EXCEPT !.statsCollectionInProgress = TRUE,
                                  !.TLBResponseCount = 0, !.MMUResponseCount = 0,
                                  !.RTUResponseCount = 0]
            /\ ctrl' = [v \in Units |-> Append(ctrl[v], "stats")]
            /\ \E hot \in BOOLEAN :
                  round' = [number |-> round.number + 1, answered |-> {}, hot |-> hot]
            /\ cut' = FALSE
    /\ UNCHANGED <<index, budget>>

(***************************************************************************)
(* More than nine hits in ten, and one chiplet with more than eight tenths *)
(* of the incoming requests (a division by zero is not a number, and no    *)
(* number is smaller).                                                     *)
(***************************************************************************)
getImbalance(a) ==
    LET total == FoldFunctionOnSet(+, 0, a, Chiplets)
    IN \E c \in Chiplets : total > 0 /\ 10 * a[c] > 8 * total

WantsSwitch(c) == /\ 10 * c.Hits > 9 * (c.Hits + c.Misses)
                  /\ getImbalance(c.IncomingReqs)

Counted(c, u, m) ==
    CASE u[1] = "TLB" -> [c EXCEPT !.TLBResponseCount = @ + 1,
                                   !.Hits = @ + m.hits, !.Misses = @ + m.misses]
      [] u[1] = "RTU" -> [c EXCEPT !.RTUResponseCount = @ + 1,
                                   !.IncomingReqs[u[2]] = m.incoming]
      [] OTHER        -> [c EXCEPT !.MMUResponseCount = @ + 1]

AllIn_RTUsOnly(c) == c.RTUResponseCount = N("RTU")

AllIn(c) == /\ c.TLBResponseCount = N("TLB")
            /\ c.MMUResponseCount = N("MMU")
            /\ c.RTUResponseCount = N("RTU")

processCollectedStats(u) ==
    /\ back[u] # <<>> /\ Head(back[u]).op = "stats"
    /\ back' = [back EXCEPT ![u] = Tail(@)]
    /\ round' = [round EXCEPT !.answered =
                    @ \cup {<<u, Head(back[u]).round>>}]
    /\ \E c \in {Counted(cpu, u, Head(back[u]))} :
       IF ~AllIn(c) THEN cpu' = c /\ UNCHANGED ctrl
       ELSE LET sends == WantsSwitch(c) /\ c.switchTo4kHysteris
                        /\ c.numSwitches < MaxSwitches
            IN /\ ctrl' = IF sends THEN SendAll("4K") ELSE ctrl
               /\ cpu' = [c EXCEPT !.statsCollectionInProgress = FALSE,
                                   !.switchTo4kHysteris = WantsSwitch(c),
                                   !.numSwitches = IF sends THEN @ + 1 ELSE @,
                                   !.Hits = 0, !.Misses = 0]
    /\ UNCHANGED <<index, budget, cut>>

(***************************************************************************)
(* A launch, taken or not: with every dispatcher busy the command stays in *)
(* the port and all this happens again.  The counts of the remote          *)
(* translation units and the mark that a round is under way stay.          *)
(***************************************************************************)
processLaunchKernelReq ==
    /\ budget.launches > 0
    /\ budget' = [budget EXCEPT !.launches = @ - 1]
    /\ cpu' = [cpu EXCEPT !.TLBResponseCount = 0, !.MMUResponseCount = 0,
                          !.numSwitches = 1,
                          !.IncomingReqs = [c \in Chiplets |-> 0]]
    /\ ctrl' = SendAll("HSL")
    /\ cut' = (cut \/ cpu.TLBResponseCount + cpu.MMUResponseCount > 0)
    /\ UNCHANGED <<back, index, round>>

-----------------------------------------------------------------------------
UnitStep == \E u \in Units : sendCollectedStatsToCP(u) \/ switchIndexing(u)

CPStep == \/ \E u \in Units : processCollectedStats(u)
          \/ \E u \in RTUs : requestStatsFromComponents(u)

Next == \/ \E u \in RTUs : consolidateStats(u)
        \/ processLaunchKernelReq
        \/ UnitStep \/ CPStep

(***************************************************************************)
(* Units and the command processor tick while they hold a message.  Epochs *)
(* and launches owe nothing; they are the steps that change the budget.    *)
(***************************************************************************)
Idle == \A u \in Units : ctrl[u] = <<>> /\ back[u] = <<>>

Fairness == []<>Idle \/ []<><<budget' = budget>>_vars

Spec == Init /\ [][Next]_vars /\ Fairness

-----------------------------------------------------------------------------
(***************************************************************************)
(* Counts never pass the number of units, the limit on switches holds.     *)
(***************************************************************************)
TypeOK == /\ cpu.TLBResponseCount \in 0..N("TLB")
          /\ cpu.MMUResponseCount \in 0..N("MMU")
          /\ cpu.RTUResponseCount \in 0..N("RTU")
          /\ cpu.numSwitches \in 0..MaxSwitches
          /\ \A u \in Units : index[u] \in {"HSL", "4K"}

(***************************************************************************)
(* Once the messages have arrived, every remote translation unit, TLB and  *)
(* MMU indexes the same way: a unit that missed a switch would look for    *)
(* translations on the wrong chiplet for ever.                             *)
(***************************************************************************)
Agreement == (\A u \in Units : ctrl[u] = <<>>)
                => \A u, v \in Units : index[u] = index[v]

(***************************************************************************)
(* A decision is taken on one answer of every unit, all of the same round: *)
(* when a round ends, everyone has answered it and no one another one.     *)
(***************************************************************************)
DecidesOnWholeRound ==
    [][(cpu.statsCollectionInProgress /\ ~cpu'.statsCollectionInProgress)
          => round'.answered = Units \X {round.number}]_vars

Settled == ~cpu.statsCollectionInProgress \/ cut

(***************************************************************************)
(* A round that has begun ends, unless a launch zeroed the counts of       *)
(* answers already taken: then the round is never complete, no trigger is  *)
(* heard any more and the indexing no longer adapts.                       *)
(***************************************************************************)
RoundsEnd == []<>Settled
=============================================================================
