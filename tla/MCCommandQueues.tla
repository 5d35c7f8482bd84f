-------------------------- MODULE MCCommandQueues --------------------------
(* Instances of CommandQueues for TLC.                                     *)
EXTENDS CommandQueues

CONSTANTS h1, h2, g1, g2

OneQueue  == <<h1>>
TwoQueues == <<h1, h2>>
OnFirst   == [h \in Hosts |-> g1]
OnBoth    == [h \in Hosts |-> IF h = h1 THEN g1 ELSE g2]

(* The engine may still be running from the first drain while the second   *)
(* kernel and its copy are enqueued.                                       *)
EngineStillRuns == [h \in Hosts |-> << <<"noop">>, <<"kernel", "copy">> >>]

(* Two goroutines, one of them draining twice.                             *)
Concurrently == [h \in Hosts |->
    IF h = h1 THEN << <<"kernel", "copy">> >>
    ELSE << <<"noop">>, <<"kernel">> >>]

OneDrain  == [h \in Hosts |-> << <<"kernel", "noop", "copy">> >>]
TwoDrains == [h \in Hosts |-> << <<"kernel">>, <<"kernel">> >>]
=============================================================================
