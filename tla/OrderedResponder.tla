--------------------------- MODULE OrderedResponder ---------------------------
(* What a reorder buffer promises its requester: accepted requests are       *)
(* answered one at a time, oldest first, each with its own data; a discard   *)
(* forgets all accepted requests at once.                                    *)
EXTENDS Naturals, Sequences

CONSTANT Reqs
VARIABLES pending, answers

avars == <<pending, answers>>

AInit == pending = <<>> /\ answers = <<>>

Accept == /\ \E r \in Reqs : pending' = Append(pending, r)
          /\ UNCHANGED answers

Answer == /\ pending # <<>>
          /\ answers' = Append(answers, [rspTo |-> Head(pending),
                                         data  |-> Head(pending)])
          /\ pending' = Tail(pending)

Forget == pending' = <<>> /\ UNCHANGED answers

ANext == Accept \/ Answer \/ Forget

\* The safety part of Spec.
Safety == AInit /\ [][ANext]_avars

Spec == AInit /\ [][ANext]_avars /\ WF_avars(Answer)
=============================================================================
