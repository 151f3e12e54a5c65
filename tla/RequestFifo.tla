---------------------------- MODULE RequestFifo ----------------------------
(***************************************************************************)
(* What the request queue of the rebalancer promises: every request that   *)
(* was accepted is served, once, in the order of acceptance, one at a time.*)
(***************************************************************************)
EXTENDS Sequences

CONSTANT Requests

VARIABLES queue, serving   \* serving: at most one request

Init == queue = <<>> /\ serving = <<>>

Accept ==
    /\ \E r \in Requests : queue' = Append(queue, r)
    /\ UNCHANGED serving

Begin ==
    /\ serving = <<>> /\ queue # <<>>
    /\ serving' = <<Head(queue)>>
    /\ queue' = Tail(queue)

End ==
    /\ serving # <<>>
    /\ serving' = <<>>
    /\ UNCHANGED queue

Next == Accept \/ Begin \/ End

Spec == Init /\ [][Next]_<<queue, serving>>
=============================================================================
