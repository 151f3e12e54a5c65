--------------------------- MODULE LoadOwnership ---------------------------
(***************************************************************************)
(* What the runtime promises its application: every load belongs to at     *)
(* most one xstream at a time, its LWTs run one at a time on the xstream   *)
(* that owns it, and it changes hands only between two LWTs.  This is what *)
(* lets the LWTs of one load share data without locks (README, "mapping"). *)
(***************************************************************************)
EXTENDS Naturals

CONSTANTS Streams, Loads

VARIABLES
    owners,   \* the xstreams that own a load: none or one
    gone,     \* loads that have been given up at shutdown
    pending,  \* LWTs submitted and not started
    running,  \* an LWT of the load is running
    done      \* LWTs that have ended

vars == <<owners, gone, pending, running, done>>

Init ==
    /\ owners = [l \in Loads |-> {}]
    /\ gone = {}
    /\ pending = [l \in Loads |-> 0]
    /\ running = [l \in Loads |-> FALSE]
    /\ done = [l \in Loads |-> 0]

\* A new load is placed on a stream.
Attach(l, s) ==
    /\ owners[l] = {} /\ l \notin gone
    /\ owners' = [owners EXCEPT ![l] = {s}]
    /\ UNCHANGED <<gone, pending, running, done>>

\* The application submits an LWT.
Submit(l) ==
    /\ pending' = [pending EXCEPT ![l] = @ + 1]
    /\ UNCHANGED <<owners, gone, running, done>>

\* The owner starts an LWT, if none is running.
Start(l, s) ==
    /\ owners[l] = {s} /\ ~running[l] /\ pending[l] > 0
    /\ pending' = [pending EXCEPT ![l] = @ - 1]
    /\ running' = [running EXCEPT ![l] = TRUE]
    /\ UNCHANGED <<owners, gone, done>>

\* The LWT ends.
Finish(l) ==
    /\ running[l]
    /\ running' = [running EXCEPT ![l] = FALSE]
    /\ done' = [done EXCEPT ![l] = @ + 1]
    /\ UNCHANGED <<owners, gone, pending>>

\* The load moves to another stream, between two LWTs.
HandOver(l, s, t) ==
    /\ owners[l] = {s} /\ ~running[l]
    /\ owners' = [owners EXCEPT ![l] = {t}]
    /\ UNCHANGED <<gone, pending, running, done>>

\* The owner gives the load up, between two LWTs.
GiveUp(l, s) ==
    /\ owners[l] = {s} /\ ~running[l]
    /\ owners' = [owners EXCEPT ![l] = {}]
    /\ gone' = gone \cup {l}
    /\ UNCHANGED <<pending, running, done>>

Next ==
    \E l \in Loads :
        \/ Submit(l) \/ Finish(l)
        \/ \E s \in Streams : Attach(l, s) \/ Start(l, s) \/ GiveUp(l, s)
        \/ \E s, t \in Streams : HandOver(l, s, t)

Spec == Init /\ [][Next]_vars
=============================================================================
