--------------------------- MODULE RequestsProofs ---------------------------
(***************************************************************************)
(* What the removal of a core leaves behind, and that the list of requests *)
(* is a queue, for any machine, any number of loads and producers and any  *)
(* sequence of requests.                                                   *)
(***************************************************************************)
EXTENDS Requests, FiniteSetTheorems, WellFoundedInduction, TLAPS

USE RequestsAssumption DEF Cores, None

\* The tables hold cores: used_cores[], curr_rank, dest_rank, load->stream.
Ranks ==
    /\ used \subseteq Cores /\ xstreams \subseteq used
    /\ curr_rank \in [Loads -> Cores]
    /\ dest_rank \in [Loads -> Cores]
    /\ on \in [Loads -> Cores \cup {None}]
    /\ pool \in [Cores -> SUBSET Loads]
    /\ hand \in [Cores -> SUBSET (Loads \X Int)]

\* Only the stream that is being joined has units to hand off, and only while
\* it is being joined.
Streams ==
    /\ used \subseteq xstreams \cup {joining}
    /\ joining = None \/ joining \in used
    /\ joining # None <=> pc = "join"

\* A unit is in the pool of its current rank or on its way out of it, and only
\* units of the stream being joined have somewhere else to go.
Units ==
    /\ \A l \in Loads : /\ on[l] = dest_rank[l] /\ dest_rank[l] \in used \ {joining}
                        /\ curr_rank[l] # dest_rank[l] => curr_rank[l] = joining
                        /\ \/ l \in pool[curr_rank[l]]
                           \/ \E h \in hand[curr_rank[l]] : h[1] = l
    /\ \A c \in Cores : \A l \in pool[c] : curr_rank[l] = c /\ c \in xstreams

\* A base scheduler that holds a popped unit holds one, and pushes it to the
\* rank the removal chose.
HandOffs ==
    \A c \in Cores : \A h \in hand[c] :
        /\ c = joining /\ c \in xstreams
        /\ curr_rank[h[1]] = c /\ h[1] \notin pool[c]
        /\ h[2] = dest_rank[h[1]]
        /\ hand[c] = {h}

\* The inductive invariant.
Orderly == ~astray => stray = {} /\ Streams /\ Units /\ HandOffs

\* The invariant gives RemovedIsEmpty.
LEMMA OrderlySuffices == Ranks /\ Orderly => RemovedIsEmpty
  <1> SUFFICES ASSUME Ranks, Orderly, ~astray PROVE RemovedIsEmpty
    BY Zenon DEF RemovedIsEmpty
  <1>1. stray = {} /\ Streams /\ Units /\ HandOffs
    BY Zenon DEF Orderly
  <1>2. ASSUME NEW c \in Cores \ used
        PROVE  /\ c \notin xstreams /\ pool[c] = {} /\ hand[c] = {}
               /\ \A s \in Cores : \A h \in hand[s] : h[2] # c
    <2>1. c \notin xstreams /\ pool[c] = {} /\ hand[c] = {}
      BY <1>1 DEF Ranks, Units, HandOffs
    <2>2. ASSUME NEW s \in Cores, NEW h \in hand[s] PROVE h[2] # c
      BY <1>1 DEF Ranks, Units, HandOffs
    <2>3. QED
      BY Zenon, <2>1, <2>2
  <1>3. QED
    BY Zenon, <1>1, <1>2 DEF RemovedIsEmpty, Units

\* It holds after initialisation: every unit is in the pool of its stream.
LEMMA InitOrderly == Init => Ranks /\ Orderly
  <1> SUFFICES ASSUME Init PROVE Ranks /\ Orderly
    BY Zenon
  <1>1. Ranks
    BY Zenon DEF Init, Ranks
  <1>2. Streams /\ HandOffs
    BY Zenon DEF Init, Streams, HandOffs
  <1>3. Units
    <2>1. /\ used \subseteq Cores \ {0} /\ xstreams = used /\ on \in [Loads -> used]
          /\ curr_rank = on /\ dest_rank = on /\ joining = -1
          /\ pool = [c \in Cores |-> {l \in Loads : on[l] = c}]
      BY Zenon DEF Init
    <2>2. \A l \in Loads : on[l] \in used /\ on[l] \in Cores /\ on[l] # -1
      <3>1. \A l \in Loads : on[l] \in used
        BY Zenon, <2>1
      <3>2. \A c \in used : c \in Cores /\ c # -1
        BY <2>1
      <3>3. QED
        BY Zenon, <3>1, <3>2
    <2>3. \A c \in Cores : pool[c] = {l \in Loads : on[l] = c}
      BY Zenon, <2>1
    <2>4. \A l \in Loads : l \in pool[curr_rank[l]]
      BY Zenon, <2>1, <2>2, <2>3
    <2>5. QED
      BY <2>1, <2>2, <2>3, <2>4 DEF Units
  <1>4. QED
    BY Zenon, <1>1, <1>2, <1>3 DEF Init, Orderly

\* The steps on the list and the lock.
LEMMA Elsewhere ==
    ASSUME Ranks, Orderly, UNCHANGED <<unitVars, coreVars, joining>>,
           pc' = "join" <=> pc = "join"
    PROVE  Ranks' /\ Orderly'
  <1>1. Ranks'
    BY Zenon DEF Ranks, unitVars, coreVars
  <1>2. Orderly'
    BY Zenon DEF Orderly, Streams, Units, HandOffs, unitVars, coreVars
  <1>3. QED
    BY Zenon, <1>1, <1>2

\* abtst_reb_process_add_core: a new stream has no unit yet.
LEMMA AddCoreOrderly == ASSUME Ranks, Orderly, AddCore PROVE Ranks' /\ Orderly'
  <1>1. PICK core \in Cores : Serves("add", core) /\ AddCore!1!(core)
    BY Zenon DEF AddCore
  <1>2. CASE core \in used
    BY Zenon, <1>1, <1>2, Elsewhere DEF AddCore, Serves
  <1>3. CASE core \notin used
    <2>1. /\ used' = used \cup {core} /\ pc = "serve" /\ pc' = "free"
          /\ on' = [l \in Loads |-> IF on[l] = core THEN None ELSE on[l]]
          /\ \/ xstreams' = xstreams \cup {core} /\ UNCHANGED astray
             \/ astray' = TRUE /\ UNCHANGED xstreams
          /\ UNCHANGED <<dest_rank, joining, curr_rank, pool, hand, stray>>
      BY Zenon, <1>1, <1>3 DEF AddCore, Serves, unitVars
    <2>2. Ranks'
      BY Zenon, <2>1 DEF Ranks
    <2>3. ASSUME ~astray' PROVE stray' = {} /\ Streams' /\ Units' /\ HandOffs'
      <3>1. /\ stray = {} /\ Streams /\ Units /\ HandOffs
            /\ xstreams' = xstreams \cup {core}
        BY Zenon, <2>1, <2>3 DEF Orderly
      <3>2. Streams' /\ HandOffs'
        BY Zenon, <2>1, <3>1 DEF Streams, HandOffs, Ranks
      <3>3. Units'
        BY <1>3, <2>1, <3>1 DEF Units, Ranks, Streams
      <3>4. QED
        BY Zenon, <2>1, <3>1, <3>2, <3>3
    <2>4. QED
      BY Zenon, <2>2, <2>3 DEF Orderly
  <1>4. QED
    BY Zenon, <1>2, <1>3

\* abtst_reb_process_remove_core up to the join: every load of the core gets
\* another rank.
LEMMA RemoveCoreOrderly == ASSUME Ranks, Orderly, RemoveCore PROVE Ranks' /\ Orderly'
  <1>1. PICK core \in used : RemoveCore!1!(core)
    BY Zenon DEF RemoveCore
  <1>2. PICK to \in (NumaCores(core) \cap used) \ {core} :
           /\ on' = [l \in Loads |-> IF on[l] = core THEN to ELSE on[l]]
           /\ dest_rank' = [l \in Loads |-> IF on[l] = core THEN to ELSE dest_rank[l]]
    BY Zenon, <1>1
  <1>3. /\ pc = "serve" /\ pc' = "join"
        /\ astray' = (astray \/ joining' # core)
        /\ UNCHANGED <<used, xstreams, curr_rank, pool, hand, stray>>
    BY Zenon, <1>1 DEF RemoveCore, Serves, unitVars
  <1>4. Ranks'
    BY Zenon, <1>2, <1>3 DEF Ranks
  <1>5. ASSUME ~astray' PROVE stray' = {} /\ Streams' /\ Units' /\ HandOffs'
    <2>1. ~astray /\ joining' = core
      BY Zenon, <1>3, <1>5
    <2>2. stray = {} /\ Streams /\ Units /\ HandOffs
      BY Zenon, <2>1 DEF Orderly
    <2>3. joining = -1 /\ core \in Cores /\ core # -1
      BY <1>3, <2>2 DEF Streams, Ranks
    <2>4. \A c \in Cores : hand[c] = {}
      BY <2>2, <2>3 DEF HandOffs
    <2>5. \A l \in Loads : curr_rank[l] = dest_rank[l]
      BY <2>2, <2>3 DEF Units, Ranks
    <2>6. Streams'
      BY <1>3, <2>1, <2>2, <2>3 DEF Streams, Ranks
    <2>7. HandOffs'
      BY Zenon, <1>3, <2>4 DEF HandOffs
    <2>8. Units'
      BY Zenon, <1>2, <1>3, <2>1, <2>2, <2>5 DEF Units, Ranks
    <2>9. QED
      BY Zenon, <1>3, <2>2, <2>6, <2>7, <2>8
  <1>6. QED
    BY Zenon, <1>4, <1>5 DEF Orderly

\* The join returns when the stream's pool is empty, so no unit is left on it.
LEMMA JoinOrderly == ASSUME Ranks, Orderly, Join PROVE Ranks' /\ Orderly'
  <1>1. /\ pc = "join" /\ pc' = "free" /\ joining \notin xstreams
        /\ used' = used \ {joining} /\ joining' = -1
        /\ UNCHANGED <<xstreams, on, dest_rank, astray, curr_rank, pool, hand, stray>>
    BY Zenon DEF Join, Goto, unitVars
  <1>2. Ranks'
    BY Zenon, <1>1 DEF Ranks
  <1>3. ASSUME ~astray' PROVE stray' = {} /\ Streams' /\ Units' /\ HandOffs'
    <2>1. stray = {} /\ Streams /\ Units /\ HandOffs
      BY Zenon, <1>1, <1>3 DEF Orderly
    <2>2. joining \in used /\ joining \in Cores /\ joining # -1
      BY Zenon, <1>1, <2>1 DEF Streams, Ranks
    <2>3. pool[joining] = {} /\ \A c \in Cores : hand[c] = {}
      BY <1>1, <2>1, <2>2 DEF Units, HandOffs, Ranks
    <2>4. \A l \in Loads : curr_rank[l] = dest_rank[l]
      BY Zenon, <2>1, <2>2, <2>3 DEF Units, Ranks
    <2>5. Streams' /\ HandOffs'
      BY Zenon, <1>1, <2>1, <2>2, <2>3 DEF Streams, HandOffs
    <2>6. Units'
      BY <1>1, <2>1, <2>2, <2>4 DEF Units, Ranks
    <2>7. QED
      BY Zenon, <1>1, <2>1, <2>5, <2>6
  <1>4. QED
    BY Zenon, <1>2, <1>3 DEF Orderly

\* abtst_sched_base_run pops a unit whose rank has changed: only the stream
\* being joined can.
LEMMA TakeUnitOrderly ==
    ASSUME Ranks, Orderly, NEW s \in Cores, TakeUnit(s)
    PROVE  Ranks' /\ Orderly'
  <1>1. PICK l \in pool[s] :
           /\ curr_rank[l] # dest_rank[l]
           /\ pool' = [pool EXCEPT ![s] = @ \ {l}]
           /\ hand' = [hand EXCEPT ![s] = {<<l, s + (dest_rank[l] - curr_rank[l])>>}]
    BY Zenon DEF TakeUnit
  <1>2. /\ s \in xstreams /\ hand[s] = {}
        /\ UNCHANGED <<pc, joining, curr_rank, stray, used, xstreams, on, dest_rank, astray>>
    BY Zenon DEF TakeUnit, rebVars, coreVars
  <1>3. l \in Loads /\ curr_rank[l] \in Int /\ dest_rank[l] \in Int
    BY DEF Ranks
  <1>4. Ranks'
    BY SMTT(30), <1>1, <1>2, <1>3 DEF Ranks
  <1>5. ASSUME ~astray' PROVE stray' = {} /\ Streams' /\ Units' /\ HandOffs'
    <2>1. stray = {} /\ Streams /\ Units /\ HandOffs
      BY Zenon, <1>2, <1>5 DEF Orderly
    <2>2. curr_rank[l] = s /\ joining = s
      BY <1>1, <1>3, <2>1 DEF Units
    <2>3. s + (dest_rank[l] - curr_rank[l]) = dest_rank[l]
      BY <1>3, <2>2
    <2>4. /\ hand'[s] = {<<l, dest_rank[l]>>} /\ pool'[s] = pool[s] \ {l}
          /\ \A c \in Cores \ {s} : hand'[c] = hand[c] /\ pool'[c] = pool[c]
      BY Zenon, <1>1, <2>3 DEF Ranks
    <2>5. Streams'
      BY Zenon, <1>2, <2>1 DEF Streams
    <2>6. HandOffs'
      <3>1. ASSUME NEW c \in Cores, NEW h \in hand'[c]
            PROVE  c = s /\ h = <<l, dest_rank[l]>>
        BY <2>1, <2>2, <2>4, <3>1, <1>2 DEF HandOffs
      <3>2. ASSUME NEW h, h = <<l, dest_rank[l]>>
            PROVE  h[1] = l /\ h[2] = dest_rank[l] /\ hand'[s] = {h}
        BY Zenon, <2>4, <3>2
      <3>3. l \notin pool'[s]
        BY Zenon, <2>4
      <3>4. QED
        BY Zenon, <1>2, <2>2, <3>1, <3>2, <3>3 DEF HandOffs
    <2>7. Units'
      <3>1. ASSUME NEW m \in Loads
            PROVE  m \in pool'[curr_rank[m]] \/ \E h \in hand'[curr_rank[m]] : h[1] = m
        <4>1. CASE m = l
          <5>1. <<l, dest_rank[l]>> \in hand'[curr_rank[m]] /\ <<l, dest_rank[l]>>[1] = m
            BY Zenon, <2>2, <2>4, <4>1
          <5>2. QED
            BY Zenon, <5>1
        <4>2. CASE m # l
          <5>1. PICK c \in Cores : c = curr_rank[m]
            BY Zenon DEF Ranks
          <5>2. m \in pool[c] \/ \E h \in hand[c] : h[1] = m
            BY Zenon, <2>1, <5>1 DEF Units
          <5>3. CASE c = s
            BY Zenon, <1>2, <2>4, <4>2, <5>1, <5>2, <5>3
          <5>4. CASE c # s
            BY Zenon, <2>4, <5>1, <5>2, <5>4
          <5>5. QED
            BY Zenon, <5>3, <5>4
        <4>3. QED
          BY Zenon, <4>1, <4>2
      <3>2. QED
        BY Zenon, <1>2, <2>1, <2>4, <3>1 DEF Units, Ranks
    <2>8. QED
      BY Zenon, <1>2, <2>1, <2>5, <2>6, <2>7
  <1>6. QED
    BY Zenon, <1>4, <1>5 DEF Orderly

\* It pushes the unit to the new rank, whose stream is still running.
LEMMA GiveUnitOrderly ==
    ASSUME Ranks, Orderly, NEW s \in Cores, GiveUnit(s)
    PROVE  Ranks' /\ Orderly'
  <1>1. PICK h \in hand[s] :
           /\ curr_rank' = [curr_rank EXCEPT ![h[1]] = dest_rank[h[1]]]
           /\ IF h[2] \in xstreams
              THEN /\ pool' = [pool EXCEPT ![h[2]] = @ \cup {h[1]}]
                   /\ UNCHANGED stray
              ELSE stray' = stray \cup {h[1]} /\ UNCHANGED pool
    BY Zenon DEF GiveUnit
  <1>2. /\ hand' = [hand EXCEPT ![s] = {}]
        /\ UNCHANGED <<pc, joining, used, xstreams, on, dest_rank, astray>>
    BY Zenon DEF GiveUnit, rebVars, coreVars
  <1>3. PICK l \in Loads : l = h[1]
    BY DEF Ranks
  <1>4. Ranks'
    <2>1. curr_rank' \in [Loads -> Cores]
      BY Zenon, <1>1, <1>3 DEF Ranks
    <2>2. pool' \in [Cores -> SUBSET Loads]
      <3>1. ASSUME NEW c \in Cores PROVE pool[c] \cup {l} \in SUBSET Loads
        BY Zenon, <1>3 DEF Ranks
      <3>2. CASE h[2] \in xstreams
        <4>1. PICK d \in Cores : d = h[2]
          BY Zenon, <3>2 DEF Ranks
        <4>2. pool' = [pool EXCEPT ![d] = pool[d] \cup {l}]
          BY Zenon, <1>1, <1>3, <3>2, <4>1
        <4> QED
          BY Zenon, <3>1, <4>2 DEF Ranks
      <3>3. CASE h[2] \notin xstreams
        BY Zenon, <1>1, <3>3 DEF Ranks
      <3> QED
        BY Zenon, <3>2, <3>3
    <2>3. hand' \in [Cores -> SUBSET (Loads \X Int)]
      BY Zenon, <1>2 DEF Ranks
    <2>4. QED
      BY Zenon, <1>2, <2>1, <2>2, <2>3 DEF Ranks
  <1>5. ASSUME ~astray' PROVE stray' = {} /\ Streams' /\ Units' /\ HandOffs'
    <2>1. stray = {} /\ Streams /\ Units /\ HandOffs
      BY Zenon, <1>2, <1>5 DEF Orderly
    <2>2. /\ s = joining /\ curr_rank[l] = s /\ l \notin pool[s]
          /\ h[2] = dest_rank[l] /\ hand[s] = {h}
      BY Zenon, <1>1, <1>3, <2>1 DEF HandOffs
    <2>3. PICK d \in Cores : d = dest_rank[l]
      BY Zenon, <1>3 DEF Ranks
    <2>4. d \in xstreams /\ d # s
      BY <1>3, <2>1, <2>2, <2>3 DEF Units, Streams
    <2>5. /\ curr_rank' = [curr_rank EXCEPT ![l] = d]
          /\ pool' = [pool EXCEPT ![d] = @ \cup {l}] /\ UNCHANGED stray
      BY Zenon, <1>1, <1>3, <2>2, <2>3, <2>4
    <2>6. Streams'
      BY Zenon, <1>2, <2>1 DEF Streams
    <2>7. HandOffs'
      BY SMTT(30), <1>2, <2>1, <2>2 DEF HandOffs, Ranks
    <2>8. Units'
      <3>1. ASSUME NEW m \in Loads
            PROVE  /\ curr_rank'[m] # dest_rank[m] => curr_rank'[m] = joining
                   /\ \/ m \in pool'[curr_rank'[m]]
                      \/ \E g \in hand'[curr_rank'[m]] : g[1] = m
        <4>1. CASE m = l
          BY Zenon, <2>3, <2>5, <4>1 DEF Ranks
        <4>2. CASE m # l
          <5>1. curr_rank'[m] = curr_rank[m] /\ curr_rank[m] \in Cores
            BY Zenon, <2>5, <4>2 DEF Ranks
          <5>2. CASE m \in pool[curr_rank[m]]
            BY <2>1, <2>5, <5>1, <5>2 DEF Units, Ranks
          <5>3. CASE \E g \in hand[curr_rank[m]] : g[1] = m
            BY SMTT(30), <1>2, <1>3, <2>1, <2>2, <4>2, <5>1, <5>3 DEF Units, Ranks
          <5>4. QED
            BY Zenon, <2>1, <5>2, <5>3 DEF Units
        <4>3. QED
          BY Zenon, <4>1, <4>2
      <3>2. ASSUME NEW c \in Cores, NEW m \in pool'[c]
            PROVE  curr_rank'[m] = c /\ c \in xstreams
        <4>1. CASE m = l
          <5>1. c = d
            BY <2>1, <2>2, <2>5, <3>2, <4>1 DEF Units, Ranks
          <5>2. QED
            BY Zenon, <2>4, <2>5, <4>1, <5>1 DEF Ranks
        <4>2. CASE m # l
          BY Zenon, <2>1, <2>5, <3>2, <4>2 DEF Units, Ranks
        <4>3. QED
          BY Zenon, <4>1, <4>2
      <3>3. QED
        BY Zenon, <1>2, <2>1, <3>1, <3>2 DEF Units
    <2>9. QED
      BY Zenon, <2>1, <2>5, <2>6, <2>7, <2>8
  <1>6. QED
    BY Zenon, <1>4, <1>5 DEF Orderly

\* The xstream being joined ends with nothing in its pool.
LEMMA XstreamEndsOrderly ==
    ASSUME Ranks, Orderly, NEW s \in Cores, XstreamEnds(s)
    PROVE  Ranks' /\ Orderly'
  <1>1. /\ joining = s /\ pool[s] = {} /\ hand[s] = {} /\ xstreams' = xstreams \ {s}
        /\ UNCHANGED <<pc, joining, used, on, dest_rank, astray, curr_rank, pool, hand,
                       stray>>
    BY Zenon DEF XstreamEnds, rebVars, unitVars
  <1>2. Ranks'
    BY Zenon, <1>1 DEF Ranks
  <1>3. Orderly'
    BY <1>1 DEF Orderly, Streams, Units, HandOffs
  <1>4. QED
    BY Zenon, <1>2, <1>3

\* Every step keeps the invariant.
LEMMA OrderlyStep == Ranks /\ Orderly /\ [Next]_vars => Ranks' /\ Orderly'
  <1> SUFFICES ASSUME Ranks, Orderly, [Next]_vars PROVE Ranks' /\ Orderly'
    BY Zenon
  <1>1. CASE AddCore \/ RemoveCore \/ Join
    BY Zenon, <1>1, AddCoreOrderly, RemoveCoreOrderly, JoinOrderly
  <1>2. ASSUME NEW s \in Cores, Scheduler(s) PROVE Ranks' /\ Orderly'
    BY Zenon, <1>2, TakeUnitOrderly, GiveUnitOrderly, XstreamEndsOrderly DEF Scheduler
  <1>3. CASE LockQueue \/ First \/ Advance \/ Finish \/ Unlink \/ Delete \/ DropLock
             \/ FreeRequest
    BY Zenon, <1>3, Elsewhere DEF LockQueue, First, Advance, Finish, Unlink, Delete, DropLock,
       FreeRequest, Goto
  <1>4. CASE RemoveNothing \/ RemoveTraps
    BY Zenon, <1>4, Elsewhere DEF RemoveNothing, RemoveTraps, Serves
  <1>5. ASSUME NEW p \in Producers, Call(p) \/ ReqLock(p) \/ Locked(p)
        PROVE  Ranks' /\ Orderly'
    BY Zenon, <1>5, Elsewhere DEF Call, ReqLock, Locked, ReqLink, ReqAppend, ReqUnlock, rebVars
  <1>6. CASE UNCHANGED vars
    BY Zenon, <1>6, Elsewhere DEF vars, rebVars
  <1>7. QED
    BY Zenon, <1>1, <1>2, <1>3, <1>4, <1>5, <1>6 DEF Next, Rebalancer

\* For any machine and any sequence of requests: as long as only last cores of
\* NUMAs were removed, abtst_reb_process_remove_core joins a stream only after
\* all its units are on their way, and no unit ever goes to a removed core.
THEOREM RemovalsLeaveNothing == Spec => []RemovedIsEmpty
  <1>1. Spec => [](Ranks /\ Orderly)
    BY InitOrderly, OrderlyStep, PTL DEF Spec
  <1>2. QED
    BY <1>1, OrderlySuffices, PTL

HIDE RequestsAssumption DEF Cores, None

-----------------------------------------------------------------------------
(* Induction over numbers, as a smallest counterexample argument. *)

\* A set of numbers that is not empty has a least one.
LEMMA LeastNumber ==
    ASSUME NEW T, T \subseteq Nat, T # {}
    PROVE  \E k \in T : \A m \in T : k <= m
  <1> DEFINE R == {ss \in Nat \X Nat : ss[1] < ss[2]}
  <1>1. IsWellFoundedOn(R, Nat)
    BY NatLessThanWellFounded, Zenon DEF OpToRel
  <1>2. \E k \in T : \A m \in T : ~(<<m, k>> \in R)
    <2> HIDE DEF R
    <2> QED
      BY Zenon, <1>1, WFMin
  <1>3. PICK k \in T : \A m \in T : ~(<<m, k>> \in R)
    BY Zenon, <1>2
  <1>4. ASSUME NEW m \in T PROVE k <= m
    <2>1. m \in Nat /\ k \in Nat /\ ~(m < k)
      <3>1. <<m, k>> \in Nat \X Nat /\ <<m, k>>[1] = m /\ <<m, k>>[2] = k
        BY Zenon
      <3> QED
        BY Zenon, <1>3, <3>1
    <2> QED
      BY <2>1
  <1> QED
    BY Zenon, <1>4

-----------------------------------------------------------------------------
(* The list. *)

\* q is the list: each node once, each linked from the one before, the last one
\* to the head.
Chain(q) ==
    /\ q \in Seq(Nodes)
    /\ \A j, k \in 1 .. Len(q) : q[j] = q[k] => j = k
    /\ \A k \in 1 .. Len(q) : q[k] = next[Before(q, k)]
    /\ next[Before(q, Len(q) + 1)] = ReqQ

\* Lists without repetition are no longer than there is memory.
LEMMA ShortList ==
    ASSUME NEW q \in Seq(Nodes), \A j, k \in 1 .. Len(q) : q[j] = q[k] => j = k
    PROVE  Len(q) \in 0 .. Cardinality(Nodes) /\ q \in [1 .. Len(q) -> Nodes]
  <1>1. Len(q) \in Nat /\ q \in [1 .. Len(q) -> Nodes]
    OBVIOUS
  <1>2. q \in Injection(1 .. Len(q), Nodes)
    BY Zenon, <1>1 DEF Injection, IsInjective
  <1>3. IsFiniteSet(Nodes)
    BY Zenon, QueueAssumption
  <1>4. Cardinality(1 .. Len(q)) <= Cardinality(Nodes) /\ Cardinality(Nodes) \in Nat
    BY Zenon, <1>2, <1>3, FS_Injection, FS_CardinalityType
  <1>5. Cardinality(1 .. Len(q)) = IF 1 > Len(q) THEN 0 ELSE Len(q) - 1 + 1
    BY <1>1, FS_Interval
  <1> QED
    BY <1>1, <1>4, <1>5

\* The list is what is reached from the head.
LEMMA LinkedIs == ASSUME NEW q, Chain(q) PROVE Linked = q
  <1> DEFINE S == UNION {[1 .. m -> Nodes] : m \in 0 .. Cardinality(Nodes)}
             Reached(r) ==
               /\ \A k \in 1 .. Len(r) : r[k] = next[Before(r, k)]
               /\ Len(r) = Cardinality(Nodes) \/ next[Before(r, Len(r) + 1)] \notin Nodes
  <1>1. /\ q \in Seq(Nodes) /\ Len(q) \in 0 .. Cardinality(Nodes)
        /\ q \in [1 .. Len(q) -> Nodes]
    BY Zenon, ShortList DEF Chain
  <1>2. q \in S
    BY Zenon, <1>1
  <1>3. Reached(q)
    BY Zenon, QueueAssumption DEF Chain
  <1>4. PICK r \in S : r = Linked /\ Reached(r)
    BY Zenon, <1>2, <1>3 DEF Linked
  <1>5. r \in Seq(Nodes) /\ Len(r) \in 0 .. Cardinality(Nodes)
    <2>1. PICK m \in 0 .. Cardinality(Nodes) : r \in [1 .. m -> Nodes]
      BY Zenon, <1>4
    <2>2. Cardinality(Nodes) \in Nat
      BY Zenon, QueueAssumption, FS_CardinalityType
    <2>3. r \in Seq(Nodes) /\ Len(r) = m
      BY <2>1, <2>2
    <2> QED
      BY Zenon, <2>1, <2>3
  <1>6. /\ Len(q) \in Nat /\ Len(r) \in Nat /\ Cardinality(Nodes) \in Nat
        /\ Len(q) <= Cardinality(Nodes) /\ Len(r) <= Cardinality(Nodes)
    <2>1. Cardinality(Nodes) \in Nat
      BY Zenon, QueueAssumption, FS_CardinalityType
    <2> QED
      BY <1>1, <1>5, <2>1
  <1>7. ASSUME NEW k \in Nat \ {0}, k <= Len(q), k <= Len(r) PROVE q[k] = r[k]
    <2> DEFINE B == {j \in Nat \ {0} : j <= Len(q) /\ j <= Len(r) /\ q[j] # r[j]}
    <2> SUFFICES ASSUME B # {} PROVE FALSE
      BY Zenon, <1>7
    <2>1. B \subseteq Nat
      BY Zenon
    <2>2. PICK j \in B : \A o \in B : j <= o
      BY Zenon, <2>1, LeastNumber
    <2>3. j \in Nat \ {0} /\ j <= Len(q) /\ j <= Len(r) /\ q[j] # r[j]
      BY Zenon, <2>2
    <2>4. q[j] = next[Before(q, j)] /\ r[j] = next[Before(r, j)]
      <3>1. j \in 1 .. Len(q) /\ j \in 1 .. Len(r)
        BY <1>6, <2>3
      <3> QED
        BY Zenon, <1>4, <3>1 DEF Chain
    <2>5. j # 1 => j - 1 \notin B
      BY <2>2, <2>3
    <2>6. j # 1 => j - 1 \in Nat \ {0} /\ j - 1 <= Len(q) /\ j - 1 <= Len(r)
      BY <1>6, <2>3
    <2>7. j # 1 => q[j - 1] = r[j - 1]
      BY Zenon, <2>5, <2>6
    <2>8. Before(q, j) = Before(r, j)
      BY Zenon, <2>7 DEF Before
    <2> QED
      BY Zenon, <2>3, <2>4, <2>8
  <1>8. ~(Len(q) < Len(r))
    <2> SUFFICES ASSUME Len(q) < Len(r) PROVE FALSE
      OBVIOUS
    <2>1. /\ Len(q) + 1 \in 1 .. Len(r) /\ Len(q) <= Len(r)
          /\ Len(q) + 1 # 1 => Len(q) \in Nat \ {0} /\ Len(q) + 1 - 1 = Len(q) /\ Len(q) <= Len(q)
      BY <1>6
    <2>2. Before(q, Len(q) + 1) = Before(r, Len(q) + 1)
      <3>1. Len(q) + 1 # 1 => q[Len(q)] = r[Len(q)]
        BY Zenon, <1>7, <2>1
      <3>2. Len(q) + 1 # 1 => q[Len(q) + 1 - 1] = r[Len(q) + 1 - 1]
        BY Zenon, <2>1, <3>1
      <3> QED
        BY <3>2 DEF Before
    <2>3. r[Len(q) + 1] = ReqQ
      BY Zenon, <1>4, <2>1, <2>2 DEF Chain
    <2>4. r[Len(q) + 1] \in Nodes
      BY <1>5, <2>1
    <2> QED
      BY Zenon, <2>3, <2>4, QueueAssumption
  <1>9. ~(Len(r) < Len(q))
    <2> SUFFICES ASSUME Len(r) < Len(q) PROVE FALSE
      OBVIOUS
    <2>1. /\ Len(r) + 1 \in 1 .. Len(q) /\ Len(r) <= Len(q) /\ Len(r) # Cardinality(Nodes)
          /\ Len(r) + 1 # 1 => Len(r) \in Nat \ {0} /\ Len(r) + 1 - 1 = Len(r) /\ Len(r) <= Len(r)
      BY <1>6
    <2>2. Before(q, Len(r) + 1) = Before(r, Len(r) + 1)
      <3>1. Len(r) + 1 # 1 => q[Len(r)] = r[Len(r)]
        BY Zenon, <1>7, <2>1
      <3>2. Len(r) + 1 # 1 => q[Len(r) + 1 - 1] = r[Len(r) + 1 - 1]
        BY Zenon, <2>1, <3>1
      <3> QED
        BY <3>2 DEF Before
    <2>3. q[Len(r) + 1] \notin Nodes
      BY Zenon, <1>4, <2>1, <2>2 DEF Chain
    <2>4. q[Len(r) + 1] \in Nodes
      BY <1>1, <2>1
    <2> QED
      BY Zenon, <2>3, <2>4
  <1>10. q = r
    <2>1. Len(q) = Len(r) /\ \A k \in 1 .. Len(q) : k \in Nat \ {0} /\ k <= Len(q) /\ k <= Len(r)
      BY <1>6, <1>8, <1>9
    <2>2. \A k \in 1 .. Len(q) : q[k] = r[k]
      BY Zenon, <1>7, <2>1
    <2> QED
      BY <1>1, <1>5, <2>1, <2>2
  <1> QED
    BY Zenon, <1>4, <1>10

Steps == {"idle", "lock", "link", "append", "unlock"}

\* The types of what the list is made of.
QueueTyped ==
    /\ lock \in Producers \cup {Free, "rebalancer"}
    /\ next \in [Nodes \cup {ReqQ} -> Nodes \cup {ReqQ, Poison}]
    /\ prev \in [Nodes \cup {ReqQ} -> Nodes \cup {ReqQ, Poison}]
    /\ req \in [Nodes -> Requests \cup {NoRequest}]
    /\ allocated \subseteq Nodes
    /\ prod \in [Producers -> [step : Steps, node : Nodes \cup {ReqQ}]]
    /\ pos \in Nodes \cup {ReqQ}
    /\ n \in Nodes \cup {ReqQ}

\* Who has the lock is at one of the steps it is for.
Locks ==
    /\ \A p \in Producers : lock = p <=> prod[p].step \in {"link", "append", "unlock"}
    /\ lock = "rebalancer" <=> pc \in {"first", "advance", "test", "delete", "drop"}

\* The producer has a node that is not in the list yet.
Making(p) == prod[p].step \in {"lock", "link", "append"}

FirstOf(q) == IF Len(q) > 0 THEN q[1] ELSE ReqQ
SecondOf(q) == IF Len(q) > 1 THEN q[2] ELSE ReqQ
LastOf(q) == Before(q, Len(q) + 1)

\* The backward links at the two ends of the list, which are the ones that are
\* read, also while a node is appended or deleted.
Ends(q) ==
    /\ Len(q) > 0 => prev[q[1]] = ReqQ
    /\ (\A p \in Producers : prod[p].step # "append") /\ pc # "delete" =>
         prev[ReqQ] = LastOf(q)
    /\ pc = "delete" => /\ prev[SecondOf(q)] = ReqQ
                        /\ Len(q) > 1 => prev[ReqQ] = LastOf(q)
    /\ \A p \in Producers : prod[p].step = "append" =>
         /\ prev[ReqQ] = prod[p].node
         /\ prev[prod[p].node] = LastOf(q) /\ next[prod[p].node] = ReqQ

\* Nodes in the list, on their way into it and being served are different ones.
Memory(q) ==
    /\ \A k \in 1 .. Len(q) : q[k] \in allocated
    /\ \A x \in allocated : req[x] \in Requests
    /\ \A p \in Producers : Making(p) =>
         /\ prod[p].node \in allocated
         /\ \A k \in 1 .. Len(q) : q[k] # prod[p].node
         /\ \A o \in Producers : Making(o) /\ prod[o].node = prod[p].node => o = p
    /\ Serving => /\ pos \in allocated
                  /\ \A k \in 1 .. Len(q) : q[k] # pos
                  /\ \A p \in Producers : Making(p) => prod[p].node # pos

\* The rebalancer deletes the first node, and goes on with the one that is then
\* the first.
Cursor(q) ==
    /\ pc \in {"test", "delete"} =>
         pos = ReqQ \/ (Len(q) > 0 /\ pos = q[1] /\ n = SecondOf(q))
    /\ pc = "delete" => pos # ReqQ
    /\ pc \in {"drop", "serve", "join", "free", "relock", "advance"} =>
         n = ReqQ \/ n = FirstOf(q)

\* The inductive invariant: there is a list.
ListIs(q) == Chain(q) /\ Ends(q) /\ Memory(q) /\ Cursor(q)
Queue == QueueTyped /\ Locks /\ \E q : ListIs(q)

-----------------------------------------------------------------------------
\* What comes before a node is the head or another node of the list.
LEMMA BeforeIn ==
    ASSUME NEW q \in Seq(Nodes), NEW k \in 1 .. Len(q) + 1
    PROVE  Before(q, k) = ReqQ \/ \E j \in 1 .. Len(q) : Before(q, k) = q[j]
  <1>1. CASE k = 1
    BY Zenon, <1>1 DEF Before
  <1>2. CASE k # 1
    <2>1. k - 1 \in 1 .. Len(q)
      BY <1>2
    <2> QED
      BY Zenon, <1>2, <2>1 DEF Before
  <1> QED
    BY Zenon, <1>1, <1>2

\* The links at the ends of the list.
LEMMA ChainEnds ==
    ASSUME NEW q, Chain(q)
    PROVE  /\ q \in Seq(Nodes) /\ Len(q) \in Nat /\ \A k \in 1 .. Len(q) : q[k] \in Nodes
           /\ next[ReqQ] = FirstOf(q) /\ (Len(q) > 0 => next[q[1]] = SecondOf(q))
           /\ FirstOf(q) \in Nodes \cup {ReqQ} /\ SecondOf(q) \in Nodes \cup {ReqQ}
           /\ LastOf(q) \in Nodes \cup {ReqQ} /\ next[LastOf(q)] = ReqQ
           /\ Len(q) = 0 => LastOf(q) = ReqQ
           /\ Len(q) > 0 => LastOf(q) = q[Len(q)]
  <1>1. q \in Seq(Nodes) /\ Len(q) \in Nat /\ \A k \in 1 .. Len(q) : q[k] \in Nodes
    BY DEF Chain
  <1>2. /\ \A k \in 1 .. Len(q) : q[k] = next[Before(q, k)]
        /\ next[LastOf(q)] = ReqQ
    BY Zenon DEF Chain, LastOf
  <1>3. /\ Len(q) = 0 => LastOf(q) = ReqQ
        /\ Len(q) > 0 => LastOf(q) = q[Len(q)]
    BY <1>1 DEF LastOf, Before
  <1>4. /\ Len(q) > 0 => q[1] = next[ReqQ]
        /\ Len(q) > 1 => q[2] = next[q[1]]
    BY <1>1, <1>2 DEF Before
  <1>5. ASSUME Len(q) = 1 PROVE next[q[1]] = ReqQ
    <2>1. Len(q) > 0
      BY <1>5
    <2> QED
      BY Zenon, <1>2, <1>3, <1>5, <2>1
  <1>6. Len(q) = 0 => next[ReqQ] = ReqQ
    BY Zenon, <1>2, <1>3
  <1>7. next[ReqQ] = FirstOf(q) /\ (Len(q) > 0 => next[q[1]] = SecondOf(q))
    <2>1. PICK m \in Nat : m = Len(q)
      BY Zenon, <1>1
    <2>2. /\ m = 0 \/ m > 0
          /\ m > 0 => m = 1 \/ m > 1
      OBVIOUS
    <2> QED
      BY Zenon, <1>4, <1>5, <1>6, <2>1, <2>2 DEF FirstOf, SecondOf
  <1>8. FirstOf(q) \in Nodes \cup {ReqQ} /\ SecondOf(q) \in Nodes \cup {ReqQ}
    BY <1>1 DEF FirstOf, SecondOf
  <1>9. LastOf(q) \in Nodes \cup {ReqQ}
    BY <1>1, <1>3
  <1> QED
    BY Zenon, <1>1, <1>2, <1>3, <1>7, <1>8, <1>9

\* Links of other nodes do not matter.
LEMMA ChainKept ==
    ASSUME NEW q, Chain(q), next'[ReqQ] = next[ReqQ],
           \A k \in 1 .. Len(q) : next'[q[k]] = next[q[k]]
    PROVE  Chain(q)'
  <1>1. q \in Seq(Nodes) /\ Len(q) \in Nat
    BY DEF Chain
  <1>2. ASSUME NEW k \in 1 .. Len(q) + 1 PROVE next'[Before(q, k)] = next[Before(q, k)]
    BY Zenon, <1>1, <1>2, BeforeIn
  <1>3. Len(q) + 1 \in 1 .. Len(q) + 1 /\ \A k \in 1 .. Len(q) : k \in 1 .. Len(q) + 1
    BY <1>1
  <1> QED
    BY Zenon, <1>2, <1>3 DEF Chain, Before

\* The steps that touch neither the list nor the producers.
LEMMA ListKept ==
    ASSUME NEW q, ListIs(q), UNCHANGED <<next, prev, req, allocated, prod>>,
           Cursor(q)', Serving' => Serving /\ UNCHANGED pos,
           pc' = "delete" <=> pc = "delete"
    PROVE  ListIs(q)'
  <1>1. Chain(q)'
    BY Zenon, ChainKept DEF ListIs
  <1>2. Ends(q)'
    BY Zenon DEF ListIs, Ends, LastOf, SecondOf, Before
  <1>3. Memory(q)'
    BY Zenon DEF ListIs, Memory, Making
  <1> QED
    BY Zenon, <1>1, <1>2, <1>3 DEF ListIs

\* A step of a producer leaves its node and the other producers alone.
LEMMA ProdStepDoes ==
    ASSUME QueueTyped, NEW p \in Producers, NEW from, NEW to \in Steps, ProdStep(p, from, to)
    PROVE  /\ prod[p].step = from /\ prod'[p].step = to /\ prod'[p].node = prod[p].node
           /\ prod' \in [Producers -> [step : Steps, node : Nodes \cup {ReqQ}]]
           /\ \A o \in Producers \ {p} : prod'[o] = prod[o]
  BY DEF QueueTyped, ProdStep

\* Call takes a node nobody has.
LEMMA CallListed ==
    ASSUME QueueTyped, Locks, NEW q, ListIs(q), NEW p \in Producers, Call(p)
    PROVE  ListIs(q)' /\ QueueTyped' /\ Locks' /\ UNCHANGED pc
           /\ (\A x \in allocated : req'[x] = req[x]) /\ UNCHANGED <<pos, pc>>
  <1>1. PICK x \in Nodes \ allocated, r \in Requests :
           /\ allocated' = allocated \cup {x}
           /\ req' = [req EXCEPT ![x] = r]
           /\ next' = [next EXCEPT ![x] = x]
           /\ prev' = [prev EXCEPT ![x] = x]
           /\ prod' = [prod EXCEPT ![p] = [step |-> "lock", node |-> x]]
    BY Zenon DEF Call
  <1>2. prod[p].step = "idle" /\ UNCHANGED <<lock, pc, pos, n>>
    BY Zenon DEF Call, lockVars, rebVars
  <1>3. /\ prod'[p].step = "lock" /\ prod'[p].node = x
        /\ \A o \in Producers \ {p} : prod'[o] = prod[o]
    BY <1>1 DEF QueueTyped
  <1>4. /\ x # ReqQ /\ \A y \in (Nodes \cup {ReqQ}) \ {x} : next'[y] = next[y] /\ prev'[y] = prev[y]
        /\ \A y \in Nodes \ {x} : req'[y] = req[y]
        /\ req'[x] = r
    BY Zenon, <1>1, QueueAssumption DEF QueueTyped
  <1>5. \A k \in 1 .. Len(q) : q[k] \in Nodes \ {x}
    BY Zenon DEF ListIs, Memory, QueueTyped
  <1>6. QueueTyped'
    <2>1. [step |-> "lock", node |-> x] \in [step : Steps, node : Nodes \cup {ReqQ}]
      BY DEF Steps
    <2> QED
      BY Zenon, <1>1, <1>2, <2>1 DEF QueueTyped
  <1>7. Locks'
    BY Zenon, <1>2, <1>3 DEF Locks
  <1>8. Chain(q)'
    BY Zenon, <1>4, <1>5, ChainKept DEF ListIs
  <1>9. Cursor(q)'
    BY Zenon, <1>2 DEF ListIs, Cursor, SecondOf, FirstOf
  <1>10. Ends(q)'
    <2>1. Chain(q) /\ Ends(q) /\ Memory(q)
      BY Zenon DEF ListIs
    <2>2. /\ q \in Seq(Nodes) /\ Len(q) \in Nat
          /\ FirstOf(q) \in Nodes \cup {ReqQ} /\ SecondOf(q) \in Nodes \cup {ReqQ}
      BY Zenon, <2>1, ChainEnds
    <2>3. SecondOf(q) # x /\ (Len(q) > 0 => q[1] \in Nodes \ {x})
      BY <1>4, <1>5, <2>2 DEF SecondOf
    <2>4. ASSUME NEW o \in Producers, prod'[o].step = "append"
          PROVE  prod'[o] = prod[o] /\ prod[o].node \in Nodes \ {x}
      BY Zenon, <1>1, <1>3, <2>1, <2>4 DEF Memory, Making, QueueTyped
    <2>5. \A o \in Producers : prod'[o].step = "append" <=> prod[o].step = "append"
      BY Zenon, <1>2, <1>3
    <2>6. ReqQ \in (Nodes \cup {ReqQ}) \ {x}
      BY Zenon, <1>4
    <2>7. /\ prev'[ReqQ] = prev[ReqQ] /\ prev'[SecondOf(q)] = prev[SecondOf(q)]
          /\ Len(q) > 0 => prev'[q[1]] = prev[q[1]]
      BY Zenon, <1>4, <2>2, <2>3, <2>6
    <2>8. \A o \in Producers : prod'[o].step = "append" =>
            /\ prev'[prod'[o].node] = prev[prod[o].node]
            /\ next'[prod'[o].node] = next[prod[o].node] /\ prod'[o].node = prod[o].node
      BY ZenonT(30), <1>4, <2>4
    <2> QED
      BY Zenon, <1>2, <2>1, <2>5, <2>7, <2>8 DEF Ends, LastOf, SecondOf, Before
  <1>11. Memory(q)'
    <2>1. Memory(q)
      BY Zenon DEF ListIs
    <2>2. ASSUME NEW o \in Producers, Making(o)'
          PROVE  /\ prod'[o].node \in allocated' /\ \A k \in 1 .. Len(q) : q[k] # prod'[o].node
                 /\ o # p => Making(o) /\ prod'[o] = prod[o] /\ prod'[o].node # x
      <3>1. CASE o = p
        <4>1. prod'[o].node = x /\ x \in allocated' /\ \A k \in 1 .. Len(q) : q[k] # x
          BY Zenon, <1>1, <1>3, <1>5, <3>1
        <4> QED
          BY Zenon, <3>1, <4>1
      <3>2. CASE o # p
        <4>1. prod'[o] = prod[o] /\ Making(o)
          BY Zenon, <1>3, <2>2, <3>2 DEF Making
        <4>2. prod[o].node \in allocated /\ \A k \in 1 .. Len(q) : q[k] # prod[o].node
          BY Zenon, <2>1, <4>1 DEF Memory
        <4>3. prod[o].node \in allocated' /\ prod[o].node # x
          BY Zenon, <1>1, <4>2
        <4> QED
          BY Zenon, <4>1, <4>2, <4>3
      <3> QED
        BY Zenon, <3>1, <3>2
    <2>3. ASSUME NEW o \in Producers, NEW s \in Producers, Making(o)', Making(s)',
                 prod'[o].node = prod'[s].node
          PROVE  o = s
      BY Zenon, <1>3, <2>1, <2>2, <2>3 DEF Memory
    <2>4. Serving' => Serving /\ pos \in allocated /\ pos # x
      BY Zenon, <1>1, <1>2, <2>1 DEF Memory, Serving
    <2>5. \A y \in allocated' : req'[y] \in Requests
      <3>1. \A y \in allocated : y \in Nodes \ {x} /\ req[y] \in Requests
        BY Zenon, <2>1 DEF Memory, QueueTyped
      <3> QED
        BY Zenon, <1>1, <1>4, <3>1
    <2> QED
      BY ZenonT(30), <1>1, <1>2, <1>3, <2>1, <2>2, <2>3, <2>4, <2>5 DEF Memory
  <1>12. \A y \in allocated : req'[y] = req[y]
    BY Zenon, <1>1, <1>4 DEF QueueTyped
  <1> QED
    BY Zenon, <1>2, <1>6, <1>7, <1>8, <1>9, <1>10, <1>11, <1>12 DEF ListIs

\* spin_lock.
LEMMA ReqLockListed ==
    ASSUME QueueTyped, Locks, NEW q, ListIs(q), NEW p \in Producers, ReqLock(p)
    PROVE  ListIs(q)' /\ QueueTyped' /\ Locks' /\ UNCHANGED <<req, pos, pc>>
  <1>1. /\ lock = Free /\ lock' = p /\ UNCHANGED <<next, prev, req, allocated, pc, pos, n>>
        /\ ProdStep(p, "lock", "link")
    BY Zenon DEF ReqLock, spin_lock, listVars, rebVars
  <1>2. /\ prod[p].step = "lock" /\ prod'[p].step = "link" /\ prod'[p].node = prod[p].node
        /\ prod' \in [Producers -> [step : Steps, node : Nodes \cup {ReqQ}]]
        /\ \A o \in Producers \ {p} : prod'[o] = prod[o]
    BY <1>1, ProdStepDoes DEF Steps
  <1>3. QueueTyped'
    BY Zenon, <1>1, <1>2 DEF QueueTyped
  <1>4. Locks'
    <2>1. Free \notin Producers /\ "rebalancer" \notin Producers /\ "rebalancer" # Free
      BY QueueAssumption DEF Free
    <2>2. ASSUME NEW o \in Producers
          PROVE  lock' = o <=> prod'[o].step \in {"link", "append", "unlock"}
      BY Zenon, <1>1, <1>2, <2>1 DEF Locks
    <2> QED
      BY Zenon, <1>1, <2>1, <2>2 DEF Locks
  <1>5. /\ \A o \in Producers : (Making(o)' <=> Making(o)) /\ prod'[o].node = prod[o].node
        /\ \A o \in Producers : prod'[o].step = "append" <=> prod[o].step = "append"
    BY Zenon, <1>2 DEF Making
  <1>6. Chain(q)' /\ Cursor(q)'
    BY Zenon, <1>1, ChainKept DEF ListIs, Cursor, SecondOf, FirstOf
  <1>7. Ends(q)'
    BY Zenon, <1>1, <1>5 DEF ListIs, Ends, LastOf, SecondOf, Before
  <1>8. Memory(q)'
    BY Zenon, <1>1, <1>5 DEF ListIs, Memory, Serving
  <1> QED
    BY Zenon, <1>1, <1>3, <1>4, <1>6, <1>7, <1>8 DEF ListIs

\* spin_unlock after the node is in the list.
LEMMA ReqUnlockListed ==
    ASSUME QueueTyped, Locks, NEW q, ListIs(q), NEW p \in Producers, ReqUnlock(p)
    PROVE  ListIs(q)' /\ QueueTyped' /\ Locks' /\ UNCHANGED <<req, pos, pc>>
  <1>1. /\ lock' = Free /\ UNCHANGED <<next, prev, req, allocated, pc, pos, n>>
        /\ prod[p].step = "unlock"
        /\ prod' = [prod EXCEPT ![p] = [step |-> "idle", node |-> ReqQ]]
    BY Zenon DEF ReqUnlock, spin_unlock, listVars, rebVars
  <1>2. /\ prod'[p].step = "idle"
        /\ prod' \in [Producers -> [step : Steps, node : Nodes \cup {ReqQ}]]
        /\ \A o \in Producers \ {p} : prod'[o] = prod[o]
    BY <1>1 DEF QueueTyped, Steps
  <1>3. QueueTyped'
    BY Zenon, <1>1, <1>2 DEF QueueTyped
  <1>4. Locks'
    <2>1. Free \notin Producers /\ "rebalancer" \notin Producers /\ "rebalancer" # Free
      BY QueueAssumption DEF Free
    <2>2. lock = p
      BY Zenon, <1>1 DEF Locks
    <2>3. ASSUME NEW o \in Producers
          PROVE  ~(lock' = o) /\ prod'[o].step \notin {"link", "append", "unlock"}
      BY Zenon, <1>1, <1>2, <2>1, <2>2 DEF Locks
    <2> QED
      BY Zenon, <1>1, <2>1, <2>2, <2>3 DEF Locks
  <1>5. /\ \A o \in Producers : Making(o)' <=> Making(o)
        /\ \A o \in Producers : Making(o) => prod'[o].node = prod[o].node
        /\ \A o \in Producers : prod'[o].step = "append" <=> prod[o].step = "append"
        /\ \A o \in Producers : prod[o].step = "append" => prod'[o].node = prod[o].node
    BY Zenon, <1>1, <1>2 DEF Making
  <1>6. Chain(q)' /\ Cursor(q)'
    BY Zenon, <1>1, ChainKept DEF ListIs, Cursor, SecondOf, FirstOf
  <1>7. Ends(q)'
    BY Zenon, <1>1, <1>5 DEF ListIs, Ends, LastOf, SecondOf, Before
  <1>8. Memory(q)'
    <2>1. Memory(q)
      BY Zenon DEF ListIs
    <2>2. ASSUME NEW o \in Producers, Making(o)'
          PROVE  /\ prod'[o].node \in allocated /\ \A k \in 1 .. Len(q) : q[k] # prod'[o].node
                 /\ \A s \in Producers : Making(s)' /\ prod'[s].node = prod'[o].node => s = o
                 /\ Serving => prod'[o].node # pos
      BY Zenon, <1>5, <2>1, <2>2 DEF Memory
    <2> QED
      BY Zenon, <1>1, <2>1, <2>2 DEF Memory, Serving
  <1> QED
    BY Zenon, <1>1, <1>3, <1>4, <1>6, <1>7, <1>8 DEF ListIs

\* list_add_tail up to its last write: the new node is not in the list yet.
LEMMA ReqLinkListed ==
    ASSUME QueueTyped, Locks, NEW q, ListIs(q), NEW p \in Producers, ReqLink(p)
    PROVE  ListIs(q)' /\ QueueTyped' /\ Locks' /\ UNCHANGED <<req, pos, pc>>
  <1>1. PICK x : x = prod[p].node
    BY Zenon
  <1>2. /\ UNCHANGED <<lock, req, allocated, pc, pos, n>>
        /\ prev' = [prev EXCEPT ![ReqQ] = x, ![x] = prev[ReqQ]]
        /\ next' = [next EXCEPT ![x] = ReqQ]
        /\ ProdStep(p, "link", "append")
    BY Zenon, <1>1 DEF ReqLink, lockVars, rebVars
  <1>3. /\ prod[p].step = "link" /\ prod'[p].step = "append" /\ prod'[p].node = x
        /\ prod' \in [Producers -> [step : Steps, node : Nodes \cup {ReqQ}]]
        /\ \A o \in Producers \ {p} : prod'[o] = prod[o]
    BY <1>1, <1>2, ProdStepDoes DEF Steps
  <1>4. Chain(q) /\ Ends(q) /\ Memory(q) /\ Cursor(q)
    BY Zenon DEF ListIs
  <1>5. x \in Nodes /\ x # ReqQ /\ \A k \in 1 .. Len(q) : q[k] \in Nodes \ {x}
    <2>1. Making(p)
      BY Zenon, <1>3 DEF Making
    <2>2. x \in allocated /\ \A k \in 1 .. Len(q) : q[k] # x
      BY Zenon, <1>1, <1>4, <2>1 DEF Memory
    <2>3. \A k \in 1 .. Len(q) : q[k] \in Nodes
      BY Zenon, <1>4, ChainEnds
    <2>4. x \in Nodes
      BY Zenon, <2>2 DEF QueueTyped
    <2> QED
      BY Zenon, <2>2, <2>3, <2>4, QueueAssumption
  <1>6. /\ lock = p /\ \A o \in Producers \ {p} : prod[o].step \notin {"link", "append", "unlock"}
        /\ pc \notin {"first", "advance", "test", "delete", "drop"}
    BY Zenon, <1>3, QueueAssumption DEF Locks
  <1>7. /\ prev'[ReqQ] = x /\ prev'[x] = prev[ReqQ] /\ next'[x] = ReqQ
        /\ next'[ReqQ] = next[ReqQ]
        /\ \A y \in Nodes \ {x} : prev'[y] = prev[y] /\ next'[y] = next[y]
    BY <1>2, <1>5, QueueAssumption DEF QueueTyped
  <1>8. QueueTyped'
    <2>1. /\ prev' \in [Nodes \cup {ReqQ} -> Nodes \cup {ReqQ, Poison}]
          /\ next' \in [Nodes \cup {ReqQ} -> Nodes \cup {ReqQ, Poison}]
      BY <1>2, <1>5 DEF QueueTyped
    <2> QED
      BY Zenon, <1>2, <1>3, <2>1 DEF QueueTyped
  <1>9. Locks'
    BY Zenon, <1>2, <1>3 DEF Locks
  <1>10. Chain(q)'
    BY Zenon, <1>4, <1>5, <1>7, ChainKept
  <1>11. Cursor(q)'
    BY Zenon, <1>2, <1>4 DEF Cursor, SecondOf, FirstOf
  <1>12. Ends(q)'
    <2>1. prev[ReqQ] = LastOf(q)
      BY Zenon, <1>3, <1>4, <1>6 DEF Ends
    <2>2. Len(q) > 0 => prev'[q[1]] = ReqQ
      <3>1. Len(q) > 0 => 1 \in 1 .. Len(q)
        BY <1>4, ChainEnds
      <3> QED
        BY Zenon, <1>4, <1>5, <1>7, <3>1 DEF Ends
    <2>3. \A o \in Producers : prod'[o].step = "append" => o = p
      BY Zenon, <1>3, <1>6
    <2> QED
      BY Zenon, <1>2, <1>3, <1>6, <1>7, <2>1, <2>2, <2>3 DEF Ends, LastOf, Before
  <1>13. Memory(q)'
    <2>1. \A o \in Producers : (Making(o)' <=> Making(o)) /\ prod'[o].node = prod[o].node
      BY Zenon, <1>1, <1>3 DEF Making
    <2> QED
      BY Zenon, <1>2, <1>4, <2>1 DEF Memory, Serving
  <1> QED
    BY Zenon, <1>2, <1>8, <1>9, <1>10, <1>11, <1>12, <1>13 DEF ListIs

\* Its last write puts the node at the end of the list.
LEMMA ReqAppendListed ==
    ASSUME QueueTyped, Locks, NEW q, ListIs(q), NEW p \in Producers, ReqAppend(p)
    PROVE  /\ \E r : r = Append(q, prod[p].node) /\ ListIs(r)'
           /\ QueueTyped' /\ Locks'
           /\ UNCHANGED <<req, pos, pc>> /\ req[prod[p].node] \in Requests
  <1>1. PICK x : x = prod[p].node
    BY Zenon
  <1>2. /\ UNCHANGED <<lock, prev, req, allocated, pc, pos, n>>
        /\ next' = [next EXCEPT ![prev[x]] = x]
        /\ ProdStep(p, "append", "unlock")
    BY Zenon, <1>1 DEF ReqAppend, lockVars, rebVars
  <1>3. /\ prod[p].step = "append" /\ prod'[p].step = "unlock" /\ prod'[p].node = x
        /\ prod' \in [Producers -> [step : Steps, node : Nodes \cup {ReqQ}]]
        /\ \A o \in Producers \ {p} : prod'[o] = prod[o]
    BY <1>1, <1>2, ProdStepDoes DEF Steps
  <1>4. Chain(q) /\ Ends(q) /\ Memory(q) /\ Cursor(q)
    BY Zenon DEF ListIs
  <1>5. x \in Nodes /\ x \in allocated /\ x # ReqQ /\ \A k \in 1 .. Len(q) : q[k] \in Nodes \ {x}
    <2>1. Making(p)
      BY Zenon, <1>3 DEF Making
    <2>2. x \in allocated /\ \A k \in 1 .. Len(q) : q[k] # x
      BY Zenon, <1>1, <1>4, <2>1 DEF Memory
    <2>3. \A k \in 1 .. Len(q) : q[k] \in Nodes
      BY Zenon, <1>4, ChainEnds
    <2>4. x \in Nodes
      BY Zenon, <2>2 DEF QueueTyped
    <2> QED
      BY Zenon, <2>2, <2>3, <2>4, QueueAssumption
  <1>6. /\ lock = p /\ \A o \in Producers \ {p} : prod[o].step \notin {"link", "append", "unlock"}
        /\ pc \notin {"first", "advance", "test", "delete", "drop"}
    BY Zenon, <1>3, QueueAssumption DEF Locks
  <1>7. prev[ReqQ] = x /\ prev[x] = LastOf(q) /\ next[x] = ReqQ
    BY Zenon, <1>1, <1>3, <1>4 DEF Ends
  <1>8. /\ q \in Seq(Nodes) /\ Len(q) \in Nat /\ LastOf(q) \in Nodes \cup {ReqQ}
        /\ Len(q) = 0 => LastOf(q) = ReqQ
        /\ Len(q) > 0 => LastOf(q) = q[Len(q)]
    BY Zenon, <1>4, ChainEnds
  <1>9. LastOf(q) # x
    BY <1>5, <1>8
  <1>10. /\ next'[LastOf(q)] = x /\ next'[x] = ReqQ
         /\ \A y \in (Nodes \cup {ReqQ}) \ {LastOf(q)} : next'[y] = next[y]
    BY Zenon, <1>2, <1>5, <1>7, <1>8, <1>9 DEF QueueTyped
  <1>11. PICK r : r = Append(q, x)
    BY Zenon
  <1>12. /\ r \in Seq(Nodes) /\ Len(r) = Len(q) + 1 /\ r[Len(q) + 1] = x
         /\ \A k \in 1 .. Len(q) : r[k] = q[k]
    BY <1>5, <1>8, <1>11
  <1>13. Chain(r)'
    <2>1. \A j, k \in 1 .. Len(r) : r[j] = r[k] => j = k
      BY <1>4, <1>5, <1>8, <1>12 DEF Chain
    <2>2. ASSUME NEW k \in 1 .. Len(q) PROVE Before(q, k) # LastOf(q)
      <3>1. CASE k = 1
        <4>1. Len(q) > 0 /\ Len(q) \in 1 .. Len(q) /\ Before(q, k) = ReqQ
          BY <1>8, <3>1 DEF Before
        <4> QED
          BY Zenon, <1>5, <1>8, <4>1, QueueAssumption
      <3>2. CASE k # 1
        <4>1. /\ k - 1 \in 1 .. Len(q) /\ Len(q) \in 1 .. Len(q) /\ Len(q) > 0 /\ k - 1 # Len(q)
              /\ Before(q, k) = q[k - 1]
          BY <1>8, <3>2 DEF Before
        <4>2. q[k - 1] # q[Len(q)]
          BY Zenon, <1>4, <4>1 DEF Chain
        <4> QED
          BY Zenon, <1>8, <4>1, <4>2
      <3> QED
        BY Zenon, <3>1, <3>2
    <2>3. ASSUME NEW k \in 1 .. Len(q) PROVE r[k] = next'[Before(r, k)]
      <3>1. Before(q, k) \in Nodes \cup {ReqQ}
        <4>1. k \in 1 .. Len(q) + 1
          BY <1>8
        <4> QED
          BY Zenon, <1>5, <1>8, <4>1, BeforeIn
      <3>2. next'[Before(q, k)] = next[Before(q, k)]
        BY Zenon, <1>10, <2>2, <3>1
      <3>3. Before(r, k) = Before(q, k)
        BY <1>8, <1>12 DEF Before
      <3> QED
        BY Zenon, <1>4, <1>12, <3>2, <3>3 DEF Chain
    <2>4. Before(r, Len(q) + 1) = LastOf(q) /\ Before(r, Len(r) + 1) = x
      BY <1>8, <1>12 DEF Before, LastOf
    <2>5. \A k \in 1 .. Len(r) : k \in 1 .. Len(q) \/ k = Len(q) + 1
      BY <1>8, <1>12
    <2>6. \A k \in 1 .. Len(r) : r[k] = next'[Before(r, k)]
      BY Zenon, <1>10, <1>12, <2>3, <2>4, <2>5
    <2> QED
      BY Zenon, <1>10, <1>12, <2>1, <2>4, <2>6 DEF Chain, Before
  <1>14. /\ LastOf(r) = x /\ Len(r) > 0
         /\ Len(q) = 0 => r[1] = x
         /\ Len(q) > 0 => r[1] = q[1]
    BY <1>8, <1>12 DEF LastOf, Before
  <1>15. Ends(r)'
    <2>1. prev[r[1]] = ReqQ
      <3>1. Len(q) = 0 \/ Len(q) > 0
        BY <1>8
      <3> QED
        BY Zenon, <1>4, <1>7, <1>8, <1>14, <3>1 DEF Ends
    <2>2. \A o \in Producers : prod'[o].step # "append"
      BY Zenon, <1>3, <1>6
    <2> QED
      BY Zenon, <1>2, <1>6, <1>7, <1>14, <2>1, <2>2 DEF Ends, LastOf, Before
  <1>16. Cursor(r)'
    <2>1. FirstOf(q) = ReqQ \/ FirstOf(q) = FirstOf(r)
      BY <1>8, <1>12 DEF FirstOf
    <2> QED
      BY Zenon, <1>2, <1>4, <1>6, <2>1 DEF Cursor, FirstOf
  <1>17. Memory(r)'
    <2>1. /\ \A o \in Producers : Making(o)' => Making(o) /\ o # p
          /\ \A o \in Producers : prod'[o].node = prod[o].node
      BY Zenon, <1>1, <1>3 DEF Making
    <2>2. ASSUME NEW k \in 1 .. Len(r) PROVE (k \in 1 .. Len(q) /\ r[k] = q[k]) \/ r[k] = x
      BY <1>8, <1>12
    <2>3. Making(p) /\ x = prod[p].node
      BY Zenon, <1>1, <1>3 DEF Making
    <2>4. ASSUME NEW o \in Producers, Making(o)'
          PROVE  /\ prod'[o].node \in allocated
                 /\ \A k \in 1 .. Len(r) : r[k] # prod'[o].node
                 /\ \A s \in Producers : Making(s)' /\ prod'[s].node = prod'[o].node => s = o
      BY Zenon, <1>4, <2>1, <2>2, <2>3, <2>4 DEF Memory
    <2>5. \A k \in 1 .. Len(r) : r[k] \in allocated
      BY Zenon, <1>4, <1>5, <2>2 DEF Memory
    <2>6. Serving => \A k \in 1 .. Len(r) : r[k] # pos
      BY Zenon, <1>4, <2>2, <2>3 DEF Memory
    <2> QED
      BY Zenon, <1>2, <1>4, <2>1, <2>4, <2>5, <2>6 DEF Memory, Serving
  <1>18. QueueTyped'
    <2>1. next' \in [Nodes \cup {ReqQ} -> Nodes \cup {ReqQ, Poison}]
      BY Zenon, <1>2, <1>5 DEF QueueTyped
    <2> QED
      BY Zenon, <1>2, <1>3, <2>1 DEF QueueTyped
  <1>19. Locks'
    BY Zenon, <1>2, <1>3 DEF Locks
  <1>20. req[x] \in Requests
    BY Zenon, <1>4, <1>5 DEF Memory
  <1>21. ListIs(r)'
    BY Zenon, <1>13, <1>15, <1>16, <1>17 DEF ListIs
  <1> QED
    BY Zenon, <1>1, <1>2, <1>11, <1>18, <1>19, <1>20, <1>21

\* What the steps of the loop that do not write the list change.
LEMMA LoopListed ==
    ASSUME QueueTyped, Locks, NEW q, ListIs(q), LockQueue \/ First \/ Advance \/ Finish \/ DropLock
    PROVE  ListIs(q)' /\ QueueTyped' /\ Locks' /\ UNCHANGED req
           /\ (Serving' <=> Serving) /\ (Serving => UNCHANGED pos)
  <1>1. UNCHANGED <<next, prev, req, allocated, prod>>
    BY Zenon DEF LockQueue, First, Advance, Finish, DropLock, listVars, prodVars
  <1>2. /\ pc \in {"sleep", "relock", "first", "advance", "test", "drop"}
        /\ pc' \in {"first", "advance", "test", "sleep", "serve"}
        /\ pc' = "serve" <=> pc = "drop"
        /\ pc = "drop" => UNCHANGED pos
    BY Zenon DEF LockQueue, First, Advance, Finish, DropLock, Goto
  <1>3. (Serving' <=> Serving) /\ (Serving => UNCHANGED pos) /\ pc' # "delete" /\ pc # "delete"
    BY Zenon, <1>2 DEF Serving
  <1>4. Chain(q) /\ Cursor(q)
    BY Zenon DEF ListIs
  <1>5. /\ next[ReqQ] = FirstOf(q) /\ (Len(q) > 0 => next[q[1]] = SecondOf(q))
        /\ FirstOf(q) \in Nodes \cup {ReqQ} /\ SecondOf(q) \in Nodes \cup {ReqQ}
    BY Zenon, <1>4, ChainEnds
  <1>6. next[FirstOf(q)] = IF Len(q) > 0 THEN SecondOf(q) ELSE ReqQ
    BY Zenon, <1>5 DEF FirstOf
  <1>7. Cursor(q)' /\ pos' \in Nodes \cup {ReqQ} /\ n' \in Nodes \cup {ReqQ}
    <2>1. CASE LockQueue
      BY Zenon, <1>4, <2>1 DEF LockQueue, Goto, Cursor, FirstOf, QueueTyped
    <2>2. CASE First
      <3>1. pos' = FirstOf(q) /\ n' = next[FirstOf(q)] /\ pc' = "test"
        BY Zenon, <1>5, <2>2 DEF First, Goto
      <3> QED
        BY Zenon, <1>5, <1>6, <3>1 DEF Cursor, FirstOf, SecondOf
    <2>3. CASE Advance
      <3>1. pos' = n /\ n' = next[n] /\ pc' = "test" /\ (n = ReqQ \/ n = FirstOf(q))
        BY Zenon, <1>4, <2>3 DEF Advance, Goto, Cursor
      <3> QED
        BY Zenon, <1>5, <1>6, <3>1 DEF Cursor, FirstOf, SecondOf
    <2>4. CASE Finish
      BY Zenon, <2>4 DEF Finish, Goto, Cursor, QueueTyped
    <2>5. CASE DropLock
      BY Zenon, <1>4, <2>5 DEF DropLock, Goto, Cursor, FirstOf, QueueTyped
    <2> QED
      BY Zenon, <2>1, <2>2, <2>3, <2>4, <2>5
  <1>8. ListIs(q)'
    BY Zenon, <1>1, <1>3, <1>7, ListKept
  <1>9. \/ /\ lock = Free /\ lock' = "rebalancer"
           /\ pc \in {"sleep", "relock"} /\ pc' \in {"first", "advance"}
        \/ UNCHANGED lock /\ pc \in {"first", "advance"} /\ pc' = "test"
        \/ lock' = Free /\ pc \in {"test", "drop"} /\ pc' \in {"sleep", "serve"}
    BY Zenon DEF LockQueue, First, Advance, Finish, DropLock, Goto, spin_lock, spin_unlock, lockVars
  <1>10. Free \notin Producers /\ "rebalancer" \notin Producers /\ "rebalancer" # Free
    BY QueueAssumption DEF Free
  <1>11. QueueTyped'
    BY Zenon, <1>1, <1>7, <1>9 DEF QueueTyped
  <1>12. Locks'
    <2>1. \A p \in Producers : lock' = p <=> prod[p].step \in {"link", "append", "unlock"}
      BY Zenon, <1>9, <1>10 DEF Locks
    <2>2. lock' = "rebalancer" <=> pc' \in {"first", "advance", "test", "delete", "drop"}
      BY Zenon, <1>9, <1>10 DEF Locks
    <2> QED
      BY Zenon, <1>1, <2>1, <2>2 DEF Locks
  <1> QED
    BY Zenon, <1>1, <1>3, <1>8, <1>11, <1>12

\* While a request is served the list is left alone.
LEMMA ServeListed ==
    ASSUME QueueTyped, Locks, NEW q, ListIs(q),
           AddCore \/ RemoveNothing \/ RemoveTraps \/ RemoveCore \/ Join
    PROVE  ListIs(q)' /\ QueueTyped' /\ Locks' /\ UNCHANGED <<req, pos>> /\ Serving' /\ Serving
  <1>1. UNCHANGED <<lock, next, prev, req, allocated, prod, pos, n>>
    BY Zenon DEF AddCore, RemoveNothing, RemoveTraps, RemoveCore, Join, lockVars, listVars,
       prodVars
  <1>2. pc \in {"serve", "join"} /\ pc' \in {"free", "trap", "join"}
    BY Zenon DEF AddCore, RemoveNothing, RemoveTraps, RemoveCore, Join, Goto, Serves
  <1>3. Serving' /\ Serving
    BY Zenon, <1>2 DEF Serving
  <1>4. Cursor(q)'
    BY Zenon, <1>1, <1>2 DEF ListIs, Cursor, FirstOf
  <1>5. ListIs(q)'
    BY Zenon, <1>1, <1>2, <1>3, <1>4, ListKept
  <1>6. QueueTyped'
    BY Zenon, <1>1 DEF QueueTyped
  <1>7. Locks'
    BY Zenon, <1>1, <1>2 DEF Locks
  <1> QED
    BY Zenon, <1>1, <1>3, <1>5, <1>6, <1>7

\* list_del up to its last write to the list: the node is still in it.
LEMMA UnlinkListed ==
    ASSUME QueueTyped, Locks, NEW q, ListIs(q), Unlink
    PROVE  ListIs(q)' /\ QueueTyped' /\ Locks' /\ UNCHANGED req /\ ~Serving' /\ ~Serving
  <1>1. /\ pos # ReqQ /\ pc = "test" /\ pc' = "delete"
        /\ prev' = [prev EXCEPT ![next[pos]] = prev[pos]]
        /\ UNCHANGED <<lock, next, req, allocated, prod, pos, n>>
    BY Zenon DEF Unlink, Goto, lockVars, prodVars
  <1>2. Chain(q) /\ Ends(q) /\ Memory(q) /\ Cursor(q)
    BY Zenon DEF ListIs
  <1>3. Len(q) > 0 /\ pos = q[1] /\ n = SecondOf(q)
    BY Zenon, <1>1, <1>2 DEF Cursor
  <1>4. /\ next[pos] = SecondOf(q) /\ prev[pos] = ReqQ
        /\ q \in Seq(Nodes) /\ Len(q) \in Nat /\ SecondOf(q) \in Nodes \cup {ReqQ}
        /\ LastOf(q) = q[Len(q)] /\ \A k \in 1 .. Len(q) : q[k] \in Nodes
    BY Zenon, <1>2, <1>3, ChainEnds DEF Ends
  <1>5. /\ prev'[SecondOf(q)] = ReqQ
        /\ \A y \in (Nodes \cup {ReqQ}) \ {SecondOf(q)} : prev'[y] = prev[y]
    BY Zenon, <1>1, <1>4 DEF QueueTyped
  <1>6. lock = "rebalancer" /\ \A p \in Producers : prod[p].step \notin {"link", "append", "unlock"}
    BY Zenon, <1>1, QueueAssumption DEF Locks
  <1>7. Ends(q)'
    <2>1. prev[ReqQ] = LastOf(q)
      BY Zenon, <1>1, <1>2, <1>6 DEF Ends
    <2>2. SecondOf(q) # q[1] /\ (Len(q) > 1 => SecondOf(q) # ReqQ)
      <3>1. CASE Len(q) > 1
        <4>1. SecondOf(q) = q[2] /\ 1 \in 1 .. Len(q) /\ 2 \in 1 .. Len(q) /\ 1 # 2
          BY <1>4, <3>1 DEF SecondOf
        <4> QED
          BY Zenon, <1>2, <1>4, <4>1, QueueAssumption DEF Chain
      <3>2. CASE ~(Len(q) > 1)
        <4>1. SecondOf(q) = ReqQ /\ 1 \in 1 .. Len(q)
          BY <1>3, <1>4, <3>2 DEF SecondOf
        <4> QED
          BY Zenon, <1>4, <3>2, <4>1, QueueAssumption
      <3> QED
        BY Zenon, <3>1, <3>2
    <2>3. q[1] \in Nodes
      BY <1>3, <1>4
    <2>4. prev'[q[1]] = ReqQ
      BY Zenon, <1>3, <1>4, <1>5, <2>2, <2>3
    <2>5. Len(q) > 1 => prev'[ReqQ] = LastOf(q)
      BY Zenon, <1>5, <2>1, <2>2
    <2> QED
      BY Zenon, <1>1, <1>5, <1>6, <2>4, <2>5 DEF Ends, LastOf, SecondOf, Before
  <1>8. Chain(q)' /\ Cursor(q)'
    BY Zenon, <1>1, <1>2, <1>3, ChainKept DEF Cursor, SecondOf
  <1>9. Memory(q)'
    BY Zenon, <1>1, <1>2 DEF Memory, Making, Serving
  <1>10. QueueTyped'
    <2>1. prev' \in [Nodes \cup {ReqQ} -> Nodes \cup {ReqQ, Poison}]
      BY Zenon, <1>1, <1>4 DEF QueueTyped
    <2> QED
      BY Zenon, <1>1, <2>1 DEF QueueTyped
  <1>11. Locks'
    BY Zenon, <1>1 DEF Locks
  <1> QED
    BY Zenon, <1>1, <1>7, <1>8, <1>9, <1>10, <1>11 DEF ListIs, Serving

\* FreeRequest gives back a node that is not in the list.
LEMMA FreeListed ==
    ASSUME QueueTyped, Locks, NEW q, ListIs(q), FreeRequest
    PROVE  /\ ListIs(q)' /\ QueueTyped' /\ Locks' /\ Serving /\ ~Serving'
           /\ \A k \in 1 .. Len(q) : req'[q[k]] = req[q[k]]
  <1>1. /\ pc = "free" /\ pc' = "relock" /\ allocated' = allocated \ {pos}
        /\ req' = [req EXCEPT ![pos] = NoRequest]
        /\ UNCHANGED <<lock, next, prev, prod, pos, n>>
    BY Zenon DEF FreeRequest, Goto, lockVars, prodVars
  <1>2. Chain(q) /\ Ends(q) /\ Memory(q) /\ Cursor(q)
    BY Zenon DEF ListIs
  <1>3. Serving /\ ~Serving'
    BY Zenon, <1>1 DEF Serving
  <1>4. /\ pos \in allocated /\ \A k \in 1 .. Len(q) : q[k] # pos
        /\ \A p \in Producers : Making(p) => prod[p].node # pos
    BY Zenon, <1>2, <1>3 DEF Memory
  <1>5. \A y \in Nodes \ {pos} : req'[y] = req[y]
    BY Zenon, <1>1 DEF QueueTyped
  <1>6. Chain(q)' /\ Cursor(q)'
    BY Zenon, <1>1, <1>2, ChainKept DEF Cursor, FirstOf
  <1>7. Ends(q)'
    BY Zenon, <1>1, <1>2 DEF Ends, LastOf, SecondOf, Before
  <1>8. Memory(q)'
    <2>1. \A k \in 1 .. Len(q) : q[k] \in allocated'
      BY Zenon, <1>1, <1>2, <1>4 DEF Memory
    <2>2. \A y \in allocated' : req'[y] \in Requests
      <3>1. \A y \in allocated' : y \in allocated /\ y \in Nodes \ {pos}
        BY Zenon, <1>1 DEF QueueTyped
      <3> QED
        BY Zenon, <1>2, <1>5, <3>1 DEF Memory
    <2>3. \A p \in Producers : Making(p)' =>
            /\ prod'[p].node \in allocated'
            /\ \A k \in 1 .. Len(q) : q[k] # prod'[p].node
            /\ \A o \in Producers : Making(o)' /\ prod'[o].node = prod'[p].node => o = p
      <3>1. \A p \in Producers : Making(p)' <=> Making(p)
        BY Zenon, <1>1 DEF Making
      <3> QED
        BY Zenon, <1>1, <1>2, <1>4, <3>1 DEF Memory
    <2> QED
      BY Zenon, <1>3, <2>1, <2>2, <2>3 DEF Memory
  <1>9. QueueTyped'
    BY Zenon, <1>1 DEF QueueTyped
  <1>10. Locks'
    BY Zenon, <1>1 DEF Locks
  <1>11. \A k \in 1 .. Len(q) : req'[q[k]] = req[q[k]]
    BY Zenon, <1>2, <1>4, <1>5, ChainEnds
  <1> QED
    BY Zenon, <1>3, <1>6, <1>7, <1>8, <1>9, <1>10, <1>11 DEF ListIs

\* The last writes of list_del take the first node out of the list.
LEMMA DeleteListed ==
    ASSUME QueueTyped, Locks, NEW q, ListIs(q), Delete
    PROVE  /\ \E r : r = Tail(q) /\ ListIs(r)'
           /\ QueueTyped' /\ Locks' /\ UNCHANGED req
           /\ ~Serving /\ Serving' /\ Len(q) > 0 /\ pos' = q[1]
  <1>1. /\ pc = "delete" /\ pc' = "drop"
        /\ next' = [next EXCEPT ![prev[pos]] = next[pos], ![pos] = Poison]
        /\ prev' = [prev EXCEPT ![pos] = Poison]
        /\ UNCHANGED <<lock, req, allocated, prod, pos, n>>
    BY Zenon DEF Delete, Goto, lockVars, prodVars
  <1>2. Chain(q) /\ Ends(q) /\ Memory(q) /\ Cursor(q)
    BY Zenon DEF ListIs
  <1>3. Len(q) > 0 /\ pos = q[1] /\ n = SecondOf(q)
    BY Zenon, <1>1, <1>2 DEF Cursor
  <1>4. /\ next[pos] = SecondOf(q) /\ prev[pos] = ReqQ /\ prev[SecondOf(q)] = ReqQ
        /\ q \in Seq(Nodes) /\ Len(q) \in Nat /\ SecondOf(q) \in Nodes \cup {ReqQ}
        /\ LastOf(q) = q[Len(q)] /\ next[LastOf(q)] = ReqQ
        /\ \A k \in 1 .. Len(q) : q[k] \in Nodes
    BY Zenon, <1>1, <1>2, <1>3, ChainEnds DEF Ends
  <1>5. pos \in Nodes /\ pos # ReqQ
    <2>1. 1 \in 1 .. Len(q)
      BY <1>3, <1>4
    <2> QED
      BY Zenon, <1>3, <1>4, <2>1, QueueAssumption
  <1>6. /\ next'[ReqQ] = SecondOf(q) /\ prev'[ReqQ] = prev[ReqQ]
        /\ \A y \in Nodes \ {pos} : next'[y] = next[y] /\ prev'[y] = prev[y]
    BY <1>1, <1>4, <1>5, QueueAssumption DEF QueueTyped
  <1>7. PICK r : r = Tail(q)
    BY Zenon
  <1>8. /\ r \in Seq(Nodes) /\ Len(r) = Len(q) - 1 /\ Len(r) \in Nat
        /\ \A k \in 1 .. Len(r) : r[k] = q[k + 1]
    BY <1>3, <1>4, <1>7
  <1>9. \A k \in 2 .. Len(q) : q[k] \in Nodes \ {pos}
    <2>1. \A k \in 2 .. Len(q) : k \in 1 .. Len(q) /\ 1 \in 1 .. Len(q) /\ k # 1
      BY <1>4
    <2> QED
      BY Zenon, <1>2, <1>3, <1>4, <2>1 DEF Chain
  <1>10. \A k \in 1 .. Len(r) : k + 1 \in 2 .. Len(q) /\ k + 1 \in 1 .. Len(q)
    BY <1>4, <1>8
  <1>11. /\ Len(r) = 0 => LastOf(r) = ReqQ /\ SecondOf(q) = ReqQ /\ FirstOf(r) = ReqQ
         /\ Len(r) > 0 => /\ LastOf(r) = q[Len(q)] /\ Len(q) \in 2 .. Len(q)
                          /\ SecondOf(q) = r[1] /\ FirstOf(r) = r[1]
                          /\ Len(q) > 1 /\ 1 \in 1 .. Len(r)
    <2>1. ASSUME Len(r) = 0
          PROVE  LastOf(r) = ReqQ /\ SecondOf(q) = ReqQ /\ FirstOf(r) = ReqQ
      <3>1. \A a, b \in Nat : a = 0 /\ a = b - 1 => a + 1 = 1 /\ ~(b > 1) /\ ~(a > 0)
        OBVIOUS
      <3>2. Len(r) + 1 = 1 /\ ~(Len(q) > 1) /\ ~(Len(r) > 0)
        BY Zenon, <1>4, <1>8, <2>1, <3>1
      <3> QED
        BY Zenon, <3>2 DEF LastOf, Before, SecondOf, FirstOf
    <2>2. ASSUME Len(r) > 0
          PROVE  /\ LastOf(r) = q[Len(q)] /\ Len(q) \in 2 .. Len(q)
                 /\ SecondOf(q) = r[1] /\ FirstOf(r) = r[1]
                 /\ Len(q) > 1 /\ 1 \in 1 .. Len(r)
      <3>1. Len(q) \in 2 .. Len(q) /\ Len(q) > 1 /\ 1 \in 1 .. Len(r) /\ Len(r) \in 1 .. Len(r)
        BY <1>4, <1>8, <2>2
      <3>2. r[1] = q[2] /\ r[Len(r)] = q[Len(q)]
        BY <1>4, <1>8, <3>1
      <3>3. LastOf(r) = r[Len(r)]
        BY <1>8, <2>2 DEF LastOf, Before
      <3> QED
        BY Zenon, <2>2, <3>1, <3>2, <3>3 DEF SecondOf, FirstOf
    <2> QED
      BY Zenon, <2>1, <2>2
  <1>12. Len(r) = 0 \/ Len(r) > 0
    BY <1>8
  <1>13. Chain(r)'
    <2>1. \A j, k \in 1 .. Len(r) : r[j] = r[k] => j = k
      <3>1. ASSUME NEW j \in 1 .. Len(r), NEW k \in 1 .. Len(r), r[j] = r[k] PROVE j = k
        <4>1. \A a, b \in 1 .. Len(q) : q[a] = q[b] => a = b
          BY Zenon, <1>2 DEF Chain
        <4>2. /\ j + 1 \in 1 .. Len(q) /\ k + 1 \in 1 .. Len(q)
              /\ r[j] = q[j + 1] /\ r[k] = q[k + 1]
          BY Zenon, <1>8, <1>10, <3>1
        <4>3. j + 1 = k + 1
          BY Zenon, <3>1, <4>1, <4>2
        <4> QED
          BY <4>3
      <3> QED
        BY Zenon, <3>1
    <2>2. ASSUME NEW k \in 1 .. Len(r) PROVE r[k] = next'[Before(r, k)]
      <3>1. CASE k = 1
        <4>1. Len(r) > 0
          BY <1>8
        <4> QED
          BY Zenon, <1>6, <1>11, <3>1, <4>1 DEF Before
      <3>2. CASE k # 1
        <4>1. /\ k - 1 \in 1 .. Len(r) /\ k - 1 + 1 = k /\ k \in 2 .. Len(q)
              /\ k + 1 # 1 /\ k + 1 - 1 = k
          BY <1>4, <1>8, <3>2
        <4>2. Before(r, k) = q[k] /\ Before(q, k + 1) = q[k]
          BY <1>8, <3>2, <4>1 DEF Before
        <4>3. q[k + 1] = next[q[k]]
          BY Zenon, <1>2, <1>10, <4>2 DEF Chain
        <4>4. next'[q[k]] = next[q[k]]
          BY Zenon, <1>6, <1>9, <4>1
        <4> QED
          BY Zenon, <1>8, <4>2, <4>3, <4>4
      <3> QED
        BY Zenon, <3>1, <3>2
    <2>3. next'[LastOf(r)] = ReqQ
      BY Zenon, <1>4, <1>6, <1>9, <1>11, <1>12
    <2> QED
      BY Zenon, <1>8, <2>1, <2>2, <2>3 DEF Chain, LastOf, Before
  <1>14. Ends(r)'
    <2>1. lock = "rebalancer" /\ \A p \in Producers : prod[p].step # "append"
      BY Zenon, <1>1, QueueAssumption DEF Locks
    <2>2. prev'[ReqQ] = LastOf(r)
      BY Zenon, <1>1, <1>2, <1>4, <1>6, <1>11, <1>12 DEF Ends
    <2>3. Len(r) > 0 => prev'[r[1]] = ReqQ
      BY Zenon, <1>4, <1>6, <1>8, <1>9, <1>10, <1>11
    <2> QED
      BY Zenon, <1>1, <2>1, <2>2, <2>3 DEF Ends, LastOf, Before
  <1>15. Memory(r)'
    <2>1. \A k \in 1 .. Len(r) : r[k] \in allocated /\ r[k] # pos
      BY Zenon, <1>2, <1>8, <1>9, <1>10 DEF Memory
    <2>2. 1 \in 1 .. Len(q)
      BY <1>3, <1>4
    <2>3. pos \in allocated /\ \A p \in Producers : Making(p) => prod[p].node # pos
      BY Zenon, <1>2, <1>3, <2>2 DEF Memory
    <2>4. \A p \in Producers : Making(p) => \A k \in 1 .. Len(r) : r[k] # prod[p].node
      BY Zenon, <1>2, <1>8, <1>10 DEF Memory
    <2>5. \A p \in Producers : Making(p)' <=> Making(p)
      BY Zenon, <1>1 DEF Making
    <2> QED
      BY Zenon, <1>1, <1>2, <2>1, <2>3, <2>4, <2>5 DEF Memory
  <1>16. Cursor(r)'
    <2>1. n = FirstOf(r)
      BY Zenon, <1>3, <1>11, <1>12
    <2> QED
      BY Zenon, <1>1, <2>1 DEF Cursor, FirstOf
  <1>17. QueueTyped'
    <2>1. /\ next' \in [Nodes \cup {ReqQ} -> Nodes \cup {ReqQ, Poison}]
          /\ prev' \in [Nodes \cup {ReqQ} -> Nodes \cup {ReqQ, Poison}]
      BY <1>1, <1>4, <1>5 DEF QueueTyped
    <2> QED
      BY Zenon, <1>1, <2>1 DEF QueueTyped
  <1>18. Locks'
    BY Zenon, <1>1 DEF Locks
  <1>19. ListIs(r)'
    BY Zenon, <1>13, <1>14, <1>15, <1>16 DEF ListIs
  <1>20. ~Serving /\ Serving'
    BY Zenon, <1>1 DEF Serving
  <1> QED
    BY Zenon, <1>1, <1>3, <1>7, <1>17, <1>18, <1>19, <1>20

-----------------------------------------------------------------------------
(* What the list promises. *)

\* The queue of a list, and the request being served.
QueueOf(q) == [k \in 1 .. Len(q) |-> req[q[k]]]
ServingNow == IF Serving THEN <<req[pos]>> ELSE <<>>

\* At first the list is empty.
LEMMA InitQueue == Init => QueueTyped /\ Locks /\ ListIs(<<>>)
  <1> SUFFICES ASSUME Init PROVE QueueTyped /\ Locks /\ ListIs(<<>>)
    BY Zenon
  <1>1. /\ lock = Free /\ allocated = {} /\ pc = "sleep" /\ pos = ReqQ /\ n = ReqQ
        /\ next = [x \in Nodes \cup {ReqQ} |-> x] /\ prev = [x \in Nodes \cup {ReqQ} |-> x]
        /\ req = [x \in Nodes |-> NoRequest]
        /\ prod = [p \in Producers |-> [step |-> "idle", node |-> ReqQ]]
    BY Zenon DEF Init
  <1>2. Free \notin Producers /\ "rebalancer" # Free
    BY QueueAssumption DEF Free
  <1>3. [step |-> "idle", node |-> ReqQ] \in [step : Steps, node : Nodes \cup {ReqQ}]
    BY DEF Steps
  <1>4. QueueTyped
    BY Zenon, <1>1, <1>3 DEF QueueTyped
  <1>5. \A p \in Producers : prod[p].step = "idle"
    BY Zenon, <1>1
  <1>6. Locks
    BY Zenon, <1>1, <1>2, <1>5 DEF Locks
  <1>7. /\ <<>> \in Seq(Nodes) /\ Len(<<>>) = 0 /\ LastOf(<<>>) = ReqQ
        /\ \A k \in 1 .. Len(<<>>) : FALSE
        /\ ~(Len(<<>>) > 0)
    BY DEF LastOf, Before
  <1>8. next[ReqQ] = ReqQ /\ prev[ReqQ] = ReqQ
    BY Zenon, <1>1
  <1>9. Chain(<<>>)
    BY Zenon, <1>7, <1>8 DEF Chain, LastOf
  <1>10. Ends(<<>>) /\ Cursor(<<>>)
    BY Zenon, <1>1, <1>5, <1>7, <1>8 DEF Ends, Cursor
  <1>11. Memory(<<>>)
    BY Zenon, <1>1, <1>5, <1>7 DEF Memory, Making, Serving
  <1> QED
    BY Zenon, <1>4, <1>6, <1>9, <1>10, <1>11 DEF ListIs

\* The steps of the queue, from list q to list r.
SameQueue(q, r) ==
    /\ r = q /\ \A k \in 1 .. Len(q) : req'[q[k]] = req[q[k]]

AcceptStep(q, r) ==
    \E x : /\ r = Append(q, x) /\ UNCHANGED <<req, pos, pc>>
           /\ req[x] \in Requests

BeginStep(q, r) ==
    /\ Len(q) > 0 /\ r = Tail(q) /\ UNCHANGED req
    /\ ~Serving /\ Serving' /\ pos' = q[1]

EndStep(q, r) == SameQueue(q, r) /\ Serving /\ ~Serving'

FifoStep(q, r) ==
    \/ SameQueue(q, r) /\ UNCHANGED ServingNow
    \/ AcceptStep(q, r) \/ BeginStep(q, r) \/ EndStep(q, r)

\* The request being served is the same as long as the cursor is.
LEMMA SameServing ==
    ASSUME Serving' <=> Serving, Serving => pos' = pos /\ req'[pos] = req[pos]
    PROVE  UNCHANGED ServingNow
  BY Zenon DEF ServingNow

\* Every step keeps the list a list, and is one of the steps above.
LEMMA QueueStep ==
    ASSUME QueueTyped, Locks, NEW q, ListIs(q), [Next]_vars
    PROVE  QueueTyped' /\ Locks' /\ \E r : ListIs(r)' /\ FifoStep(q, r)
  <1>1. ASSUME NEW p \in Producers, Call(p)
        PROVE  QueueTyped' /\ Locks' /\ \E r : ListIs(r)' /\ FifoStep(q, r)
    <2>1. /\ ListIs(q)' /\ QueueTyped' /\ Locks' /\ UNCHANGED <<pos, pc>>
          /\ \A x \in allocated : req'[x] = req[x]
      BY Zenon, <1>1, CallListed
    <2>2. /\ \A k \in 1 .. Len(q) : req'[q[k]] = req[q[k]]
          /\ Serving => req'[pos] = req[pos]
      BY Zenon, <2>1 DEF ListIs, Memory
    <2>3. UNCHANGED ServingNow
      BY Zenon, <2>1, <2>2, SameServing DEF Serving
    <2> QED
      BY Zenon, <2>1, <2>2, <2>3 DEF FifoStep, SameQueue
  <1>2. ASSUME NEW p \in Producers, ReqLock(p) \/ ReqUnlock(p) \/ ReqLink(p)
        PROVE  QueueTyped' /\ Locks' /\ \E r : ListIs(r)' /\ FifoStep(q, r)
    <2>1. ListIs(q)' /\ QueueTyped' /\ Locks' /\ UNCHANGED <<req, pos, pc>>
      BY Zenon, <1>2, ReqLockListed, ReqUnlockListed, ReqLinkListed
    <2>2. UNCHANGED ServingNow
      BY Zenon, <2>1, SameServing DEF Serving
    <2> QED
      BY Zenon, <2>1, <2>2 DEF FifoStep, SameQueue
  <1>3. ASSUME NEW p \in Producers, ReqAppend(p)
        PROVE  QueueTyped' /\ Locks' /\ \E r : ListIs(r)' /\ FifoStep(q, r)
    <2>1. PICK r : r = Append(q, prod[p].node) /\ ListIs(r)'
      BY Zenon, <1>3, ReqAppendListed
    <2>2. /\ QueueTyped' /\ Locks' /\ UNCHANGED <<req, pos, pc>> /\ req[prod[p].node] \in Requests
      BY Zenon, <1>3, ReqAppendListed
    <2> QED
      BY Zenon, <2>1, <2>2 DEF FifoStep, AcceptStep
  <1>4. CASE LockQueue \/ First \/ Advance \/ Finish \/ DropLock
    <2>1. /\ ListIs(q)' /\ QueueTyped' /\ Locks' /\ UNCHANGED req
          /\ (Serving' <=> Serving) /\ (Serving => UNCHANGED pos)
      BY Zenon, <1>4, LoopListed
    <2>2. UNCHANGED ServingNow
      BY Zenon, <2>1, SameServing
    <2> QED
      BY Zenon, <2>1, <2>2 DEF FifoStep, SameQueue
  <1>5. CASE Unlink
    <2>1. ListIs(q)' /\ QueueTyped' /\ Locks' /\ UNCHANGED req /\ ~Serving' /\ ~Serving
      BY Zenon, <1>5, UnlinkListed
    <2>2. UNCHANGED ServingNow
      BY Zenon, <2>1, SameServing
    <2> QED
      BY Zenon, <2>1, <2>2 DEF FifoStep, SameQueue
  <1>6. CASE Delete
    <2>1. PICK r : r = Tail(q) /\ ListIs(r)'
      BY Zenon, <1>6, DeleteListed
    <2>2. /\ QueueTyped' /\ Locks' /\ UNCHANGED req
          /\ ~Serving /\ Serving' /\ Len(q) > 0 /\ pos' = q[1]
      BY Zenon, <1>6, DeleteListed
    <2> QED
      BY Zenon, <2>1, <2>2 DEF FifoStep, BeginStep
  <1>7. CASE AddCore \/ RemoveNothing \/ RemoveTraps \/ RemoveCore \/ Join
    <2>1. ListIs(q)' /\ QueueTyped' /\ Locks' /\ UNCHANGED <<req, pos>> /\ Serving' /\ Serving
      BY Zenon, <1>7, ServeListed
    <2>2. UNCHANGED ServingNow
      BY Zenon, <2>1, SameServing
    <2> QED
      BY Zenon, <2>1, <2>2 DEF FifoStep, SameQueue
  <1>8. CASE FreeRequest
    BY Zenon, <1>8, FreeListed DEF FifoStep, EndStep, SameQueue
  <1>9. CASE UNCHANGED <<lock, next, prev, req, allocated, prod, pc, pos, n>>
    <2>1. Cursor(q)'
      BY Zenon, <1>9 DEF ListIs, Cursor, FirstOf, SecondOf
    <2>2. ListIs(q)'
      BY Zenon, <1>9, <2>1, ListKept DEF Serving
    <2>3. QueueTyped' /\ Locks'
      BY Zenon, <1>9 DEF QueueTyped, Locks
    <2>4. UNCHANGED ServingNow
      BY Zenon, <1>9, SameServing DEF Serving
    <2> QED
      BY Zenon, <1>9, <2>2, <2>3, <2>4 DEF FifoStep, SameQueue
  <1>10. ASSUME UNCHANGED vars \/ \E s \in Cores : Scheduler(s)
         PROVE  UNCHANGED <<lock, next, prev, req, allocated, prod, pc, pos, n>>
    BY Zenon, <1>10 DEF Scheduler, TakeUnit, GiveUnit, XstreamEnds, vars, lockVars, listVars,
       prodVars, rebVars
  <1> QED
    BY Zenon, <1>1, <1>2, <1>3, <1>4, <1>5, <1>6, <1>7, <1>8, <1>9, <1>10
       DEF Next, Rebalancer, Locked

\* The invariant.
LEMMA QueueKept == Queue /\ [Next]_vars => Queue'
  <1> SUFFICES ASSUME Queue, [Next]_vars PROVE Queue'
    BY Zenon
  <1>1. PICK q : ListIs(q)
    BY Zenon DEF Queue
  <1>2. QueueTyped' /\ Locks' /\ \E r : ListIs(r)'
    BY Zenon, <1>1, QueueStep DEF Queue
  <1> QED
    BY Zenon, <1>2 DEF Queue

\* The list is what is reached from the head, also after a step.
LEMMA LinkedNext == (\A q : Chain(q) => Linked = q)'
  <1>1. \A q : Chain(q) => Linked = q
    BY Zenon, LinkedIs
  <1> QED
    BY <1>1, PTL

\* A step of the list is a step of the queue.
LEMMA FifoSteps ==
    ASSUME Queue, [Next]_vars
    PROVE  [Fifo!Next]_<<QueueOf(Linked), ServingNow>>
  <1>1. PICK q : ListIs(q)
    BY Zenon DEF Queue
  <1>2. PICK r : ListIs(r)' /\ FifoStep(q, r)
    BY Zenon, <1>1, QueueStep DEF Queue
  <1>3. Linked = q
    BY Zenon, <1>1, LinkedIs DEF ListIs
  <1>4. Linked' = r
    BY Zenon, <1>2, LinkedNext DEF ListIs
  <1>5. q \in Seq(Nodes) /\ Len(q) \in Nat
    BY Zenon, <1>1, ChainEnds DEF ListIs
  <1>6. PICK a, b : /\ a = QueueOf(Linked) /\ b = QueueOf(Linked)'
                    /\ a = [k \in 1 .. Len(q) |-> req[q[k]]]
                    /\ b = [k \in 1 .. Len(r) |-> req'[r[k]]]
    BY Zenon, <1>3, <1>4 DEF QueueOf
  <1>7. CASE SameQueue(q, r) /\ UNCHANGED ServingNow
    <2>1. b = a
      BY Zenon, <1>6, <1>7 DEF SameQueue
    <2> QED
      BY Zenon, <1>6, <1>7, <2>1
  <1>8. CASE AcceptStep(q, r)
    <2>1. PICK x : r = Append(q, x) /\ UNCHANGED <<req, pos, pc>> /\ req[x] \in Requests
      BY Zenon, <1>8 DEF AcceptStep
    <2>2. b = Append(a, req[x])
      BY <1>5, <1>6, <2>1
    <2>3. UNCHANGED ServingNow
      BY Zenon, <2>1 DEF ServingNow, Serving
    <2> QED
      BY Zenon, <1>6, <2>1, <2>2, <2>3 DEF Fifo!Next, Fifo!Accept, QueueOf, ServingNow
  <1>9. CASE BeginStep(q, r)
    <2>1. a # <<>> /\ b = Tail(a) /\ Head(a) = req[q[1]]
      BY <1>5, <1>6, <1>9 DEF BeginStep
    <2>2. ServingNow = <<>> /\ ServingNow' = <<Head(a)>>
      BY Zenon, <1>9, <2>1 DEF BeginStep, ServingNow
    <2> QED
      BY Zenon, <1>6, <2>1, <2>2 DEF Fifo!Next, Fifo!Begin, QueueOf, ServingNow
  <1>10. CASE EndStep(q, r)
    <2>1. b = a
      BY Zenon, <1>6, <1>10 DEF EndStep, SameQueue
    <2>2. ServingNow = <<req[pos]>> /\ ServingNow' = <<>> /\ <<req[pos]>> # <<>>
      BY <1>10 DEF EndStep, ServingNow
    <2> QED
      BY Zenon, <1>6, <2>1, <2>2 DEF Fifo!Next, Fifo!End, QueueOf, ServingNow
  <1> QED
    BY Zenon, <1>2, <1>7, <1>8, <1>9, <1>10 DEF FifoStep

\* The invariant holds at first.
LEMMA InitQueued == Init => Queue
  BY Zenon, InitQueue DEF Queue

\* reb_req.c:88-105: for any memory, any number of producers and requests, the
\* rebalancer goes on with the node that is the first of the list by then, or
\* leaves what was appended meanwhile to its next pass.
THEOREM CursorStaysValid == Spec => []SafeCursor
  <1>1. Spec => []Queue
    BY InitQueued, QueueKept, PTL DEF Spec
  <1>2. Queue => SafeCursor
    <2> SUFFICES ASSUME Queue, pc \in {"serve", "join", "free", "relock"}, n # ReqQ
                 PROVE  n \in allocated /\ Linked # <<>> /\ n = Linked[1]
      BY Zenon DEF SafeCursor
    <2>1. PICK q : ListIs(q)
      BY Zenon DEF Queue
    <2>2. Len(q) > 0 /\ n = q[1]
      BY Zenon, <2>1 DEF ListIs, Cursor, FirstOf
    <2>3. Linked = q
      BY Zenon, <2>1, LinkedIs DEF ListIs
    <2>4. 1 \in 1 .. Len(q) /\ q # <<>>
      <3>1. q \in Seq(Nodes) /\ Len(q) \in Nat
        BY Zenon, <2>1, ChainEnds DEF ListIs
      <3> QED
        BY <2>2, <3>1
    <2> QED
      BY Zenon, <2>1, <2>2, <2>3, <2>4 DEF ListIs, Memory
  <1> QED
    BY <1>1, <1>2, PTL

\* reb_req.c:35-110: for any memory, any number of producers and requests, the
\* list with its lock and its cursor is a queue: requests are served one at a
\* time, each once, in the order in which they were appended.
THEOREM ListIsAQueue == Spec => FifoSpec
  <1>1. Spec => []Queue
    BY InitQueued, QueueKept, PTL DEF Spec
  <1>2. Init => Fifo!Init
    <2> SUFFICES ASSUME Init PROVE Fifo!Init
      OBVIOUS
    <2>1. Linked = <<>>
      BY Zenon, InitQueue, LinkedIs DEF ListIs
    <2>2. QueueOf(Linked) = <<>>
      BY <2>1 DEF QueueOf
    <2>3. ServingNow = <<>>
      BY Zenon DEF Init, ServingNow, Serving
    <2> QED
      BY Zenon, <2>2, <2>3 DEF Fifo!Init, QueueOf, ServingNow
  <1>3. Queue /\ [Next]_vars
          => [Fifo!Next]_<<[k \in 1 .. Len(Linked) |-> req[Linked[k]]],
                           IF Serving THEN <<req[pos]>> ELSE <<>> >>
    BY Zenon, FifoSteps DEF QueueOf, ServingNow
  <1> QED
    BY <1>1, <1>2, <1>3, PTL DEF Spec, FifoSpec, Fifo!Spec

PCs == {"sleep", "first", "advance", "test", "delete", "drop", "serve", "join", "free",
        "relock", "trap"}

\* The NUMA nodes are ranges of cores of the machine.
NumaTyped ==
    /\ DOMAIN numa_info \subseteq Nat
    /\ \A i \in DOMAIN numa_info : numa_info[i].start \in Nat /\ numa_info[i].end \in Cores

\* The types of what is neither the list nor a table of cores.
RestTyped ==
    /\ NumaTyped
    /\ calls \in 0 .. MaxReqs /\ pc \in PCs
    /\ joining \in Cores \cup {None} /\ 0 \notin used
    /\ \A s \in Cores : hand[s] = {} \/ \E h : hand[s] = {h}
    /\ stray \subseteq Loads /\ astray \in BOOLEAN

\* The invariants give TypeOK.
LEMMA TypedSuffices == Queue /\ Ranks /\ RestTyped => TypeOK
  <1> SUFFICES ASSUME Queue, Ranks, RestTyped PROVE TypeOK
    BY Zenon
  <1>1. ASSUME NEW s \in Cores PROVE Cardinality(hand[s]) <= 1
    <2>1. CASE hand[s] = {}
      BY <2>1, FS_EmptySet
    <2>2. CASE \E h : hand[s] = {h}
      <3>1. Cardinality(hand[s]) = 1
        BY Zenon, <2>2, FS_Singleton
      <3> QED
        BY <3>1
    <2> QED
      BY Zenon, <2>1, <2>2 DEF RestTyped
  <1>2. ASSUME NEW s \in Cores, NEW h \in hand[s] PROVE h[1] \in Loads
    BY <1>2 DEF Ranks
  <1>3. used \subseteq Cores \ {0} /\ xstreams \subseteq used
    BY Zenon DEF Ranks, RestTyped
  <1>4. lock = Free \/ lock = "rebalancer" \/ lock \in Producers
    BY Zenon DEF Queue, QueueTyped
  <1>5. /\ calls \in 0 .. MaxReqs /\ pc \in PCs /\ joining \in Cores \cup {None}
        /\ stray \subseteq Loads /\ astray \in BOOLEAN
    BY Zenon DEF RestTyped
  <1>6. /\ curr_rank \in [Loads -> Cores] /\ dest_rank \in [Loads -> Cores]
        /\ on \in [Loads -> Cores \cup {None}] /\ pool \in [Cores -> SUBSET Loads]
    BY Zenon DEF Ranks
  <1> QED
    BY Zenon, <1>1, <1>2, <1>3, <1>4, <1>5, <1>6 DEF TypeOK, Queue, QueueTyped, Steps, PCs

\* abtst_init_env takes no node whose cores the machine does not have.
LEMMA InitNumas == Init => NumaTyped
  <1> SUFFICES ASSUME Init PROVE NumaTyped
    BY Zenon
  <1>1. PICK nodes \in Topologies : numa_info = abtst_init_env(nodes)
    BY Zenon DEF Init
  <1>2. /\ DOMAIN nodes \subseteq Nat
        /\ \A node \in DOMAIN nodes : nodes[node] \in Seq(Seq(Nat) \ {<<>>})
    BY Zenon, TopologyAssumption
  <1>3. 0 \in Nat /\ NrCores - 1 \in Cores
    BY RequestsAssumption DEF Cores
  <1>4. /\ WholeMachine.start = 0 /\ WholeMachine.end = NrCores - 1
    BY Zenon DEF WholeMachine
  <1>5. ASSUME NEW node \in DOMAIN nodes
        PROVE  /\ get_node_cpus(nodes[node], node).start \in Nat
               /\ get_node_cpus(nodes[node], node).end \in Nat
    <2>1. PICK line \in Seq(Seq(Nat) \ {<<>>}) : line = nodes[node]
      BY Zenon, <1>2
    <2>2. ASSUME line # <<>> PROVE line[1][1] \in Nat /\ (Len(line[1]) = 2 => line[1][2] \in Nat)
      <3>1. PICK first \in Seq(Nat) : first = line[1] /\ first # <<>>
        BY <2>2
      <3>2. first[1] \in Nat /\ (Len(first) = 2 => first[2] \in Nat)
        BY <3>1
      <3> QED
        BY Zenon, <3>1, <3>2
    <2>3. NrCores - 1 \in Nat
      BY RequestsAssumption
    <2>4. PICK old : /\ old = IF node = 0 THEN WholeMachine ELSE [start |-> 0, end |-> 0]
                     /\ old.start \in Nat /\ old.end \in Nat
      <3>1. CASE node = 0
        BY Zenon, <1>3, <1>4, <2>3, <3>1
      <3>2. CASE node # 0
        <4>1. [start |-> 0, end |-> 0].start = 0 /\ [start |-> 0, end |-> 0].end = 0
          OBVIOUS
        <4> QED
          BY Zenon, <1>3, <3>2, <4>1
      <3> QED
        BY Zenon, <3>1, <3>2
    <2>5. get_node_cpus(line, node) =
             [start |-> IF line = <<>> THEN old.start ELSE line[1][1],
              end   |-> IF line # <<>> /\ Len(line[1]) = 2 THEN line[1][2] ELSE old.end]
      BY Zenon, <2>4 DEF get_node_cpus
    <2>6. /\ get_node_cpus(line, node).start = IF line = <<>> THEN old.start ELSE line[1][1]
          /\ get_node_cpus(line, node).end =
               IF line # <<>> /\ Len(line[1]) = 2 THEN line[1][2] ELSE old.end
      BY <2>5
    <2> QED
      BY Zenon, <2>1, <2>2, <2>4, <2>6
  <1>6. CASE numa_info = [node \in {0} |-> WholeMachine]
    BY Zenon, <1>3, <1>4, <1>6 DEF NumaTyped
  <1>7. CASE numa_info # [node \in {0} |-> WholeMachine]
    <2>1. PICK top : /\ numa_info = [node \in 0 .. top |-> get_node_cpus(nodes[node], node)]
                     /\ \A node \in 0 .. top :
                          /\ node \in DOMAIN nodes
                          /\ ~(get_node_cpus(nodes[node], node).end >= NrCores)
      BY Zenon, <1>1, <1>7 DEF abtst_init_env
    <2>2. ASSUME NEW node \in 0 .. top
          PROVE  /\ node \in Nat /\ numa_info[node].start \in Nat
                 /\ numa_info[node].end \in Cores
      <3>1. /\ node \in Nat /\ numa_info[node] = get_node_cpus(nodes[node], node)
            /\ numa_info[node].start \in Nat /\ numa_info[node].end \in Nat
            /\ ~(numa_info[node].end >= NrCores)
        BY Zenon, <1>2, <1>5, <2>1
      <3> QED
        BY <3>1, RequestsAssumption DEF Cores
    <2> QED
      BY Zenon, <2>1, <2>2 DEF NumaTyped
  <1> QED
    BY Zenon, <1>6, <1>7

\* The stream to be joined is the last one of a NUMA.
LEMMA LastIsCore ==
    ASSUME NumaTyped, NEW core \in Cores, abtst_env_get_numa_id(core) # None
    PROVE  Max(NumaCores(core)) \in Cores
  <1> DEFINE Of == {i \in DOMAIN numa_info :
                      core \in numa_info[i].start .. numa_info[i].end}
  <1>1. Of # {} /\ abtst_env_get_numa_id(core) = Min(Of)
    BY Zenon DEF abtst_env_get_numa_id
  <1>2. Of \subseteq Nat
    BY Zenon DEF NumaTyped
  <1>3. \E k \in Of : \A m \in Of : k <= m
    <2> HIDE DEF Of
    <2> QED
      BY Zenon, <1>1, <1>2, LeastNumber
  <1>4. Min(Of) \in Of
    <2> HIDE DEF Of
    <2> QED
      BY Zenon, <1>3 DEF Min
  <1>5. PICK id \in DOMAIN numa_info :
          /\ id = abtst_env_get_numa_id(core)
          /\ core \in numa_info[id].start .. numa_info[id].end
    BY Zenon, <1>1, <1>4
  <1>6. PICK a \in Nat, b \in Cores : a = numa_info[id].start /\ b = numa_info[id].end
    BY Zenon DEF NumaTyped
  <1>7. NumaCores(core) = a .. b /\ core \in a .. b
    BY Zenon, <1>5, <1>6 DEF NumaCores
  <1>8. Max(a .. b) = b
    <2>1. b \in Int /\ b \in a .. b /\ \A y \in a .. b : b >= y
      BY <1>7, RequestsAssumption DEF Cores
    <2>2. \A x \in a .. b : (\A y \in a .. b : x >= y) => x = b
      BY <2>1
    <2> QED
      BY Zenon, <2>1, <2>2 DEF Max
  <1> QED
    BY Zenon, <1>6, <1>7, <1>8

\* They hold at first.
LEMMA InitTyped == Init => RestTyped
  <1> SUFFICES ASSUME Init PROVE RestTyped
    BY Zenon
  <1>1. 0 \in 0 .. MaxReqs
    BY RequestsAssumption
  <1>2. 0 \notin used /\ \A s \in Cores : hand[s] = {}
    BY Zenon DEF Init
  <1> QED
    BY Zenon, <1>1, <1>2, InitNumas DEF Init, RestTyped, PCs

\* The core of a request to add one is not that of the rebalancer.
LEMMA AddedCore ==
    ASSUME Queue, NEW core, Serves("add", core)
    PROVE  core # 0
  <1>1. req[pos] \in Requests
    BY Zenon DEF Queue, ListIs, Memory, Serving, Serves
  <1>2. [type |-> "add", core |-> core] \in Requests
    BY Zenon, <1>1 DEF Serves
  <1> QED
    BY <1>2 DEF Requests

\* Every step keeps the types.
LEMMA TypedStep ==
    ASSUME Queue, Ranks, RestTyped, [Next]_vars
    PROVE  RestTyped'
  <1>1. NumaTyped'
    <2>1. UNCHANGED numa_info
      BY Zenon DEF Next, Rebalancer, Locked, Scheduler, Call, ReqLock, ReqLink, ReqAppend,
         ReqUnlock, LockQueue, First, Advance, Finish, Unlink, Delete, DropLock, FreeRequest,
         AddCore, RemoveNothing, RemoveTraps, RemoveCore, Join, TakeUnit, GiveUnit, XstreamEnds,
         vars, coreVars
    <2> QED
      BY Zenon, <2>1 DEF RestTyped, NumaTyped
  <1>2. ASSUME UNCHANGED <<calls, joining, used, hand, stray, astray>>, pc' \in PCs
        PROVE  RestTyped'
    BY Zenon, <1>1, <1>2 DEF RestTyped
  <1>3. CASE LockQueue \/ First \/ Advance \/ Finish \/ Unlink \/ Delete \/ DropLock
             \/ FreeRequest \/ RemoveNothing \/ RemoveTraps
    BY Zenon, <1>2, <1>3 DEF LockQueue, First, Advance, Finish, Unlink, Delete, DropLock,
       FreeRequest, RemoveNothing, RemoveTraps, Goto, PCs, prodVars, unitVars, coreVars
  <1>4. ASSUME NEW p \in Producers, ReqLock(p) \/ Locked(p) PROVE RestTyped'
    <2>1. UNCHANGED <<calls, joining, used, hand, stray, astray, pc>>
      BY Zenon, <1>4 DEF ReqLock, Locked, ReqLink, ReqAppend, ReqUnlock, rebVars, unitVars,
         coreVars
    <2> QED
      BY Zenon, <1>2, <2>1 DEF RestTyped
  <1>5. ASSUME NEW p \in Producers, Call(p) PROVE RestTyped'
    <2>1. calls < MaxReqs /\ calls' = calls + 1
          /\ UNCHANGED <<joining, used, hand, stray, astray, pc>>
      BY Zenon, <1>5 DEF Call, rebVars, unitVars, coreVars
    <2>2. calls' \in 0 .. MaxReqs
      BY <2>1, RequestsAssumption DEF RestTyped
    <2> QED
      BY Zenon, <1>1, <2>1, <2>2 DEF RestTyped
  <1>6. CASE AddCore
    <2>1. /\ UNCHANGED <<calls, joining, hand, stray>> /\ pc' \in PCs
          /\ astray' = astray \/ astray' = TRUE
          /\ \E core \in Cores :
               Serves("add", core) /\ (used' = used \/ used' = used \cup {core})
      BY Zenon, <1>6 DEF AddCore, prodVars, unitVars, coreVars, PCs
    <2>2. 0 \notin used'
      BY Zenon, <2>1, AddedCore DEF RestTyped
    <2> QED
      BY Zenon, <1>1, <2>1, <2>2 DEF RestTyped
  <1>7. CASE RemoveCore
    <2>1. PICK core \in used :
            /\ abtst_env_get_numa_id(core) # None /\ joining' = Max(NumaCores(core))
            /\ astray' = (astray \/ joining' # core)
      BY Zenon, <1>7 DEF RemoveCore
    <2>2. joining' \in Cores
      BY Zenon, <2>1, LastIsCore DEF RestTyped, Ranks
    <2>3. astray' \in BOOLEAN
      BY Zenon, <2>1
    <2>4. UNCHANGED <<calls, used, hand, stray>> /\ pc' \in PCs
      BY Zenon, <1>7 DEF RemoveCore, prodVars, unitVars, PCs
    <2> QED
      BY Zenon, <1>1, <2>2, <2>3, <2>4 DEF RestTyped
  <1>8. CASE Join
    <2>1. /\ UNCHANGED <<calls, hand, stray, astray>> /\ pc' \in PCs /\ joining' = None
          /\ used' = used \ {joining}
      BY Zenon, <1>8 DEF Join, Goto, prodVars, unitVars, PCs
    <2> QED
      BY Zenon, <1>1, <2>1 DEF RestTyped
  <1>9. ASSUME NEW s \in Cores, TakeUnit(s) PROVE RestTyped'
    <2>1. PICK h : hand' = [hand EXCEPT ![s] = {h}]
      BY Zenon, <1>9 DEF TakeUnit
    <2>2. \A c \in Cores : hand'[c] = hand[c] \/ hand'[c] = {h}
      BY Zenon, <2>1 DEF Ranks
    <2>3. UNCHANGED <<calls, joining, used, stray, astray, pc>>
      BY Zenon, <1>9 DEF TakeUnit, prodVars, rebVars, coreVars
    <2> QED
      BY Zenon, <1>1, <2>2, <2>3 DEF RestTyped
  <1>10. ASSUME NEW s \in Cores, GiveUnit(s) PROVE RestTyped'
    <2>1. PICK h \in hand[s] : stray' = stray \cup {h[1]} \/ stray' = stray
      BY Zenon, <1>10 DEF GiveUnit
    <2>2. h[1] \in Loads
      BY DEF Ranks
    <2>3. hand' = [hand EXCEPT ![s] = {}]
      BY Zenon, <1>10 DEF GiveUnit
    <2>4. \A c \in Cores : hand'[c] = hand[c] \/ hand'[c] = {}
      BY Zenon, <2>3 DEF Ranks
    <2>5. UNCHANGED <<calls, joining, used, astray, pc>>
      BY Zenon, <1>10 DEF GiveUnit, prodVars, rebVars, coreVars
    <2>6. stray' \subseteq Loads
      BY Zenon, <2>1, <2>2 DEF RestTyped
    <2> QED
      BY Zenon, <1>1, <2>4, <2>5, <2>6 DEF RestTyped
  <1>11. ASSUME NEW s \in Cores, XstreamEnds(s) PROVE RestTyped'
    <2>1. UNCHANGED <<calls, joining, used, hand, stray, astray, pc>>
      BY Zenon, <1>11 DEF XstreamEnds, prodVars, rebVars, unitVars
    <2> QED
      BY Zenon, <1>2, <2>1 DEF RestTyped
  <1>12. CASE UNCHANGED vars
    BY Zenon, <1>2, <1>12 DEF RestTyped, vars, prodVars, rebVars, unitVars, coreVars
  <1> QED
    BY Zenon, <1>3, <1>4, <1>5, <1>6, <1>7, <1>8, <1>9, <1>10, <1>11, <1>12
       DEF Next, Rebalancer, Scheduler

\* rebalance.c:37-141, reb_req.c:35-110, env.c: for any machine whose /sys can
\* be read, every link, cursor, core and rank is one of those there are.
THEOREM RequestTypes == Spec => []TypeOK
  <1>1. Spec => [](Queue /\ Ranks /\ Orderly /\ RestTyped)
    BY InitQueued, InitOrderly, InitTyped, QueueKept, OrderlyStep, TypedStep, PTL DEF Spec
  <1> QED
    BY <1>1, TypedSuffices, PTL
=============================================================================
