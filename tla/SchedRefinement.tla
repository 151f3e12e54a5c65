-------------------------- MODULE SchedRefinement --------------------------
(***************************************************************************)
(* Sched implements LoadOwnership, for any number of streams, loads and    *)
(* LWTs and any decisions of the rebalancer.                               *)
(***************************************************************************)
EXTENDS SchedProofs

\* The refinement mapping: the streams that have the unit of l, and whether an
\* LWT of l runs.
Own(l) == {s \in Streams : Holds(s, l) \/ Queued(s, l)}
Runs(l) == \E s \in Streams : pc[s] = "lwt" /\ unit[s] = l

Owners == [l \in Loads |-> Own(l)]
RunsOf == [l \in Loads |-> Runs(l)]

\* The scheduler that holds a unit is its only owner, and no LWT of the load
\* runs unless this one runs it.
LEMMA SoleOwner ==
    ASSUME TypeOK, UnitInOnePlace, NEW s \in Streams, NEW l \in Loads, Holds(s, l)
    PROVE  /\ Own(l) = {s} /\ \A t \in Streams : ~Queued(t, l)
           /\ pc[s] # "lwt" => ~Runs(l)
  <1>1. Own(l) = {s} /\ \A t \in Streams : ~Queued(t, l)
    BY Zenon DEF UnitInOnePlace, NoTwoHolders, HeldNotQueued, Own
  <1>2. ASSUME NEW t \in Streams, pc[t] = "lwt", unit[t] = l PROVE t = s
    BY Zenon, <1>2 DEF UnitInOnePlace, NoTwoHolders, Holds, Holding
  <1>3. QED
    BY Zenon, <1>1, <1>2 DEF Runs

\* Steps that LoadOwnership does not see.
LEMMA Stutter ==
    ASSUME \A l \in Loads : Own(l)' = Own(l) /\ (Runs(l)' <=> Runs(l)),
           UNCHANGED <<retired, stray, subpool, ended>>
    PROVE  UNCHANGED Ownership!vars
  <1>1. UNCHANGED Owners
    BY Zenon DEF Owners
  <1>2. UNCHANGED RunsOf
    BY Zenon DEF RunsOf, Runs
  <1>3. QED
    BY Zenon, <1>1, <1>2 DEF Ownership!vars, Owners, RunsOf, Own, Runs

\* No unit changes hands and no LWT starts or ends.
LEMMA SameOwners ==
    ASSUME TypeOK, UNCHANGED <<pool, unit, retired, stray, subpool, ended>>,
           \A t \in Streams : /\ pc'[t] \in Holding <=> pc[t] \in Holding
                              /\ pc'[t] = "lwt" <=> pc[t] = "lwt"
    PROVE  UNCHANGED Ownership!vars
  <1>1. \A l \in Loads : Own(l)' = Own(l)
    BY Zenon DEF Own, Holds, Queued
  <1>2. \A l \in Loads : Runs(l)' <=> Runs(l)
    BY Zenon DEF Runs
  <1>3. QED
    BY Zenon, <1>1, <1>2, Stutter

\* abtst_init_loads gives a new load to the stream it is placed on.
LEMMA InitLoadAttaches ==
    ASSUME TypeOK, UnitInOnePlace, NEW l \in Loads, NEW s \in Streams, InitLoad(l, s)
    PROVE  Ownership!Attach(l, s)
  <1>1. /\ l \notin mapped /\ pool' = [pool EXCEPT ![s] = Append(@, l)]
        /\ UNCHANGED <<pc, unit, retired, stray, subpool, ended>>
    BY Zenon DEF InitLoad, localVars, placeVars
  <1>2. /\ l \notin retired \cup stray
        /\ \A t \in Streams : ~Queued(t, l) /\ ~Holds(t, l)
    BY Zenon, <1>1 DEF TypeOK, PoolTypes, UnitTypes, Holds
  <1>3. \A t \in Streams, m \in Loads : Queued(t, m)' <=> Queued(t, m) \/ (t = s /\ m = l)
    BY Zenon, <1>1, PoolPush DEF TypeOK, PoolTypes
  <1>4. \A t \in Streams, m \in Loads : Holds(t, m)' <=> Holds(t, m)
    BY Zenon, <1>1 DEF Holds
  <1>5. Own(l) = {} /\ \A m \in Loads : Own(m)' = IF m = l THEN {s} ELSE Own(m)
    BY Zenon, <1>2, <1>3, <1>4 DEF Own
  <1>6. Owners[l] = {} /\ Owners' = [Owners EXCEPT ![l] = {s}]
    BY Zenon, <1>5 DEF Owners
  <1>7. UNCHANGED RunsOf
    BY Zenon, <1>1 DEF RunsOf, Runs
  <1>8. QED
    BY Zenon, <1>1, <1>2, <1>6, <1>7 DEF Ownership!Attach, Owners, Own, RunsOf, Runs

\* The push of base.c 148 hands the load over between two LWTs, or loses it.
LEMMA PushHandsOver ==
    ASSUME TypeOK, UnitInOnePlace, NEW s \in Streams, Push(s)
    PROVE  \E l \in Loads : \/ \E t \in Streams : Ownership!HandOver(l, s, t)
                            \/ Ownership!GiveUp(l, s)
  <1>1. PICK l \in Loads : l = unit[s] /\ l \in mapped
    BY Zenon DEF Push, TypeOK, UnitTypes, RankTypes, Holding
  <1>2. /\ pc[s] = "push" /\ Holds(s, l)
        /\ pc' = [pc EXCEPT ![s] = "inner"] /\ unit' = [unit EXCEPT ![s] = NoLoad]
        /\ UNCHANGED <<retired, subpool, ended>>
    BY Zenon, <1>1 DEF Push, Goto, Holds, Holding, loadVars
  <1>3. Own(l) = {s} /\ ~Runs(l) /\ \A t \in Streams : ~Queued(t, l)
    BY Zenon, <1>2, SoleOwner
  <1>4. /\ \A t \in Streams, m \in Loads : Holds(t, m)' <=> Holds(t, m) /\ t # s
        /\ \A m \in Loads : Holds(s, m) => m = l
    BY Zenon, <1>1, <1>2, Released DEF Holds, PCs, Holding
  <1>5. UNCHANGED RunsOf
    BY Zenon, <1>2 DEF RunsOf, Runs, TypeOK, UnitTypes
  <1>6. CASE new_stream[s] \in Streams
    <2>1. PICK t \in Streams : t = new_stream[s]
      BY Zenon, <1>6
    <2>2. pool' = [pool EXCEPT ![t] = Append(@, l)] /\ UNCHANGED stray
      BY Zenon, <1>1, <1>6, <2>1 DEF Push
    <2>3. \A u \in Streams, m \in Loads : Queued(u, m)' <=> Queued(u, m) \/ (u = t /\ m = l)
      BY Zenon, <2>2, PoolPush DEF TypeOK, PoolTypes
    <2>4. \A m \in Loads : Own(m)' = IF m = l THEN {t} ELSE Own(m)
      BY Zenon, <1>3, <1>4, <2>3 DEF Own
    <2>5. Owners[l] = {s} /\ Owners' = [Owners EXCEPT ![l] = {t}] /\ ~RunsOf[l]
      BY Zenon, <1>3, <2>4 DEF Owners, RunsOf
    <2>6. Ownership!HandOver(l, s, t)
      BY Zenon, <1>2, <1>5, <2>2, <2>5 DEF Ownership!HandOver, Owners, Own, RunsOf, Runs
    <2>7. QED
      BY Zenon, <2>6
  <1>7. CASE new_stream[s] \notin Streams
    <2>1. UNCHANGED pool /\ stray' = stray \cup {l}
      BY Zenon, <1>1, <1>7 DEF Push
    <2>2. \A m \in Loads : Own(m)' = IF m = l THEN {} ELSE Own(m)
      <3>1. \A u \in Streams, m \in Loads : Queued(u, m)' <=> Queued(u, m)
        BY Zenon, <2>1 DEF Queued
      <3>2. QED
        BY Zenon, <1>3, <1>4, <3>1 DEF Own
    <2>3. Owners[l] = {s} /\ Owners' = [Owners EXCEPT ![l] = {}] /\ ~RunsOf[l]
      BY Zenon, <1>3, <2>2 DEF Owners, RunsOf
    <2>4. (retired \cup stray)' = (retired \cup stray) \cup {l}
      BY Zenon, <1>2, <2>1
    <2>5. Ownership!GiveUp(l, s)
      BY Zenon, <1>2, <1>5, <2>3, <2>4 DEF Ownership!GiveUp, Owners, Own, RunsOf, Runs
    <2>6. QED
      BY Zenon, <2>5
  <1>8. QED
    BY Zenon, <1>6, <1>7

\* base.c 163: the unit goes back to the pool of the stream that held it, or,
\* once the system stops, nowhere.
LEMMA AfterKeepsOrGivesUp ==
    ASSUME TypeOK, UnitInOnePlace, NEW s \in Streams, After(s)
    PROVE  \/ UNCHANGED Ownership!vars
           \/ \E l \in Loads : Ownership!GiveUp(l, s)
  <1>1. PICK l \in Loads : l = unit[s] /\ l \in mapped
    BY Zenon DEF After, TypeOK, UnitTypes, RankTypes, Holding
  <1>2. PICK label \in PCs \ Holding : pc' = [pc EXCEPT ![s] = label]
    <2>1. (IF run_subpool[s] + 1 >= pool_size[s] THEN "events" ELSE "inner") \in PCs \ Holding
      BY Zenon DEF PCs, Holding
    <2>2. QED
      BY Zenon, <2>1 DEF After, AfterRest, Goto
  <1>3. /\ pc[s] = "after" /\ Holds(s, l) /\ label # "lwt"
        /\ unit' = [unit EXCEPT ![s] = NoLoad]
        /\ UNCHANGED <<stray, subpool, ended>>
    BY Zenon, <1>1, <1>2 DEF After, AfterRest, Holds, Holding, loadVars
  <1>4. Own(l) = {s} /\ ~Runs(l) /\ \A t \in Streams : ~Queued(t, l)
    BY Zenon, <1>3, SoleOwner
  <1>5. /\ \A t \in Streams, m \in Loads : Holds(t, m)' <=> Holds(t, m) /\ t # s
        /\ \A m \in Loads : Holds(s, m) => m = l
    BY Zenon, <1>1, <1>2, <1>3, Released DEF Holds
  <1>6. \A m \in Loads : Runs(m)' <=> Runs(m)
    BY Zenon, <1>2, <1>3 DEF Runs, TypeOK, UnitTypes
  <1>7. CASE ~stopping
    <2>1. pool' = [pool EXCEPT ![s] = Append(@, l)] /\ UNCHANGED retired
      BY Zenon, <1>1, <1>7 DEF After
    <2>2. \A u \in Streams, m \in Loads : Queued(u, m)' <=> Queued(u, m) \/ (u = s /\ m = l)
      BY Zenon, <2>1, PoolPush DEF TypeOK, PoolTypes
    <2>3. \A m \in Loads : Own(m)' = Own(m)
      BY Zenon, <1>4, <1>5, <2>2 DEF Own
    <2>4. QED
      BY Zenon, <1>3, <1>6, <2>1, <2>3, Stutter
  <1>8. CASE stopping
    <2>1. UNCHANGED pool /\ retired' = retired \cup {l}
      BY Zenon, <1>1, <1>8 DEF After
    <2>2. \A u \in Streams, m \in Loads : Queued(u, m)' <=> Queued(u, m)
      BY Zenon, <2>1 DEF Queued
    <2>3. \A m \in Loads : Own(m)' = IF m = l THEN {} ELSE Own(m)
      BY <1>4, <1>5, <2>2 DEF Own
    <2>4. Owners[l] = {s} /\ Owners' = [Owners EXCEPT ![l] = {}] /\ ~RunsOf[l]
      BY Zenon, <1>4, <2>3 DEF Owners, RunsOf
    <2>5. UNCHANGED RunsOf
      BY Zenon, <1>6 DEF RunsOf, Runs
    <2>6. (retired \cup stray)' = (retired \cup stray) \cup {l}
      BY Zenon, <1>3, <2>1
    <2>7. Ownership!GiveUp(l, s)
      BY Zenon, <1>3, <2>4, <2>5, <2>6 DEF Ownership!GiveUp, Owners, Own, RunsOf, Runs
    <2>8. QED
      BY Zenon, <2>7
  <1>9. QED
    BY Zenon, <1>7, <1>8

\* A unit that is popped keeps its owner.
LEMMA PopKeeps ==
    ASSUME TypeOK, UnitInOnePlace, NEW s \in Streams, Pop(s)
    PROVE  UNCHANGED Ownership!vars
  <1>1. CASE pool[s] = << >>
    <2>1. /\ pc[s] = "pop" /\ pc' = [pc EXCEPT ![s] = "events"]
          /\ UNCHANGED <<pool, unit, retired, stray, subpool, ended>>
      BY Zenon, <1>1 DEF Pop, Goto, placeVars, loadVars
    <2>2. \A t \in Streams : /\ pc'[t] \in Holding <=> pc[t] \in Holding
                             /\ pc'[t] = "lwt" <=> pc[t] = "lwt"
      BY Zenon, <2>1 DEF TypeOK, UnitTypes, Holding
    <2>3. QED
      BY Zenon, <2>1, <2>2, SameOwners
  <1>2. CASE pool[s] # << >>
    <2>1. PICK h : h = Head(pool[s])
      BY Zenon
    <2>2. /\ pc[s] = "pop" /\ pc' = [pc EXCEPT ![s] = "check"]
          /\ unit' = [unit EXCEPT ![s] = h]
          /\ pool' = [pool EXCEPT ![s] = Tail(@)]
          /\ UNCHANGED <<retired, stray, subpool, ended>>
      BY Zenon, <1>2, <2>1 DEF Pop, Goto, placeVars, loadVars
    <2>3. /\ h \in Loads /\ Queued(s, h)
          /\ \A t \in Streams, m \in Loads : Queued(t, m)' => Queued(t, m)
          /\ \A t \in Streams, m \in Loads : Queued(t, m) /\ m # h => Queued(t, m)'
          /\ \A t \in Streams : ~Queued(t, h)'
      BY Zenon, <1>2, <2>1, <2>2, PoolPop DEF TypeOK, PoolTypes, UnitInOnePlace
    <2>4. \A t \in Streams, m \in Loads : Holds(t, m)' <=> Holds(t, m) \/ (t = s /\ m = h)
      BY Zenon, <2>2 DEF TypeOK, UnitTypes, Holds, Holding
    <2>5. \A t \in Streams : Queued(t, h) => t = s
      BY <2>3 DEF UnitInOnePlace, QueuedOnce, Queued
    <2>6. \A m \in Loads : Own(m)' = Own(m)
      BY Zenon, <2>3, <2>4, <2>5 DEF Own
    <2>7. \A m \in Loads : Runs(m)' <=> Runs(m)
      BY Zenon, <2>2 DEF Runs, TypeOK, UnitTypes
    <2>8. QED
      BY Zenon, <2>2, <2>6, <2>7, Stutter
  <1>3. QED
    BY Zenon, <1>1, <1>2

\* sub.c 141-149: the owner starts an LWT of the load, if there is one.
LEMMA SubPopStarts ==
    ASSUME TypeOK, UnitInOnePlace, NEW s \in Streams, SubPop(s)
    PROVE  \/ UNCHANGED Ownership!vars
           \/ \E l \in Loads : Ownership!Start(l, s)
  <1>1. PICK l \in Loads : l = unit[s]
    BY Zenon DEF SubPop, TypeOK, UnitTypes, RankTypes, Holding
  <1>2. /\ pc[s] = "sub" /\ Holds(s, l)
        /\ UNCHANGED <<pool, unit, retired, stray, ended>>
    BY Zenon, <1>1 DEF SubPop, Holds, Holding, placeVars
  <1>3. Own(l) = {s} /\ ~Runs(l)
    BY Zenon, <1>2, SoleOwner
  <1>4. CASE subpool[l] > 0
    <2>1. /\ pc' = [pc EXCEPT ![s] = "lwt"]
          /\ subpool' = [subpool EXCEPT ![l] = @ - 1]
      BY Zenon, <1>1, <1>4 DEF SubPop, Goto
    <2>2. \A t \in Streams : pc'[t] \in Holding <=> pc[t] \in Holding
      BY Zenon, <1>2, <2>1 DEF TypeOK, UnitTypes, Holding
    <2>3. \A m \in Loads : Own(m)' = Own(m)
      BY Zenon, <1>2, <2>2 DEF Own, Holds, Queued
    <2>4. \A m \in Loads : Runs(m)' <=> Runs(m) \/ m = l
      BY Zenon, <1>1, <1>2, <2>1 DEF Runs, TypeOK, UnitTypes
    <2>5. Owners[l] = {s} /\ UNCHANGED Owners /\ ~RunsOf[l]
      BY Zenon, <1>3, <2>3 DEF Owners, RunsOf
    <2>6. RunsOf' = [RunsOf EXCEPT ![l] = TRUE]
      BY Zenon, <2>4 DEF RunsOf, Runs
    <2>7. Ownership!Start(l, s)
      BY Zenon, <1>2, <1>4, <2>1, <2>5, <2>6 DEF Ownership!Start, Owners, Own, RunsOf, Runs
    <2>8. QED
      BY Zenon, <2>7
  <1>5. CASE ~(subpool[l] > 0)
    <2>1. \A t \in Streams : /\ pc'[t] \in Holding <=> pc[t] \in Holding
                             /\ pc'[t] = "lwt" <=> pc[t] = "lwt"
      BY Zenon, <1>1, <1>2, <1>5 DEF SubPop, Goto, TypeOK, UnitTypes, Holding
    <2>2. UNCHANGED subpool
      BY Zenon, <1>1, <1>5 DEF SubPop
    <2>3. QED
      BY Zenon, <1>2, <2>1, <2>2, SameOwners
  <1>6. QED
    BY Zenon, <1>4, <1>5

\* sub.c 149: the LWT ends on the stream that started it.
LEMMA LwtEndFinishes ==
    ASSUME TypeOK, UnitInOnePlace, NEW s \in Streams, LwtEnd(s)
    PROVE  \E l \in Loads : Ownership!Finish(l)
  <1>1. PICK l \in Loads : l = unit[s]
    BY Zenon DEF LwtEnd, TypeOK, UnitTypes, RankTypes, Holding
  <1>2. /\ pc[s] = "lwt" /\ Holds(s, l)
        /\ ended' = [ended EXCEPT ![l] = @ + 1]
        /\ UNCHANGED <<pool, unit, retired, stray, subpool>>
    BY Zenon, <1>1 DEF LwtEnd, Holds, Holding, placeVars
  <1>3. \A t \in Streams : /\ pc'[t] \in Holding <=> pc[t] \in Holding
                           /\ pc'[t] = "lwt" <=> pc[t] = "lwt" /\ t # s
    BY Zenon, <1>2 DEF LwtEnd, Goto, TypeOK, UnitTypes, Holding
  <1>4. \A m \in Loads : Own(m)' = Own(m)
    BY Zenon, <1>2, <1>3 DEF Own, Holds, Queued
  <1>5. \A t \in Streams : pc[t] = "lwt" /\ unit[t] = l => t = s
    BY Zenon, <1>2 DEF UnitInOnePlace, NoTwoHolders, Holds, Holding
  <1>6. Runs(l) /\ \A m \in Loads : Runs(m)' <=> Runs(m) /\ m # l
    BY Zenon, <1>1, <1>2, <1>3, <1>5 DEF Runs
  <1>7. UNCHANGED Owners /\ RunsOf[l]
    BY Zenon, <1>4, <1>6 DEF Owners, RunsOf
  <1>8. RunsOf' = [RunsOf EXCEPT ![l] = FALSE]
    BY Zenon, <1>6 DEF RunsOf, Runs
  <1>9. Ownership!Finish(l)
    BY Zenon, <1>2, <1>7, <1>8 DEF Ownership!Finish, Owners, Own, RunsOf, Runs
  <1>10. QED
    BY Zenon, <1>9

\* main.c 123: the application submits an LWT.
LEMMA CreateSubmits ==
    ASSUME NEW l \in Loads, CreateLwt(l)
    PROVE  Ownership!Submit(l)
  <1>1. /\ subpool' = [subpool EXCEPT ![l] = @ + 1]
        /\ UNCHANGED <<pool, pc, unit, retired, stray, ended>>
    BY Zenon DEF CreateLwt, localVars, placeVars
  <1>2. UNCHANGED <<Owners, RunsOf>>
    BY Zenon, <1>1 DEF Owners, RunsOf, Own, Runs, Holds, Queued
  <1>3. QED
    BY Zenon, <1>1, <1>2 DEF Ownership!Submit, Owners, Own, RunsOf, Runs

\* Every step of Sched is a step of LoadOwnership or none.
LEMMA OwnershipStep ==
    TypeOK /\ UnitInOnePlace /\ [Next]_vars => [Ownership!Next]_Ownership!vars
  <1> SUFFICES ASSUME TypeOK, UnitInOnePlace, [Next]_vars
               PROVE  Ownership!Next \/ UNCHANGED Ownership!vars
    BY Zenon
  <1>1. ASSUME NEW l \in Loads, NEW s \in Streams, InitLoad(l, s) PROVE Ownership!Next
    BY Zenon, <1>1, InitLoadAttaches DEF Ownership!Next
  <1>2. ASSUME NEW l \in Loads, CreateLwt(l) PROVE Ownership!Next
    BY Zenon, <1>2, CreateSubmits DEF Ownership!Next
  <1>3. ASSUME NEW s \in Streams, Push(s) PROVE Ownership!Next
    BY Zenon, <1>3, PushHandsOver DEF Ownership!Next
  <1>4. ASSUME NEW s \in Streams, After(s) \/ SubPop(s) \/ LwtEnd(s) \/ Pop(s)
        PROVE  Ownership!Next \/ UNCHANGED Ownership!vars
    BY Zenon, <1>4, AfterKeepsOrGivesUp, SubPopStarts, LwtEndFinishes, PopKeeps
       DEF Ownership!Next
  <1>5. ASSUME NEW s \in Streams,
               Inner(s) \/ Check(s) \/ Target(s) \/ Update(s) \/ Size(s) \/ Events(s)
        PROVE  UNCHANGED Ownership!vars
    <2>1. UNCHANGED <<pool, unit, retired, stray, subpool, ended>>
      BY ZenonT(30), <1>5 DEF Inner, Check, Target, Update, Size, Events, localVars,
         placeVars, loadVars
    <2>2. \A t \in Streams : /\ pc'[t] \in Holding <=> pc[t] \in Holding
                             /\ pc'[t] = "lwt" <=> pc[t] = "lwt"
      BY Zenon, <1>5 DEF Inner, Check, Target, Update, Size, Events, Goto, TypeOK, UnitTypes,
         Holding
    <2>3. QED
      BY Zenon, <2>1, <2>2, SameOwners
  <1>6. ASSUME UNCHANGED <<pool, pc, unit, retired, stray, subpool, ended>>
        PROVE  UNCHANGED Ownership!vars
    BY Zenon, <1>6, SameOwners
  <1>7. ASSUME NEW l \in Loads, NEW s \in Streams, SetMigrating(l, s)
        PROVE  UNCHANGED Ownership!vars
    BY Zenon, <1>6, <1>7 DEF SetMigrating, localVars, placeVars
  <1>8. ASSUME NEW s, SetBlocking(s) \/ JoinStream(s)
        PROVE  UNCHANGED Ownership!vars
    BY Zenon, <1>6, <1>8 DEF SetBlocking, JoinStream, loadVars, localVars, placeVars
  <1>9. CASE SetStopping \/ RebEnd \/ JoinRebalancer \/ Finalized
    BY Zenon, <1>6, <1>9 DEF SetStopping, RebEnd, JoinRebalancer, Finalized,
       loadVars, localVars, placeVars
  <1>10. CASE UNCHANGED vars
    BY Zenon, <1>6, <1>10 DEF vars, loadVars, localVars, placeVars
  <1>11. QED
    BY Zenon, <1>1, <1>2, <1>3, <1>4, <1>5, <1>7, <1>8, <1>9, <1>10
       DEF Next, MainFinalize, SchedStep

\* The base and sub schedulers keep the promise of LoadOwnership, whatever the
\* rebalancer decides and whenever it does: a load has one owner, its LWTs run
\* one at a time on the owner, and it changes hands between two of them.
THEOREM SchedulersKeepOwnership == Spec => OwnershipSpec
  <1>1. Init => Ownership!Init
    BY DEF Init, Ownership!Init, Holds, Queued, Holding
  <1>2. QED
    BY <1>1, OwnershipStep, Typing, UnitsConserved, PTL
       DEF Spec, OwnershipSpec, Ownership!Spec
=============================================================================
