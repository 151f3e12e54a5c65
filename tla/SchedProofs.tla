---------------------------- MODULE SchedProofs ----------------------------
(***************************************************************************)
(* Proofs about Sched, for any number of streams, loads and LWTs.          *)
(***************************************************************************)
EXTENDS Sched, TLAPS

\* ABT_pool_push keeps what waits in a FIFO pool and adds one unit at the end.
LEMMA AppendFacts ==
    ASSUME NEW S, NEW q \in Seq(S), NEW e \in S
    PROVE  /\ Append(q, e) \in Seq(S)
           /\ Len(Append(q, e)) = Len(q) + 1
           /\ \A i \in 1..Len(q) : Append(q, e)[i] = q[i]
           /\ Append(q, e)[Len(q) + 1] = e
  OBVIOUS

\* ABT_pool_pop takes the first unit and keeps the order of the others.
LEMMA TailFacts ==
    ASSUME NEW S, NEW q \in Seq(S), q # << >>
    PROVE  /\ Tail(q) \in Seq(S) /\ Head(q) \in S
           /\ Len(q) \in Nat \ {0}
           /\ Len(Tail(q)) = Len(q) - 1
           /\ \A i \in 1..Len(Tail(q)) : Tail(q)[i] = q[i + 1] /\ i + 1 \in 1..Len(q)
           /\ Head(q) = q[1] /\ 1 \in 1..Len(q)
  OBVIOUS

\* A unit pushed to the pool of s waits there and nowhere else in addition.
LEMMA PoolPush ==
    ASSUME pool \in [Streams -> Seq(Loads)],
           NEW s \in Streams, NEW l \in Loads,
           pool' = [pool EXCEPT ![s] = Append(@, l)]
    PROVE  /\ pool' \in [Streams -> Seq(Loads)]
           /\ \A t \in Streams, m \in Loads :
                 Queued(t, m)' <=> Queued(t, m) \/ (t = s /\ m = l)
           /\ QueuedOnce /\ (\A t \in Streams : ~Queued(t, l)) => QueuedOnce'
  <1>1. /\ pool' \in [Streams -> Seq(Loads)]
        /\ \A t \in Streams \ {s} : pool'[t] = pool[t]
        /\ pool[s] \in Seq(Loads) /\ Len(pool[s]) \in Nat
        /\ pool'[s] = Append(pool[s], l)
    BY AppendFacts
  <1>2. /\ Len(pool'[s]) = Len(pool[s]) + 1
        /\ \A i \in 1..Len(pool[s]) : pool'[s][i] = pool[s][i]
        /\ pool'[s][Len(pool[s]) + 1] = l
    BY <1>1, AppendFacts
  <1>3. ASSUME NEW t \in Streams, NEW m \in Loads
        PROVE  Queued(t, m)' <=> Queued(t, m) \/ (t = s /\ m = l)
    <2>1. CASE t # s
      BY Zenon, <1>1, <2>1 DEF Queued
    <2>2. CASE t = s
      <3>1. 1..Len(pool'[s]) = 1..Len(pool[s]) \cup {Len(pool[s]) + 1}
        BY <1>1, <1>2
      <3>2. QED
        BY Zenon, <1>1, <1>2, <2>2, <3>1 DEF Queued
    <2>3. QED
      BY Zenon, <2>1, <2>2
  <1>4. ASSUME QueuedOnce, \A t \in Streams : ~Queued(t, l) PROVE QueuedOnce'
    <2> SUFFICES ASSUME NEW t \in Streams, NEW u \in Streams,
                        NEW i \in 1..Len(pool'[t]), NEW j \in 1..Len(pool'[u]),
                        pool'[t][i] = pool'[u][j]
                 PROVE  t = u /\ i = j
      BY Zenon DEF QueuedOnce
    <2>1. /\ t # s => pool'[t] = pool[t] /\ i \in 1..Len(pool[t])
          /\ u # s => pool'[u] = pool[u] /\ j \in 1..Len(pool[u])
      BY Zenon, <1>1
    <2>2. /\ t = s => i \in 1..Len(pool[s]) \/ i = Len(pool[s]) + 1
          /\ u = s => j \in 1..Len(pool[s]) \/ j = Len(pool[s]) + 1
      BY <1>1, <1>2
    <2>3. CASE t = s /\ i = Len(pool[s]) + 1
      BY Zenon, <1>2, <1>4, <2>1, <2>2, <2>3 DEF Queued
    <2>4. CASE u = s /\ j = Len(pool[s]) + 1
      BY Zenon, <1>2, <1>4, <2>1, <2>2, <2>4 DEF Queued
    <2>5. CASE ~(t = s /\ i = Len(pool[s]) + 1) /\ ~(u = s /\ j = Len(pool[s]) + 1)
      <3>1. /\ i \in 1..Len(pool[t]) /\ pool'[t][i] = pool[t][i]
            /\ j \in 1..Len(pool[u]) /\ pool'[u][j] = pool[u][j]
        BY Zenon, <1>2, <2>1, <2>2, <2>5
      <3>2. QED
        BY <1>4, <3>1 DEF QueuedOnce
    <2>6. QED
      BY Zenon, <2>3, <2>4, <2>5
  <1>5. QED
    BY Zenon, <1>1, <1>3, <1>4

\* The unit popped from the pool of s was queued there, and then it waits in
\* no pool if no unit was queued twice.
LEMMA PoolPop ==
    ASSUME pool \in [Streams -> Seq(Loads)],
           NEW s \in Streams, pool[s] # << >>, NEW l, l = Head(pool[s]),
           pool' = [pool EXCEPT ![s] = Tail(@)]
    PROVE  /\ pool' \in [Streams -> Seq(Loads)]
           /\ l \in Loads /\ Queued(s, l)
           /\ \A t \in Streams, m \in Loads : Queued(t, m)' => Queued(t, m)
           /\ \A t \in Streams, m \in Loads :
                 Queued(t, m) /\ m # l => Queued(t, m)'
           /\ QueuedOnce => QueuedOnce'
           /\ QueuedOnce => \A t \in Streams : ~Queued(t, l)'
  <1>1. /\ pool' \in [Streams -> Seq(Loads)]
        /\ \A t \in Streams \ {s} : pool'[t] = pool[t]
        /\ pool'[s] = Tail(pool[s]) /\ pool[s] \in Seq(Loads)
    BY Zenon, TailFacts
  <1>2. /\ l \in Loads /\ Len(pool[s]) \in Nat \ {0}
        /\ Len(pool'[s]) = Len(pool[s]) - 1
        /\ \A i \in 1..Len(pool'[s]) : pool'[s][i] = pool[s][i + 1]
                                       /\ i + 1 \in 1..Len(pool[s])
        /\ l = pool[s][1] /\ 1 \in 1..Len(pool[s])
    BY <1>1, TailFacts
  <1>3. Queued(s, l)
    BY Zenon, <1>2 DEF Queued
  <1>4. ASSUME NEW t \in Streams, NEW m \in Loads, Queued(t, m)'
        PROVE  Queued(t, m)
    <2>1. PICK i \in 1..Len(pool'[t]) : pool'[t][i] = m
      BY Zenon, <1>4 DEF Queued
    <2>2. QED
      BY <1>1, <1>2, <2>1 DEF Queued
  <1>5. ASSUME NEW t \in Streams, NEW m \in Loads, Queued(t, m), m # l
        PROVE  Queued(t, m)'
    <2>1. PICK i \in 1..Len(pool[t]) : pool[t][i] = m
      BY Zenon, <1>5 DEF Queued
    <2>2. CASE t # s
      BY Zenon, <1>1, <2>1, <2>2 DEF Queued
    <2>3. CASE t = s
      <3>1. i # 1 /\ i \in Nat
        BY <1>2, <1>5, <2>1, <2>3
      <3>2. i - 1 \in 1..Len(pool'[s]) /\ (i - 1) + 1 = i
        BY <1>2, <2>1, <2>3, <3>1
      <3>3. pool'[s][i - 1] = m
        BY Zenon, <1>2, <2>1, <2>3, <3>2
      <3>4. QED
        BY Zenon, <2>3, <3>2, <3>3 DEF Queued
    <2>4. QED
      BY Zenon, <2>2, <2>3
  <1>6. ASSUME QueuedOnce PROVE QueuedOnce'
    <2> SUFFICES ASSUME NEW t \in Streams, NEW u \in Streams,
                        NEW i \in 1..Len(pool'[t]), NEW j \in 1..Len(pool'[u]),
                        pool'[t][i] = pool'[u][j]
                 PROVE  t = u /\ i = j
      BY Zenon DEF QueuedOnce
    <2>1. CASE t = s /\ u = s
      <3>1. i + 1 = j + 1
        BY <1>2, <1>6, <2>1 DEF QueuedOnce
      <3>2. QED
        BY <2>1, <3>1
    <2>2. CASE t = s /\ u # s
      BY <1>1, <1>2, <1>6, <2>2 DEF QueuedOnce
    <2>3. CASE t # s /\ u = s
      BY <1>1, <1>2, <1>6, <2>3 DEF QueuedOnce
    <2>4. CASE t # s /\ u # s
      BY <1>1, <1>6, <2>4 DEF QueuedOnce
    <2>5. QED
      BY Zenon, <2>1, <2>2, <2>3, <2>4
  <1>7. ASSUME QueuedOnce, NEW t \in Streams PROVE ~Queued(t, l)'
    <2> SUFFICES ASSUME NEW i \in 1..Len(pool'[t]), pool'[t][i] = l
                 PROVE  FALSE
      BY Zenon DEF Queued
    <2>1. CASE t = s
      <3>1. i + 1 = 1
        BY <1>2, <1>7, <2>1 DEF QueuedOnce
      <3>2. QED
        BY <2>1, <3>1
    <2>2. CASE t # s
      BY <1>1, <1>2, <1>7, <2>2 DEF QueuedOnce
    <2>3. QED
      BY Zenon, <2>1, <2>2
  <1>8. QED
    BY Zenon, <1>1, <1>2, <1>3, <1>4, <1>5, <1>6, <1>7

-----------------------------------------------------------------------------
(* Types.                                                                  *)

USE StreamsAssumption, LimitsAssumption, NoLoadAssumption, BlockableAssumption

\* A group of variables that a step leaves alone keeps its types.
LEMMA TypesUnchanged ==
    /\ LoadTypes /\ UNCHANGED loadVars => LoadTypes'
    /\ RankTypes /\ UNCHANGED <<curr_rank, dest_rank, mapped>> => RankTypes'
    /\ PoolTypes /\ UNCHANGED <<pool, mapped, placeVars>> => PoolTypes'
    /\ UnitTypes /\ UNCHANGED <<pc, unit, mapped>> => UnitTypes'
    /\ LocalTypes /\ UNCHANGED localVars => LocalTypes'
    /\ CtlTypes /\ UNCHANGED ctlVars => CtlTypes'
  BY Zenon DEF LoadTypes, RankTypes, PoolTypes, UnitTypes, LocalTypes, CtlTypes, Queued,
         loadVars, localVars, placeVars, ctlVars

\* Every step of every thread keeps the variables in their types.
LEMMA TypeStep == TypeOK /\ [Next]_vars => TypeOK'
  <1> SUFFICES ASSUME TypeOK, [Next]_vars PROVE TypeOK'
    BY Zenon
  <1>types. LoadTypes /\ RankTypes /\ PoolTypes /\ UnitTypes /\ LocalTypes /\ CtlTypes
    BY Zenon DEF TypeOK
  <1>1. ASSUME NEW l \in Loads, NEW s \in Streams, InitLoad(l, s) PROVE TypeOK'
    <2>1. LoadTypes'
      BY Zenon, <1>1, <1>types DEF LoadTypes, RankTypes, UnitTypes, CtlTypes, InitLoad,
         loadVars, localVars, placeVars, ctlVars
    <2>2. RankTypes'
      BY <1>1, <1>types DEF LoadTypes, RankTypes, UnitTypes, InitLoad, loadVars,
         localVars, placeVars, ctlVars
    <2>3. PoolTypes'
      <3>1. /\ pool' = [pool EXCEPT ![s] = Append(@, l)]
            /\ mapped' = mapped \cup {l} /\ UNCHANGED <<retired, stray>>
        BY Zenon, <1>1 DEF InitLoad, placeVars
      <3>2. /\ pool' \in [Streams -> Seq(Loads)]
            /\ \A t \in Streams, m \in Loads : Queued(t, m)' => Queued(t, m) \/ m = l
        BY Zenon, <1>types, <3>1, PoolPush DEF PoolTypes
      <3>3. QED
        BY Zenon, <1>types, <3>1, <3>2 DEF PoolTypes
    <2>4. UnitTypes'
      BY Zenon, <1>1, <1>types DEF UnitTypes, PoolTypes, RankTypes, InitLoad, PCs, Holding,
         loadVars, localVars, placeVars, ctlVars
    <2>5. CtlTypes'
      BY Zenon, <1>1, <1>types DEF CtlTypes, RankTypes, InitLoad, loadVars, localVars,
         placeVars, ctlVars
    <2>6. QED
      BY Zenon, <2>1, <2>2, <2>3, <2>4, <2>5, <1>1, <1>types, TypesUnchanged DEF TypeOK,
         InitLoad, loadVars, localVars, placeVars, ctlVars
  <1>2. ASSUME NEW l \in Loads, NEW s \in Streams, SetMigrating(l, s) PROVE TypeOK'
    <2>1. LoadTypes'
      BY Zenon, <1>2, <1>types DEF LoadTypes, RankTypes, UnitTypes, CtlTypes, SetMigrating,
         loadVars, localVars, placeVars, ctlVars
    <2>2. RankTypes'
      BY Zenon, <1>2, <1>types DEF LoadTypes, RankTypes, UnitTypes, SetMigrating, loadVars,
         localVars, placeVars, ctlVars
    <2>3. CtlTypes'
      BY <1>2, <1>types DEF CtlTypes, RankTypes, SetMigrating, loadVars, localVars,
         placeVars, ctlVars
    <2>4. QED
      BY Zenon, <2>1, <2>2, <2>3, <1>2, <1>types, TypesUnchanged DEF TypeOK, SetMigrating,
         loadVars, localVars, placeVars, ctlVars
  <1>3. ASSUME NEW l \in Loads, CreateLwt(l) PROVE TypeOK'
    <2>1. LoadTypes'
      BY <1>3, <1>types DEF LoadTypes, RankTypes, UnitTypes, CtlTypes, CreateLwt,
         loadVars, localVars, placeVars, ctlVars
    <2>2. CtlTypes'
      BY Zenon, <1>3, <1>types DEF CtlTypes, RankTypes, CreateLwt, loadVars, localVars,
         placeVars, ctlVars
    <2>3. QED
      BY Zenon, <2>1, <2>2, <1>3, <1>types, TypesUnchanged DEF TypeOK, CreateLwt, loadVars,
         localVars, placeVars, ctlVars
  <1>4. ASSUME NEW s \in Blockable, SetBlocking(s) PROVE TypeOK'
    <2>1. CtlTypes'
      BY Zenon, <1>4, <1>types DEF CtlTypes, RankTypes, SetBlocking, loadVars, localVars,
         placeVars, ctlVars
    <2>2. QED
      BY Zenon, <2>1, <1>4, <1>types, TypesUnchanged DEF TypeOK, SetBlocking, loadVars,
         localVars, placeVars, ctlVars
  <1>5. ASSUME SetStopping PROVE TypeOK'
    <2>1. CtlTypes'
      BY Zenon, <1>5, <1>types DEF CtlTypes, RankTypes, SetStopping, loadVars, localVars,
         placeVars, ctlVars
    <2>2. QED
      BY Zenon, <2>1, <1>5, <1>types, TypesUnchanged DEF TypeOK, SetStopping, loadVars,
         localVars, placeVars, ctlVars
  <1>6. ASSUME JoinRebalancer PROVE TypeOK'
    <2>1. CtlTypes'
      BY Zenon, <1>6, <1>types DEF CtlTypes, RankTypes, JoinRebalancer, loadVars, localVars,
         placeVars, ctlVars
    <2>2. QED
      BY Zenon, <2>1, <1>6, <1>types, TypesUnchanged DEF TypeOK, JoinRebalancer, loadVars,
         localVars, placeVars, ctlVars
  <1>7. ASSUME NEW s \in Streams, JoinStream(s) PROVE TypeOK'
    <2>1. CtlTypes'
      BY Zenon, <1>7, <1>types DEF CtlTypes, RankTypes, JoinStream, loadVars, localVars,
         placeVars, ctlVars
    <2>2. QED
      BY Zenon, <2>1, <1>7, <1>types, TypesUnchanged DEF TypeOK, JoinStream, loadVars,
         localVars, placeVars, ctlVars
  <1>8. ASSUME Finalized PROVE TypeOK'
    <2>1. CtlTypes'
      BY Zenon, <1>8, <1>types DEF CtlTypes, RankTypes, Finalized, loadVars, localVars,
         placeVars, ctlVars
    <2>2. QED
      BY Zenon, <2>1, <1>8, <1>types, TypesUnchanged DEF TypeOK, Finalized, loadVars,
         localVars, placeVars, ctlVars
  <1>9. ASSUME RebEnd PROVE TypeOK'
    <2>1. CtlTypes'
      BY Zenon, <1>9, <1>types DEF CtlTypes, RankTypes, RebEnd, loadVars, localVars,
         placeVars, ctlVars
    <2>2. QED
      BY Zenon, <2>1, <1>9, <1>types, TypesUnchanged DEF TypeOK, RebEnd, loadVars, localVars,
         placeVars, ctlVars
  <1>10. ASSUME NEW s \in Streams, Inner(s) PROVE TypeOK'
    <2>1. /\ pc[s] = "inner" /\ UNCHANGED <<unit, mapped>>
          /\ pc' = [pc EXCEPT ![s] = "events"] \/ pc' = [pc EXCEPT ![s] = "pop"]
      BY <1>10 DEF Inner, Goto, ctlVars
    <2>2. UnitTypes'
      BY <1>types, <2>1 DEF UnitTypes, PCs, Holding
    <2>3. /\ pool_size' = pool_size \/ pool_size' = [pool_size EXCEPT ![s] = Len(pool[s])]
          /\ UNCHANGED <<run_subpool, work_count, batch, new_stream, stop, ran>>
      BY Zenon, <1>10 DEF Inner
    <2>4. Len(pool[s]) \in Nat
      BY <1>types DEF PoolTypes
    <2>5. LocalTypes'
      BY Zenon, <1>types, <2>3, <2>4 DEF LocalTypes
    <2>6. QED
      BY Zenon, <2>2, <2>5, <1>10, <1>types, TypesUnchanged DEF TypeOK, Inner, loadVars,
         placeVars, ctlVars
  <1>11. ASSUME NEW s \in Streams, Pop(s) PROVE TypeOK'
    <2>1. PoolTypes' /\ UnitTypes'
      <3>1. CASE pool[s] = << >>
        BY Zenon, <1>11, <1>types, <3>1 DEF Pop, Goto, PoolTypes, UnitTypes, PCs, Holding,
           Queued, placeVars, ctlVars
      <3>2. CASE pool[s] # << >>
        <4>1. /\ unit' = [unit EXCEPT ![s] = Head(pool[s])]
              /\ pool' = [pool EXCEPT ![s] = Tail(@)]
              /\ pc' = [pc EXCEPT ![s] = "check"]
              /\ UNCHANGED <<mapped, retired, stray>>
          BY Zenon, <1>11, <3>2 DEF Pop, Goto, placeVars, ctlVars
        <4>2. /\ pool' \in [Streams -> Seq(Loads)] /\ Head(pool[s]) \in mapped
              /\ \A t \in Streams, m \in Loads : Queued(t, m)' => Queued(t, m)
          BY Zenon, <1>types, <3>2, <4>1, PoolPop DEF PoolTypes
        <4>3. QED
          BY Zenon, <1>types, <4>1, <4>2 DEF PoolTypes, UnitTypes, RankTypes, PCs, Holding
      <3>3. QED
        BY Zenon, <3>1, <3>2
    <2>2. LocalTypes'
      <3>1. /\ pool_size' = pool_size \/ pool_size' = [pool_size EXCEPT ![s] = 0]
            /\ UNCHANGED <<run_subpool, work_count, batch, new_stream, stop, ran>>
        BY Zenon, <1>11 DEF Pop
      <3>2. pool_size' \in [Streams -> Nat]
        BY <1>types, <3>1 DEF LocalTypes
      <3>3. QED
        BY Zenon, <1>types, <3>1, <3>2 DEF LocalTypes
    <2>3. QED
      BY Zenon, <2>1, <2>2, <1>11, <1>types, TypesUnchanged DEF TypeOK, Pop, loadVars,
         localVars, placeVars, ctlVars
  <1>12. ASSUME NEW s \in Streams, Check(s) PROVE TypeOK'
    <2>1. UnitTypes'
      BY Zenon, <1>12, <1>types DEF UnitTypes, PoolTypes, RankTypes, Check, Goto, PCs,
         Holding, loadVars, localVars, placeVars, ctlVars
    <2>2. QED
      BY Zenon, <2>1, <1>12, <1>types, TypesUnchanged DEF TypeOK, Check, loadVars, localVars,
         placeVars, ctlVars
  <1>13. ASSUME NEW s \in Streams, Target(s) PROVE TypeOK'
    <2>1. UnitTypes'
      BY Zenon, <1>13, <1>types DEF UnitTypes, PoolTypes, RankTypes, Target, Goto, PCs,
         Holding, loadVars, localVars, placeVars, ctlVars
    <2>2. LocalTypes'
      BY <1>13, <1>types DEF LocalTypes, LoadTypes, UnitTypes, RankTypes, Target, Goto,
         PCs, Holding, loadVars, localVars, placeVars, ctlVars
    <2>3. QED
      BY Zenon, <2>1, <2>2, <1>13, <1>types, TypesUnchanged DEF TypeOK, Target, loadVars,
         localVars, placeVars, ctlVars
  <1>14. ASSUME NEW s \in Streams, Update(s) PROVE TypeOK'
    <2>1. LoadTypes'
      BY Zenon, <1>14, <1>types DEF LoadTypes, RankTypes, UnitTypes, CtlTypes, Update, Goto,
         PCs, Holding, loadVars, localVars, placeVars, ctlVars
    <2>2. RankTypes'
      BY Zenon, <1>14, <1>types DEF LoadTypes, RankTypes, UnitTypes, Update, Goto, PCs,
         Holding, loadVars, localVars, placeVars, ctlVars
    <2>3. UnitTypes'
      BY Zenon, <1>14, <1>types DEF UnitTypes, PoolTypes, RankTypes, Update, Goto, PCs,
         Holding, loadVars, localVars, placeVars, ctlVars
    <2>4. QED
      BY Zenon, <2>1, <2>2, <2>3, <1>14, <1>types, TypesUnchanged DEF TypeOK, Update,
         loadVars, localVars, placeVars, ctlVars
  <1>15. ASSUME NEW s \in Streams, Push(s) PROVE TypeOK'
    <2>1. PoolTypes'
      <3>1. unit[s] \in mapped /\ unit[s] \in Loads /\ UNCHANGED <<mapped, retired>>
        BY Zenon, <1>15, <1>types DEF UnitTypes, RankTypes, Push, Holding, ctlVars
      <3>2. CASE new_stream[s] \in Streams
        <4>1. /\ pool' = [pool EXCEPT ![new_stream[s]] = Append(@, unit[s])]
              /\ UNCHANGED <<retired, stray>>
          BY Zenon, <1>15, <3>1, <3>2 DEF Push
        <4>2. /\ pool' \in [Streams -> Seq(Loads)]
              /\ \A t \in Streams, m \in Loads :
                    Queued(t, m)' <=> Queued(t, m) \/ (t = new_stream[s] /\ m = unit[s])
          BY Zenon, <1>types, <3>1, <3>2, <4>1, PoolPush DEF PoolTypes
        <4>3. QED
          BY Zenon, <1>types, <3>1, <4>1, <4>2 DEF PoolTypes
      <3>3. CASE new_stream[s] \notin Streams
        BY Zenon, <1>15, <1>types, <3>1, <3>3 DEF PoolTypes, Push, Queued
      <3>4. QED
        BY Zenon, <3>2, <3>3
    <2>2. UnitTypes'
      BY Zenon, <1>15, <1>types DEF UnitTypes, PoolTypes, RankTypes, Push, Goto, PCs, Holding,
         loadVars, localVars, placeVars, ctlVars
    <2>3. LocalTypes'
      <3>1. /\ pool_size' = [pool_size EXCEPT ![s] = 0]
            /\ new_stream' = [new_stream EXCEPT ![s] = 0]
            /\ UNCHANGED <<run_subpool, work_count, batch, stop, ran>>
        BY Zenon, <1>15 DEF Push
      <3>2. pool_size' \in [Streams -> Nat] /\ new_stream' \in [Streams -> Int]
        BY <1>types, <3>1 DEF LocalTypes
      <3>3. QED
        BY Zenon, <1>types, <3>1, <3>2 DEF LocalTypes
    <2>4. QED
      BY Zenon, <2>1, <2>2, <2>3, <1>15, <1>types, TypesUnchanged DEF TypeOK, Push, loadVars,
         localVars, placeVars, ctlVars
  <1>16. ASSUME NEW s \in Streams, Size(s) PROVE TypeOK'
    <2>1. LoadTypes'
      BY Zenon, <1>16, <1>types DEF LoadTypes, RankTypes, UnitTypes, CtlTypes, Size,
         Goto, PCs, Holding, loadVars, localVars, placeVars, ctlVars
    <2>2. UnitTypes'
      BY <1>16, <1>types DEF UnitTypes, PoolTypes, RankTypes, Size, Goto, PCs, Holding,
         loadVars, localVars, placeVars, ctlVars
    <2>3. LocalTypes'
      <3>1. UNCHANGED <<pool_size, run_subpool, work_count, new_stream, stop>>
        BY Zenon, <1>16 DEF Size
      <3>2. batch \in [Streams -> Nat] /\ ran \in [Streams -> BOOLEAN]
        BY Zenon, <1>types DEF LocalTypes
      <3>3. /\ batch' = batch \/ batch' = [batch EXCEPT ![s] = 0]
            /\ ran' = ran \/ ran' = [ran EXCEPT ![s] = TRUE]
        BY Zenon, <1>16 DEF Size
      <3>4. batch' \in [Streams -> Nat]
        BY <3>2, <3>3
      <3>5. ran' \in [Streams -> BOOLEAN]
        BY Zenon, <3>2, <3>3
      <3>6. QED
        BY Zenon, <1>types, <3>1, <3>4, <3>5 DEF LocalTypes
    <2>4. QED
      BY Zenon, <2>1, <2>2, <2>3, <1>16, <1>types, TypesUnchanged DEF TypeOK, Size, loadVars,
         localVars, placeVars, ctlVars
  <1>17. ASSUME NEW s \in Streams, SubPop(s) PROVE TypeOK'
    <2>1. LoadTypes'
      BY <1>17, <1>types DEF LoadTypes, RankTypes, UnitTypes, CtlTypes, SubPop, Goto,
         PCs, Holding, loadVars, localVars, placeVars, ctlVars
    <2>2. UnitTypes'
      BY Zenon, <1>17, <1>types DEF UnitTypes, PoolTypes, RankTypes, SubPop, Goto, PCs,
         Holding, loadVars, localVars, placeVars, ctlVars
    <2>3. LocalTypes'
      BY <1>17, <1>types DEF LocalTypes, LoadTypes, UnitTypes, RankTypes, SubPop, Goto,
         PCs, Holding, loadVars, localVars, placeVars, ctlVars
    <2>4. QED
      BY Zenon, <2>1, <2>2, <2>3, <1>17, <1>types, TypesUnchanged DEF TypeOK, SubPop,
         loadVars, localVars, placeVars, ctlVars
  <1>18. ASSUME NEW s \in Streams, LwtEnd(s) PROVE TypeOK'
    <2>1. LoadTypes'
      BY <1>18, <1>types DEF LoadTypes, RankTypes, UnitTypes, CtlTypes, LwtEnd,
         Goto, PCs, Holding, loadVars, localVars, placeVars, ctlVars
    <2>2. UnitTypes'
      BY Zenon, <1>18, <1>types DEF UnitTypes, PoolTypes, RankTypes, LwtEnd, Goto, PCs,
         Holding, loadVars, localVars, placeVars, ctlVars
    <2>3. LocalTypes'
      BY <1>18, <1>types DEF LocalTypes, LoadTypes, UnitTypes, RankTypes, LwtEnd, Goto,
         PCs, Holding, loadVars, localVars, placeVars, ctlVars
    <2>4. QED
      BY Zenon, <2>1, <2>2, <2>3, <1>18, <1>types, TypesUnchanged DEF TypeOK, LwtEnd,
         loadVars, localVars, placeVars, ctlVars
  <1>19. ASSUME NEW s \in Streams, After(s) PROVE TypeOK'
    <2>1. PoolTypes'
      <3>1. unit[s] \in mapped /\ unit[s] \in Loads /\ UNCHANGED <<mapped, stray>>
        BY Zenon, <1>19, <1>types DEF UnitTypes, RankTypes, After, AfterRest, Holding, ctlVars
      <3>2. CASE ~stopping
        <4>1. /\ pool' = [pool EXCEPT ![s] = Append(@, unit[s])]
              /\ UNCHANGED <<retired, stray>>
          BY Zenon, <1>19, <3>1, <3>2 DEF After, AfterRest
        <4>2. /\ pool' \in [Streams -> Seq(Loads)]
              /\ \A t \in Streams, m \in Loads :
                    Queued(t, m)' <=> Queued(t, m) \/ (t = s /\ m = unit[s])
          BY Zenon, <1>types, <3>1, <3>2, <4>1, PoolPush DEF PoolTypes
        <4>3. QED
          BY Zenon, <1>types, <3>1, <4>1, <4>2 DEF PoolTypes
      <3>3. CASE stopping
        BY Zenon, <1>19, <1>types, <3>1, <3>3 DEF PoolTypes, After, AfterRest, Queued
      <3>4. QED
        BY Zenon, <3>2, <3>3
    <2>2. UnitTypes'
      BY Zenon, <1>19, <1>types DEF UnitTypes, PoolTypes, RankTypes, After, AfterRest, Goto,
         PCs, Holding, loadVars, localVars, placeVars, ctlVars
    <2>3. LocalTypes'
      BY SMTT(30), <1>19, <1>types DEF LocalTypes, After, AfterRest
    <2>4. QED
      BY Zenon, <2>1, <2>2, <2>3, <1>19, <1>types, TypesUnchanged DEF TypeOK, After,
         AfterRest, loadVars, localVars, placeVars, ctlVars
  <1>20. ASSUME NEW s \in Streams, Events(s) PROVE TypeOK'
    <2>1. UnitTypes'
      BY Zenon, <1>20, <1>types DEF UnitTypes, PoolTypes, RankTypes, Events, Goto, PCs,
         Holding, loadVars, localVars, placeVars, ctlVars
    <2>2. LocalTypes'
      BY <1>20, <1>types DEF LocalTypes, LoadTypes, UnitTypes, RankTypes, Events, Goto,
         PCs, Holding, loadVars, localVars, placeVars, ctlVars
    <2>3. QED
      BY Zenon, <2>1, <2>2, <1>20, <1>types, TypesUnchanged DEF TypeOK, Events, loadVars,
         localVars, placeVars, ctlVars
  <1>21. CASE UNCHANGED vars
    BY Zenon, <1>21, <1>types, TypesUnchanged DEF TypeOK, vars, loadVars, localVars,
       placeVars, ctlVars
  <1>22. QED
    BY Zenon, <1>1, <1>2, <1>3, <1>4, <1>5, <1>6, <1>7, <1>8, <1>9, <1>10, <1>11,
       <1>12, <1>13, <1>14, <1>15, <1>16, <1>17, <1>18, <1>19, <1>20, <1>21
       DEF Next, MainFinalize, SchedStep

\* The variables of Sched keep their types.
THEOREM Typing == Spec => []TypeOK
  <1>1. ASSUME Init PROVE TypeOK
    <2>1. LoadTypes /\ RankTypes
      BY Zenon, <1>1 DEF Init, LoadTypes, RankTypes
    <2>2. PoolTypes
      BY <1>1 DEF Init, PoolTypes, Queued
    <2>3. UnitTypes
      BY Zenon, <1>1 DEF Init, UnitTypes, PCs, Holding
    <2>4. LocalTypes
      BY <1>1 DEF Init, LocalTypes
    <2>5. CtlTypes
      BY Zenon, <1>1 DEF Init, CtlTypes
    <2>6. QED
      BY Zenon, <2>1, <2>2, <2>3, <2>4, <2>5 DEF TypeOK
  <1>2. QED
    BY <1>1, TypeStep, PTL DEF Spec

-----------------------------------------------------------------------------
(* Units.                                                                  *)

\* Units stay where they are when no pool changes and no scheduler takes or
\* leaves one.
LEMMA SamePlaces ==
    ASSUME UnitInOnePlace,
           UNCHANGED <<pool, unit, mapped, retired, stray>>,
           \A t \in Streams : pc'[t] \in Holding <=> pc[t] \in Holding
    PROVE  UnitInOnePlace'
  <1>1. \A t \in Streams, m \in Loads : /\ Holds(t, m)' <=> Holds(t, m)
                                        /\ Queued(t, m)' <=> Queued(t, m)
    BY Zenon DEF Holds, Queued
  <1>2. NoTwoHolders' /\ HeldNotQueued'
    BY Zenon, <1>1 DEF UnitInOnePlace, NoTwoHolders, HeldNotQueued
  <1>3. QueuedOnce'
    BY DEF UnitInOnePlace, QueuedOnce
  <1>4. GoneForGood' /\ NeverLost'
    BY DEF UnitInOnePlace, GoneForGood, NeverLost, Holds, Queued
  <1>5. QED
    BY Zenon, <1>2, <1>3, <1>4 DEF UnitInOnePlace

\* A scheduler that pushes or drops its unit holds none afterwards.
LEMMA Released ==
    ASSUME TypeOK, NEW s \in Streams, NEW label \in PCs \ Holding,
           pc' = [pc EXCEPT ![s] = label], unit' = [unit EXCEPT ![s] = NoLoad]
    PROVE  \A t \in Streams, m \in Loads : Holds(t, m)' <=> Holds(t, m) /\ t # s
  BY Zenon DEF TypeOK, UnitTypes, Holds

\* Every step keeps the unit of every load in exactly one place.
LEMMA UnitStep == TypeOK /\ UnitInOnePlace /\ [Next]_vars => UnitInOnePlace'
  <1> SUFFICES ASSUME TypeOK, UnitInOnePlace, [Next]_vars PROVE UnitInOnePlace'
    BY Zenon
  <1>types. RankTypes /\ PoolTypes /\ UnitTypes
    BY Zenon DEF TypeOK
  <1>places. NoTwoHolders /\ HeldNotQueued /\ QueuedOnce /\ GoneForGood /\ NeverLost
    BY Zenon DEF UnitInOnePlace
  <1>1. ASSUME NEW l \in Loads, NEW s \in Streams, InitLoad(l, s) PROVE UnitInOnePlace'
    <2>1. /\ l \notin mapped /\ mapped' = mapped \cup {l}
          /\ pool' = [pool EXCEPT ![s] = Append(@, l)]
          /\ UNCHANGED <<pc, unit, retired, stray>>
      BY Zenon, <1>1 DEF InitLoad, localVars, placeVars
    <2>2. \A t \in Streams : ~Queued(t, l) /\ ~Holds(t, l)
      BY Zenon, <1>types, <2>1 DEF PoolTypes, UnitTypes, Holds
    <2>3. /\ QueuedOnce'
          /\ \A t \in Streams, m \in Loads :
                Queued(t, m)' <=> Queued(t, m) \/ (t = s /\ m = l)
      BY Zenon, <1>types, <1>places, <2>1, <2>2, PoolPush DEF PoolTypes
    <2>4. \A t \in Streams, m \in Loads : Holds(t, m)' <=> Holds(t, m)
      BY Zenon, <2>1 DEF Holds
    <2>5. NoTwoHolders' /\ HeldNotQueued'
      BY Zenon, <1>places, <2>2, <2>3, <2>4 DEF NoTwoHolders, HeldNotQueued
    <2>6. GoneForGood'
      <3>1. retired \subseteq mapped /\ stray \subseteq mapped /\ mapped \subseteq Loads
        BY Zenon, <1>types DEF PoolTypes, RankTypes
      <3>2. QED
        BY Zenon, <1>places, <2>1, <2>3, <2>4, <3>1 DEF GoneForGood
    <2>7. NeverLost'
      <3>1. mapped \subseteq Loads
        BY Zenon, <1>types DEF RankTypes
      <3>2. QED
        BY <1>places, <2>1, <2>3, <2>4, <3>1 DEF NeverLost
    <2>8. QED
      BY Zenon, <2>3, <2>5, <2>6, <2>7 DEF UnitInOnePlace
  <1>2. ASSUME NEW s \in Streams, Pop(s) PROVE UnitInOnePlace'
    <2>1. CASE pool[s] = << >>
      <3>1. \A t \in Streams : pc'[t] \in Holding <=> pc[t] \in Holding
        BY Zenon, <1>2, <1>types, <2>1 DEF Pop, Goto, UnitTypes, PCs, Holding
      <3>2. QED
        BY Zenon, <1>2, <2>1, <3>1, SamePlaces DEF Pop, placeVars, ctlVars
    <2>2. CASE pool[s] # << >>
      <3> DEFINE l == Head(pool[s])
      <3>1. /\ unit' = [unit EXCEPT ![s] = l]
            /\ pool' = [pool EXCEPT ![s] = Tail(@)]
            /\ pc[s] = "pop" /\ pc' = [pc EXCEPT ![s] = "check"]
            /\ UNCHANGED <<mapped, retired, stray>>
        BY Zenon, <1>2, <2>2 DEF Pop, Goto, placeVars, ctlVars
      <3>2. PICK h : h = l
        BY Zenon
      <3> HIDE DEF l
      <3>3. /\ h \in Loads /\ Queued(s, h) /\ QueuedOnce'
            /\ \A t \in Streams, m \in Loads : Queued(t, m)' <=> Queued(t, m) /\ m # h
        <4>1. QueuedOnce
          BY Zenon, <1>places
        <4>2. pool \in [Streams -> Seq(Loads)]
          BY Zenon, <1>types DEF PoolTypes
        <4>3. h = Head(pool[s])
          BY Zenon, <3>2 DEF l
        <4>4. /\ h \in Loads /\ Queued(s, h) /\ QueuedOnce'
              /\ \A t \in Streams, m \in Loads : Queued(t, m)' => Queued(t, m)
              /\ \A t \in Streams, m \in Loads : Queued(t, m) /\ m # h => Queued(t, m)'
              /\ \A t \in Streams : ~Queued(t, h)'
          BY Zenon, <2>2, <3>1, <4>1, <4>2, <4>3, PoolPop
        <4>5. QED
          BY Zenon, <4>4
      <3>4. \A t \in Streams, m \in Loads :
                Holds(t, m)' <=> Holds(t, m) \/ (t = s /\ m = h)
        BY Zenon, <1>types, <3>1, <3>2 DEF UnitTypes, Holds, Holding
      <3>5. NoTwoHolders' /\ HeldNotQueued'
        BY <1>places, <3>3, <3>4 DEF NoTwoHolders, HeldNotQueued
      <3>6. retired \subseteq Loads /\ stray \subseteq Loads /\ mapped \subseteq Loads
        BY Zenon, <1>types DEF PoolTypes, RankTypes
      <3>7. GoneForGood'
        BY <1>places, <3>1, <3>3, <3>4, <3>6 DEF GoneForGood
      <3>8. NeverLost'
        BY Zenon, <1>places, <3>1, <3>3, <3>4, <3>6 DEF NeverLost
      <3>9. QED
        BY Zenon, <3>3, <3>5, <3>7, <3>8 DEF UnitInOnePlace
    <2>3. QED
      BY Zenon, <2>1, <2>2
  <1>3. ASSUME NEW s \in Streams, Push(s) PROVE UnitInOnePlace'
    <2>1. PICK l \in mapped : l = unit[s]
      BY Zenon, <1>3, <1>types DEF Push, UnitTypes, Holding
    <2>2. /\ l \in Loads /\ Holds(s, l)
          /\ \A t \in Streams, m \in Loads : Holds(t, m)' <=> Holds(t, m) /\ t # s
          /\ UNCHANGED <<mapped, retired>>
      BY Zenon, <1>3, <1>types, <2>1, Released DEF Push, Goto, PCs, Holding, Holds,
         RankTypes, ctlVars
    <2>3. /\ retired \subseteq Loads /\ stray \subseteq Loads /\ mapped \subseteq Loads
          /\ l \notin retired \cup stray
          /\ \A t \in Streams : ~Queued(t, l)
          /\ \A t \in Streams : ~Holds(t, l)'
      BY Zenon, <1>types, <1>places, <2>2 DEF PoolTypes, RankTypes, GoneForGood,
         HeldNotQueued, NoTwoHolders
    <2>4. \A m \in Loads : Holds(s, m) => m = l
      BY Zenon, <2>1 DEF Holds
    <2>5. CASE new_stream[s] \in Streams
      <3>1. /\ pool' = [pool EXCEPT ![new_stream[s]] = Append(@, l)]
            /\ UNCHANGED stray
        BY Zenon, <1>3, <2>1, <2>5 DEF Push
      <3>2. PICK u \in Streams : u = new_stream[s]
        BY Zenon, <2>5
      <3>3. /\ QueuedOnce'
            /\ \A t \in Streams, m \in Loads :
                  Queued(t, m)' <=> Queued(t, m) \/ (t = u /\ m = l)
        BY Zenon, <1>types, <1>places, <2>2, <2>3, <3>1, <3>2, PoolPush DEF PoolTypes
      <3>4. NoTwoHolders' /\ HeldNotQueued'
        BY <1>places, <2>2, <2>3, <3>3 DEF NoTwoHolders, HeldNotQueued
      <3>5. GoneForGood'
        BY Zenon, <1>places, <2>2, <2>3, <3>1, <3>3 DEF GoneForGood
      <3>6. NeverLost'
        BY <1>places, <2>2, <2>3, <2>4, <3>1, <3>3 DEF NeverLost
      <3>7. QED
        BY Zenon, <3>3, <3>4, <3>5, <3>6 DEF UnitInOnePlace
    <2>6. CASE new_stream[s] \notin Streams
      <3>1. pool' = pool /\ stray' = stray \cup {l}
        BY Zenon, <1>3, <2>1, <2>6 DEF Push
      <3>2. \A t \in Streams, m \in Loads : Queued(t, m)' <=> Queued(t, m)
        BY Zenon, <3>1 DEF Queued
      <3>3. QueuedOnce'
        BY <1>places, <3>1 DEF QueuedOnce
      <3>4. NoTwoHolders' /\ HeldNotQueued'
        BY Zenon, <1>places, <2>2, <3>2 DEF NoTwoHolders, HeldNotQueued
      <3>5. GoneForGood'
        BY <1>places, <2>2, <2>3, <3>1, <3>2 DEF GoneForGood
      <3>6. NeverLost'
        BY Zenon, <1>places, <2>2, <2>3, <2>4, <3>1, <3>2 DEF NeverLost
      <3>7. QED
        BY Zenon, <3>3, <3>4, <3>5, <3>6 DEF UnitInOnePlace
    <2>7. QED
      BY Zenon, <2>5, <2>6
  <1>4. ASSUME NEW s \in Streams, After(s) PROVE UnitInOnePlace'
    <2>1. PICK l \in mapped : l = unit[s]
      BY Zenon, <1>4, <1>types DEF After, AfterRest, UnitTypes, Holding
    <2>label. (IF run_subpool[s] + 1 >= pool_size[s] THEN "events" ELSE "inner") \in PCs \ Holding
      BY Zenon DEF PCs, Holding
    <2>2. /\ l \in Loads /\ Holds(s, l)
          /\ \A t \in Streams, m \in Loads : Holds(t, m)' <=> Holds(t, m) /\ t # s
          /\ UNCHANGED <<mapped, stray>>
      BY Zenon, <1>4, <1>types, <2>1, <2>label, Released DEF After, AfterRest, Goto,
         PCs, Holding, Holds, RankTypes, ctlVars
    <2>3. /\ retired \subseteq Loads /\ stray \subseteq Loads /\ mapped \subseteq Loads
          /\ l \notin retired \cup stray
          /\ \A t \in Streams : ~Queued(t, l)
          /\ \A t \in Streams : ~Holds(t, l)'
      BY Zenon, <1>types, <1>places, <2>2 DEF PoolTypes, RankTypes, GoneForGood,
         HeldNotQueued, NoTwoHolders
    <2>4. \A m \in Loads : Holds(s, m) => m = l
      BY Zenon, <2>1 DEF Holds
    <2>5. CASE ~stopping
      <3>1. /\ pool' = [pool EXCEPT ![s] = Append(@, l)]
            /\ UNCHANGED retired
        BY Zenon, <1>4, <2>1, <2>5 DEF After, AfterRest
      <3>2. PICK u \in Streams : u = s
        BY Zenon, <2>5
      <3>3. /\ QueuedOnce'
            /\ \A t \in Streams, m \in Loads :
                  Queued(t, m)' <=> Queued(t, m) \/ (t = u /\ m = l)
        <4>1. pool \in [Streams -> Seq(Loads)] /\ l \in Loads
          BY Zenon, <1>types, <2>2 DEF PoolTypes
        <4>2. QueuedOnce /\ \A t \in Streams : ~Queued(t, l)
          BY Zenon, <1>places, <2>3
        <4>3. QED
          BY Zenon, <3>1, <3>2, <4>1, <4>2, PoolPush
      <3>4. NoTwoHolders' /\ HeldNotQueued'
        BY <1>places, <2>2, <2>3, <3>3 DEF NoTwoHolders, HeldNotQueued
      <3>5. GoneForGood'
        BY Zenon, <1>places, <2>2, <2>3, <3>1, <3>3 DEF GoneForGood
      <3>6. NeverLost'
        BY <1>places, <2>2, <2>3, <2>4, <3>1, <3>3 DEF NeverLost
      <3>7. QED
        BY Zenon, <3>3, <3>4, <3>5, <3>6 DEF UnitInOnePlace
    <2>6. CASE stopping
      <3>1. pool' = pool /\ retired' = retired \cup {l}
        BY Zenon, <1>4, <2>1, <2>6 DEF After, AfterRest
      <3>2. \A t \in Streams, m \in Loads : Queued(t, m)' <=> Queued(t, m)
        BY Zenon, <3>1 DEF Queued
      <3>3. QueuedOnce'
        BY <1>places, <3>1 DEF QueuedOnce
      <3>4. NoTwoHolders' /\ HeldNotQueued'
        BY Zenon, <1>places, <2>2, <3>2 DEF NoTwoHolders, HeldNotQueued
      <3>5. GoneForGood'
        BY <1>places, <2>2, <2>3, <3>1, <3>2 DEF GoneForGood
      <3>6. NeverLost'
        BY Zenon, <1>places, <2>2, <2>3, <2>4, <3>1, <3>2 DEF NeverLost
      <3>7. QED
        BY Zenon, <3>3, <3>4, <3>5, <3>6 DEF UnitInOnePlace
    <2>7. QED
      BY Zenon, <2>5, <2>6
  <1>5. ASSUME NEW s \in Streams,
               \/ Inner(s) \/ Check(s) \/ Target(s) \/ Update(s) \/ Size(s)
               \/ SubPop(s) \/ LwtEnd(s) \/ Events(s)
        PROVE  UnitInOnePlace'
    <2>1. UNCHANGED <<pool, unit, mapped, retired, stray>>
      BY ZenonT(30), <1>5 DEF Inner, Check, Target, Update, Size, SubPop, LwtEnd,
         Events,
         localVars, placeVars, ctlVars
    <2>2. \A t \in Streams : pc'[t] \in Holding <=> pc[t] \in Holding
      BY <1>5, <1>types DEF Inner, Check, Target, Update, Size, SubPop, LwtEnd,
         Events, Goto, UnitTypes, Holding
    <2>3. QED
      BY Zenon, <2>1, <2>2, SamePlaces
  <1>6. ASSUME UNCHANGED <<pool, pc, unit, mapped, retired, stray>> PROVE UnitInOnePlace'
    BY Zenon, <1>6, SamePlaces
  <1>7. QED
    <2>1. ASSUME NEW l \in Loads, NEW s \in Streams, SetMigrating(l, s) PROVE UnitInOnePlace'
      BY Zenon, <1>6, <2>1 DEF SetMigrating, localVars, placeVars
    <2>2. ASSUME NEW l \in Loads, CreateLwt(l) PROVE UnitInOnePlace'
      BY Zenon, <1>6, <2>2 DEF CreateLwt, localVars, placeVars, ctlVars
    <2>3. ASSUME NEW s \in Blockable, SetBlocking(s) PROVE UnitInOnePlace'
      BY Zenon, <1>6, <2>3 DEF SetBlocking, localVars, placeVars
    <2>4. CASE SetStopping \/ RebEnd \/ JoinRebalancer \/ Finalized
      BY Zenon, <1>6, <2>4 DEF SetStopping, RebEnd, JoinRebalancer, Finalized,
         localVars, placeVars
    <2>5. ASSUME NEW s \in Streams, JoinStream(s) PROVE UnitInOnePlace'
      BY Zenon, <1>6, <2>5 DEF JoinStream, localVars, placeVars
    <2>6. CASE UNCHANGED vars
      BY Zenon, <1>6, <2>6 DEF vars, localVars, placeVars, ctlVars
    <2>7. QED
      BY Zenon, <1>1, <1>2, <1>3, <1>4, <1>5, <2>1, <2>2, <2>3, <2>4, <2>5, <2>6
         DEF Next, MainFinalize, SchedStep

\* For any number of streams and loads and any decisions of the rebalancer,
\* each load's unit is in exactly one place: base.c neither duplicates a unit
\* nor loses one between a pop and the push that follows.
THEOREM UnitsConserved == Spec => []UnitInOnePlace
  <1>1. Init => UnitInOnePlace
    BY DEF Init, UnitInOnePlace, NoTwoHolders, HeldNotQueued, QueuedOnce,
       GoneForGood, NeverLost, Holds, Queued, Holding
  <1>2. QED
    BY <1>1, UnitStep, Typing, PTL DEF Spec

\* Therefore the LWTs of one load never run on two xstreams at once, which is
\* what makes locks unnecessary inside a load (README, "mapping").
THEOREM LoadsAreSerial == Spec => []SerialLoad
  <1>1. TypeOK /\ UnitInOnePlace => SerialLoad
    BY Zenon DEF TypeOK, UnitTypes, RankTypes, UnitInOnePlace, NoTwoHolders, Holds,
       Holding, SerialLoad
  <1>2. QED
    BY <1>1, Typing, UnitsConserved, PTL

-----------------------------------------------------------------------------
(* Ranks.                                                                  *)

\* The ranks of the hand-off stay right when neither a unit nor a rank nor a
\* scheduler's label moves.
LEMMA SameRanks ==
    ASSUME HandOffRanks, UNCHANGED <<pool, pc, unit, curr_rank, dest_rank, new_stream,
    stray>>
    PROVE  HandOffRanks'
  <1>1. \A s \in Streams, l \in Loads : /\ Holds(s, l)' <=> Holds(s, l)
                                        /\ Queued(s, l)' <=> Queued(s, l)
    BY Zenon DEF Holds, Queued
  <1>2. QED
    BY ZenonT(30), <1>1 DEF HandOffRanks, PlacedWhereRanked

\* A race is never forgotten.
LEMMA RaceStays == [Next]_vars => (raced => raced')
  BY ZenonT(30) DEF Next, MainFinalize, SchedStep, InitLoad, SetMigrating, CreateLwt,
     SetBlocking, SetStopping, RebEnd, JoinRebalancer, Finalized,
     JoinStream, Inner, Pop, Check, Target, Update, Push, Size, SubPop, LwtEnd,
     After, AfterRest, Events, ctlVars, vars

\* A step that writes no dest_rank between lines 146 and 147 of base.c keeps
\* units where their ranks say.
LEMMA RankStep ==
    ~raced' /\ TypeOK /\ UnitInOnePlace /\ HandOffRanks /\ [Next]_vars
        => HandOffRanks'
  <1> SUFFICES ASSUME ~raced', TypeOK, UnitInOnePlace, HandOffRanks, [Next]_vars
               PROVE  HandOffRanks'
    BY Zenon
  <1>types. LoadTypes /\ RankTypes /\ PoolTypes /\ UnitTypes /\ LocalTypes
    BY Zenon DEF TypeOK
  <1>places. NoTwoHolders /\ HeldNotQueued /\ GoneForGood
    BY Zenon DEF UnitInOnePlace
  <1>1. ASSUME NEW l \in Loads, NEW s \in Streams, InitLoad(l, s) PROVE HandOffRanks'
    <2>1. /\ l \notin mapped
          /\ pool' = [pool EXCEPT ![s] = Append(@, l)]
          /\ curr_rank' = [curr_rank EXCEPT ![l] = s]
          /\ dest_rank' = [dest_rank EXCEPT ![l] = s]
          /\ UNCHANGED <<pc, unit, new_stream, stray>>
      BY Zenon, <1>1 DEF InitLoad, localVars, placeVars
    <2>2. \A t \in Streams, m \in Loads :
              Queued(t, m)' <=> Queued(t, m) \/ (t = s /\ m = l)
      BY Zenon, <1>types, <2>1, PoolPush DEF PoolTypes
    <2>3. \A t \in Streams, m \in Loads :
              /\ Holds(t, m)' <=> Holds(t, m)
              /\ Holds(t, m) \/ Queued(t, m) => m # l
      BY Zenon, <1>types, <2>1 DEF Holds, PoolTypes, UnitTypes
    <2>4. \A m \in Loads : m # l => curr_rank'[m] = curr_rank[m] /\ dest_rank'[m] = dest_rank[m]
      BY Zenon, <1>types, <2>1 DEF LoadTypes
    <2>5. curr_rank'[l] = s
      BY Zenon, <1>types, <2>1 DEF LoadTypes
    <2>6. PlacedWhereRanked /\ PlacedWhereRanked'
      BY Zenon, <2>1, <2>2, <2>3, <2>4, <2>5 DEF HandOffRanks, PlacedWhereRanked
    <2>7. QED
      BY Zenon, <2>1, <2>3, <2>4, <2>6 DEF HandOffRanks
  <1>2. ASSUME NEW l \in Loads, NEW s \in Streams, SetMigrating(l, s) PROVE HandOffRanks'
    <2>1. /\ dest_rank' = [dest_rank EXCEPT ![l] = s]
          /\ \A t \in Streams : ~(pc[t] = "update" /\ unit[t] = l)
          /\ UNCHANGED <<pool, pc, unit, curr_rank, new_stream, stray>>
      BY Zenon, <1>2 DEF SetMigrating, localVars, placeVars
    <2>2. \A m \in Loads : m # l => dest_rank'[m] = dest_rank[m]
      BY Zenon, <1>types, <2>1 DEF LoadTypes
    <2>3. \A t \in Streams, m \in Loads : /\ Holds(t, m)' <=> Holds(t, m)
                                          /\ Queued(t, m)' <=> Queued(t, m)
      BY Zenon, <2>1 DEF Holds, Queued
    <2>4. \A t \in Streams : Holds(t, l) => pc[t] # "update"
      BY Zenon, <2>1 DEF Holds
    <2>5. PlacedWhereRanked'
      BY Zenon, <2>1, <2>3 DEF HandOffRanks, PlacedWhereRanked
    <2>6. QED
      BY Zenon, <2>1, <2>2, <2>3, <2>4, <2>5 DEF HandOffRanks
  <1>3. ASSUME NEW s \in Streams, Pop(s) PROVE HandOffRanks'
    <2>1. CASE pool[s] = << >>
      BY SMTT(30), <1>3, <1>types, <2>1 DEF Pop, Goto, HandOffRanks, PlacedWhereRanked,
         Holds,
         Holding, Queued, UnitTypes, loadVars, placeVars
    <2>2. CASE pool[s] # << >>
      <3>1. PICK h : h = Head(pool[s])
        BY Zenon
      <3>2. /\ unit' = [unit EXCEPT ![s] = h]
            /\ pool' = [pool EXCEPT ![s] = Tail(@)]
            /\ pc' = [pc EXCEPT ![s] = "check"]
            /\ UNCHANGED <<curr_rank, dest_rank, new_stream, stray>>
        BY Zenon, <1>3, <2>2, <3>1 DEF Pop, Goto, loadVars, placeVars
      <3>3. /\ h \in Loads /\ Queued(s, h)
            /\ \A t \in Streams, m \in Loads : Queued(t, m)' => Queued(t, m)
        BY Zenon, <1>types, <2>2, <3>1, <3>2, PoolPop DEF PoolTypes
      <3>4. \A t \in Streams, m \in Loads :
                Holds(t, m)' => (t # s /\ Holds(t, m) /\ pc'[t] = pc[t])
                                \/ (t = s /\ m = h /\ pc'[s] = "check")
        BY Zenon, <1>types, <3>2 DEF UnitTypes, Holds
      <3>5. PlacedWhereRanked'
        BY Zenon, <3>2, <3>3 DEF HandOffRanks, PlacedWhereRanked
      <3>6. curr_rank[h] = s
        BY Zenon, <3>3 DEF HandOffRanks, PlacedWhereRanked
      <3>7. ASSUME NEW t \in Streams, NEW m \in Loads, Holds(t, m)'
            PROVE  /\ pc'[t] # "push" => curr_rank'[m] = t
                   /\ pc'[t] = "update" => new_stream'[t] = dest_rank'[m]
                   /\ pc'[t] = "push" => new_stream'[t] = curr_rank'[m]
        <4>1. CASE t # s /\ Holds(t, m) /\ pc'[t] = pc[t]
          BY ZenonT(30), <3>2, <4>1 DEF HandOffRanks
        <4>2. CASE t = s /\ m = h /\ pc'[s] = "check"
          BY Zenon, <3>2, <3>6, <4>2
        <4>3. QED
          BY Zenon, <3>4, <3>7, <4>1, <4>2
      <3>8. QED
        BY Zenon, <3>5, <3>7 DEF HandOffRanks
    <2>3. QED
      BY Zenon, <2>1, <2>2
  <1>4. ASSUME NEW s \in Streams, Target(s) PROVE HandOffRanks'
    <2>1. /\ pc[s] = "target" /\ pc' = [pc EXCEPT ![s] = "update"]
          /\ new_stream' = [new_stream EXCEPT
                              ![s] = s + (dest_rank[unit[s]] - curr_rank[unit[s]])]
          /\ UNCHANGED <<pool, unit, curr_rank, dest_rank, stray>>
      BY Zenon, <1>4 DEF Target, Goto, loadVars, placeVars
    <2>2. PICK l \in Loads : l = unit[s] /\ Holds(s, l)
      BY Zenon, <1>types, <2>1 DEF UnitTypes, RankTypes, Holds, Holding
    <2>3. curr_rank[l] = s /\ curr_rank[l] \in Nat /\ dest_rank[l] \in Nat
      BY Zenon, <1>types, <2>1, <2>2 DEF HandOffRanks, LoadTypes
    <2>4. new_stream'[s] = dest_rank[l]
      BY SMTT(30), <1>types, <2>1, <2>2, <2>3 DEF LocalTypes
    <2>5. \A t \in Streams, m \in Loads :
              /\ Queued(t, m)' <=> Queued(t, m)
              /\ Holds(t, m)' => Holds(t, m)
              /\ t # s => pc'[t] = pc[t] /\ new_stream'[t] = new_stream[t]
      BY Zenon, <1>types, <2>1 DEF UnitTypes, LocalTypes, Holds, Holding, Queued
    <2>6. pc'[s] = "update"
      BY Zenon, <1>types, <2>1 DEF UnitTypes
    <2>7. QED
      BY <2>1, <2>2, <2>3, <2>4, <2>5, <2>6 DEF HandOffRanks, PlacedWhereRanked, Holds
  <1>5. ASSUME NEW s \in Streams, Update(s) PROVE HandOffRanks'
    <2>1. /\ pc[s] = "update" /\ pc' = [pc EXCEPT ![s] = "push"]
          /\ curr_rank' = [curr_rank EXCEPT ![unit[s]] = dest_rank[unit[s]]]
          /\ UNCHANGED <<pool, unit, dest_rank, new_stream, stray>>
      BY Zenon, <1>5 DEF Update, Goto, localVars, placeVars
    <2>2. PICK l \in Loads : l = unit[s] /\ Holds(s, l)
      BY Zenon, <1>types, <2>1 DEF UnitTypes, RankTypes, Holds, Holding
    <2>3. /\ curr_rank'[l] = dest_rank[l]
          /\ \A m \in Loads : m # l => curr_rank'[m] = curr_rank[m]
      BY Zenon, <1>types, <2>1, <2>2 DEF LoadTypes
    <2>4. \A t \in Streams, m \in Loads :
              /\ Queued(t, m)' <=> Queued(t, m)
              /\ Holds(t, m)' => Holds(t, m)
              /\ t # s => pc'[t] = pc[t]
      BY Zenon, <1>types, <2>1 DEF UnitTypes, Holds, Holding, Queued
    <2>5. /\ \A t \in Streams : ~Queued(t, l)
          /\ \A t \in Streams : Holds(t, l) => t = s
          /\ \A m \in Loads : Holds(s, m) => m = l
      BY Zenon, <1>places, <2>2 DEF HeldNotQueued, NoTwoHolders, Holds
    <2>6. pc'[s] = "push" /\ new_stream[s] = dest_rank[l]
      BY Zenon, <1>types, <2>1, <2>2 DEF UnitTypes, HandOffRanks
    <2>7. PlacedWhereRanked'
      BY SMTT(30), <2>1, <2>3, <2>4, <2>5 DEF HandOffRanks, PlacedWhereRanked
    <2>8. ASSUME NEW t \in Streams, NEW m \in Loads, Holds(t, m)'
          PROVE  /\ pc'[t] # "push" => curr_rank'[m] = t
                 /\ pc'[t] = "update" => new_stream'[t] = dest_rank'[m]
                 /\ pc'[t] = "push" => new_stream'[t] = curr_rank'[m]
      <3>1. CASE t = s
        <4>1. m = l
          BY Zenon, <2>4, <2>5, <2>8, <3>1
        <4>2. QED
          BY Zenon, <2>1, <2>3, <2>6, <3>1, <4>1
      <3>2. CASE t # s
        <4>1. Holds(t, m) /\ m # l /\ pc'[t] = pc[t]
          BY Zenon, <2>4, <2>5, <2>8, <3>2
        <4>2. QED
          BY SMTT(30), <2>1, <2>3, <4>1 DEF HandOffRanks
      <3>3. QED
        BY Zenon, <3>1, <3>2
    <2>9. QED
      BY Zenon, <2>7, <2>8 DEF HandOffRanks
  <1>6. ASSUME NEW s \in Streams, Push(s) PROVE HandOffRanks'
    <2>1. PICK l \in Loads : l = unit[s] /\ l \in mapped /\ Holds(s, l)
      BY Zenon, <1>6, <1>types DEF Push, UnitTypes, RankTypes, Holding, Holds
    <2>2. new_stream[s] = curr_rank[l] /\ new_stream[s] \in Streams
      BY Zenon, <1>6, <1>types, <2>1 DEF Push, HandOffRanks, RankTypes
    <2>3. /\ pool' = [pool EXCEPT ![new_stream[s]] = Append(@, l)]
          /\ pc' = [pc EXCEPT ![s] = "inner"]
          /\ unit' = [unit EXCEPT ![s] = NoLoad]
          /\ new_stream' = [new_stream EXCEPT ![s] = 0]
          /\ UNCHANGED <<curr_rank, dest_rank, stray>>
      BY Zenon, <1>6, <2>1, <2>2 DEF Push, Goto, loadVars
    <2>4. PICK u \in Streams : u = new_stream[s]
      BY Zenon, <2>2
    <2>5. \A t \in Streams, m \in Loads :
              Queued(t, m)' <=> Queued(t, m) \/ (t = u /\ m = l)
      BY Zenon, <1>types, <2>3, <2>4, PoolPush DEF PoolTypes
    <2>6. \A t \in Streams, m \in Loads :
              Holds(t, m)' => Holds(t, m) /\ t # s /\ pc'[t] = pc[t]
      BY Zenon, <1>types, <2>3 DEF UnitTypes, Holds, Holding
    <2>7. \A t \in Streams : t # s => new_stream'[t] = new_stream[t]
      BY Zenon, <1>types, <2>3 DEF LocalTypes
    <2>8. PlacedWhereRanked'
      BY Zenon, <2>2, <2>3, <2>4, <2>5 DEF HandOffRanks, PlacedWhereRanked
    <2>9. QED
      BY SMTT(30), <2>3, <2>6, <2>7, <2>8 DEF HandOffRanks
  <1>7. ASSUME NEW s \in Streams, After(s) PROVE HandOffRanks'
    <2>1. PICK l \in Loads : l = unit[s] /\ Holds(s, l)
      BY Zenon, <1>7, <1>types DEF After, AfterRest, UnitTypes, RankTypes, Holding,
         Holds
    <2>2. /\ curr_rank[l] = s
          /\ UNCHANGED <<curr_rank, dest_rank, new_stream, stray>>
      BY Zenon, <1>7, <2>1 DEF After, AfterRest, HandOffRanks, loadVars
    <2>3. \A t \in Streams, m \in Loads :
              Holds(t, m)' => Holds(t, m) /\ t # s /\ pc'[t] = pc[t]
      BY Zenon, <1>7, <1>types DEF After, AfterRest, Goto, UnitTypes, Holds, Holding
    <2>4. \A t \in Streams, m \in Loads :
              Queued(t, m)' => Queued(t, m) \/ (t = s /\ m = l)
      <3>1. CASE stopping
        BY Zenon, <1>7, <3>1 DEF After, AfterRest, Queued
      <3>2. CASE ~stopping
        <4>1. pool' = [pool EXCEPT ![s] = Append(@, l)]
          BY Zenon, <1>7, <2>1, <3>2 DEF After, AfterRest
        <4>2. QED
          BY Zenon, <1>types, <4>1, PoolPush DEF PoolTypes
      <3>3. QED
        BY Zenon, <3>1, <3>2
    <2>5. PlacedWhereRanked'
      <3>1. PlacedWhereRanked
        BY Zenon DEF HandOffRanks
      <3>2. QED
        BY Zenon, <2>2, <2>4, <3>1 DEF PlacedWhereRanked
    <2>6. ASSUME NEW t \in Streams, NEW m \in Loads, Holds(t, m)'
          PROVE  /\ pc'[t] # "push" => curr_rank'[m] = t
                 /\ pc'[t] = "update" => new_stream'[t] = dest_rank'[m]
                 /\ pc'[t] = "push" => new_stream'[t] = curr_rank'[m]
      <3>1. Holds(t, m) /\ pc'[t] = pc[t]
        BY ZenonT(30), <2>3, <2>6
      <3>2. QED
        BY Zenon, <2>2, <3>1 DEF HandOffRanks
    <2>7. QED
      BY Zenon, <2>5, <2>6 DEF HandOffRanks
  <1>8. ASSUME NEW s \in Streams,
               Inner(s) \/ Check(s) \/ Size(s) \/ SubPop(s) \/ LwtEnd(s) \/ Events(s)
        PROVE  HandOffRanks'
    <2>1. UNCHANGED <<pool, unit, curr_rank, dest_rank, new_stream, stray>>
      BY Zenon, <1>8 DEF Inner, Check, Size, SubPop, LwtEnd, Events, loadVars, localVars,
         placeVars
    <2>2. /\ \A t \in Streams : t # s => pc'[t] = pc[t]
          /\ pc'[s] \in Holding => pc[s] \in Holding /\ pc[s] # "push"
          /\ pc'[s] \notin {"update", "push"}
      BY Zenon, <1>8, <1>types DEF Inner, Check, Size, SubPop, LwtEnd, Events, Goto,
         UnitTypes, Holding
    <2>3. \A t \in Streams, m \in Loads : Queued(t, m)' => Queued(t, m)
      BY Zenon, <2>1 DEF Queued
    <2>4. PlacedWhereRanked'
      BY Zenon, <2>1, <2>3 DEF HandOffRanks, PlacedWhereRanked
    <2>5. \A t \in Streams, m \in Loads :
              Holds(t, m)' => /\ Holds(t, m)
                              /\ t # s => pc'[t] = pc[t]
                              /\ t = s => pc[t] # "push"
      BY Zenon, <2>1, <2>2 DEF Holds
    <2>6. ASSUME NEW t \in Streams, NEW m \in Loads, Holds(t, m)'
          PROVE  /\ pc'[t] # "push" => curr_rank'[m] = t
                 /\ pc'[t] = "update" => new_stream'[t] = dest_rank'[m]
                 /\ pc'[t] = "push" => new_stream'[t] = curr_rank'[m]
      <3>1. CASE t = s
        BY Zenon, <2>1, <2>2, <2>5, <2>6, <3>1 DEF HandOffRanks
      <3>2. CASE t # s
        BY <2>1, <2>5, <2>6, <3>2 DEF HandOffRanks
      <3>3. QED
        BY Zenon, <3>1, <3>2
    <2>7. QED
      BY Zenon, <2>4, <2>6 DEF HandOffRanks
  <1>9. ASSUME UNCHANGED <<pool, pc, unit, curr_rank, dest_rank, new_stream, stray>>
        PROVE  HandOffRanks'
    BY Zenon, <1>9, SameRanks
  <1>10. QED
    <2>1. ASSUME NEW l \in Loads, CreateLwt(l) PROVE HandOffRanks'
      BY Zenon, <1>9, <2>1 DEF CreateLwt, localVars, placeVars
    <2>2. ASSUME NEW s \in Blockable, SetBlocking(s) PROVE HandOffRanks'
      BY Zenon, <1>9, <2>2 DEF SetBlocking, loadVars, localVars, placeVars
    <2>3. CASE SetStopping \/ RebEnd \/ JoinRebalancer \/ Finalized
      BY Zenon, <1>9, <2>3 DEF SetStopping, RebEnd, JoinRebalancer, Finalized,
         loadVars, localVars, placeVars
    <2>4. ASSUME NEW s \in Streams, JoinStream(s) PROVE HandOffRanks'
      BY Zenon, <1>9, <2>4 DEF JoinStream, loadVars, localVars, placeVars
    <2>5. CASE UNCHANGED vars
      BY Zenon, <1>9, <2>5 DEF vars, loadVars, localVars, placeVars
    <2>6. QED
      BY Zenon, <1>1, <1>2, <1>3, <1>4, <1>5, <1>6, <1>7, <1>8, <2>1, <2>2, <2>3,
         <2>4, <2>5
         DEF Next, MainFinalize, SchedStep

\* Until the rebalancer writes dest_rank between the two reads of a hand-off
\* (base.c 146 and 147), every unit waits in the pool of the stream that
\* curr_rank names and none is pushed outside the used streams.
THEOREM UnitsPlacedUntilRace == Spec => []PlacedUntilRace
  <1> DEFINE Inv == ~raced => HandOffRanks
  <1>1. Init => Inv
    BY SMTT(30) DEF Init, HandOffRanks, PlacedWhereRanked, Holds, Queued, Holding
  <1>2. Inv => PlacedUntilRace
    BY Zenon DEF HandOffRanks, PlacedUntilRace
  <1>3. TypeOK /\ UnitInOnePlace /\ Inv /\ [Next]_vars => Inv'
    BY Zenon, RankStep, RaceStays
  <1>4. QED
    <2> HIDE DEF Inv
    <2> QED
      BY <1>1, <1>2, <1>3, Typing, UnitsConserved, PTL DEF Spec

-----------------------------------------------------------------------------
(* LWTs.                                                                   *)

\* A step that creates, starts and ends no LWT keeps the balance.
LEMMA SameIos ==
    ASSUME IoConservation, UNCHANGED <<created, ended, subpool>>,
           \A t \in Streams, l \in Loads :
               (pc[t] = "lwt" /\ unit[t] = l)' <=> (pc[t] = "lwt" /\ unit[t] = l)
    PROVE  IoConservation'
  <1>1. \A l \in Loads : Running(l)' = Running(l)
    BY Zenon DEF Running
  <1>2. QED
    BY Zenon, <1>1 DEF IoConservation

\* Every step keeps the balance of created, waiting, running and ended LWTs.
LEMMA IoStep ==
    TypeOK /\ UnitInOnePlace /\ IoConservation /\ [Next]_vars => IoConservation'
  <1> SUFFICES ASSUME TypeOK, UnitInOnePlace, IoConservation, [Next]_vars
               PROVE  IoConservation'
    BY Zenon
  <1>types. LoadTypes /\ RankTypes /\ UnitTypes /\ CtlTypes
    BY Zenon DEF TypeOK
  <1>places. NoTwoHolders
    BY Zenon DEF UnitInOnePlace
  <1>run. \A m \in Loads : Running(m) \in {0, 1}
    BY Zenon DEF Running
  <1>1. ASSUME NEW l \in Loads, CreateLwt(l) PROVE IoConservation'
    <2>1. /\ subpool' = [subpool EXCEPT ![l] = @ + 1]
          /\ created' = [created EXCEPT ![l] = @ + 1]
          /\ UNCHANGED <<ended, pc, unit>>
      BY Zenon, <1>1 DEF CreateLwt, localVars
    <2>2. ASSUME NEW m \in Loads
          PROVE  created'[m] = subpool'[m] + Running(m)' + ended'[m]
      <3>1. Running(m)' = Running(m) /\ Running(m) \in {0, 1}
        BY Zenon, <1>run, <2>1 DEF Running
      <3>2. /\ created'[m] = IF m = l THEN created[m] + 1 ELSE created[m]
            /\ subpool'[m] = IF m = l THEN subpool[m] + 1 ELSE subpool[m]
        BY Zenon, <1>types, <2>1 DEF LoadTypes
      <3>3. created[m] \in Nat /\ subpool[m] \in Nat /\ ended[m] \in Nat
        BY Zenon, <1>types DEF LoadTypes
      <3>4. created[m] = subpool[m] + Running(m) + ended[m]
        BY Zenon DEF IoConservation
      <3>5. QED
        BY <2>1, <3>1, <3>2, <3>3, <3>4
    <2>3. QED
      BY Zenon, <2>2 DEF IoConservation
  <1>2. ASSUME NEW s \in Streams, SubPop(s) PROVE IoConservation'
    <2>1. PICK l \in Loads : l = unit[s] /\ Holds(s, l) /\ pc[s] = "sub"
      BY Zenon, <1>2, <1>types DEF SubPop, UnitTypes, RankTypes, Holds, Holding
    <2>2. UNCHANGED <<created, ended, unit>>
      BY Zenon, <1>2 DEF SubPop
    <2>3. CASE subpool[l] > 0
      <3>1. /\ subpool' = [subpool EXCEPT ![l] = @ - 1]
            /\ pc' = [pc EXCEPT ![s] = "lwt"]
        BY Zenon, <1>2, <2>1, <2>3 DEF SubPop, Goto
      <3>2. Running(l) = 0
        BY Zenon, <1>places, <2>1 DEF Running, NoTwoHolders, Holds, Holding
      <3>3. Running(l)' = 1
        BY Zenon, <1>types, <2>1, <2>2, <3>1 DEF Running, UnitTypes
      <3>4. \A m \in Loads : m # l => Running(m)' = Running(m)
        BY Zenon, <1>types, <2>1, <2>2, <3>1 DEF Running, UnitTypes
      <3>5. ASSUME NEW m \in Loads
            PROVE  created'[m] = subpool'[m] + Running(m)' + ended'[m]
        <4>1. created[m] = subpool[m] + Running(m) + ended[m]
          BY Zenon DEF IoConservation
        <4>2. subpool[m] \in Nat /\ ended[m] \in Nat /\ Running(m) \in {0, 1}
          BY Zenon, <1>types, <1>run DEF LoadTypes
        <4>3. subpool'[m] = IF m = l THEN subpool[m] - 1 ELSE subpool[m]
          BY Zenon, <1>types, <3>1 DEF LoadTypes
        <4>4. QED
          BY <2>2, <3>2, <3>3, <3>4, <4>1, <4>2, <4>3
      <3>6. QED
        BY Zenon, <3>5 DEF IoConservation
    <2>4. CASE ~(subpool[l] > 0)
      <3>1. UNCHANGED subpool
            /\ \A t \in Streams : pc'[t] = "lwt" <=> pc[t] = "lwt"
        BY Zenon, <1>2, <1>types, <2>1, <2>4 DEF SubPop, Goto, UnitTypes, PCs
      <3>2. QED
        BY Zenon, <2>2, <3>1, SameIos
    <2>5. QED
      BY Zenon, <2>3, <2>4
  <1>3. ASSUME NEW s \in Streams, LwtEnd(s) PROVE IoConservation'
    <2>1. PICK l \in Loads : l = unit[s] /\ Holds(s, l) /\ pc[s] = "lwt"
      BY Zenon, <1>3, <1>types DEF LwtEnd, UnitTypes, RankTypes, Holds, Holding
    <2>2. /\ ended' = [ended EXCEPT ![l] = @ + 1]
          /\ UNCHANGED <<created, subpool, unit>>
      BY Zenon, <1>3, <2>1 DEF LwtEnd
    <2>3. /\ \A t \in Streams : t # s => pc'[t] = pc[t]
          /\ pc'[s] # "lwt"
      BY Zenon, <1>3, <1>types DEF LwtEnd, Goto, UnitTypes
    <2>4. Running(l) = 1
      BY Zenon, <2>1 DEF Running
    <2>5. Running(l)' = 0
      BY Zenon, <1>places, <2>1, <2>2, <2>3 DEF Running, NoTwoHolders, Holds, Holding
    <2>6. \A m \in Loads : m # l => Running(m)' = Running(m)
      BY Zenon, <2>1, <2>2, <2>3 DEF Running
    <2>7. ASSUME NEW m \in Loads
          PROVE  created'[m] = subpool'[m] + Running(m)' + ended'[m]
      <3>1. created[m] = subpool[m] + Running(m) + ended[m]
        BY Zenon DEF IoConservation
      <3>2. subpool[m] \in Nat /\ ended[m] \in Nat /\ Running(m) \in {0, 1}
        BY Zenon, <1>types, <1>run DEF LoadTypes
      <3>3. ended'[m] = IF m = l THEN ended[m] + 1 ELSE ended[m]
        BY Zenon, <1>types, <2>2 DEF LoadTypes
      <3>4. QED
        BY SMTT(30), <2>2, <2>4, <2>5, <2>6, <3>1, <3>2, <3>3
    <2>8. QED
      BY Zenon, <2>7 DEF IoConservation
  <1>4. ASSUME NEW s \in Streams,
               \/ Inner(s) \/ Pop(s) \/ Check(s) \/ Target(s) \/ Update(s) \/ Push(s)
               \/ Size(s) \/ After(s) \/ Events(s)
        PROVE  IoConservation'
    <2>1. UNCHANGED <<created, ended, subpool>>
      BY ZenonT(30), <1>4 DEF Inner, Pop, Check, Target, Update, Push, Size, After,
         AfterRest, Events, loadVars
    <2>2. /\ pc[s] # "lwt" /\ pc'[s] # "lwt"
          /\ \A t \in Streams : t # s => pc'[t] = pc[t] /\ unit'[t] = unit[t]
      BY ZenonT(30), <1>4, <1>types DEF Inner, Pop, Check, Target, Update, Push, Size,
         After, AfterRest,
         Events, Goto, UnitTypes, localVars
    <2>3. QED
      BY Zenon, <2>1, <2>2, SameIos
  <1>5. ASSUME UNCHANGED <<created, ended, subpool, pc, unit>>
        PROVE  IoConservation'
    BY Zenon, <1>5, SameIos
  <1>6. QED
    <2>1. ASSUME NEW l \in Loads, NEW s \in Streams, InitLoad(l, s) \/ SetMigrating(l, s)
          PROVE  IoConservation'
      BY Zenon, <1>5, <2>1 DEF InitLoad, SetMigrating, localVars
    <2>2. ASSUME NEW s \in Blockable, SetBlocking(s) PROVE IoConservation'
      BY Zenon, <1>5, <2>2 DEF SetBlocking, loadVars, localVars
    <2>3. CASE SetStopping \/ RebEnd \/ JoinRebalancer \/ Finalized
      BY Zenon, <1>5, <2>3 DEF SetStopping, RebEnd, JoinRebalancer, Finalized, loadVars,
         localVars
    <2>4. ASSUME NEW s \in Streams, JoinStream(s) PROVE IoConservation'
      BY Zenon, <1>5, <2>4 DEF JoinStream, loadVars, localVars
    <2>5. CASE UNCHANGED vars
      BY Zenon, <1>5, <2>5 DEF vars, loadVars, localVars, ctlVars
    <2>6. QED
      BY Zenon, <1>1, <1>2, <1>3, <1>4, <2>1, <2>2, <2>3, <2>4, <2>5
         DEF Next, MainFinalize, SchedStep

\* No LWT is lost or run twice, however often its load changes streams: the
\* created ones are waiting in the load's pool, running, or have returned.
THEOREM IosConserved == Spec => []IoConservation
  <1>1. Init => IoConservation
    BY DEF Init, IoConservation, Running
  <1>2. QED
    BY <1>1, IoStep, Typing, UnitsConserved, PTL DEF Spec
=============================================================================
