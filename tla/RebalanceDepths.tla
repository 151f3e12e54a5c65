--------------------------- MODULE RebalanceDepths --------------------------
(***************************************************************************)
(* Proofs about what the decisions of the rebalancer do to the queue       *)
(* depths: level 3 keeps the order of the NUMAs it levels, and the queue   *)
(* depths stay those of the loads and fit in a word.                       *)
(***************************************************************************)
EXTENDS RebalanceStats

-----------------------------------------------------------------------------
(* What the stages know, besides Inv, StatsCurrent and Snapshot.           *)

\* If no size has changed, ios is what the stream to will have.
Tracking ==
    /\ pc \in {"foreign", "own"} /\ fresh => ios = qdepth[to] + Total(size, mloads)
    /\ pc = "own" => mloads \cap todo = {}
    /\ pc = "own" /\ fresh /\ min_lsize # 0 => min_lsize = size[min_load]

\* While level 3 moves loads of partition p to the NUMA t, ios is what another
\* NUMA has lost and t has got since the statistics were read: with the queue
\* depths q, k IOs moved, the streams S left and at most b IOs to move.
Settled(q, k, S, b, t, p) ==
    LET avg == abtst_get_average_qdepth
        used == Cardinality(CoresIn(t))
        ptotal(n) == Total(q, StreamsOf(part_id, n, p))
    IN /\ Total(q, CoresIn(t)) >= k
       /\ AvgQdepth(t) = Quot(Total(q, CoresIn(t)) - k, used)
       /\ AvgQdepth(t) < avg
       /\ b <= (avg - AvgQdepth(t)) * used
       /\ k <= b
       /\ ptotal(t) = numa_stats[p][t].qdepth + k
       /\ \E f \in Numas \ {t} :
            /\ S \subseteq StreamsOf(part_id, f, p)
            /\ ptotal(f) + k = numa_stats[p][f].qdepth
            /\ 2 * b <= numa_stats[p][f].qdepth - numa_stats[p][t].qdepth
            /\ \A n \in Numas \ {f, t} : ptotal(n) = numa_stats[p][n].qdepth
Settling ==
    pc = "l3move" =>
        to \in Cores /\ Settled(qdepth, ios, todo, limit, NumaOf[to], part_id[to])

-----------------------------------------------------------------------------
(* Level 3 lifts the NUMA that gets loads to the average at most.          *)

\* Moving the loads of c to another NUMA moves its queue depth in the totals.
LEMMA CombineAcross ==
    ASSUME Inv, Snapshot, PlaceTypes', pc = "l3move", NEW c \in Cores, NEW t \in Cores, c # t,
           abtst_combine_streams(c, t), NEW S \in SUBSET Cores
    PROVE  /\ c \in S /\ t \notin S => Total(qdepth', S) + qdepth[c] = Total(qdepth, S)
           /\ c \notin S /\ t \in S => Total(qdepth', S) = Total(qdepth, S) + qdepth[c]
           /\ Total(qdepth, S) \in Nat /\ Total(qdepth', S) \in Nat
  <1>1. PlaceTypes /\ qdepth \in [Cores -> Nat] /\ qdepth' \in [Cores -> Nat]
    BY Zenon DEF Inv, Types, PlaceTypes
  <1>2. /\ qdepth'[c] = 0 /\ qdepth'[t] = qdepth[t] + qdepth[c]
        /\ \A d \in Cores \ {c, t} : qdepth'[d] = qdepth[d]
    <2>1. qdepth[c] \in Nat /\ qdepth[t] \in Nat
      BY Zenon, <1>1
    <2>2. CASE load_q[c] = {}
      <3>1. qdepth' = qdepth /\ qdepth[c] = 0
        BY Zenon, <1>1, <2>2, CombineDepths, EmptyIdle
      <3> QED
        BY <2>1, <3>1
    <2>3. CASE load_q[c] # {}
      BY <1>1, <2>1, <2>3, CombineDepths
    <2> QED
      BY Zenon, <2>2, <2>3
  <1>3. IsFiniteSet(S) /\ \A d \in S : qdepth[d] \in Nat /\ qdepth'[d] \in Nat
    BY <1>1, CoresAssumption, FS_Subset, Zenon
  <1>4. Total(qdepth, S) \in Nat /\ Total(qdepth', S) \in Nat
    BY Zenon, <1>3, TotalNat
  <1>5. qdepth[c] \in Nat /\ qdepth[t] \in Nat
    BY Zenon, <1>1
  <1>6. ASSUME c \in S, t \notin S
        PROVE  Total(qdepth', S) + qdepth[c] = Total(qdepth, S)
    <2>1. Total(qdepth', S) + qdepth[c] = Total(qdepth, S) + qdepth'[c]
      BY <1>2, <1>3, <1>6, TotalChange
    <2> QED
      BY <1>2, <1>4, <2>1
  <1>7. ASSUME c \notin S, t \in S
        PROVE  Total(qdepth', S) = Total(qdepth, S) + qdepth[c]
    <2>1. Total(qdepth', S) + qdepth[t] = Total(qdepth, S) + qdepth'[t]
      BY <1>2, <1>3, <1>7, TotalChange
    <2> QED
      BY <1>2, <1>4, <1>5, <2>1
  <1> QED
    BY Zenon, <1>4, <1>6, <1>7

\* What a stream c of the NUMA f gives to a stream of the NUMA t.
LEMMA CombineNumas ==
    ASSUME Inv, Snapshot, PlaceTypes', pc = "l3move", NEW c \in Cores, NEW d \in Cores,
           abtst_combine_streams(c, d), NEW p \in Parts, NEW t \in Numas,
           NEW f \in Numas \ {t},
           d \in StreamsOf(part_id, t, p), c \in StreamsOf(part_id, f, p)
    PROVE  /\ Total(qdepth', StreamsOf(part_id, f, p)) + qdepth[c]
                = Total(qdepth, StreamsOf(part_id, f, p))
           /\ Total(qdepth', StreamsOf(part_id, t, p))
                = Total(qdepth, StreamsOf(part_id, t, p)) + qdepth[c]
           /\ Total(qdepth', CoresIn(t)) = Total(qdepth, CoresIn(t)) + qdepth[c]
           /\ \A n \in Numas \ {f, t} : Total(qdepth', StreamsOf(part_id, n, p))
                                          = Total(qdepth, StreamsOf(part_id, n, p))
  <1>1. c # d /\ NumaOf[c] = f /\ NumaOf[d] = t
    BY StreamsElements
  <1>2. Total(qdepth', StreamsOf(part_id, f, p)) + qdepth[c]
          = Total(qdepth, StreamsOf(part_id, f, p))
    <2>1. d \notin StreamsOf(part_id, f, p) /\ StreamsOf(part_id, f, p) \in SUBSET Cores
      BY <1>1, StreamsElements
    <2> QED
      BY Zenon, <1>1, <2>1, CombineAcross
  <1>3. Total(qdepth', StreamsOf(part_id, t, p))
          = Total(qdepth, StreamsOf(part_id, t, p)) + qdepth[c]
    <2>1. c \notin StreamsOf(part_id, t, p) /\ StreamsOf(part_id, t, p) \in SUBSET Cores
      BY <1>1, StreamsElements
    <2> QED
      BY Zenon, <1>1, <2>1, CombineAcross
  <1>4. Total(qdepth', CoresIn(t)) = Total(qdepth, CoresIn(t)) + qdepth[c]
    <2>1. c \notin CoresIn(t) /\ d \in CoresIn(t) /\ CoresIn(t) \in SUBSET Cores
      BY Zenon, <1>1 DEF CoresIn
    <2> QED
      BY Zenon, <1>1, <2>1, CombineAcross
  <1>5. ASSUME NEW n \in Numas \ {f, t}
        PROVE  Total(qdepth', StreamsOf(part_id, n, p)) = Total(qdepth, StreamsOf(part_id, n, p))
    <2>1. /\ c \notin StreamsOf(part_id, n, p) /\ d \notin StreamsOf(part_id, n, p)
          /\ StreamsOf(part_id, n, p) \in SUBSET Cores
      BY <1>1, StreamsElements
    <2>2. PlaceTypes
      BY Zenon DEF Inv, Types
    <2> QED
      BY Zenon, <1>1, <2>1, <2>2, CombineTotal
  <1> QED
    BY Zenon, <1>2, <1>3, <1>4, <1>5

\* The sums that level 3 keeps track of.
LEMMA NumaTotals ==
    ASSUME Inv, NEW t \in Numas, NEW p \in Parts
    PROVE  /\ Total(qdepth, CoresIn(t)) \in Nat
           /\ \A n \in Numas : Total(qdepth, StreamsOf(part_id, n, p)) \in Nat
  <1>1. qdepth \in [Cores -> Nat]
    BY Zenon DEF Inv, Types, PlaceTypes
  <1>2. /\ IsFiniteSet(CoresIn(t)) /\ \A c \in CoresIn(t) : qdepth[c] \in Nat
        /\ \A n \in Numas : /\ IsFiniteSet(StreamsOf(part_id, n, p))
                            /\ \A c \in StreamsOf(part_id, n, p) : qdepth[c] \in Nat
    BY Zenon, <1>1, FiniteParts
  <1> QED
    BY Zenon, <1>2, TotalNat

\* Level 3 starts with the statistics of the queue depths.
LEMMA SettledStart ==
    ASSUME Inv, StatsCurrent, L3Start
    PROVE  /\ UNCHANGED <<part_id, statVars>> /\ to' \in Cores
           /\ Settled(qdepth', ios', todo', limit', NumaOf[to'], part_id[to'])
  <1>1. PICK f, t \in Awake, p \in Parts :
           /\ f # t
           /\ to' \in StreamsOf(part_id, t, p)
           /\ todo' = StreamsOf(part_id, f, p)
           /\ limit' \in Nat
           /\ numa_stats[p][f].used_cores > 0 /\ numa_stats[p][t].used_cores > 0
           /\ 2 * limit' <= numa_stats[p][f].qdepth - numa_stats[p][t].qdepth
           /\ limit' <= (abtst_get_average_qdepth - AvgQdepth(t)) * numa_stat[t].used_cores
           /\ AvgQdepth(t) < abtst_get_average_qdepth
           /\ numa_stat[t].used_cores > 0
    BY Zenon, L3StartPair
  <1>2. /\ UNCHANGED <<part_id, statVars, qdepth>> /\ ios' = 0 /\ pc = "l3"
        /\ f \in Numas /\ t \in Numas
    BY Zenon, <1>1 DEF L3Start, L3StartAmong, placeVars, Awake
  <1>3. to' \in Cores /\ NumaOf[to'] = t /\ part_id[to'] = p
    BY <1>1, StreamsElements
  <1>4. qdepth \in [Cores -> Nat]
    BY Zenon DEF Inv, Types, PlaceTypes
  <1>5. \A n \in Numas : numa_stats[p][n].qdepth = Total(qdepth, StreamsOf(part_id, n, p))
    <2>1. \A n \in Numas :
            numa_stats[p][n] = abtst_update_partition_stats(part_id, qdepth)[p][n]
      BY Zenon, <1>2 DEF StatsCurrent, Pending
    <2> QED
      BY <1>4, <2>1, StatTypesStep
  <1>6. /\ numa_stat[t].used_cores = Cardinality(CoresIn(t))
        /\ AvgQdepth(t) = Quot(Total(qdepth, CoresIn(t)), Cardinality(CoresIn(t)))
    <2>1. numa_stat = abtst_update_numa_stats(qdepth)
      BY Zenon, <1>2 DEF StatsCurrent
    <2> QED
      BY Zenon, <1>2, <1>4, <2>1, StatTypesStep DEF AvgQdepth
  <1>7. /\ Total(qdepth, CoresIn(t)) >= 0
        /\ Total(qdepth, CoresIn(t)) - 0 = Total(qdepth, CoresIn(t))
        /\ \A n \in Numas : Total(qdepth, StreamsOf(part_id, n, p)) + 0
                              = Total(qdepth, StreamsOf(part_id, n, p))
    BY <1>2, NumaTotals
  <1>8. /\ \A n \in Numas : numa_stats[p][n].qdepth + 0 = numa_stats[p][n].qdepth
        /\ 0 <= limit'
    BY <1>1, <1>5, <1>7
  <1>9. Settled(qdepth, 0, todo', limit', t, p)
    BY Zenon, <1>1, <1>2, <1>5, <1>6, <1>7, <1>8 DEF Settled
  <1> QED
    BY Zenon, <1>2, <1>3, <1>9

\* Level 3 moves all loads of one stream.
LEMMA SettledMove ==
    ASSUME Inv, Snapshot, PlaceTypes', NEW t \in Numas, NEW p \in Parts, NEW c \in Cores,
           pc = "l3move", to \in StreamsOf(part_id, t, p), c \in todo, todo' = todo \ {c},
           Settled(qdepth, ios, todo, limit, t, p), abtst_combine_streams(c, to),
           ios' = ios + qdepth[c], ios + qdepth[c] <= limit
    PROVE  Settled(qdepth', ios', todo', limit, t, p)
  <1>1. PICK f \in Numas \ {t} :
           /\ todo \subseteq StreamsOf(part_id, f, p)
           /\ Total(qdepth, StreamsOf(part_id, f, p)) + ios = numa_stats[p][f].qdepth
           /\ 2 * limit <= numa_stats[p][f].qdepth - numa_stats[p][t].qdepth
           /\ \A n \in Numas \ {f, t} :
                 Total(qdepth, StreamsOf(part_id, n, p)) = numa_stats[p][n].qdepth
    BY Zenon DEF Settled
  <1>2. c \in StreamsOf(part_id, f, p) /\ to \in Cores
    BY Zenon, <1>1, StreamsElements
  <1>3. /\ Total(qdepth', StreamsOf(part_id, f, p)) + qdepth[c]
             = Total(qdepth, StreamsOf(part_id, f, p))
        /\ Total(qdepth', StreamsOf(part_id, t, p))
             = Total(qdepth, StreamsOf(part_id, t, p)) + qdepth[c]
        /\ Total(qdepth', CoresIn(t)) = Total(qdepth, CoresIn(t)) + qdepth[c]
        /\ \A n \in Numas \ {f, t} : Total(qdepth', StreamsOf(part_id, n, p))
                                       = Total(qdepth, StreamsOf(part_id, n, p))
    BY <1>2, CombineNumas
  <1>4. /\ ios \in Nat /\ qdepth[c] \in Nat /\ numa_stats[p][t].qdepth \in Nat
        /\ qdepth' \in [Cores -> Nat]
    BY DEF Inv, Types, PlaceTypes, WorkTypes, StatTypes
  <1>5. /\ Total(qdepth, CoresIn(t)) \in Nat
        /\ Total(qdepth, StreamsOf(part_id, t, p)) \in Nat
        /\ Total(qdepth, StreamsOf(part_id, f, p)) \in Nat
    BY Zenon, NumaTotals
  <1>6. Total(qdepth', StreamsOf(part_id, f, p)) \in Nat
    BY Zenon, <1>4, FiniteParts, TotalNat
  <1>7. /\ Total(qdepth', CoresIn(t)) >= ios'
        /\ AvgQdepth(t) = Quot(Total(qdepth', CoresIn(t)) - ios', Cardinality(CoresIn(t)))
    <2>1. /\ Total(qdepth, CoresIn(t)) >= ios
          /\ AvgQdepth(t) = Quot(Total(qdepth, CoresIn(t)) - ios, Cardinality(CoresIn(t)))
      BY Zenon DEF Settled
    <2>2. /\ Total(qdepth', CoresIn(t)) >= ios'
          /\ Total(qdepth', CoresIn(t)) - ios' = Total(qdepth, CoresIn(t)) - ios
      BY <1>3, <1>4, <1>5, <2>1
    <2> QED
      BY Zenon, <2>1, <2>2
  <1>8. Total(qdepth', StreamsOf(part_id, t, p)) = numa_stats[p][t].qdepth + ios'
    <2>1. Total(qdepth, StreamsOf(part_id, t, p)) = numa_stats[p][t].qdepth + ios
      BY Zenon DEF Settled
    <2> QED
      BY <1>3, <1>4, <2>1
  <1>9. Total(qdepth', StreamsOf(part_id, f, p)) + ios' = numa_stats[p][f].qdepth
    BY <1>1, <1>3, <1>4, <1>6
  <1>10. todo' \subseteq StreamsOf(part_id, f, p) /\ ios' <= limit
    BY Zenon, <1>1
  <1>11. /\ AvgQdepth(t) < abtst_get_average_qdepth
         /\ limit <= (abtst_get_average_qdepth - AvgQdepth(t)) * Cardinality(CoresIn(t))
    BY Zenon DEF Settled
  <1> QED
    BY <1>1, <1>3, <1>7, <1>8, <1>9, <1>10, <1>11, Zenon DEF Settled

LEMMA SettlingStep ==
    ASSUME Inv, StatsCurrent, Snapshot, Settling, [Next]_vars
    PROVE  Settling'
  <1>1. ASSUME UNCHANGED <<part_id, statVars>>, to' \in Cores,
               Settled(qdepth', ios', todo', limit', NumaOf[to'], part_id[to'])
        PROVE  Settling'
    BY <1>1, Zenon DEF Settling, Settled, AvgQdepth, abtst_get_average_qdepth, statVars
  <1>2. CASE pc' # "l3move"
    BY Zenon, <1>2 DEF Settling
  <1>3. CASE UNCHANGED <<placeVars, statVars, psVars, loopVars, workVars, pc, level>>
    <2>1. UNCHANGED <<part_id, statVars, qdepth, ios, todo, limit, to, pc>>
      BY Zenon, <1>3 DEF placeVars, workVars
    <2> QED
      BY Zenon, <1>1, <1>2, <2>1 DEF Settling
  <1>4. CASE L3Start
    BY Zenon, <1>1, <1>4, SettledStart
  <1>5. CASE L3Move
    <2>1. /\ pc = "l3move" /\ to \in Cores
          /\ UNCHANGED <<part_id, statVars, limit, to>>
          /\ Settled(qdepth, ios, todo, limit, NumaOf[to], part_id[to])
      BY Zenon, <1>5 DEF L3Move, Settling
    <2>2. PICK t \in Numas, p \in Parts : t = NumaOf[to] /\ p = part_id[to]
      BY Zenon, <2>1, CoresAssumption DEF Inv, Types, PlaceTypes
    <2>3. PICK c \in Greatest(todo, qdepth) :
             /\ todo' = todo \ {c}
             /\ c \in Cores
             /\ \/ UNCHANGED <<ios, placeVars>>
                \/ /\ Moved(load_q[c], c, to)
                   /\ abtst_combine_streams(c, to)
                   /\ ios' = ios + qdepth[c]
                   /\ ios + qdepth[c] <= limit
      BY Zenon, <1>5, L3MoveMoves
    <2>4. CASE UNCHANGED <<ios, placeVars>>
      <3>1. UNCHANGED <<ios, qdepth>> /\ todo' \subseteq todo
        BY Zenon, <2>3, <2>4 DEF placeVars
      <3>2. Settled(qdepth, ios, todo', limit, t, p)
        BY <2>1, <2>2, <3>1, Zenon DEF Settled
      <3> QED
        BY Zenon, <1>1, <2>1, <2>2, <3>1, <3>2
    <2>5. CASE /\ abtst_combine_streams(c, to)
               /\ ios' = ios + qdepth[c]
               /\ ios + qdepth[c] <= limit
      <3>1. to \in StreamsOf(part_id, t, p) /\ c \in todo
        BY Zenon, <2>1, <2>2, StreamsElements DEF Greatest
      <3>2. Settled(qdepth', ios', todo', limit, t, p)
        BY Zenon, <2>1, <2>2, <2>3, <2>5, <3>1, PlaceTypesStep, SettledMove
      <3> QED
        BY Zenon, <1>1, <2>1, <2>2, <3>2
    <2> QED
      BY Zenon, <2>3, <2>4, <2>5
  <1>6. CASE RebStep
    BY Zenon, <1>2, <1>4, <1>5, <1>6, StageSteps
  <1> QED
    BY Zenon, <1>3, <1>6, OutsideSteps DEF Next

\* What has been moved when level 3 is done leaves t at the average at most, ...
LEMMA SettledAverage ==
    ASSUME Inv, NEW t \in Numas, NEW p \in Parts, NEW c \in CoresIn(t),
           Settled(qdepth, ios, todo, limit, t, p)
    PROVE  Quot(Total(qdepth, CoresIn(t)), Cardinality(CoresIn(t))) <= abtst_get_average_qdepth
  <1>1. PICK all, used, avg, old, room :
           /\ all = Total(qdepth, CoresIn(t)) /\ used = Cardinality(CoresIn(t))
           /\ avg = abtst_get_average_qdepth /\ old = AvgQdepth(t)
           /\ room = (avg - old) * used
    BY Zenon
  <1>2. ios \in Nat /\ limit \in Nat /\ avg \in Nat /\ old \in Nat
    BY Zenon, <1>1, AverageNat DEF Inv, Types, WorkTypes, StatTypes, AvgQdepth
  <1>3. all \in Nat /\ used \in Nat \ {0}
    BY Zenon, <1>1, NumaTotals, FiniteParts, Counting
  <1>4. all >= ios /\ old = Quot(all - ios, used) /\ old < avg /\ limit <= room /\ ios <= limit
    BY Zenon, <1>1 DEF Settled
  <1>5. room \in Int
    BY <1>1, <1>2, <1>3
  <1>6. ios <= room
    BY <1>2, <1>4, <1>5
  <1>7. PICK x \in Nat : x = all - ios /\ x + ios = all
    BY <1>2, <1>3, <1>4
  <1>8. old = x \div used
    BY Zenon, <1>3, <1>4, <1>7 DEF Quot
  <1>9. (x + ios) \div used <= avg
    BY <1>1, <1>2, <1>3, <1>4, <1>6, <1>7, <1>8, AverageAfter, Zenon
  <1> QED
    BY Zenon, <1>1, <1>3, <1>7, <1>9 DEF Quot

\* ... and only a NUMA that still has as much of the partition has lost any.
LEMMA SettledOrder ==
    ASSUME Inv, NEW t \in Numas, NEW p \in Parts, Settled(qdepth, ios, todo, limit, t, p),
           NEW n \in Numas,
           Total(qdepth, StreamsOf(part_id, n, p)) < numa_stats[p][n].qdepth
    PROVE  Total(qdepth, StreamsOf(part_id, n, p)) >= Total(qdepth, StreamsOf(part_id, t, p))
  <1>1. PICK f \in Numas \ {t} :
           /\ Total(qdepth, StreamsOf(part_id, f, p)) + ios = numa_stats[p][f].qdepth
           /\ 2 * limit <= numa_stats[p][f].qdepth - numa_stats[p][t].qdepth
           /\ \A m \in Numas \ {f, t} :
                 Total(qdepth, StreamsOf(part_id, m, p)) = numa_stats[p][m].qdepth
    BY Zenon DEF Settled
  <1>2. /\ Total(qdepth, StreamsOf(part_id, t, p)) = numa_stats[p][t].qdepth + ios
        /\ ios <= limit
    BY Zenon DEF Settled
  <1>3. /\ ios \in Nat /\ limit \in Nat
        /\ \A m \in Numas : numa_stats[p][m].qdepth \in Nat
    BY Zenon DEF Inv, Types, WorkTypes, StatTypes
  <1>4. \A m \in Numas : Total(qdepth, StreamsOf(part_id, m, p)) \in Nat
    BY Zenon, NumaTotals
  <1>5. n = f
    BY <1>1, <1>2, <1>3, <1>4
  <1> QED
    BY <1>1, <1>2, <1>3, <1>4, <1>5

LEMMA LevelingEnds ==
    ASSUME Inv, Settling, [Next]_vars, pc = "l3move", pc' = "l2"
    PROVE  LET t == NumaOf[to]
               p == part_id[to]
           IN /\ numa_stat'[t].avg_qdepth <= abtst_get_average_qdepth
              /\ \A n \in Numas :
                   numa_stats'[p][n].qdepth < numa_stats[p][n].qdepth =>
                       numa_stats'[p][n].qdepth >= numa_stats'[p][t].qdepth
  <1>1. L3End
    <2>1. RebStep
      BY Zenon, OutsideSteps DEF Next
    <2> QED
      BY Zenon, <2>1, StageActions DEF L3Move
  <1>2. /\ qdepth \in [Cores -> Nat] /\ part_id \in [Cores -> Parts] /\ to \in Cores
        /\ Settled(qdepth, ios, todo, limit, NumaOf[to], part_id[to])
    BY Zenon DEF Inv, Types, PlaceTypes, Settling
  <1>3. PICK t \in Numas, p \in Parts : t = NumaOf[to] /\ p = part_id[to]
    BY Zenon, <1>2, CoresAssumption
  <1>4. /\ numa_stats' = abtst_update_partition_stats(part_id, qdepth)
        /\ numa_stat' = abtst_update_numa_stats(qdepth)
    BY Zenon, <1>1 DEF L3End
  <1>5. /\ \A n \in Numas :
             numa_stats'[p][n].qdepth = Total(qdepth, StreamsOf(part_id, n, p))
        /\ numa_stat'[t].avg_qdepth
             = Quot(Total(qdepth, CoresIn(t)), Cardinality(CoresIn(t)))
    BY Zenon, <1>2, <1>4, StatTypesStep
  <1>6. to \in CoresIn(t)
    BY Zenon, <1>2, <1>3 DEF CoresIn
  <1>7. numa_stat'[t].avg_qdepth <= abtst_get_average_qdepth
    BY Zenon, <1>2, <1>3, <1>5, <1>6, SettledAverage
  <1>8. \A n \in Numas : numa_stats'[p][n].qdepth < numa_stats[p][n].qdepth =>
                            numa_stats'[p][n].qdepth >= numa_stats'[p][t].qdepth
    BY <1>2, <1>3, <1>5, SettledOrder
  <1> QED
    BY Zenon, <1>3, <1>7, <1>8

\* For every number of NUMAs, cores and loads: what level 3 moves, stream by
\* stream, lifts the NUMA that gets it to the average over all NUMAs at most,
\* and leaves the NUMA that gives it at least as much of the partition.
THEOREM LevelingKeepsOrder == Spec => L3KeepsOrder
  <1> DEFINE Step == pc = "l3move" /\ pc' = "l2" =>
                LET t == NumaOf[to]
                    p == part_id[to]
                IN /\ numa_stat'[t].avg_qdepth <= abtst_get_average_qdepth
                   /\ \A n \in Numas :
                        numa_stats'[p][n].qdepth < numa_stats[p][n].qdepth =>
                            numa_stats'[p][n].qdepth >= numa_stats'[p][t].qdepth
             IInv == StatsCurrent /\ Snapshot /\ Settling
  <1>1. Init => IInv
    <2>1. Init => StatsCurrent /\ Settling
      BY Zenon DEF Init, StatsCurrent, Pending, Settling
    <2> QED
      BY Zenon, <2>1, SnapshotInit
  <1>2. Inv /\ IInv /\ [Next]_vars => IInv'
    BY Zenon, StatsCurrentStep, SnapshotStep, SettlingStep
  <1>3. Inv /\ IInv /\ [Next]_vars => [Step]_vars
    BY Zenon, LevelingEnds
  <1> QED
    BY <1>1, <1>2, <1>3, InvHolds, PTL DEF Spec, L3KeepsOrder

-----------------------------------------------------------------------------
(* The queue depths are those of the loads, and fit in a word.             *)

LEMMA TrackingStep ==
    ASSUME Inv, Tracking, [Next]_vars
    PROVE  Tracking'
  <1>1. /\ ios \in Nat /\ mloads \subseteq Loads /\ size \in [Loads -> Nat]
    BY Zenon DEF Inv, Types, WorkTypes, EnvTypes
  <1>2. CASE Environment \/ UNCHANGED vars
    <2>1. UNCHANGED <<qdepth, to, mloads, todo, ios, min_load, min_lsize, pc>>
      BY Zenon, <1>2, OutsideSteps DEF placeVars, workVars
    <2>2. fresh' = FALSE \/ UNCHANGED <<size, fresh>>
      BY Zenon, <1>2 DEF Environment, Land, SizeChange, Sleep, vars, envVars
    <2> QED
      BY <2>1, <2>2 DEF Tracking
  <1>3. CASE pc' \notin {"foreign", "own"}
    BY Zenon, <1>3 DEF Tracking
  <1>4. CASE L1Start
    <2>1. /\ ios' = qdepth[to'] /\ UNCHANGED <<qdepth, mloads, size>> /\ mloads = {}
          /\ pc' = "foreign"
      BY Zenon, <1>4, L1StartEnds DEF L1Start, placeVars, envVars, Inv, Control, Picking
    <2>2. Total(size', mloads') = 0
      BY Zenon, <2>1, TotalEmpty
    <2>3. ios' = ios' + 0
      BY <1>4, WorkTypesKept DEF WorkTypes
    <2> QED
      BY Zenon, <2>1, <2>2, <2>3 DEF Tracking
  <1>5. CASE L1Foreign /\ pc' = "own"
    <2>1. /\ UNCHANGED <<qdepth, to, mloads, ios, min_lsize, envVars>> /\ pc = "foreign"
          /\ mloads = {} /\ min_lsize = 0
      BY Zenon, <1>5 DEF L1Foreign, Migrate, NextPartition, Inv, Control, Picking
    <2> QED
      BY Zenon, <2>1 DEF Tracking, envVars
  <1>6. ASSUME NEW l \in Loads, L1Pick(l) PROVE Tracking'
    <2>1. /\ UNCHANGED <<qdepth, to, size, fresh, pc>> /\ pc = "own" /\ l \in todo
      BY Zenon, <1>6 DEF L1Pick, placeVars, envVars
    <2>2. l \notin mloads /\ mloads \cap todo = {}
      BY Zenon, <2>1 DEF Tracking
    <2>3. mloads' \cap todo' = {}
      BY Zenon, <1>6, <2>2 DEF L1Pick
    <2>4. ASSUME fresh PROVE ios' = qdepth[to] + Total(size, mloads')
      <3>1. ios = qdepth[to] + Total(size, mloads)
        BY Zenon, <2>1, <2>4 DEF Tracking
      <3>2. CASE UNCHANGED <<ios, mloads>>
        BY Zenon, <3>1, <3>2
      <3>3. CASE ios' = ios + size[l] /\ mloads' = mloads \cup {l}
        <4>1. IsFiniteSet(mloads \cup {l}) /\ (mloads \cup {l}) \ {l} = mloads
          BY <1>1, <2>2, CoresAssumption, FS_Subset
        <4>2. Total(size, mloads \cup {l}) = size[l] + Total(size, mloads)
          BY <1>1, <4>1, TotalRemove
        <4>3. Total(size, mloads) \in Nat
          BY Zenon, <1>1, CoresAssumption, FS_Subset, TotalNat
        <4>4. to \in Cores /\ qdepth[to] \in Nat /\ size[l] \in Nat
          BY Zenon, <1>1, <2>1, StreamsElements
             DEF Inv, Control, Picking, PartStreams, Types, PlaceTypes
        <4> QED
          BY <3>1, <3>3, <4>2, <4>3, <4>4
      <3> QED
        BY Zenon, <1>6, <3>2, <3>3 DEF L1Pick
    <2>5. ASSUME fresh, min_lsize' # 0 PROVE min_lsize' = size[min_load']
      BY Zenon, <1>6, <2>1, <2>5 DEF L1Pick, Tracking
    <2> QED
      BY Zenon, <2>1, <2>3, <2>4, <2>5 DEF Tracking
  <1>7. CASE RebStep
    BY Zenon, <1>3, <1>4, <1>5, <1>6, <1>7, StageSteps
  <1> QED
    BY Zenon, <1>2, <1>7 DEF Next

LEMMA QdepthTracksStep ==
    ASSUME DepthsFit, Inv, Snapshot, Tracking, QdepthTracksLoads, [Next]_vars
    PROVE  QdepthTracksLoads'
  <1>1. /\ PlaceTypes /\ LoadPlacement /\ size \in [Loads -> Nat]
        /\ size \in [Loads -> Sizes \cup {0}]
    BY Zenon DEF Inv, Types, EnvTypes, Snapshot
  <1>2. CASE fresh' = FALSE
    BY Zenon, <1>2 DEF QdepthTracksLoads
  <1>3. CASE UpdateStat
    BY Zenon, <1>3 DEF UpdateStat, QdepthTracksLoads, abtst_update_streams_stat, get_stream_ios
  <1>4. ASSUME UNCHANGED <<size, fresh>>, fresh, ~UpdateStat
        PROVE  \A c \in Cores : qdepth'[c] = Total(size, load_q'[c])
    <2>1. \A c \in Cores : qdepth[c] = Total(size, load_q[c])
      BY Zenon, <1>4 DEF QdepthTracksLoads, get_stream_ios
    <2>2. CASE UNCHANGED placeVars
      BY Zenon, <2>1, <2>2 DEF placeVars
    <2>3. CASE L3Move \/ L2Move \/ \E c \in Cores : PsMove(c)
      BY Zenon, <1>1, <2>1, <2>3, CombineSteps, CombineExplains
    <2>4. CASE L1Foreign
      <3>1. pc = "foreign"
        BY Zenon, <2>4 DEF L1Foreign
      <3> QED
        BY Zenon, <1>1, <2>1, <2>2, <2>4, <3>1, L1ForeignMoves, MigrateExplains
    <2>5. CASE L1Move
      <3>1. pc = "own"
        BY Zenon, <2>5 DEF L1Move
      <3>2. /\ mloads \in SUBSET load_q[from]
            /\ min_lsize # 0 => {min_load} \in SUBSET load_q[from] /\ min_load \in Loads
        BY Zenon, <3>1, StreamsElements, <1>1 DEF Inv, Control, Picking, PartStreams, PlaceTypes
      <3>3. ASSUME Migrate(mloads, ios - qdepth[to])
            PROVE  \A c \in Cores : qdepth'[c] = Total(size, load_q'[c])
        <4>1. Total(size, mloads) \in Nat /\ qdepth[to] \in Nat
          <5>1. mloads \in SUBSET Loads /\ to \in Cores
            BY Zenon, <3>1, StreamsElements DEF Inv, Types, WorkTypes, Control, Picking, PartStreams
          <5> QED
            BY Zenon, <1>1, <5>1, DepthTypes DEF PlaceTypes, Inv, Types
        <4>2. ios - qdepth[to] = Total(size, mloads)
          BY <1>4, <3>1, <4>1 DEF Tracking
        <4> QED
          BY Zenon, <1>1, <2>1, <3>1, <3>2, <3>3, <4>2, MigrateExplains
      <3>4. ASSUME SmallestGoes, Migrate({min_load}, min_lsize)
            PROVE  \A c \in Cores : qdepth'[c] = Total(size, load_q'[c])
        <4>1. min_lsize # 0 /\ min_lsize = size[min_load]
          BY Zenon, <1>4, <3>1, <3>4 DEF SmallestGoes, Tracking
        <4>2. Total(size, {min_load}) = min_lsize
          BY Zenon, <1>1, <3>2, <4>1, TotalSingleton
        <4> QED
          BY Zenon, <1>1, <2>1, <3>1, <3>2, <3>4, <4>1, <4>2, MigrateExplains
      <3> QED
        BY Zenon, <2>2, <2>5, <3>3, <3>4, L1MoveMoves
    <2> QED
      BY Zenon, <1>4, <2>2, <2>3, <2>4, <2>5, PlaceFrame
  <1>5. UpdateStat \/ fresh' = FALSE \/ UNCHANGED <<size, fresh>>
    <2>1. CASE UNCHANGED envVars \/ UpdateStat \/ ResetStat
      BY Zenon, <2>1 DEF ResetStat, envVars
    <2>2. CASE Environment
      BY Zenon, <2>2 DEF Environment, Land, SizeChange, Sleep
    <2> QED
      BY <2>1, <2>2, EnvFrame, Zenon
  <1>6. CASE UNCHANGED <<size, fresh>> /\ fresh /\ ~UpdateStat
    BY Zenon, <1>4, <1>6 DEF QdepthTracksLoads, get_stream_ios
  <1> QED
    BY <1>2, <1>3, <1>5, <1>6, Zenon DEF Inv, Types, EnvTypes

\* If the queue depths of all loads fit in a uint32_t, then the depths that the
\* levels and power saving add and subtract, over any number of passes, are the
\* ones a new count would give, as long as no load has changed.
THEOREM DepthsTrackLoads ==
    ASSUME DepthsFit
    PROVE  Spec => []QdepthTracksLoads
  <1>1. Init => Snapshot /\ Tracking /\ QdepthTracksLoads
    BY SnapshotInit, Zenon DEF Init, Tracking, QdepthTracksLoads
  <1>2. Inv /\ Snapshot /\ Tracking /\ QdepthTracksLoads /\ [Next]_vars
            => Snapshot' /\ Tracking' /\ QdepthTracksLoads'
    BY Zenon, DepthsFit, SnapshotStep, TrackingStep, QdepthTracksStep
  <1> QED
    BY <1>1, <1>2, InvHolds, PTL DEF Spec

\* Queue depths of loads that were counted at different times fit, too.
LEMMA MixedFits ==
    ASSUME DepthsFit, NEW s \in [Loads -> Sizes \cup {0}], NEW z \in [Loads -> Sizes \cup {0}],
           NEW K \in SUBSET Loads, NEW L \in SUBSET Loads, K \cap L = {}
    PROVE  Total(s, K) + Total(z, L) < Word
  <1> DEFINE mix == [l \in Loads |-> IF l \in L THEN z[l] ELSE s[l]]
  <1>1. mix \in [Loads -> Sizes \cup {0}]
    BY Zenon
  <1>2. IsFiniteSet(K) /\ IsFiniteSet(L) /\ K \cup L \in SUBSET Loads
    BY Zenon, CoresAssumption, FS_Subset
  <1>3. (\A l \in K : mix[l] = s[l]) /\ (\A l \in L : mix[l] = z[l])
    BY Zenon
  <1>4. \A l \in K \cup L : mix[l] \in Nat
    BY <1>1, <1>2, ValuesAssumption, Zenon
  <1> HIDE DEF mix
  <1>5. Total(mix, K) = Total(s, K) /\ Total(mix, L) = Total(z, L)
    BY Zenon, <1>2, <1>3, TotalSame
  <1>6. Total(mix, K \cup L) = Total(mix, K) + Total(mix, L)
    BY Zenon, <1>2, <1>4, TotalUnion
  <1>7. Total(mix, K \cup L) < Word
    BY Zenon, <1>1, <1>2, TotalFits
  <1> QED
    BY Zenon, <1>5, <1>6, <1>7

Bounded == \A c \in Cores : qdepth[c] < Word

LEMMA BoundedStep ==
    ASSUME DepthsFit, Inv, Snapshot, Improving, Bounded, [Next]_vars
    PROVE  Bounded'
  <1>1. /\ PlaceTypes /\ LoadPlacement /\ size \in [Loads -> Sizes \cup {0}]
        /\ load_q \in [Cores -> SUBSET Loads] /\ qdepth \in [Cores -> Nat]
    BY Zenon DEF Inv, Types, PlaceTypes, Snapshot
  <1>2. PICK s \in [Loads -> Sizes \cup {0}] : Explains(s)
    BY Zenon DEF Snapshot
  <1>3. s \in [Loads -> Nat]
    BY <1>2, ValuesAssumption, Zenon
  <1>4. CASE UNCHANGED placeVars
    BY Zenon, <1>4 DEF Bounded, placeVars
  <1>5. CASE UpdateStat
    <2>1. \A c \in Cores : qdepth'[c] = Total(size, load_q[c]) /\ load_q[c] \in SUBSET Loads
      BY Zenon, <1>1, <1>5 DEF UpdateStat, abtst_update_streams_stat, get_stream_ios
    <2>2. \A c \in Cores : qdepth'[c] < Word
      BY Zenon, <1>1, <2>1, TotalFits
    <2> QED
      BY Zenon, <2>2 DEF Bounded
  <1>6. CASE L3Move \/ L2Move \/ \E c \in Cores : PsMove(c)
    <2>1. \A c \in Cores : qdepth[c] = Total(s, load_q[c])
      BY <1>2, <1>6, CombineSteps, Zenon DEF Explains, Unbalanced
    <2>2. \A c \in Cores : qdepth'[c] = Total(s, load_q'[c])
      BY Zenon, <1>1, <1>3, <1>6, <2>1, CombineSteps, CombineExplains
    <2>3. \A c \in Cores : load_q'[c] \in SUBSET Loads
      BY Zenon, PlaceTypesStep DEF PlaceTypes
    <2>4. \A c \in Cores : qdepth'[c] < Word
      BY Zenon, <1>2, <2>2, <2>3, TotalFits
    <2> QED
      BY Zenon, <2>4 DEF Bounded
  <1>7. CASE L1Foreign
    <2>1. /\ pc = "foreign" /\ from \in PartStreams /\ to \in PartStreams /\ from # to
      BY Zenon, <1>7 DEF L1Foreign, Inv, Control, Picking
    <2>2. from \in Cores /\ to \in Cores /\ NumaOf[to] = numa_id /\ part_id[to] = partition_id
      BY <2>1, StreamsElements DEF PartStreams
    <2>3. qdepth[to] = Total(s, load_q[to])
      <3>1. part_id[to] \in Nat
        BY Zenon, <2>2, FiniteParts DEF Inv, Types, LoopTypes
      <3>2. Unbalanced(to)
        BY <2>1, <2>2, <3>1 DEF Unbalanced
      <3> QED
        BY Zenon, <1>2, <2>2, <3>2 DEF Explains
    <2>4. ASSUME NEW L \in SUBSET load_q[from], Migrate(L, Total(size, L))
          PROVE  Bounded'
      <3>1. /\ qdepth'[from] = (qdepth[from] - Total(size, L)) % Word
            /\ qdepth'[to] = qdepth[to] + Total(size, L)
            /\ \A c \in Cores \ {from, to} : qdepth'[c] = qdepth[c]
        BY Zenon, <1>1, <2>1, <2>2, <2>4 DEF Migrate
      <3>2. L \in SUBSET Loads /\ load_q[to] \in SUBSET Loads /\ load_q[to] \cap L = {}
        BY Zenon, <1>1, <2>1, <2>2, ListsDisjoint
      <3>3. qdepth'[to] < Word
        BY <1>1, <1>2, <2>3, <3>1, <3>2, MixedFits
      <3>4. qdepth'[from] < Word
        <4>1. qdepth[from] \in Nat /\ Total(size, L) \in Nat /\ Word \in Nat \ {0}
          BY Zenon, <1>1, <2>2, <3>2, TotalFits, ValuesAssumption
        <4> QED
          BY <3>1, <4>1
      <3> QED
        BY Zenon, <3>1, <3>3, <3>4 DEF Bounded
    <2> QED
      BY Zenon, <1>4, <1>7, <2>4, L1ForeignMoves
  <1>8. CASE L1Move
    <2>1. pc = "own" /\ from \in PartStreams /\ to \in PartStreams
      BY Zenon, <1>8 DEF L1Move, Inv, Control, Picking
    <2>2. from \in Cores /\ to \in Cores
      BY Zenon, <2>1, StreamsElements DEF PartStreams
    <2>3. CASE qdepth' = qdepth
      BY Zenon, <2>3 DEF Bounded
    <2>4. CASE qdepth' # qdepth
      <3>1. qdepth'[from] < qdepth[from] /\ qdepth'[to] < qdepth[from]
        BY Zenon, <2>1, <2>4, OwnMoveImproves
      <3>2. \A c \in Cores \ {from, to} : qdepth'[c] = qdepth[c]
        BY Zenon, <1>1, <1>8 DEF L1Move, Migrate
      <3>3. /\ qdepth[from] \in Nat /\ Word \in Nat /\ qdepth[from] < Word
            /\ \A c \in Cores : qdepth'[c] \in Nat
        BY Zenon, <1>1, <2>2, PlaceTypesStep, ValuesAssumption DEF Bounded, PlaceTypes
      <3>4. qdepth'[from] < Word /\ qdepth'[to] < Word
        BY <2>2, <3>1, <3>3
      <3> QED
        BY Zenon, <3>2, <3>4 DEF Bounded
    <2> QED
      BY Zenon, <2>3, <2>4
  <1> QED
    BY Zenon, <1>4, <1>5, <1>6, <1>7, <1>8, PlaceFrame

\* If the queue depths of all loads fit in a uint32_t, so does the queue depth
\* of every stream in every stage of a pass, whatever changes meanwhile; the
\* other data of the rebalancer keep their types, too.
THEOREM RebalancerTypes ==
    ASSUME DepthsFit
    PROVE  Spec => []TypeOK
  <1>1. Init => Snapshot /\ Improving /\ Bounded
    <2>1. Init => Improving /\ Bounded
      BY ValuesAssumption DEF Init, Improving, Bounded
    <2> QED
      BY Zenon, <2>1, SnapshotInit
  <1>2. Inv /\ Snapshot /\ Improving /\ Bounded /\ [Next]_vars
            => Snapshot' /\ Improving' /\ Bounded'
    BY Zenon, DepthsFit, SnapshotStep, ImprovingStep, BoundedStep
  <1>3. Inv /\ Bounded => TypeOK
    <2> SUFFICES ASSUME Inv, Bounded PROVE TypeOK
      BY Zenon
    <2>1. Types
      BY Zenon DEF Inv
    <2>2. qdepth \in [Cores -> 0..(Word - 1)]
      BY <2>1, ValuesAssumption DEF Types, PlaceTypes, Bounded
    <2> QED
      BY Zenon, <2>1, <2>2 DEF TypeOK, Types, PlaceTypes, EnvTypes, StatTypes, PsTypes, LoopTypes,
                        WorkTypes
  <1> QED
    BY <1>1, <1>2, <1>3, InvHolds, PTL DEF Spec
=============================================================================
