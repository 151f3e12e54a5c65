--------------------------- MODULE RebalanceStats ---------------------------
(***************************************************************************)
(* Proofs about the statistics the rebalancer decides on: when they are    *)
(* right, what the queue depths in them count, what levels 2 and 1 do to   *)
(* them, and when computing them divides by zero.  The definitions below  *)
(* are inductive relative to Inv, the invariant of RebalanceProofs.        *)
(***************************************************************************)
EXTENDS RebalanceProofs

-----------------------------------------------------------------------------
(* What the stages know, besides Inv and StatsCurrent.                     *)

\* Every NUMA has a used core of every partition.
NumasFilled == \A n \in Numas, p \in Parts : StreamsOf(PartMap, n, p) # {}

\* Streams that level 1 has still to balance in this pass.
Unbalanced(c) ==
    \/ pc \in {"level", "ps", "psmove", "l3", "l3move", "l2"}
    \/ /\ pc \in {"l1", "foreign", "own"}
       /\ \/ NumaOf[c] > numa_id
          \/ NumaOf[c] = numa_id /\ part_id[c] >= partition_id

\* Up to level 1, power saving and levels 3 and 2 only carry the queue depths
\* along: they are those of the loads in the lists, with the sizes s the loads
\* had when they were counted.
Explains(s) == \A c \in Cores : Unbalanced(c) => qdepth[c] = Total(s, load_q[c])
Snapshot ==
    /\ size \in [Loads -> Sizes \cup {0}]
    /\ \E s \in [Loads -> Sizes \cup {0}] : Explains(s)

\* While level 1 picks loads, their IOs fill the stream to up to the average
\* at most, which is less than the stream from has.
Improving ==
    pc \in {"foreign", "own"} =>
        /\ PartStat.used_cores > 1
        /\ qdepth[to] < Avg /\ qdepth[from] > Avg
        /\ 2 * qdepth[from] >= 3 * qdepth[to]
        /\ ios <= Avg
        /\ mloads # {} => ios > qdepth[to]

-----------------------------------------------------------------------------
(* The statistics are current when a stage uses them.                      *)

LEMMA StatsCurrentStep ==
    ASSUME Inv, StatsCurrent, [Next]_vars
    PROVE  StatsCurrent'
  <1> DEFINE PStat(pid, q, n, p) == abtst_update_partition_stats(pid, q)[p][n]
  <1>1. /\ PlaceTypes /\ PlaceTypes' /\ LoopTypes /\ Numas \subseteq Nat /\ Parts \subseteq Nat
        /\ numa_id \in Nat /\ partition_id \in Nat
    BY Zenon, PlaceTypesStep, FiniteParts DEF Inv, Types, LoopTypes
  <1>2. ASSUME part_id' = part_id, qdepth' = qdepth, UNCHANGED <<numa_stats, numa_stat>>,
               \A n \in Numas, p \in Parts : Pending(n, p)' => Pending(n, p),
               pc' \in {"level", "ps", "l3", "l2"} => pc \in {"level", "ps", "l3", "l2"}
        PROVE  StatsCurrent'
    BY Zenon, <1>2 DEF StatsCurrent
  <1>3. CASE UNCHANGED <<placeVars, statVars, psVars, loopVars, workVars, pc, level>>
    BY Zenon, <1>2, <1>3 DEF placeVars, statVars, loopVars, Pending
  <1>4. ASSUME part_id' = part_id, qdepth' = qdepth,
               numa_stats' = abtst_update_partition_stats(part_id, qdepth),
               numa_stat' = abtst_update_numa_stats(qdepth)
        PROVE  StatsCurrent'
    BY Zenon, <1>4 DEF StatsCurrent
  <1>5. CASE UpdateStat
    BY Zenon, <1>5 DEF UpdateStat, StatsCurrent
  <1>6. CASE pc' \in {"psmove", "l3move", "reset", "stat", "trap"}
    BY Zenon, <1>6 DEF StatsCurrent, Pending
  <1>7. CASE ReadLevel
    BY Zenon, <1>2, <1>7 DEF ReadLevel, placeVars, statVars, loopVars, Pending
  <1>8. CASE PsKeep \/ PsWake \/ L3Keep
    BY <1>2, <1>8, Zenon DEF PsKeep, PsWake, L3Keep, placeVars, statVars, loopVars, Pending
  <1>9. CASE PsSleep
    BY Zenon, <1>4, <1>6, <1>9 DEF PsSleep, RefreshStats, placeVars
  <1>10. CASE PsSlept \/ L3End
    BY Zenon, <1>4, <1>10 DEF PsSlept, L3End, RefreshStats, placeVars
  <1>11. CASE L2Keep
    BY Zenon, <1>2, <1>11 DEF L2Keep, NextNuma, placeVars, statVars, Pending
  <1>12. CASE L2Move
    <2>1. PICK f, t \in Cores, p \in Parts : CoreGiven(f, t, p) /\ abtst_combine_streams(f, t)
      BY Zenon, <1>12, L2MoveMoves
    <2>2. /\ numa_stats' = abtst_update_partition_stats(part_id', qdepth')
          /\ numa_stat' = numa_stat /\ pc = "l2"
      BY Zenon, <1>12 DEF L2Move
    <2>3. \A n \in Numas : Total(qdepth', CoresIn(n)) = Total(qdepth, CoresIn(n))
      <3> SUFFICES ASSUME NEW n \in Numas
                   PROVE  Total(qdepth', CoresIn(n)) = Total(qdepth, CoresIn(n))
        BY Zenon
      <3>1. CoresIn(n) \in SUBSET Cores /\ (f \in CoresIn(n) <=> t \in CoresIn(n)) /\ f # t
        BY Zenon, <2>1 DEF CoresIn, CoreGiven
      <3> QED
        BY Zenon, <1>1, <2>1, <3>1, CombineTotal
    <2>4. abtst_update_numa_stats(qdepth') = abtst_update_numa_stats(qdepth)
      BY Zenon, <2>3 DEF abtst_update_numa_stats
    <2> QED
      BY Zenon, <2>2, <2>4 DEF StatsCurrent
  <1>13. NextPartition => /\ pc' \in {"l1", "reset"}
                          /\ \A n \in Numas, p \in Parts :
                               Pending(n, p)' =>
                                 n > numa_id \/ (n = numa_id /\ p > partition_id)
    BY Zenon, NextPartitionLater DEF Inv, Types
  <1>14. ASSUME pc \in {"l1", "foreign", "own"}, NextPartition, part_id' = part_id,
                qdepth' = qdepth, UNCHANGED <<numa_stats, numa_stat>>
         PROVE  StatsCurrent'
    <2>1. \A n \in Numas, p \in Parts : Pending(n, p)' => Pending(n, p)
      <3> SUFFICES ASSUME NEW n \in Numas, NEW p \in Parts, Pending(n, p)'
                   PROVE  Pending(n, p)
        BY Zenon
      <3>1. n > numa_id \/ (n = numa_id /\ p > partition_id)
        BY Zenon, <1>13, <1>14
      <3> QED
        BY <1>1, <1>14, <3>1 DEF Pending
    <2>2. pc' \in {"l1", "reset"}
      BY Zenon, <1>13, <1>14
    <2> QED
      BY Zenon, <1>2, <1>14, <2>1, <2>2
  <1>15. ASSUME pc \in {"foreign", "own"}, NEW L, NEW k, Migrate(L, k), part_id' = part_id,
                UNCHANGED <<numa_stats, numa_stat>>
         PROVE  StatsCurrent'
    <2>1. NextPartition /\ from \in PartStreams /\ to \in PartStreams
      BY Zenon, <1>15 DEF Migrate, Inv, Control, Picking
    <2>2. ASSUME NEW n \in Numas, NEW p \in Parts, Pending(n, p)'
          PROVE  numa_stats'[p][n] = PStat(part_id', qdepth', n, p)
      <3>1. n > numa_id \/ (n = numa_id /\ p > partition_id)
        BY Zenon, <1>13, <2>1, <2>2
      <3>2. Pending(n, p)
        BY <1>1, <1>15, <3>1 DEF Pending
      <3>3. n # numa_id \/ p # partition_id
        BY <1>1, <3>1
      <3>4. /\ from \notin StreamsOf(part_id, n, p) /\ to \notin StreamsOf(part_id, n, p)
            /\ StreamsOf(part_id, n, p) \in SUBSET Cores
        BY <2>1, <3>3, StreamsElements DEF PartStreams
      <3>5. Total(qdepth', StreamsOf(part_id, n, p)) = Total(qdepth, StreamsOf(part_id, n, p))
        BY Zenon, <1>1, <1>15, <3>4, MigrateTotal
      <3>6. PStat(part_id', qdepth', n, p) = PStat(part_id, qdepth, n, p)
        BY Zenon, <1>15, <3>5 DEF abtst_update_partition_stats
      <3>7. numa_stats[p][n] = PStat(part_id, qdepth, n, p)
        BY Zenon, <3>2 DEF StatsCurrent
      <3> QED
        BY Zenon, <1>15, <3>6, <3>7
    <2>3. pc' \in {"l1", "reset"}
      BY Zenon, <1>13, <2>1
    <2> QED
      BY Zenon, <2>2, <2>3 DEF StatsCurrent
  <1>16. CASE L1Keep
    BY Zenon, <1>14, <1>16 DEF L1Keep, placeVars, statVars
  <1>17. CASE L1Start \/ \E l \in Loads : L1Pick(l)
    BY Zenon, <1>2, <1>17 DEF L1Start, L1Pick, placeVars, statVars, loopVars, Pending
  <1>18. CASE L1Foreign
    <2>1. CASE /\ pc' = "own" /\ UNCHANGED <<qdepth, loopVars>>
      BY Zenon, <1>2, <1>18, <2>1 DEF L1Foreign, statVars, loopVars, Pending
    <2>2. CASE \E L, k : Migrate(L, k)
      BY Zenon, <1>15, <1>18, <2>2 DEF L1Foreign, statVars
    <2> QED
      BY Zenon, <1>18, <2>1, <2>2 DEF L1Foreign
  <1>19. CASE L1Move
    <2>1. CASE \E L, k : Migrate(L, k)
      BY Zenon, <1>15, <1>19, <2>1 DEF L1Move, statVars
    <2>2. CASE NextPartition /\ UNCHANGED qdepth
      BY Zenon, <1>14, <1>19, <2>2 DEF L1Move, statVars
    <2> QED
      BY Zenon, <1>19, <2>1, <2>2 DEF L1Move
  <1>20. CASE RebStep
    BY Zenon, <1>5, <1>6, <1>7, <1>8, <1>9, <1>10, <1>11, <1>12, <1>16, <1>17, <1>18, <1>19, <1>20
       DEF RebStep, TrapInStat, ResetStat, PsMove, L3Start, L3StartAmong, L3Move, TrapInSort
  <1> QED
    BY Zenon, <1>3, <1>20, OutsideSteps DEF Next

\* Each stage of a pass, power saving, level 3, 2 and 1, decides on statistics
\* that describe the queue depths and the partitions as they are then.
THEOREM StagesSeeCurrentStats == Spec => []StatsCurrent
  <1>1. Init => StatsCurrent
    BY Zenon DEF Init, StatsCurrent, Pending
  <1>2. Inv /\ StatsCurrent /\ [Next]_vars => StatsCurrent'
    BY Zenon, StatsCurrentStep
  <1> QED
    BY <1>1, <1>2, InvHolds, PTL DEF Spec

-----------------------------------------------------------------------------
(* The queue depths that the stages maintain.                              *)

\* A pass goes on to the next stream and never back.
LEMMA UnbalancedShrinks ==
    ASSUME Inv, [Next]_vars, ~UpdateStat, part_id' = part_id,
           NEW c \in Cores, Unbalanced(c)'
    PROVE  Unbalanced(c)
  <1>1. CASE pc \in {"level", "ps", "psmove", "l3", "l3move", "l2"}
    BY Zenon, <1>1 DEF Unbalanced
  <1>2. CASE UNCHANGED <<loopVars, pc>>
    BY Zenon, <1>2 DEF Unbalanced, loopVars
  <1>3. LoopTypes /\ NumaOf[c] \in Numas /\ part_id[c] \in Parts
    BY Zenon, CoresAssumption DEF Inv, Types, PlaceTypes
  <1>4. CASE pc \in {"l1", "foreign", "own"} /\ NextPartition
    <2>1. pc' \in {"l1", "reset"}
      BY Zenon, <1>3, <1>4, NextPartitionLater
    <2>2. Pending(NumaOf[c], part_id[c])'
      BY Zenon, <2>1 DEF Unbalanced, Pending
    <2>3. \/ NumaOf[c] > numa_id
          \/ NumaOf[c] = numa_id /\ part_id[c] > partition_id
      BY Zenon, <1>3, <1>4, <2>2, NextPartitionLater
    <2>4. partition_id \in Nat /\ part_id[c] \in Nat
      BY <1>3, FiniteParts, Zenon DEF LoopTypes
    <2> QED
      BY <1>4, <2>3, <2>4 DEF Unbalanced
  <1>5. CASE RebStep /\ pc \in {"l1", "foreign", "own"}
    <2>1. L1Keep \/ L1Start \/ L1Foreign \/ L1Move \/ \E l \in Loads : L1Pick(l)
      BY Zenon, <1>5, StageActions
    <2>2. NextPartition \/ (UNCHANGED loopVars /\ pc' \in {"foreign", "own"})
      BY <2>1, Zenon DEF L1Keep, L1Start, L1Foreign, L1Move, L1Pick, Migrate
    <2> QED
      BY Zenon, <1>4, <1>5, <2>2 DEF Unbalanced, loopVars
  <1>6. CASE RebStep /\ pc \in {"stat", "reset"}
    <2>1. pc' \in {"stat", "trap"}
      BY <1>6, StageActions, Zenon DEF TrapInStat, ResetStat
    <2> QED
      BY Zenon, <2>1 DEF Unbalanced
  <1>7. CASE RebStep
    BY Zenon, <1>1, <1>3, <1>5, <1>6, <1>7, StageSteps DEF LoopTypes, PCs
  <1> QED
    BY Zenon, <1>2, <1>7, OutsideSteps DEF Next

\* Level 1 changes the lists and queue depths of two streams of the partition
\* it balances, and goes on.
LEMMA MigrateElsewhere ==
    ASSUME Inv, pc \in {"foreign", "own"}, NEW L, NEW n, Migrate(L, n), part_id' = part_id,
           NEW c \in Cores, Unbalanced(c)'
    PROVE  /\ load_q'[c] = load_q[c] /\ qdepth'[c] = qdepth[c]
           /\ Unbalanced(c)
  <1>1. LoopTypes /\ NumaOf[c] \in Numas /\ part_id[c] \in Parts
    BY Zenon, CoresAssumption DEF Inv, Types, PlaceTypes
  <1>2. NextPartition
    BY Zenon DEF Migrate
  <1>3. pc' \in {"l1", "reset"}
    BY Zenon, <1>1, <1>2, NextPartitionLater
  <1>4. Pending(NumaOf[c], part_id[c])'
    BY Zenon, <1>3 DEF Unbalanced, Pending
  <1>5. \/ NumaOf[c] > numa_id
        \/ NumaOf[c] = numa_id /\ part_id[c] > partition_id
    BY Zenon, <1>1, <1>2, <1>4, NextPartitionLater
  <1>6. /\ partition_id \in Nat /\ part_id[c] \in Nat /\ numa_id \in Nat /\ NumaOf[c] \in Nat
    BY <1>1, FiniteParts, Zenon DEF LoopTypes
  <1>7. from \in PartStreams /\ to \in PartStreams
    BY Zenon DEF Inv, Control, Picking
  <1>8. c # from /\ c # to
    BY <1>5, <1>6, <1>7, StreamsElements DEF PartStreams
  <1>9. load_q'[c] = load_q[c] /\ qdepth'[c] = qdepth[c]
    BY Zenon, <1>8 DEF Migrate, MoveLoads, Inv, Types, PlaceTypes
  <1> QED
    BY <1>5, <1>6, <1>9 DEF Unbalanced

LEMMA SnapshotStep ==
    ASSUME Inv, Snapshot, [Next]_vars
    PROVE  Snapshot'
  <1>1. PlaceTypes /\ LoadPlacement
    BY Zenon DEF Inv, Types
  <1>2. size' \in [Loads -> Sizes \cup {0}]
    <2>1. CASE UNCHANGED envVars \/ UpdateStat \/ ResetStat
      BY Zenon, <2>1 DEF Snapshot, UpdateStat, ResetStat, envVars
    <2>2. CASE Environment
      BY <2>2, Zenon DEF Environment, Land, SizeChange, Sleep, Snapshot
    <2> QED
      BY Zenon, <2>1, <2>2, EnvFrame
  <1>3. PICK s \in [Loads -> Sizes \cup {0}] : Explains(s)
    BY Zenon DEF Snapshot
  <1>4. s \in [Loads -> Nat]
    BY <1>3, ValuesAssumption, Zenon
  <1>5. ASSUME Explains(s)' PROVE Snapshot'
    BY Zenon, <1>2, <1>3, <1>5 DEF Snapshot
  <1>6. CASE UNCHANGED placeVars /\ ~UpdateStat
    <2>1. UNCHANGED <<part_id, load_q, qdepth>>
      BY Zenon, <1>6 DEF placeVars
    <2>2. \A c \in Cores : Unbalanced(c)' => Unbalanced(c)
      BY Zenon, <1>6, <2>1, UnbalancedShrinks
    <2>3. \A c \in Cores : Unbalanced(c)' => qdepth'[c] = Total(s, load_q'[c])
      BY Zenon, <1>3, <2>1, <2>2 DEF Explains
    <2> QED
      BY Zenon, <1>5, <2>3 DEF Explains
  <1>7. CASE UpdateStat
    <2>1. qdepth' = [c \in Cores |-> Total(size, load_q[c])] /\ UNCHANGED <<size, load_q>>
      BY Zenon, <1>7 DEF UpdateStat, abtst_update_streams_stat, get_stream_ios
    <2>2. \A c \in Cores : qdepth'[c] = Total(size', load_q'[c])
      BY Zenon, <2>1
    <2>3. \E z \in [Loads -> Sizes \cup {0}] :
            \A c \in Cores : qdepth'[c] = Total(z, load_q'[c])
      BY Zenon, <1>2, <2>2
    <2> QED
      BY Zenon, <1>2, <2>3 DEF Snapshot, Explains
  <1>8. CASE L3Move \/ L2Move \/ \E c \in Cores : PsMove(c)
    <2>1. \A c \in Cores : qdepth[c] = Total(s, load_q[c])
      BY Zenon, <1>3, <1>8, CombineSteps DEF Explains, Unbalanced
    <2>2. \A c \in Cores : qdepth'[c] = Total(s, load_q'[c])
      BY Zenon, <1>1, <1>4, <1>8, <2>1, CombineSteps, CombineExplains
    <2> QED
      BY Zenon, <1>5, <2>2 DEF Explains
  <1>9. CASE L1Foreign \/ L1Move
    <2>1. part_id' = part_id /\ pc \in {"foreign", "own"} /\ ~UpdateStat
      BY Zenon, <1>9 DEF L1Foreign, L1Move, UpdateStat
    <2>2. CASE UNCHANGED placeVars
      BY Zenon, <1>6, <2>1, <2>2
    <2>3. ASSUME NEW L, NEW n, Migrate(L, n) PROVE Snapshot'
      <3>1. \A c \in Cores : Unbalanced(c)' => qdepth'[c] = Total(s, load_q'[c])
        BY <1>3, <2>1, <2>3, MigrateElsewhere, Zenon DEF Explains
      <3> QED
        BY Zenon, <1>5, <3>1 DEF Explains
    <2> QED
      BY Zenon, <1>9, <2>2, <2>3, L1ForeignMoves, L1MoveMoves
  <1> QED
    BY Zenon, <1>6, <1>7, <1>8, <1>9, PlaceFrame

LEMMA SnapshotInit == Init => Snapshot
  <1> SUFFICES ASSUME Init PROVE Snapshot
    BY Zenon
  <1>1. size \in [Loads -> Sizes \cup {0}] /\ pc = "stat"
    BY Zenon DEF Init
  <1>2. Explains(size)
    BY Zenon, <1>1 DEF Explains, Unbalanced
  <1> QED
    BY Zenon, <1>1, <1>2 DEF Snapshot

\* Before level 1, a stream that has no load has no queue depth either.
LEMMA EmptyIdle ==
    ASSUME Snapshot, pc \in {"level", "ps", "psmove", "l3", "l3move", "l2"},
           NEW c \in Cores, load_q[c] = {}
    PROVE  qdepth[c] = 0
  BY Zenon, TotalEmpty DEF Snapshot, Explains, Unbalanced

-----------------------------------------------------------------------------
(* Level 2 does not invert the order of two partitions.                    *)

\* Level 2 leaves the queue depths of both partitions, and one core changes.
LEMMA CoreGivenStats ==
    ASSUME Inv, Snapshot, pc = "l2", NEW f \in Cores, NEW t \in Cores, NEW q \in Parts,
           CoreGiven(f, t, q), abtst_combine_streams(f, t), q # part_id[f], PlaceTypes',
           NEW n, n = NumaOf[f], NEW p, p = part_id[f]
    PROVE  /\ Total(qdepth', StreamsOf(part_id', n, p)) = Total(qdepth, StreamsOf(part_id, n, p))
           /\ Total(qdepth', StreamsOf(part_id', n, q)) = Total(qdepth, StreamsOf(part_id, n, q))
           /\ Cardinality(StreamsOf(part_id', n, p)) = Cardinality(StreamsOf(part_id, n, p)) - 1
           /\ Cardinality(StreamsOf(part_id', n, q)) = Cardinality(StreamsOf(part_id, n, q)) + 1
  <1>1. PICK Sp, Sq, Tp, Tq :
           /\ Sp = StreamsOf(part_id, n, p) /\ Sq = StreamsOf(part_id, n, q)
           /\ Tp = StreamsOf(part_id', n, p) /\ Tq = StreamsOf(part_id', n, q)
    BY Zenon
  <1>2. /\ PlaceTypes /\ f # t /\ part_id[t] = p /\ NumaOf[t] = n
        /\ part_id' = [part_id EXCEPT ![f] = q] /\ part_id \in [Cores -> Parts]
        /\ \A c \in Cores : qdepth'[c] \in Nat
    BY Zenon DEF CoreGiven, Inv, Types, PlaceTypes
  <1>3. qdepth'[f] = 0
    BY Zenon, <1>2, CombineDepths, EmptyIdle
  <1>4. Tp = Sp \ {f} /\ Tq = Sq \cup {f}
    BY Zenon, <1>1, <1>2 DEF StreamsOf, CoresIn
  <1>5. /\ f \in Sp /\ t \in Sp /\ f \notin Sq /\ t \notin Sq
        /\ Sp \in SUBSET Cores /\ Sq \in SUBSET Cores
    BY <1>1, <1>2, StreamsElements
  <1>6. f \in Tq /\ Tq \ {f} = Sq /\ Tq \in SUBSET Cores
    BY Zenon, <1>4, <1>5
  <1>7. IsFiniteSet(Sp) /\ IsFiniteSet(Sq) /\ IsFiniteSet(Tq) /\ IsFiniteSet(Tp)
    BY Zenon, <1>1, FiniteParts
  <1>8. Total(qdepth', Tp) = Total(qdepth, Sp)
    <2>1. Total(qdepth', Sp) = Total(qdepth, Sp)
      BY Zenon, <1>2, <1>5, CombineTotal
    <2>2. Total(qdepth', Sp) = qdepth'[f] + Total(qdepth', Tp)
      BY <1>2, <1>4, <1>5, <1>7, TotalRemove
    <2>3. Total(qdepth', Tp) \in Nat
      BY Zenon, <1>2, <1>4, <1>5, <1>7, TotalNat
    <2> QED
      BY <1>3, <2>1, <2>2, <2>3
  <1>9. Total(qdepth', Tq) = Total(qdepth, Sq)
    <2>1. Total(qdepth', Sq) = Total(qdepth, Sq)
      BY Zenon, <1>2, <1>5, CombineTotal
    <2>2. Total(qdepth', Tq) = qdepth'[f] + Total(qdepth', Sq)
      BY <1>2, <1>6, <1>7, TotalRemove
    <2>3. Total(qdepth', Sq) \in Nat
      BY Zenon, <1>2, <1>5, <1>7, TotalNat
    <2> QED
      BY <1>3, <2>1, <2>2, <2>3
  <1>10. Cardinality(Tp) = Cardinality(Sp) - 1
    BY Zenon, <1>4, <1>5, <1>7, FS_RemoveElement
  <1>11. Cardinality(Tq) = Cardinality(Sq) + 1
    BY Zenon, <1>4, <1>5, <1>7, FS_AddElement
  <1> QED
    BY Zenon, <1>1, <1>8, <1>9, <1>10, <1>11

\* The statistics of the two partitions before level 2 gives the core f to q,
\* and after it.
LEMMA CoreGivenCounts ==
    ASSUME Inv, StatsCurrent, Snapshot, PlaceTypes', L2Move,
           NEW f \in Cores, NEW t \in Cores, NEW n \in Numas, NEW p \in Parts, NEW q \in Parts,
           CoreGiven(f, t, q), abtst_combine_streams(f, t),
           p = part_id[f], n = NumaOf[f], p # q
    PROVE  /\ numa_stats'[p][n].qdepth = numa_stats[p][n].qdepth
           /\ numa_stats'[p][n].used_cores = numa_stats[p][n].used_cores - 1
           /\ numa_stats'[q][n].qdepth = numa_stats[q][n].qdepth
           /\ numa_stats'[q][n].used_cores = numa_stats[q][n].used_cores + 1
  <1>1. /\ pc = "l2" /\ numa_stats' = abtst_update_partition_stats(part_id', qdepth')
        /\ qdepth \in [Cores -> Nat] /\ qdepth' \in [Cores -> Nat]
    BY Zenon DEF L2Move, Inv, Types, PlaceTypes
  <1>2. ASSUME NEW r \in Parts
        PROVE  /\ numa_stats[r][n].qdepth = Total(qdepth, StreamsOf(part_id, n, r))
               /\ numa_stats[r][n].used_cores = Cardinality(StreamsOf(part_id, n, r))
    <2>1. numa_stats[r][n] = abtst_update_partition_stats(part_id, qdepth)[r][n]
      BY Zenon, <1>1 DEF StatsCurrent, Pending
    <2> QED
      BY <1>1, <2>1, PartStats
  <1>3. ASSUME NEW r \in Parts
        PROVE  /\ numa_stats'[r][n].qdepth = Total(qdepth', StreamsOf(part_id', n, r))
               /\ numa_stats'[r][n].used_cores = Cardinality(StreamsOf(part_id', n, r))
    BY <1>1, PartStats
  <1>4. /\ Total(qdepth', StreamsOf(part_id', n, p)) = Total(qdepth, StreamsOf(part_id, n, p))
        /\ Total(qdepth', StreamsOf(part_id', n, q)) = Total(qdepth, StreamsOf(part_id, n, q))
        /\ Cardinality(StreamsOf(part_id', n, p)) = Cardinality(StreamsOf(part_id, n, p)) - 1
        /\ Cardinality(StreamsOf(part_id', n, q)) = Cardinality(StreamsOf(part_id, n, q)) + 1
    BY <1>1, CoreGivenStats
  <1> QED
    BY <1>2, <1>3, <1>4

LEMMA CoreGivenOrder ==
    ASSUME Inv, StatsCurrent, Snapshot, PlaceTypes', L2Move,
           NEW c \in Cores, NEW p \in Parts, NEW q \in Parts,
           p # q, part_id[c] = p, part_id'[c] = q
    PROVE  PartAvg(NumaOf[c], p)' <= PartAvg(NumaOf[c], q)'
  <1>1. PICK f, t \in Cores, r \in Parts :
           /\ CoreGiven(f, t, r) /\ abtst_combine_streams(f, t)
           /\ r # part_id[f] /\ NumaOf[f] = numa_id
           /\ CanGive(numa_id, part_id[f]) /\ NeedsCore(numa_id, r)
    BY Zenon, L2MoveMoves
  <1>2. c = f /\ r = q
    <2>1. part_id \in [Cores -> Parts] /\ part_id' = [part_id EXCEPT ![f] = r]
      BY Zenon, <1>1 DEF CoreGiven, Inv, Types, PlaceTypes
    <2> QED
      BY Zenon, <2>1
  <1>3. PICK n \in Numas : n = NumaOf[c] /\ n = numa_id
    BY Zenon, <1>1, <1>2, CoresAssumption
  <1>4. PICK a, i, b, j, z \in Nat :
           /\ a = numa_stats[p][n].qdepth /\ i = numa_stats[p][n].used_cores
           /\ b = numa_stats[q][n].qdepth /\ j = numa_stats[q][n].used_cores
           /\ z = AvgQdepth(n)
    <2>1. \A o \in Parts : numa_stats[o][n] \in [used_cores : Nat, qdepth : Nat]
      BY DEF Inv, Types, StatTypes
    <2>2. AvgQdepth(n) \in Nat
      BY DEF Inv, Types, StatTypes, AvgQdepth
    <2>3. /\ numa_stats[p][n].qdepth \in Nat /\ numa_stats[p][n].used_cores \in Nat
          /\ numa_stats[q][n].qdepth \in Nat /\ numa_stats[q][n].used_cores \in Nat
      BY <2>1
    <2> QED
      BY Zenon, <2>2, <2>3
  <1>5. i > 1 /\ a \div (i - 1) <= z /\ b \div (j + 1) >= z
    BY Zenon, <1>1, <1>2, <1>3, <1>4 DEF CanGive, NeedsCore
  <1>6. /\ numa_stats'[p][n].qdepth = a /\ numa_stats'[p][n].used_cores = i - 1
        /\ numa_stats'[q][n].qdepth = b /\ numa_stats'[q][n].used_cores = j + 1
    BY <1>1, <1>2, <1>3, <1>4, CoreGivenCounts
  <1>7. PartAvg(n, p)' = Quot(a, i - 1) /\ PartAvg(n, q)' = Quot(b, j + 1)
    BY <1>6, Zenon DEF PartAvg
  <1>8. Quot(a, i - 1) <= Quot(b, j + 1)
    BY Zenon, <1>5, AverageBetween
  <1> QED
    BY Zenon, <1>3, <1>7, <1>8

\* For every placement of the loads and every choice of the core: the partition
\* that gives a core away has no greater average afterwards than the one that
\* gets it, so the core is not given back for the same queue depths.
THEOREM GivenCoresKeepOrder == Spec => L2KeepsOrder
  <1> DEFINE Step == \A c \in Cores, p, q \in Parts :
                        p # q /\ part_id[c] = p /\ part_id'[c] = q =>
                            PartAvg(NumaOf[c], p)' <= PartAvg(NumaOf[c], q)'
  <1>1. Init => StatsCurrent /\ Snapshot
    BY Zenon, SnapshotInit DEF Init, StatsCurrent, Pending
  <1>2. Inv /\ StatsCurrent /\ Snapshot /\ [Next]_vars => StatsCurrent' /\ Snapshot'
    BY Zenon, StatsCurrentStep, SnapshotStep
  <1>3. Inv /\ StatsCurrent /\ Snapshot /\ [Next]_vars => [Step]_vars
    BY Zenon, PartFrame, PlaceTypesStep, CoreGivenOrder
  <1> QED
    BY <1>1, <1>2, <1>3, InvHolds, PTL DEF Spec, L2KeepsOrder

-----------------------------------------------------------------------------
(* No division by zero.                                                    *)

\* The two divisions that may trap.
LEMMA TrapSteps ==
    ASSUME RebStep, pc' = "trap"
    PROVE  TrapInStat \/ TrapInSort
  <1>1. ~ReadLevel
    BY ValuesAssumption DEF ReadLevel
  <1>2. NextPartition => pc' \in {"l1", "reset"}
    BY Zenon DEF NextPartition
  <1>3. NextNuma => pc' \in {"l1", "l2"}
    BY Zenon DEF NextNuma
  <1>4. ~(L2Keep \/ L2Move)
    BY <1>3, Zenon DEF L2Keep, L2Move
  <1>5. ~(L1Keep \/ L1Start \/ L1Foreign \/ L1Move \/ \E l \in Loads : L1Pick(l))
    BY <1>2, Zenon DEF L1Keep, L1Start, L1Foreign, L1Move, L1Pick, Migrate
  <1> QED
    BY <1>1, <1>4, <1>5, Zenon
       DEF RebStep, UpdateStat, ResetStat, PsKeep, PsSleep, PsSlept, PsWake, PsMove,
           L3Keep, L3Start, L3StartAmong, L3Move, L3End

\* Every NUMA keeps a core of every partition: the stream that gets the loads
\* of the core that level 2 gives away stays.
Filled == \A n \in Numas, p \in Parts : StreamsOf(part_id, n, p) # {}

LEMMA FilledStep ==
    ASSUME Inv, Filled, [Next]_vars
    PROVE  Filled'
  <1>1. CASE part_id' = part_id
    BY Zenon, <1>1 DEF Filled
  <1>2. CASE L2Move
    <2>1. PICK f, t \in Cores, p \in Parts : CoreGiven(f, t, p)
      BY Zenon, <1>2, L2MoveMoves
    <2>2. part_id \in [Cores -> Parts] /\ f # t /\ part_id' = [part_id EXCEPT ![f] = p]
      BY Zenon, <2>1 DEF CoreGiven, Inv, Types, PlaceTypes
    <2> SUFFICES ASSUME NEW n \in Numas, NEW q \in Parts
                 PROVE  StreamsOf(part_id', n, q) # {}
      BY Zenon DEF Filled
    <2>3. PICK c : c \in StreamsOf(part_id, n, q)
      BY Zenon DEF Filled
    <2>4. CASE c # f
      <3>1. c \in Cores /\ NumaOf[c] = n /\ part_id'[c] = q
        BY <2>2, <2>3, <2>4, StreamsElements
      <3>2. c \in StreamsOf(part_id', n, q)
        BY Zenon, <3>1, StreamsElements
      <3> QED
        BY Zenon, <3>2
    <2>5. CASE c = f
      <3>1. NumaOf[t] = n /\ part_id'[t] = q
        BY <2>1, <2>2, <2>3, <2>5, StreamsElements DEF CoreGiven
      <3>2. t \in StreamsOf(part_id', n, q)
        BY Zenon, <3>1, StreamsElements
      <3> QED
        BY Zenon, <3>2
    <2> QED
      BY Zenon, <2>4, <2>5
  <1>3. UNCHANGED placeVars => part_id' = part_id
    BY Zenon DEF placeVars
  <1>4. UpdateStat \/ L3Move \/ L1Foreign \/ L1Move \/ (\E c \in Cores : PsMove(c))
            => part_id' = part_id
    BY Zenon DEF UpdateStat, L3Move, L1Foreign, L1Move, PsMove
  <1> QED
    BY Zenon, <1>1, <1>2, <1>3, <1>4, PlaceFrame

\* If every NUMA has a used core of every partition to begin with, neither the
\* average of a NUMA nor that of a partition in a NUMA ever divides by zero, in
\* whatever order level 2 moves cores.
THEOREM FilledNeverTraps ==
    ASSUME NumasFilled
    PROVE  Spec => []NeverTraps
  <1>1. Init => Filled /\ NeverTraps
    BY NumasFilled, Zenon DEF Init, Filled, NeverTraps, NumasFilled
  <1>2. Inv /\ Filled /\ NeverTraps /\ [Next]_vars => Filled' /\ NeverTraps'
    <2> SUFFICES ASSUME Inv, Filled, NeverTraps, [Next]_vars
                 PROVE  Filled' /\ NeverTraps'
      BY Zenon
    <2>1. ~TrapInStat
      <3>1. \A n \in Numas : StreamsOf(part_id, n, 0) # {}
        BY Zenon, FiniteParts DEF Filled
      <3>2. \A n \in Numas : CoresIn(n) # {}
        BY Zenon, <3>1 DEF StreamsOf
      <3> QED
        BY Zenon, <3>2 DEF TrapInStat
    <2>2. ~TrapInSort
      <3> SUFFICES ASSUME pc = "l2", NEW p \in Parts,
                          numa_stats[p][numa_id].used_cores = 0
                   PROVE  FALSE
        BY Zenon DEF TrapInSort
      <3>1. numa_id \in Numas
        BY Zenon DEF Inv, Types, LoopTypes
      <3>2. Cardinality(StreamsOf(part_id, numa_id, p)) = 0
        BY Zenon, <3>1 DEF Inv, Control, CoresCounted
      <3>3. StreamsOf(part_id, numa_id, p) = {}
        BY Zenon, <3>2, FiniteParts, FS_EmptySet
      <3> QED
        BY Zenon, <3>1, <3>3 DEF Filled
    <2>3. RebStep => NeverTraps'
      BY Zenon, <2>1, <2>2, TrapSteps DEF NeverTraps
    <2>4. ~RebStep => NeverTraps'
      BY Zenon, OutsideSteps DEF Next, NeverTraps
    <2> QED
      BY Zenon, <2>3, <2>4, FilledStep
  <1> QED
    BY <1>1, <1>2, InvHolds, PTL DEF Spec

-----------------------------------------------------------------------------
(* Level 1 lowers the greater queue depth.                                 *)

LEMMA ImprovingStep ==
    ASSUME Inv, Improving, [Next]_vars
    PROVE  Improving'
  <1>1. /\ ios \in Nat /\ mloads \subseteq Loads /\ size \in [Loads -> Nat]
        /\ todo \subseteq Cores \cup Loads
    BY Zenon DEF Inv, Types, WorkTypes, EnvTypes
  <1>2. CASE UNCHANGED <<placeVars, statVars, psVars, loopVars, workVars, pc, level>>
    BY Zenon, <1>2 DEF Improving, PartStat, Avg, placeVars, statVars, loopVars, workVars
  <1>3. CASE pc' \notin {"foreign", "own"}
    BY Zenon, <1>3 DEF Improving
  <1>4. CASE L1Start
    <2>1. /\ ios' = qdepth[to'] /\ Avg \in Nat /\ PartStat.used_cores > 1
          /\ qdepth[to'] < Avg /\ qdepth[from'] > Avg
          /\ 2 * qdepth[from'] >= 3 * qdepth[to']
      BY Zenon, <1>4, L1StartEnds
    <2>2. /\ UNCHANGED <<placeVars, statVars, loopVars, mloads>> /\ mloads = {}
      BY Zenon, <1>4 DEF L1Start, Inv, Control, Picking
    <2>3. Avg' = Avg /\ PartStat' = PartStat /\ qdepth' = qdepth
      BY Zenon, <2>2 DEF Avg, PartStat, placeVars, statVars, loopVars
    <2>4. qdepth[to'] <= Avg
      BY <2>1, <1>4, WorkTypesKept DEF WorkTypes, Inv, Types
    <2> QED
      BY Zenon, <2>1, <2>2, <2>3, <2>4 DEF Improving
  <1>5. CASE L1Foreign /\ pc' = "own"
    <2>1. /\ UNCHANGED <<qdepth, statVars, loopVars, from, to, mloads, ios>> /\ pc = "foreign"
      BY Zenon, <1>5 DEF L1Foreign, Migrate, NextPartition
    <2> QED
      BY Zenon, <2>1 DEF Improving, PartStat, Avg, statVars, loopVars
  <1>6. ASSUME NEW l \in Loads, L1Pick(l) PROVE Improving'
    <2>1. /\ UNCHANGED <<qdepth, statVars, loopVars, from, to>> /\ pc = "own"
      BY Zenon, <1>6 DEF L1Pick, placeVars
    <2>2. Avg' = Avg /\ PartStat' = PartStat
      BY Zenon, <2>1 DEF Avg, PartStat, statVars, loopVars
    <2>3. CASE UNCHANGED <<ios, mloads>>
      BY Zenon, <2>1, <2>2, <2>3 DEF Improving
    <2>4. CASE Fits(size[l]) /\ size[l] # 0 /\ ios' = ios + size[l]
      <3>1. ios' <= Avg
        BY Zenon, <2>4 DEF Fits
      <3>2. ios >= qdepth[to] /\ qdepth[to] \in Nat /\ size[l] \in Nat
        <4>1. to \in Cores /\ ios >= qdepth[to]
          BY Zenon, <2>1, StreamsElements DEF Inv, Control, Picking, PartStreams
        <4> QED
          BY Zenon, <1>1, <4>1 DEF Inv, Types, PlaceTypes
      <3>3. ios' > qdepth[to]
        BY <1>1, <2>4, <3>2
      <3> QED
        BY Zenon, <2>1, <2>2, <3>1, <3>3 DEF Improving
    <2> QED
      BY Zenon, <1>6, <2>3, <2>4 DEF L1Pick
  <1>7. CASE RebStep
    BY Zenon, <1>3, <1>4, <1>5, <1>6, <1>7, StageSteps
  <1> QED
    BY Zenon, <1>2, <1>7, OutsideSteps DEF Next

\* The loads that level 1 picks lower the greater queue depth of the pair.
LEMMA OwnMoveImproves ==
    ASSUME Inv, Improving, [Next]_vars, pc = "own", qdepth' # qdepth
    PROVE  qdepth'[from] < qdepth[from] /\ qdepth'[to] < qdepth[from]
  <1>1. L1Move
    <2>1. qdepth' # qdepth => ~UNCHANGED placeVars
      BY Zenon DEF placeVars
    <2>2. ~(UpdateStat \/ L3Move \/ L2Move \/ L1Foreign \/ \E c \in Cores : PsMove(c))
      BY Zenon DEF UpdateStat, L3Move, L2Move, L1Foreign, PsMove
    <2> QED
      BY Zenon, <2>1, <2>2, PlaceFrame
  <1>2. /\ from \in Cores /\ to \in Cores /\ from # to /\ ios >= qdepth[to]
    BY StreamsElements, Zenon DEF Inv, Control, Picking, PartStreams
  <1>3. /\ qdepth \in [Cores -> Nat] /\ ios \in Nat /\ min_lsize \in Nat
        /\ Avg \in Nat /\ Word \in Nat \ {0}
    BY Zenon, AvgType, ValuesAssumption DEF Inv, Types, PlaceTypes, WorkTypes, Improving
  <1>4. /\ qdepth[to] < Avg /\ qdepth[from] > Avg /\ 2 * qdepth[from] >= 3 * qdepth[to]
        /\ ios <= Avg
        /\ mloads # {} => ios > qdepth[to]
    BY Zenon DEF Improving
  <1>5. ASSUME NEW L, NEW n \in Nat, Migrate(L, n), 0 < n, n < qdepth[from],
               qdepth[to] + n < qdepth[from]
        PROVE  qdepth'[from] < qdepth[from] /\ qdepth'[to] < qdepth[from]
    <2>1. /\ qdepth'[from] = (qdepth[from] - n) % Word
          /\ qdepth'[to] = qdepth[to] + n
      BY Zenon, <1>2, <1>3, <1>5 DEF Migrate
    <2>2. qdepth[from] \in Nat /\ qdepth[from] - n \in Nat
      BY <1>2, <1>3, <1>5
    <2>3. /\ (qdepth[from] - n) % Word \in Nat
          /\ (qdepth[from] - n) % Word <= qdepth[from] - n
      BY Zenon, <1>3, <2>2, ModLess
    <2>4. (qdepth[from] - n) % Word < qdepth[from]
      BY <1>5, <2>2, <2>3
    <2> QED
      BY Zenon, <1>5, <2>1, <2>4
  <1>6. qdepth[from] \in Nat /\ qdepth[to] \in Nat
    BY Zenon, <1>2, <1>3
  <1>7. CASE mloads # {} /\ Migrate(mloads, ios - qdepth[to])
    <2> DEFINE n == ios - qdepth[to]
    <2>1. n \in Nat /\ 0 < n /\ n < qdepth[from] /\ qdepth[to] + n < qdepth[from]
      BY <1>3, <1>4, <1>6, <1>7
    <2> QED
      BY Zenon, <1>5, <1>7, <2>1
  <1>8. CASE SmallestGoes /\ Migrate({min_load}, min_lsize)
    <2>1. min_lsize # 0 /\ 2 * (qdepth[to] + min_lsize) < 3 * (qdepth[from] - min_lsize)
      BY Zenon, <1>8 DEF SmallestGoes
    <2>2. /\ 0 < min_lsize /\ min_lsize < qdepth[from]
          /\ qdepth[to] + min_lsize < qdepth[from]
      BY <1>3, <1>4, <1>6, <2>1
    <2> QED
      BY Zenon, <1>3, <1>5, <1>8, <2>2
  <1> QED
    BY Zenon, <1>1, <1>7, <1>8 DEF L1Move

\* Whatever sizes level 1 reads while they change, the loads it picks lower the
\* greater queue depth of the pair: both streams end with less than from had,
\* and the unsigned subtraction does not wrap.
THEOREM PickedLoadsImprove == Spec => OwnMovesImprove
  <1> DEFINE Step == pc = "own" /\ qdepth' # qdepth =>
                        qdepth'[from] < qdepth[from] /\ qdepth'[to] < qdepth[from]
  <1>1. Init => Improving
    BY Zenon DEF Init, Improving
  <1>2. Inv /\ Improving /\ [Next]_vars => Improving'
    BY Zenon, ImprovingStep
  <1>3. Inv /\ Improving /\ [Next]_vars => [Step]_vars
    BY Zenon, OwnMoveImproves
  <1> QED
    BY <1>1, <1>2, <1>3, InvHolds, PTL DEF Spec, OwnMovesImprove
=============================================================================
