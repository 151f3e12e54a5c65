--------------------------- MODULE RebalanceProofs --------------------------
(***************************************************************************)
(* Proofs about where the rebalancer puts loads and cores.                 *)
(***************************************************************************)
EXTENDS RebalanceMoves

-----------------------------------------------------------------------------
(* The types are kept.                                                     *)

LEMMA PctTypes ==
    ASSUME EnvTypes
    PROVE  abtst_update_power_stats \in [Numas -> 0..100]
  <1> SUFFICES ASSUME NEW n \in Numas PROVE update_power_stat(n) \in 0..100
    BY DEF abtst_update_power_stats
  <1> DEFINE nsec == [c \in Cores |-> sleep_nsec[c] \div 1000000]
             msec == Total(nsec, CoresIn(n))
             pct == ((msec \div Cardinality(CoresIn(n))) * 100) \div (1000 * Interval)
  <1>1. CASE CoresIn(n) = {}
    BY <1>1 DEF update_power_stat
  <1>2. CASE CoresIn(n) # {}
    <2>1. IsFiniteSet(CoresIn(n)) /\ CoresIn(n) \subseteq Cores
      BY FiniteParts
    <2>2. \A c \in Cores : sleep_nsec[c] \in Nat
      BY ValuesAssumption, Zenon DEF EnvTypes
    <2>3. \A c \in Cores : nsec[c] \in Nat
      BY <2>2
    <2> HIDE DEF nsec
    <2>4. msec \in Nat
      BY <2>1, <2>3, TotalNat
    <2>5. Cardinality(CoresIn(n)) \in Nat \ {0}
      BY <1>2, <2>1, Counting
    <2> HIDE DEF msec
    <2>6. msec \div Cardinality(CoresIn(n)) \in Nat
      BY <2>4, <2>5
    <2>7. 1000 * Interval \in Nat \ {0}
      BY ValuesAssumption
    <2>8. pct \in Nat
      BY <2>6, <2>7
    <2>9. update_power_stat(n) = IF pct > 100 THEN 100 ELSE pct
      BY <1>2 DEF update_power_stat, msec, nsec
    <2> HIDE DEF pct
    <2> QED
      BY <2>8, <2>9
  <1> QED
    BY <1>1, <1>2

\* A step that moves loads keeps the types, and each load in one place.
LEMMA PlaceTypesStep ==
    ASSUME Inv, [Next]_vars
    PROVE  PlaceTypes' /\ LoadPlacement'
  <1> USE DEF Inv, Types
  <1>1. CASE UNCHANGED placeVars
    BY Zenon, <1>1 DEF placeVars, PlaceTypes, LoadPlacement
  <1>2. CASE UpdateStat
    <2>1. qdepth' = abtst_update_streams_stat /\ UNCHANGED <<part_id, load_q, dest_rank>>
      BY Zenon, <1>2 DEF UpdateStat
    <2> QED
      BY Zenon, <2>1, DepthTypes DEF PlaceTypes, LoadPlacement
  <1>3. ASSUME NEW L, NEW f, NEW t, Moved(L, f, t), qdepth' \in [Cores -> Nat]
        PROVE  PlaceTypes' /\ LoadPlacement'
    BY Zenon, <1>3, MoveKeepsPlacement DEF Moved, PlaceTypes
  <1>4. CASE \E c \in Cores : PsMove(c)
    <2>1. PICK c \in Cores : PsMove(c)
      BY Zenon, <1>4
    <2> DEFINE t == ToCore(numa_id, part_id[c])
    <2>2. Moved(load_q[c], c, t) /\ abtst_combine_streams(c, t)
      BY Zenon, <2>1, PsMoveMoves
    <2> HIDE DEF t
    <2>3. qdepth' \in [Cores -> Nat]
      BY Zenon, <2>2, CombineMoves DEF Moved
    <2> QED
      BY Zenon, <1>3, <2>2, <2>3
  <1>5. CASE L3Move
    <2>1. PICK c \in Greatest(todo, qdepth) :
             \/ UNCHANGED <<ios, placeVars>>
             \/ Moved(load_q[c], c, to) /\ abtst_combine_streams(c, to)
      BY Zenon, <1>5, L3MoveMoves
    <2>2. CASE UNCHANGED <<ios, placeVars>>
      BY Zenon, <1>1, <2>2
    <2>3. CASE Moved(load_q[c], c, to) /\ abtst_combine_streams(c, to)
      <3>1. qdepth' \in [Cores -> Nat]
        BY Zenon, <2>3, CombineMoves DEF Moved
      <3> QED
        BY Zenon, <1>3, <2>3, <3>1
    <2> QED
      BY Zenon, <2>1, <2>2, <2>3
  <1>6. CASE L2Move
    <2>1. PICK f, t \in Cores, p \in Parts : CoreGiven(f, t, p) /\ abtst_combine_streams(f, t)
      BY Zenon, <1>6, L2MoveMoves
    <2>2. qdepth' \in [Cores -> Nat] /\ MoveLoads(load_q[f], f, t)
      BY Zenon, <2>1, CombineMoves DEF CoreGiven
    <2>3. /\ load_q' \in [Cores -> SUBSET Loads] /\ dest_rank' \in [Loads -> Cores]
          /\ LoadPlacement'
      BY Zenon, <2>2, MoveKeepsPlacement
    <2>4. part_id' \in [Cores -> Parts]
      BY Zenon, <2>1 DEF CoreGiven, PlaceTypes
    <2> QED
      BY Zenon, <2>2, <2>3, <2>4 DEF PlaceTypes
  <1>7. CASE L1Foreign
    <2>1. CASE UNCHANGED placeVars
      BY Zenon, <1>1, <2>1
    <2>2. ASSUME NEW L \in SUBSET load_q[from], Moved(L, from, to),
                 Migrate(L, Total(size, L))
          PROVE  PlaceTypes' /\ LoadPlacement'
      <3>1. L \in SUBSET Loads
        BY Zenon, <2>2 DEF Moved, PlaceTypes
      <3>2. Total(size, L) \in Nat
        BY Zenon, <3>1, DepthTypes
      <3> QED
        BY Zenon, <1>3, <2>2, <3>2, MigrateDepths
    <2> QED
      BY Zenon, <1>7, <2>1, <2>2, L1ForeignMoves
  <1>8. CASE L1Move
    <2>1. CASE UNCHANGED placeVars
      BY Zenon, <1>1, <2>1
    <2>2. CASE Moved(mloads, from, to) /\ Migrate(mloads, ios - qdepth[to])
      <3>1. pc = "own"
        BY Zenon, <1>8 DEF L1Move
      <3>2. ios \in Nat /\ qdepth[to] \in Nat /\ ios >= qdepth[to]
        BY Zenon, <2>2, <3>1 DEF Control, Picking, Moved, PlaceTypes, WorkTypes
      <3>3. ios - qdepth[to] \in Nat
        BY <3>2
      <3> QED
        BY Zenon, <1>3, <2>2, <3>3, MigrateDepths
    <2>3. CASE Moved({min_load}, from, to) /\ Migrate({min_load}, min_lsize)
      <3>1. min_lsize \in Nat
        BY Zenon DEF WorkTypes
      <3> QED
        BY Zenon, <1>3, <2>3, <3>1, MigrateDepths
    <2> QED
      BY Zenon, <1>8, <2>1, <2>2, <2>3, L1MoveMoves
  <1> QED
    BY Zenon, <1>1, <1>2, <1>4, <1>5, <1>6, <1>7, <1>8, PlaceFrame

LEMMA EnvTypesStep ==
    ASSUME Inv, [Next]_vars
    PROVE  EnvTypes'
  <1>1. EnvTypes /\ dest_rank \in [Loads -> Cores]
    BY Zenon DEF Inv, Types, PlaceTypes
  <1>2. CASE UNCHANGED envVars
    BY Zenon, <1>1, <1>2 DEF envVars, EnvTypes
  <1>3. CASE UpdateStat \/ ResetStat
    BY <1>1, <1>3, ValuesAssumption, Zenon DEF UpdateStat, ResetStat, EnvTypes
  <1>4. CASE Environment
    <2>1. ASSUME NEW l \in Loads, Land(l) PROVE EnvTypes'
      BY Zenon, <1>1, <2>1 DEF Land, EnvTypes
    <2>2. ASSUME NEW l \in Loads, NEW n \in Sizes, SizeChange(l, n) PROVE EnvTypes'
      BY <1>1, <2>2, ValuesAssumption, Zenon DEF SizeChange, EnvTypes
    <2>3. ASSUME NEW c \in Cores, NEW n \in Sleeps, Sleep(c, n) PROVE EnvTypes'
      BY Zenon, <1>1, <2>3 DEF Sleep, EnvTypes
    <2> QED
      BY Zenon, <1>4, <2>1, <2>2, <2>3 DEF Environment
  <1> QED
    BY Zenon, <1>2, <1>3, <1>4, EnvFrame

LEMMA StatTypesKept ==
    ASSUME Inv, [Next]_vars
    PROVE  StatTypes'
  <1>1. StatTypes /\ EnvTypes /\ qdepth \in [Cores -> Nat] /\ qdepth' \in [Cores -> Nat]
    BY Zenon, PlaceTypesStep DEF Inv, Types, PlaceTypes
  <1>2. abtst_update_power_stats \in [Numas -> 0..100]
    BY Zenon, <1>1, PctTypes
  <1>3. CASE UNCHANGED statVars
    BY Zenon, <1>1, <1>3 DEF statVars, StatTypes
  <1>4. CASE UpdateStat
    BY Zenon, <1>1, <1>2, <1>4, StatTypesStep DEF UpdateStat, StatTypes
  <1>5. ASSUME RefreshStats(part_id, qdepth) PROVE StatTypes'
    BY Zenon, <1>1, <1>2, <1>5, StatTypesStep DEF RefreshStats, StatTypes
  <1>6. CASE PsSleep
    BY Zenon, <1>3, <1>5, <1>6 DEF PsSleep
  <1>7. CASE PsSlept
    BY Zenon, <1>5, <1>7 DEF PsSlept
  <1>8. CASE L3End
    BY Zenon, <1>1, <1>8, StatTypesStep DEF L3End, StatTypes
  <1>9. CASE L2Move
    BY <1>1, <1>9, StatTypesStep, Zenon DEF L2Move, StatTypes
  <1> QED
    BY Zenon, <1>3, <1>4, <1>6, <1>7, <1>8, <1>9, StatFrame

LEMMA LoopTypesKept ==
    ASSUME Inv, [Next]_vars
    PROVE  LoopTypes'
  <1>1. LoopTypes /\ NrNumas \in Nat /\ NrParts \in Nat
    BY Zenon, CoresAssumption DEF Inv, Types
  <1>2. CASE UNCHANGED <<loopVars, workVars, pc, level>>
    BY Zenon, <1>1, <1>2 DEF LoopTypes, loopVars
  <1>3. 0 \in Numas /\ 0 \in Parts
    BY Zenon, FiniteParts
  <1>4. NextNuma => numa_id' \in Numas /\ pc' \in PCs
    BY <1>1, <1>3 DEF NextNuma, LoopTypes, Numas, PCs
  <1>5. NextPartition => numa_id' \in Numas /\ partition_id' \in Parts /\ pc' \in PCs
    <2> SUFFICES ASSUME NextPartition
                 PROVE  numa_id' \in Numas /\ partition_id' \in Parts /\ pc' \in PCs
      BY Zenon
    <2>1. partition_id' \in Parts
      BY <1>1, <1>3 DEF NextPartition, LoopTypes, Parts
    <2>2. numa_id' \in Numas
      BY <1>1, <1>3 DEF NextPartition, LoopTypes, Numas
    <2>3. pc' \in PCs
      BY Zenon DEF NextPartition, PCs
    <2> QED
      BY Zenon, <2>1, <2>2, <2>3
  <1>6. CASE RebStep
    <2>1. CASE UpdateStat \/ TrapInStat \/ ResetStat
      BY Zenon, <1>1, <2>1 DEF UpdateStat, TrapInStat, ResetStat, LoopTypes, loopVars, PCs
    <2>2. CASE ReadLevel
      <3>1. level' \in 0..3
        BY Zenon, <2>2, ValuesAssumption DEF ReadLevel
      <3>2. pc' \in {"ps", "l2", "l1", "reset"}
        BY <2>2, <3>1 DEF ReadLevel
      <3> QED
        BY Zenon, <1>1, <2>2, <3>1, <3>2 DEF ReadLevel, LoopTypes, loopVars, PCs
    <2>3. CASE PsKeep \/ PsSlept \/ PsWake \/ \E c \in Cores : PsMove(c)
      BY <1>1, <1>3, <2>3, Zenon DEF PsKeep, PsSlept, PsWake, PsMove, LoopTypes, loopVars, PCs
    <2>4. CASE PsSleep
      <3>1. SleepCandidates \subseteq Numas
        BY Zenon DEF SleepCandidates, Least, Awake
      <3>2. numa_id' \in Numas
        BY Zenon, <1>1, <2>4, <3>1 DEF PsSleep, LoopTypes
      <3> QED
        BY Zenon, <1>1, <2>4, <3>2 DEF PsSleep, LoopTypes, PCs
    <2>5. CASE L3Keep \/ L3Start \/ L3Move \/ L3End
      BY <1>1, <2>5, Zenon DEF L3Keep, L3Start, L3StartAmong, L3Move, L3End, LoopTypes, loopVars, PCs
    <2>6. CASE L2Keep \/ L2Move
      BY <1>1, <1>4, <2>6, Zenon DEF L2Keep, L2Move, LoopTypes
    <2>7. CASE TrapInSort
      BY Zenon, <1>1, <2>7 DEF TrapInSort, LoopTypes, loopVars, PCs
    <2>8. CASE L1Keep \/ L1Move
      BY Zenon, <1>1, <1>5, <2>8 DEF L1Keep, L1Move, Migrate, LoopTypes
    <2>9. CASE L1Foreign
      BY <1>1, <1>5, <2>9, Zenon DEF L1Foreign, Migrate, LoopTypes, loopVars, PCs
    <2>10. CASE L1Start \/ \E l \in Loads : L1Pick(l)
      BY Zenon, <1>1, <2>10 DEF L1Start, L1Pick, LoopTypes, loopVars, PCs
    <2> QED
      BY Zenon, <1>6, <2>1, <2>2, <2>3, <2>4, <2>5, <2>6, <2>7, <2>8, <2>9, <2>10 DEF RebStep
  <1> QED
    BY Zenon, <1>2, <1>6, LoopFrame

\* What level 3 starts with.
LEMMA L3StartPair ==
    ASSUME Inv, L3Start
    PROVE  \E f, t \in Awake, p \in Parts :
             /\ f # t
             /\ to' \in StreamsOf(part_id, t, p)
             /\ todo' = StreamsOf(part_id, f, p)
             /\ limit' \in Nat
             /\ numa_stats[p][f].used_cores > 0 /\ numa_stats[p][t].used_cores > 0
             /\ 2 * limit' <= numa_stats[p][f].qdepth - numa_stats[p][t].qdepth
             /\ limit' <= (abtst_get_average_qdepth - AvgQdepth(t)) * numa_stat[t].used_cores
             /\ AvgQdepth(t) < abtst_get_average_qdepth
             /\ numa_stat[t].used_cores > 0
  <1>1. PICK q \in SortedNumas(Awake) : \E pair \in NumaPair(q) :
           LET f == pair[1]
               t == pair[2]
               p == L3Part(f, t)
               ios_to_migrate == (abtst_get_average_qdepth - AvgQdepth(t))
                                 * numa_stat[t].used_cores
           IN /\ PartDiff(f, t, p) > 0
              /\ to' \in Least(StreamsOf(part_id, t, p), qdepth)
              /\ todo' = StreamsOf(part_id, f, p)
              /\ limit' = Min({ios_to_migrate, PartDiff(f, t, p) \div 2})
    BY Zenon DEF L3Start, L3StartAmong
  <1>2. PICK pair \in NumaPair(q) :
           LET f == pair[1]
               t == pair[2]
               p == L3Part(f, t)
               ios_to_migrate == (abtst_get_average_qdepth - AvgQdepth(t))
                                 * numa_stat[t].used_cores
           IN /\ PartDiff(f, t, p) > 0
              /\ to' \in Least(StreamsOf(part_id, t, p), qdepth)
              /\ todo' = StreamsOf(part_id, f, p)
              /\ limit' = Min({ios_to_migrate, PartDiff(f, t, p) \div 2})
    BY <1>1, Zenon
  <1> DEFINE f == pair[1]
             t == pair[2]
             p == L3Part(f, t)
             avg == abtst_get_average_qdepth
             a == (avg - AvgQdepth(t)) * numa_stat[t].used_cores
             d == PartDiff(f, t, p)
  <1>3. IsFiniteSet(Awake) /\ Awake \subseteq Numas
    BY Zenon, FiniteParts, FS_Subset DEF Awake
  <1>4. /\ f \in Awake /\ t \in Awake /\ f # t
        /\ AvgQdepth(t) < avg /\ numa_stat[t].used_cores > 0
    BY <1>2, <1>3, NumaPairElements, Zenon
  <1>5. StatTypes /\ avg \in Nat
    BY Zenon, AverageNat DEF Inv, Types
  <1>6. f \in Numas /\ t \in Numas
    BY Zenon, <1>3, <1>4
  <1> HIDE DEF f, t
  <1>7. p \in Parts
    <2> DEFINE diff == [k \in Parts |-> PartDiff(f, t, k)]
    <2>1. Greatest(Parts, diff) \in SUBSET Parts
      BY Zenon DEF Greatest
    <2>2. \A k \in Parts : diff[k] \in Int
      BY <1>5, <1>6 DEF PartDiff, StatTypes
    <2>3. Greatest(Parts, diff) # {}
      <3> HIDE DEF diff
      <3>1. PICK k \in Parts : \A m \in Parts : diff[k] >= diff[m]
        BY <2>2, FiniteParts, GreatestExists, Zenon
      <3> QED
        BY Zenon, <3>1 DEF Greatest
    <2> HIDE DEF diff
    <2>4. Min(Greatest(Parts, diff)) \in Greatest(Parts, diff)
      BY Zenon, <2>1, <2>3, FiniteParts, MinNat
    <2> QED
      BY Zenon, <2>1, <2>4 DEF L3Part, diff
  <1>8. /\ to' \in Least(StreamsOf(part_id, t, p), qdepth)
        /\ todo' = StreamsOf(part_id, f, p)
        /\ limit' = Min({a, d \div 2})
    BY <1>2, Zenon DEF f, t
  <1>9. d > 0
    BY <1>2, Zenon DEF f, t
  <1> HIDE DEF p
  <1>10. /\ numa_stats[p][f].used_cores \in Nat /\ numa_stats[p][f].qdepth \in Nat
        /\ numa_stats[p][t].used_cores \in Nat /\ numa_stats[p][t].qdepth \in Nat
        /\ AvgQdepth(t) \in Nat /\ numa_stat[t].used_cores \in Nat
    BY Zenon, <1>5, <1>6, <1>7 DEF StatTypes, AvgQdepth
  <1>11. /\ numa_stats[p][f].used_cores > 0 /\ numa_stats[p][t].used_cores > 0
         /\ d = numa_stats[p][f].qdepth - numa_stats[p][t].qdepth
    BY <1>10, <1>9 DEF PartDiff
  <1>12. a \in Nat
    <2>1. avg - AvgQdepth(t) \in Nat
      BY <1>4, <1>5, <1>10
    <2> HIDE DEF avg
    <2> QED
      BY <1>10, <2>1
  <1>13. d \in Nat /\ d \div 2 \in Nat /\ 2 * (d \div 2) <= d
    <2>1. d \in Nat
      BY <1>10, <1>11, <1>9
    <2> HIDE DEF d
    <2> QED
      BY <2>1
  <1>14. limit' \in Nat /\ limit' <= a /\ limit' <= d \div 2
    <2> DEFINE h == d \div 2
    <2> HIDE DEF a, d, h
    <2>1. {a, h} \in SUBSET Nat /\ {a, h} # {}
      BY Zenon, <1>12, <1>13 DEF h
    <2>2. Min({a, h}) \in {a, h} /\ Min({a, h}) <= a /\ Min({a, h}) <= h
      BY Zenon, <2>1, MinNat
    <2> QED
      BY Zenon, <1>8, <2>1, <2>2 DEF h
  <1>15. 2 * limit' <= d
    <2>1. ASSUME NEW x \in Nat, NEW h \in Nat, NEW y \in Nat, x <= h, 2 * h <= y
          PROVE  2 * x <= y
      BY <2>1
    <2> HIDE DEF d
    <2> QED
      BY <1>13, <1>14, <2>1, Zenon
  <1>16. to' \in StreamsOf(part_id, t, p)
    BY Zenon, <1>8 DEF Least
  <1> QED
    BY <1>4, <1>7, <1>8, <1>11, <1>14, <1>15, <1>16, Zenon

LEMMA WorkTypesKept ==
    ASSUME Inv, [Next]_vars
    PROVE  WorkTypes'
  <1>1. WorkTypes /\ size \in [Loads -> Nat] /\ qdepth \in [Cores -> Nat]
    BY Zenon DEF Inv, Types, EnvTypes, PlaceTypes
  <1>2. CASE UNCHANGED <<loopVars, workVars, pc, level>>
    BY Zenon, <1>1, <1>2 DEF WorkTypes, workVars
  <1>3. ClearWork => WorkTypes'
    BY DEF ClearWork, WorkTypes
  <1>4. CASE RebStep
    <2>1. CASE UNCHANGED workVars
      BY Zenon, <1>1, <2>1 DEF WorkTypes, workVars
    <2>2. CASE PsSleep
      <3>1. \A n \in Numas : CoresIn(n) \subseteq Cores
        BY Zenon, FiniteParts
      <3>2. SleepCandidates \subseteq Numas
        BY Zenon DEF SleepCandidates, Least, Awake
      <3>3. todo' \subseteq Cores \cup Loads
        BY Zenon, <1>1, <2>2, <3>1, <3>2 DEF PsSleep, WorkTypes
      <3> QED
        BY Zenon, <1>1, <2>2, <3>3 DEF PsSleep, WorkTypes
    <2>3. CASE \E c \in Cores : PsMove(c)
      BY Zenon, <1>1, <2>3 DEF PsMove, WorkTypes
    <2>4. CASE L3Start
      <3>1. PICK f, t \in Awake, p \in Parts :
               /\ to' \in StreamsOf(part_id, t, p)
               /\ todo' = StreamsOf(part_id, f, p)
               /\ limit' \in Nat
        BY Zenon, <2>4, L3StartPair
      <3>2. to' \in Cores /\ todo' \subseteq Cores
        BY Zenon, <3>1, FiniteParts
      <3>3. ios' = 0 /\ UNCHANGED <<from, mloads, min_load, min_lsize>>
        BY <2>4, Zenon DEF L3Start, L3StartAmong
      <3> QED
        BY Zenon, <1>1, <3>1, <3>2, <3>3 DEF WorkTypes
    <2>5. CASE L3Move
      <3>1. PICK c \in Greatest(todo, qdepth) :
               /\ todo' = todo \ {c}
               /\ c \in Cores
               /\ ios' = ios \/ ios' = ios + qdepth[c]
        BY <2>5, L3MoveMoves, Zenon
      <3>2. ios' \in Nat
        BY <1>1, <3>1 DEF WorkTypes
      <3> QED
        BY Zenon, <1>1, <2>5, <3>1, <3>2 DEF L3Move, WorkTypes
    <2>6. CASE L3End \/ L1Keep \/ NextPartition
      BY Zenon, <1>3, <2>6 DEF L3End, L1Keep, NextPartition
    <2>7. CASE L1Start
      <3>1. PICK e \in Ends : to' = e[1] /\ from' = e[2] /\ ios' = qdepth[e[1]]
        BY <2>7, Zenon DEF L1Start
      <3>2. e[1] \in Cores /\ e[2] \in Cores
        BY <3>1, StreamsElements DEF Ends, Least, Greatest, PartStreams
      <3> QED
        BY Zenon, <1>1, <2>7, <3>1, <3>2 DEF L1Start, WorkTypes
    <2>8. CASE L1Foreign
      <3>1. CASE NextPartition
        BY Zenon, <1>3, <3>1 DEF NextPartition
      <3>2. CASE /\ todo' = load_q[from]
                 /\ UNCHANGED <<from, to, mloads, ios, min_load, min_lsize, limit>>
        <4>1. from \in Cores /\ load_q[from] \subseteq Loads
          BY <2>8, StreamsElements, Zenon
             DEF L1Foreign, Inv, Types, PlaceTypes, Control, Picking, PartStreams
        <4> QED
          BY Zenon, <1>1, <3>2, <4>1 DEF WorkTypes
      <3> QED
        BY Zenon, <2>8, <3>1, <3>2 DEF L1Foreign, Migrate
    <2>9. ASSUME NEW l \in Loads, L1Pick(l) PROVE WorkTypes'
      <3>1. todo' \subseteq Cores \cup Loads
        BY Zenon, <1>1, <2>9 DEF L1Pick, WorkTypes
      <3>2. mloads' \subseteq Loads
        BY Zenon, <1>1, <2>9 DEF L1Pick, WorkTypes
      <3>3. ios' \in Nat
        BY <1>1, <2>9 DEF L1Pick, WorkTypes
      <3>4. min_load' \in Loads \cup {None} /\ min_lsize' \in Nat
        BY Zenon, <1>1, <2>9 DEF L1Pick, WorkTypes
      <3> QED
        BY Zenon, <1>1, <2>9, <3>1, <3>2, <3>3, <3>4 DEF L1Pick, WorkTypes
    <2>10. CASE L1Move
      BY Zenon, <2>6, <2>10 DEF L1Move, Migrate
    <2> QED
      BY <1>4, <2>1, <2>2, <2>3, <2>4, <2>5, <2>6, <2>7, <2>8, <2>9, <2>10, Zenon
         DEF RebStep, UpdateStat, TrapInStat, ReadLevel, ResetStat, PsKeep, PsSlept,
             PsWake, L3Keep, L2Keep, L2Move, TrapInSort
  <1> QED
    BY Zenon, <1>2, <1>4, LoopFrame

-----------------------------------------------------------------------------
(* Cores, partitions and sleeping NUMAs.                                   *)

\* Seen from outside, every step leaves loads and cores alone, moves loads
\* within a partition, or gives an emptied core away.
LEMMA Placing ==
    ASSUME Inv, [Next]_vars
    PROVE  \/ UNCHANGED <<part_id, load_q, dest_rank>>
           \/ \E L \in SUBSET Loads, f, t \in Cores : Moved(L, f, t)
           \/ L2Move /\ \E f, t \in Cores, p \in Parts : CoreGiven(f, t, p)
  <1>1. \A L, f, t : Moved(L, f, t) => L \in SUBSET Loads /\ f \in Cores /\ t \in Cores
    BY Zenon DEF Moved, Inv, Types, PlaceTypes
  <1>2. CASE UNCHANGED placeVars \/ UpdateStat
    BY Zenon, <1>2 DEF placeVars, UpdateStat
  <1>3. CASE \E c \in Cores : PsMove(c)
    BY <1>1, <1>3, PsMoveMoves, Zenon
  <1>4. CASE L3Move
    BY <1>1, <1>4, L3MoveMoves, Zenon DEF placeVars
  <1>5. CASE L2Move
    BY Zenon, <1>5, L2MoveMoves
  <1>6. CASE L1Foreign
    BY <1>1, <1>6, L1ForeignMoves, Zenon DEF placeVars
  <1>7. CASE L1Move
    BY <1>1, <1>7, L1MoveMoves, Zenon DEF placeVars
  <1> QED
    BY Zenon, <1>2, <1>3, <1>4, <1>5, <1>6, <1>7, PlaceFrame

LEMMA PartitionKeptStep ==
    ASSUME Inv, [Next]_vars
    PROVE  PartitionKept'
  <1>1. PartitionKept /\ PlaceTypes /\ LoadPlacement
    BY Zenon DEF Inv, Types
  <1>2. \A l \in Loads, c \in Cores : l \in load_q[c] <=> c = dest_rank[l]
    BY Zenon, <1>1 DEF LoadPlacement, PlaceTypes
  <1>3. CASE UNCHANGED <<part_id, load_q, dest_rank>>
    BY Zenon, <1>1, <1>3 DEF PartitionKept
  <1>4. ASSUME NEW L \in SUBSET Loads, NEW f \in Cores, NEW t \in Cores, Moved(L, f, t)
        PROVE  PartitionKept'
    <2> SUFFICES ASSUME NEW l \in Loads PROVE part_id'[dest_rank'[l]] = LoadPart[l]
      BY Zenon DEF PartitionKept
    <2>1. part_id' = part_id /\ dest_rank'[l] = IF l \in L THEN t ELSE dest_rank[l]
      BY Zenon, <1>4 DEF Moved, MoveLoads
    <2>2. l \in L => part_id[t] = part_id[dest_rank[l]]
      BY Zenon, <1>2, <1>4 DEF Moved
    <2> QED
      BY Zenon, <1>1, <2>1, <2>2 DEF PartitionKept
  <1>5. ASSUME NEW f \in Cores, NEW t \in Cores, NEW p \in Parts, CoreGiven(f, t, p)
        PROVE  PartitionKept'
    <2> SUFFICES ASSUME NEW l \in Loads PROVE part_id'[dest_rank'[l]] = LoadPart[l]
      BY Zenon DEF PartitionKept
    <2>1. dest_rank'[l] = IF l \in load_q[f] THEN t ELSE dest_rank[l]
      BY Zenon, <1>5 DEF CoreGiven, MoveLoads
    <2>2. /\ dest_rank'[l] # f /\ dest_rank'[l] \in Cores
          /\ part_id[dest_rank'[l]] = part_id[dest_rank[l]]
      BY Zenon, <1>1, <1>2, <1>5, <2>1 DEF CoreGiven, PlaceTypes
    <2>3. part_id'[dest_rank'[l]] = part_id[dest_rank'[l]]
      BY Zenon, <1>1, <1>5, <2>2 DEF CoreGiven, PlaceTypes
    <2> QED
      BY Zenon, <1>1, <2>2, <2>3 DEF PartitionKept
  <1> QED
    BY Zenon, <1>3, <1>4, <1>5, Placing

\* No step gives a load to a stream of a sleeping NUMA.
LEMMA SleepersStayEmpty ==
    ASSUME Inv, [Next]_vars
    PROVE  \A c \in Cores : NumaOf[c] \notin Awake => load_q'[c] = {}
  <1>1. PsConsistent /\ load_q \in [Cores -> SUBSET Loads]
    BY Zenon DEF Inv, Types, PlaceTypes
  <1> SUFFICES ASSUME NEW c \in Cores, NumaOf[c] \notin Awake PROVE load_q'[c] = {}
    BY Zenon
  <1>2. load_q[c] = {}
    BY Zenon, <1>1 DEF PsConsistent
  <1>3. CASE UNCHANGED <<part_id, load_q, dest_rank>>
    BY Zenon, <1>2, <1>3
  <1>4. ASSUME NEW L \in SUBSET Loads, NEW f \in Cores, NEW t \in Cores, MoveLoads(L, f, t),
               L # {} => NumaOf[t] \in Awake
        PROVE  load_q'[c] = {}
    <2>1. c = t => L = {}
      BY Zenon, <1>4
    <2> QED
      BY Zenon, <1>1, <1>2, <1>4, <2>1 DEF MoveLoads
  <1>5. ASSUME NEW L \in SUBSET Loads, NEW f \in Cores, NEW t \in Cores, Moved(L, f, t)
        PROVE  load_q'[c] = {}
    BY Zenon, <1>4, <1>5 DEF Moved
  <1>6. ASSUME NEW f \in Cores, NEW t \in Cores, NEW p \in Parts, CoreGiven(f, t, p)
        PROVE  load_q'[c] = {}
    <2>1. load_q[f] \in SUBSET Loads
      BY Zenon, <1>1
    <2>2. load_q[f] # {} => NumaOf[t] \in Awake
      BY Zenon, <1>1, <1>6 DEF CoreGiven, PsConsistent
    <2> QED
      BY <1>4, <1>6, <2>1, <2>2, Zenon DEF CoreGiven
  <1> QED
    BY <1>3, <1>5, <1>6, Placing, Zenon

LEMMA PsConsistentStep ==
    ASSUME Inv, [Next]_vars
    PROVE  PsTypes' /\ PsConsistent'
  <1>1. PsTypes /\ PsConsistent /\ Emptying /\ LoopTypes /\ NumaOf \in [Cores -> Numas]
    BY Zenon, CoresAssumption DEF Inv, Types, Control
  <1>2. IsFiniteSet(Numas \ Awake) /\ 0 \in Numas
    BY Zenon, FiniteParts, FS_Subset
  <1>3. CASE UNCHANGED psVars
    <2>1. Awake' = Awake
      BY Zenon, <1>3 DEF psVars, Awake
    <2>2. \A c \in Cores : NumaOf[c] \notin Awake => load_q'[c] = {}
      BY Zenon, SleepersStayEmpty
    <2> QED
      BY Zenon, <1>1, <1>3, <2>1, <2>2 DEF psVars, PsTypes, PsConsistent
  <1>4. CASE PsSlept
    <2>1. /\ pc = "psmove" /\ todo = {} /\ nr_ps_numas' = nr_ps_numas + 1
          /\ ps_state' = [ps_state EXCEPT ![numa_id] = TRUE] /\ load_q' = load_q
      BY Zenon, <1>4 DEF PsSlept, placeVars
    <2>2. /\ numa_id \in Numas /\ numa_id \in Awake \ {0}
          /\ \A c \in CoresIn(numa_id) : load_q[c] = {}
      BY Zenon, <1>1, <2>1 DEF Emptying, LoopTypes
    <2>3. Awake' = Awake \ {numa_id} /\ ps_state' \in [Numas -> BOOLEAN]
      BY Zenon, <1>1, <2>1, <2>2 DEF Awake, PsTypes
    <2>4. Numas \ Awake' = (Numas \ Awake) \cup {numa_id}
      BY Zenon, <2>2, <2>3
    <2>5. Cardinality(Numas \ Awake') = Cardinality(Numas \ Awake) + 1
      BY Zenon, <1>2, <2>2, <2>4, FS_AddElement
    <2>6. nr_ps_numas' = Cardinality(Numas \ Awake') /\ nr_ps_numas' \in Nat
      BY <1>1, <2>1, <2>5 DEF PsConsistent, PsTypes
    <2>7. 0 \in Awake'
      BY Zenon, <1>1, <2>2, <2>3 DEF PsConsistent
    <2>8. \A c \in Cores : NumaOf[c] \notin Awake' => load_q'[c] = {}
      BY Zenon, <1>1, <2>1, <2>2, <2>3 DEF PsConsistent, CoresIn
    <2> QED
      BY Zenon, <2>3, <2>6, <2>7, <2>8 DEF PsTypes, PsConsistent
  <1>5. CASE PsWake
    <2>1. PICK n \in Numas \ Awake : /\ ps_state' = [ps_state EXCEPT ![n] = FALSE]
                                     /\ nr_ps_numas' = nr_ps_numas - 1
      BY <1>5, Zenon DEF PsWake, Greatest
    <2>2. load_q' = load_q
      BY Zenon, <1>5 DEF PsWake, placeVars
    <2>3. Awake' = Awake \cup {n} /\ ps_state' \in [Numas -> BOOLEAN]
      BY Zenon, <1>1, <2>1 DEF Awake, PsTypes
    <2>4. Numas \ Awake' = (Numas \ Awake) \ {n} /\ IsFiniteSet(Numas \ Awake')
      BY Zenon, <1>2, <2>1, <2>3, FS_Subset
    <2>5. Cardinality(Numas \ Awake') = Cardinality(Numas \ Awake) - 1
      BY Zenon, <1>2, <2>1, <2>4, FS_RemoveElement
    <2>6. nr_ps_numas' = Cardinality(Numas \ Awake')
      BY Zenon, <1>1, <2>1, <2>5 DEF PsConsistent
    <2>7. Cardinality(Numas \ Awake') \in Nat
      BY Zenon, <2>4, FS_CardinalityType
    <2>8. \A c \in Cores : NumaOf[c] \notin Awake' => load_q'[c] = {}
      BY Zenon, <1>1, <2>2, <2>3 DEF PsConsistent
    <2> QED
      BY Zenon, <1>1, <2>3, <2>6, <2>7, <2>8 DEF PsTypes, PsConsistent
  <1> QED
    BY Zenon, <1>3, <1>4, <1>5, PsFrame

-----------------------------------------------------------------------------
(* The stages of a pass.                                                   *)

LEMMA CoresCountedStep ==
    ASSUME Inv, [Next]_vars
    PROVE  CoresCounted'
  <1> SUFFICES ASSUME pc' \notin {"stat", "trap"}
               PROVE  /\ \A n \in Numas, p \in Parts :
                           numa_stats'[p][n].used_cores
                               = Cardinality(StreamsOf(part_id', n, p))
                      /\ \A n \in Numas :
                           numa_stat'[n].used_cores = Cardinality(CoresIn(n))
    BY Zenon DEF CoresCounted
  <1>1. CoresCounted /\ qdepth \in [Cores -> Nat] /\ qdepth' \in [Cores -> Nat]
    BY Zenon, PlaceTypesStep DEF Inv, Types, PlaceTypes, Control
  <1>2. UpdateStat \/ pc \notin {"stat", "trap"}
    BY Zenon, StageSteps, OutsideSteps DEF Next
  <1>3. L2Move \/ part_id' = part_id
    BY Zenon, Placing DEF Moved
  <1> DEFINE Counted(pid) == \A n \in Numas, p \in Parts :
                               numa_stats'[p][n].used_cores
                                   = Cardinality(StreamsOf(pid, n, p))
             NumasCounted == \A n \in Numas :
                               numa_stat'[n].used_cores = Cardinality(CoresIn(n))
  <1>4. ASSUME NEW pid, NEW q \in [Cores -> Nat],
               numa_stats' = abtst_update_partition_stats(pid, q)
        PROVE  Counted(pid)
    BY Zenon, <1>4, StatTypesStep
  <1>5. ASSUME NEW q \in [Cores -> Nat], numa_stat' = abtst_update_numa_stats(q)
         PROVE  NumasCounted
    BY Zenon, <1>5, StatTypesStep
  <1> SUFFICES Counted(part_id') /\ NumasCounted
    BY Zenon
  <1> HIDE DEF Counted, NumasCounted
  <1>6. CASE UpdateStat
    <2>1. /\ numa_stats' = abtst_update_partition_stats(part_id, qdepth')
          /\ numa_stat' = abtst_update_numa_stats(qdepth') /\ part_id' = part_id
      BY Zenon, <1>6 DEF UpdateStat
    <2> QED
      BY Zenon, <1>1, <1>4, <1>5, <2>1
  <1>7. CASE UNCHANGED statVars /\ ~L2Move /\ pc \notin {"stat", "trap"}
    BY Zenon, <1>1, <1>3, <1>7 DEF statVars, CoresCounted, Counted, NumasCounted
  <1>8. CASE L2Move
    <2>1. /\ numa_stats' = abtst_update_partition_stats(part_id', qdepth')
          /\ numa_stat' = numa_stat /\ pc = "l2"
      BY <1>8, Zenon DEF L2Move
    <2>2. NumasCounted
      BY <1>1, <2>1, Zenon DEF CoresCounted, NumasCounted
    <2> QED
      BY Zenon, <1>1, <1>4, <2>1, <2>2
  <1>9. CASE PsSleep \/ PsSlept
    <2>1. part_id' = part_id
      BY <1>9, Zenon DEF PsSleep, PsSlept, placeVars
    <2>2. CASE RefreshStats(part_id, qdepth)
      BY Zenon, <1>1, <1>4, <1>5, <2>1, <2>2 DEF RefreshStats
    <2>3. CASE UNCHANGED statVars
      <3>1. pc \notin {"stat", "trap"}
        BY <1>9, Zenon DEF PsSleep, PsSlept
      <3> QED
        BY Zenon, <1>1, <2>1, <2>3, <3>1 DEF statVars, CoresCounted, Counted, NumasCounted
    <2> QED
      BY <1>9, <2>2, <2>3, Zenon DEF PsSleep, PsSlept
  <1>10. CASE L3End
    BY Zenon, <1>1, <1>10, <1>4, <1>5 DEF L3End, placeVars
  <1> QED
    BY Zenon, <1>2, <1>6, <1>7, <1>8, <1>9, <1>10, StatFrame

LEMMA EmptyingStep ==
    ASSUME Inv, [Next]_vars
    PROVE  Emptying'
  <1> SUFFICES ASSUME pc' = "psmove"
               PROVE  /\ numa_id' \in Awake' \ {0}
                      /\ todo' \subseteq CoresIn(numa_id')
                      /\ CanCombine(numa_id)'
                      /\ \A c \in CoresIn(numa_id') \ todo' : load_q'[c] = {}
    BY Zenon DEF Emptying
  <1>1. Emptying /\ LoopTypes /\ load_q \in [Cores -> SUBSET Loads]
    BY Zenon DEF Inv, Control, Types, PlaceTypes
  <1>2. CASE UNCHANGED <<placeVars, statVars, psVars, loopVars, workVars, pc, level>>
    BY Zenon, <1>1, <1>2 DEF Emptying, placeVars, statVars, psVars, loopVars, workVars,
                      Awake, CanCombine, ToNumas
  <1>3. CASE PsSleep
    <2>1. PICK n \in SleepCandidates : /\ CanCombine(n) /\ numa_id' = n
                                       /\ todo' = CoresIn(n)
                                       /\ UNCHANGED statVars
      BY Zenon, <1>3 DEF PsSleep
    <2>2. UNCHANGED psVars
      BY Zenon, <1>3 DEF PsSleep
    <2>3. n \in Awake \ {0}
      BY Zenon DEF SleepCandidates, Least
    <2>4. Awake' = Awake
      BY Zenon, <2>2 DEF psVars, Awake
    <2>5. CanCombine(numa_id)'
      BY Zenon, <2>1, <2>4 DEF CanCombine, ToNumas, statVars
    <2> QED
      BY Zenon, <2>1, <2>3, <2>4, <2>5
  <1>4. ASSUME NEW c \in Cores, PsMove(c)
        PROVE  /\ numa_id' \in Awake' \ {0}
               /\ todo' \subseteq CoresIn(numa_id')
               /\ CanCombine(numa_id)'
               /\ \A d \in CoresIn(numa_id') \ todo' : load_q'[d] = {}
    <2> DEFINE t == ToCore(numa_id, part_id[c])
    <2>1. /\ pc = "psmove" /\ todo' = todo \ {c} /\ numa_id' = numa_id
          /\ UNCHANGED statVars /\ UNCHANGED psVars
      BY Zenon, <1>4 DEF PsMove, loopVars
    <2>2. Moved(load_q[c], c, t) /\ NumaOf[t] # numa_id
      BY <1>4, PsMoveMoves, Zenon
    <2> HIDE DEF t
    <2>3. Awake' = Awake
      BY Zenon, <2>1 DEF psVars, Awake
    <2>4. CanCombine(numa_id)'
      BY Zenon, <1>1, <2>1, <2>3 DEF Emptying, CanCombine, ToNumas, statVars
    <2>5. ASSUME NEW d \in CoresIn(numa_id) \ todo' PROVE load_q'[d] = {}
      <3>1. d \in Cores /\ NumaOf[d] = numa_id /\ d # t
        BY Zenon, <2>2 DEF CoresIn
      <3>2. d # c => load_q[d] = {}
        BY Zenon, <1>1, <2>1 DEF Emptying
      <3> QED
        BY Zenon, <1>1, <2>2, <3>1, <3>2 DEF Moved, MoveLoads
    <2> QED
      BY Zenon, <1>1, <2>1, <2>3, <2>4, <2>5 DEF Emptying
  <1> QED
    BY Zenon, <1>2, <1>3, <1>4, StageSteps, OutsideSteps DEF Next

LEMMA LevelingStep ==
    ASSUME Inv, [Next]_vars
    PROVE  Leveling'
  <1> SUFFICES ASSUME pc' = "l3move"
               PROVE  /\ to' \in Cores /\ NumaOf[to'] \in Awake'
                      /\ \E f \in Numas \ {NumaOf[to']} :
                            todo' \subseteq StreamsOf(part_id', f, part_id'[to'])
    BY Zenon DEF Leveling
  <1>1. Leveling
    BY Zenon DEF Inv, Control
  <1>2. CASE UNCHANGED <<placeVars, statVars, psVars, loopVars, workVars, pc, level>>
    BY Zenon, <1>1, <1>2 DEF Leveling, placeVars, psVars, workVars, Awake
  <1>3. CASE L3Start
    <2>1. PICK f, t \in Awake, p \in Parts :
             f # t /\ to' \in StreamsOf(part_id, t, p) /\ todo' = StreamsOf(part_id, f, p)
      BY Zenon, <1>3, L3StartPair
    <2>2. part_id' = part_id /\ Awake' = Awake
      BY <1>3, Zenon DEF L3Start, L3StartAmong, placeVars, psVars, Awake
    <2>3. to' \in Cores /\ NumaOf[to'] = t /\ part_id[to'] = p
      BY <2>1, StreamsElements
    <2>4. f \in Numas
      BY Zenon DEF Awake
    <2> QED
      BY Zenon, <2>1, <2>2, <2>3, <2>4
  <1>4. CASE L3Move
    <2>1. /\ pc = "l3move" /\ to' = to /\ part_id' = part_id /\ todo' \subseteq todo
          /\ UNCHANGED psVars
      BY <1>4, Zenon DEF L3Move
    <2>2. Awake' = Awake
      BY Zenon, <2>1 DEF psVars, Awake
    <2> QED
      BY <1>1, <2>1, <2>2, Zenon DEF Leveling
  <1> QED
    BY <1>2, <1>3, <1>4, StageSteps, OutsideSteps, Zenon DEF Next

LEMMA PickingStep ==
    ASSUME Inv, [Next]_vars
    PROVE  Picking'
  <1>1. Picking /\ PlaceTypes /\ WorkTypes /\ size \in [Loads -> Nat]
    BY Zenon DEF Inv, Control, Types, EnvTypes
  <1>2. CASE UNCHANGED <<placeVars, statVars, psVars, loopVars, workVars, pc, level>>
    BY <1>1, <1>2, Zenon DEF Picking, PartStreams, placeVars, loopVars, workVars
  <1>3. ASSUME RebStep, pc' \notin {"foreign", "own"} PROVE Picking'
    <2>1. CASE ClearWork
      BY Zenon, <1>3, <2>1 DEF ClearWork, Picking
    <2>2. CASE pc # "own" /\ UNCHANGED <<mloads, min_lsize>>
      BY Zenon, <1>1, <1>3, <2>2 DEF Picking
    <2>3. CASE UpdateStat \/ TrapInStat \/ ReadLevel \/ ResetStat
      BY Zenon, <2>2, <2>3 DEF UpdateStat, TrapInStat, ReadLevel, ResetStat, workVars
    <2>4. CASE PsKeep \/ PsSleep \/ PsSlept \/ PsWake \/ \E c \in Cores : PsMove(c)
      BY <2>2, <2>4, Zenon DEF PsKeep, PsSleep, PsSlept, PsWake, PsMove, workVars
    <2>5. CASE L3Keep \/ L3Start \/ L3Move \/ L3End
      BY <2>1, <2>2, <2>5, Zenon DEF L3Keep, L3Start, L3StartAmong, L3Move, L3End, workVars
    <2>6. CASE L2Keep \/ L2Move \/ TrapInSort
      BY <2>2, <2>6, Zenon DEF L2Keep, L2Move, TrapInSort, workVars
    <2>7. CASE L1Keep \/ L1Start \/ L1Foreign \/ L1Move
      BY <1>3, <2>1, <2>7, Zenon DEF L1Keep, L1Start, L1Foreign, L1Move, Migrate, NextPartition
    <2>8. CASE \E l \in Loads : L1Pick(l)
      BY Zenon, <1>3, <2>8 DEF L1Pick
    <2> QED
      BY Zenon, <1>3, <2>3, <2>4, <2>5, <2>6, <2>7, <2>8 DEF RebStep
  <1>4. CASE L1Start
    <2>1. /\ pc = "l1" /\ pc' = "foreign"
          /\ UNCHANGED <<placeVars, loopVars, todo, mloads, min_lsize>>
      BY <1>4, Zenon DEF L1Start
    <2>2. PartStreams' = PartStreams /\ qdepth' = qdepth
      BY Zenon, <2>1 DEF PartStreams, placeVars, loopVars
    <2>3. /\ from' \in PartStreams /\ to' \in PartStreams /\ from' # to'
          /\ ios' = qdepth[to']
      BY Zenon, <1>4, L1StartEnds
    <2>4. qdepth[to'] \in Nat
      BY Zenon, <1>1, <2>3, StreamsElements DEF PartStreams, PlaceTypes
    <2> QED
      BY <1>1, <2>1, <2>2, <2>3, <2>4 DEF Picking
  <1>5. CASE L1Foreign /\ pc' = "own"
    <2>1. /\ pc = "foreign"
          /\ todo' = load_q[from]
          /\ UNCHANGED <<load_q, qdepth, part_id, loopVars, from, to, mloads, ios, min_lsize>>
      BY <1>5, Zenon DEF L1Foreign, Migrate, NextPartition
    <2>2. PartStreams' = PartStreams
      BY Zenon, <2>1 DEF PartStreams, loopVars
    <2> QED
      BY Zenon, <1>1, <1>5, <2>1, <2>2 DEF Picking
  <1>6. ASSUME NEW l \in Loads, L1Pick(l) PROVE Picking'
    <2>1. /\ pc = "own" /\ pc' = "own" /\ l \in todo
          /\ UNCHANGED <<load_q, qdepth, part_id, loopVars, from, to>>
      BY <1>6, Zenon DEF L1Pick, placeVars
    <2>2. PartStreams' = PartStreams
      BY Zenon, <2>1 DEF PartStreams, loopVars
    <2>3. l \in load_q[from] /\ todo \subseteq load_q[from] /\ mloads \subseteq load_q[from]
      BY Zenon, <1>1, <2>1 DEF Picking
    <2>4. todo' \subseteq todo /\ mloads' \subseteq mloads \cup {l}
      BY <1>6, Zenon DEF L1Pick
    <2>5. min_lsize' # 0 => min_load' = l \/ (min_lsize' = min_lsize /\ min_load' = min_load)
      BY Zenon, <1>6 DEF L1Pick
    <2>6. ios \in Nat /\ size[l] \in Nat /\ (ios' = ios \/ ios' = ios + size[l])
      BY Zenon, <1>1, <1>6 DEF L1Pick, WorkTypes
    <2>7. qdepth[to] \in Nat
      BY Zenon, <1>1, <2>1, StreamsElements DEF Picking, PartStreams, PlaceTypes
    <2>8. ios' >= qdepth[to]
      BY <1>1, <2>1, <2>6, <2>7 DEF Picking
    <2> QED
      BY Zenon, <1>1, <2>1, <2>2, <2>3, <2>4, <2>5, <2>8 DEF Picking
  <1> QED
    BY Zenon, <1>2, <1>3, <1>4, <1>5, <1>6, StageSteps, OutsideSteps DEF Next

-----------------------------------------------------------------------------
(* The invariant holds.                                                    *)

LEMMA InvInit == Init => Inv
  <1> SUFFICES ASSUME Init PROVE Inv
    BY Zenon
  <1>1. /\ init_rank \in [Loads -> Cores]
        /\ \A l \in Loads : PartMap[init_rank[l]] = LoadPart[l]
    BY Zenon DEF Init
  <1>2. 0 \in Numas /\ 0 \in Parts
    BY Zenon, FiniteParts
  <1>3. PlaceTypes
    BY Zenon, <1>1, CoresAssumption DEF Init, PlaceTypes
  <1>4. EnvTypes
    BY <1>1, ValuesAssumption, Zenon DEF Init, EnvTypes
  <1>5. StatTypes
    <2>1. /\ numa_stats = [p \in Parts |-> [n \in Numas |-> [used_cores |-> 0, qdepth |-> 0]]]
          /\ numa_stat = [n \in Numas |-> [used_cores |-> 0, avg_qdepth |-> 0]]
          /\ ps_pct = [n \in Numas |-> 0]
      BY Zenon DEF Init
    <2> QED
      BY <2>1 DEF StatTypes
  <1>6. PsTypes /\ LoopTypes /\ WorkTypes
    <2>1. /\ ps_state = [n \in Numas |-> FALSE] /\ nr_ps_numas = 0 /\ pc = "stat"
          /\ level = 1 /\ numa_id = 0 /\ partition_id = 0 /\ from = None /\ to = None
          /\ todo = {} /\ mloads = {} /\ ios = 0 /\ min_load = None /\ min_lsize = 0
          /\ limit = 0
      BY Zenon DEF Init
    <2> QED
      BY <1>2, <2>1 DEF PsTypes, LoopTypes, WorkTypes, PCs
  <1>7. Control
    BY Zenon DEF Init, Control, CoresCounted, Emptying, Leveling, Picking
  <1>8. LoadPlacement
    BY <1>1, Zenon DEF Init, LoadPlacement
  <1>9. PartitionKept
    BY <1>1, Zenon DEF Init, PartitionKept
  <1>10. PsConsistent
    <2>1. Awake = Numas
      BY Zenon DEF Init, Awake
    <2>2. Cardinality(Numas \ Awake) = 0
      BY Zenon, <2>1, FS_EmptySet
    <2>3. \A c \in Cores : NumaOf[c] \in Awake
      BY Zenon, <2>1, CoresAssumption
    <2> QED
      BY <1>2, <2>1, <2>2, <2>3, Zenon DEF Init, PsConsistent
  <1> QED
    BY Zenon, <1>3, <1>4, <1>5, <1>6, <1>7, <1>8, <1>9, <1>10 DEF Inv, Types

LEMMA InvNext == Inv /\ [Next]_vars => Inv'
  <1> SUFFICES ASSUME Inv, [Next]_vars PROVE Inv'
    BY Zenon
  <1>1. Types'
    BY Zenon, PlaceTypesStep, EnvTypesStep, StatTypesKept, PsConsistentStep, LoopTypesKept,
       WorkTypesKept DEF Types
  <1>2. Control'
    BY Zenon, CoresCountedStep, EmptyingStep, LevelingStep, PickingStep DEF Control
  <1> QED
    BY Zenon, <1>1, <1>2, PlaceTypesStep, PartitionKeptStep, PsConsistentStep DEF Inv

\* The inductive invariant: the types, what each stage of a pass knows
\* (reb_func, rebalance.c 829-874), and where loads, cores and sleeping NUMAs are.
THEOREM InvHolds == Spec => []Inv
  BY InvInit, InvNext, PTL DEF Spec

\* However levels 1, 2 and 3 and power saving interleave with growing loads and
\* with migrations, a load stays in the list of one stream, its dest_rank.
THEOREM LoadsStayPlaced == Spec => []LoadPlacement
  <1>1. Inv => LoadPlacement
    BY Zenon DEF Inv
  <1> QED
    BY <1>1, InvHolds, PTL

\* No migration sends a load to a core that is, or is about to be, another
\* partition's: level 2 empties a core within its partition before it goes.
THEOREM LoadsKeepPartition == Spec => []PartitionKept
  <1>1. Inv => PartitionKept
    BY Zenon DEF Inv
  <1> QED
    BY <1>1, InvHolds, PTL

\* nr_ps_numas counts the NUMAs that sleep, NUMA 0 stays awake, and no level of
\* the rebalancer gives a load to a stream of a NUMA that sleeps.
THEOREM SleepersHaveNoLoads == Spec => []PsConsistent
  <1>1. Inv => PsConsistent
    BY Zenon DEF Inv
  <1> QED
    BY <1>1, InvHolds, PTL
=============================================================================
