----------------------------- MODULE Rebalance -----------------------------
(***************************************************************************)
(* The rebalancer thread of abt-st: one pass of reb_func                   *)
(* (src/src/rebalance/rebalance.c) reads the queue depths, lets NUMAs      *)
(* sleep or wake (power saving), and moves loads between NUMAs (level 3),  *)
(* cores between partitions (level 2) and loads between the streams of a   *)
(* partition (level 1).  The rest of the program appears as what it does   *)
(* to the data the rebalancer reads: loads grow and shrink, schedulers     *)
(* sleep and carry out migrations, the application sets the level and the  *)
(* power saving switch.                                                    *)
(*                                                                         *)
(* Abstractions.  Cores are the used streams: nothing changes stream->used *)
(* after initialisation, since the add/remove core requests are compiled   *)
(* out.  load_q is a set: list_add and the removals give it an order that  *)
(* no property depends on, so a scan takes the loads in any order.  qsort  *)
(* leaves equal elements in any order.  A size, a rank or a sleep time     *)
(* that a stage reads for several loads is read once for each, so reading  *)
(* them in one step yields the same combinations.  Division by zero traps  *)
(* (x86) or yields 0 (the Kunpeng of Documentation/architecture.txt).      *)
(***************************************************************************)
EXTENDS Integers, Sequences, FiniteSets, FiniteSetsExt, Functions

CONSTANTS
    Cores,     \* ranks of the used streams
    NumaOf,    \* abtst_env_get_numa_id of each core
    NrNumas,   \* env.nr_numas
    NrParts,   \* nr_partitions
    PartMap,   \* partition_map: the partition each core was configured for
    Loads,     \* the loads of all mappings
    LoadPart,  \* the partition of each load's mapping
    Sizes,     \* queue depths a load may have
    Sleeps,    \* nanoseconds a stream may have slept since the last reset
    Interval,  \* rebalance_interval, in seconds
    MinIos,    \* MIN_IOS_TO_START_REB (100)
    MaxPicked, \* LOADS_PER_XSTREAM / 16 (2)
    Levels,    \* rebalance levels the application sets
    PsModes,   \* values of ps_enabled the application sets
    Word,      \* 2^32, the range of uint32_t
    None       \* no load, no stream

Numas == 0..(NrNumas - 1)
Parts == 0..(NrParts - 1)

ASSUME CoresAssumption ==
    /\ Cores \subseteq Nat \ {0} /\ IsFiniteSet(Cores) /\ IsFiniteSet(Loads)
    /\ NrNumas \in Nat \ {0} /\ NrParts \in Nat \ {0}
    /\ NumaOf \in [Cores -> Numas] /\ PartMap \in [Cores -> Parts]
ASSUME LoadsAssumption ==
    /\ LoadPart \in [Loads -> Parts]
    /\ \A l \in Loads : \E c \in Cores : PartMap[c] = LoadPart[l]
    /\ None \notin Loads /\ None \notin Cores
ASSUME ValuesAssumption ==
    /\ Sizes \subseteq Nat /\ Sleeps \subseteq Nat /\ 0 \in Sleeps
    /\ Interval \in Nat \ {0} /\ MinIos \in Nat \ {0}
    /\ MaxPicked \in Nat \ {0} /\ Word \in Nat \ {0}
    /\ Levels \subseteq 0..3 /\ PsModes \subseteq BOOLEAN

VARIABLES
    part_id,      \* stream->part_id
    load_q,       \* stream->load_q: the loads assigned to the stream
    qdepth,       \* stream->stat.total_qdepth
    sleep_nsec,   \* stream->stat.sleep_nsec
    init_rank, curr_rank, dest_rank,                 \* abtst_load
    size,         \* abtst_get_load_size of each load
    numa_stats,   \* partitions->numa_stats[part][numa]
    numa_stat,    \* env.numa_stat[numa]
    ps_state, ps_pct, nr_ps_numas,                   \* abtst_power
    pc,           \* next stage of the pass
    level,        \* local of reb_func
    numa_id, partition_id,   \* loop counters, and from_numa of power saving
    from, to,     \* streams the loads are moved between
    todo,         \* what a loop has still to visit
    mloads, ios, min_load, min_lsize,  \* locals of abtst_rebalance_streams
    limit,        \* most IOs level 3 may move; count is kept in ios
    fresh         \* history: no size changed since the statistics were read

placeVars == <<part_id, load_q, dest_rank, qdepth>>
statVars  == <<numa_stats, numa_stat, ps_pct>>
psVars    == <<ps_state, nr_ps_numas>>
loopVars  == <<numa_id, partition_id>>
workVars  == <<from, to, todo, mloads, ios, min_load, min_lsize, limit>>
envVars   == <<sleep_nsec, init_rank, curr_rank, size, fresh>>
vars      == <<placeVars, statVars, psVars, loopVars, workVars, envVars,
               pc, level>>

-----------------------------------------------------------------------------
(* Statistics.                                                             *)

CoresIn(n) == {c \in Cores : NumaOf[c] = n}

\* The streams sort_streams collects for a NUMA and a partition.
StreamsOf(pid, n, p) == {c \in CoresIn(n) : pid[c] = p}

Total(f, S) == MapThenSumSet(LAMBDA x : f[x], S)

\* An integer division that the machine carries out although b may be 0.
Quot(a, b) == IF b = 0 THEN 0 ELSE a \div b

get_stream_ios(c) == Total(size, load_q[c])

abtst_update_streams_stat == [c \in Cores |-> get_stream_ios(c)]

\* Mutant: the last core is not visited.
PartitionStatsShort(pid, q) ==
    [p \in Parts |-> [n \in Numas |->
        [used_cores |-> Cardinality(StreamsOf(pid, n, p) \ {Max(Cores)}),
         qdepth     |-> Total(q, StreamsOf(pid, n, p) \ {Max(Cores)})]]]

abtst_update_partition_stats(pid, q) ==
    [p \in Parts |-> [n \in Numas |->
        [used_cores |-> Cardinality(StreamsOf(pid, n, p)),
         qdepth     |-> Total(q, StreamsOf(pid, n, p))]]]

abtst_update_numa_stats(q) ==
    [n \in Numas |->
        [used_cores |-> Cardinality(CoresIn(n)),
         avg_qdepth |-> Quot(Total(q, CoresIn(n)), Cardinality(CoresIn(n)))]]

\* Share of the interval the streams of a NUMA slept, in percent.
update_power_stat(n) ==
    IF CoresIn(n) = {} THEN 100
    ELSE LET msec == Total([c \in Cores |-> sleep_nsec[c] \div 1000000], CoresIn(n))
             pct  == ((msec \div Cardinality(CoresIn(n))) * 100) \div (1000 * Interval)
         IN IF pct > 100 THEN 100 ELSE pct

abtst_update_power_stats == [n \in Numas |-> update_power_stat(n)]

\* Number of NUMAs that should sleep: 0, or NrNumas - i for the least i whose
\* half load would cover the work.
abtst_estimate_ps_numas ==
    LET busy == NrNumas * 100 - Total(ps_pct, Numas)
        enough == {i \in 1..(NrNumas - 1) : 2 * busy < i * 100}
    IN IF enough = {} THEN 0 ELSE NrNumas - Min(enough)

abtst_get_average_qdepth ==
    LET cores == Total([n \in Numas |-> numa_stat[n].used_cores], Numas)
        sum == Total([n \in Numas |-> numa_stat[n].avg_qdepth
                                      * numa_stat[n].used_cores], Numas)
    IN Quot(sum, cores)

\* The results qsort may give for the elements of S, and the elements it may
\* put first and last.
Sorted(S, key) ==
    {q \in Injection(1..Cardinality(S), S) :
        \A i \in 1..(Len(q) - 1) : key[q[i]] <= key[q[i + 1]]}

Least(S, key) == {x \in S : \A y \in S : key[x] <= key[y]}
Greatest(S, key) == {x \in S : \A y \in S : key[x] >= key[y]}

-----------------------------------------------------------------------------
\* Loads are placed by find_next_stream, round robin over the streams of their
\* partition, before the rebalancer has any statistics.
RoundRobin(rank) ==
    \A c, d \in Cores :
        PartMap[c] = PartMap[d] =>
            Cardinality({l \in Loads : rank[l] = c})
                <= Cardinality({l \in Loads : rank[l] = d}) + 1

Init ==
    /\ init_rank \in {rank \in [Loads -> Cores] :
                        /\ \A l \in Loads : PartMap[rank[l]] = LoadPart[l]
                        /\ RoundRobin(rank)}
    /\ curr_rank = init_rank
    /\ dest_rank = init_rank
    /\ load_q = [c \in Cores |-> {l \in Loads : init_rank[l] = c}]
    /\ part_id = PartMap
    /\ size = [l \in Loads |-> 0]
    /\ qdepth = [c \in Cores |-> 0]
    /\ sleep_nsec = [c \in Cores |-> 0]
    /\ numa_stats = [p \in Parts |-> [n \in Numas |-> [used_cores |-> 0, qdepth |-> 0]]]
    /\ numa_stat = [n \in Numas |-> [used_cores |-> 0, avg_qdepth |-> 0]]
    /\ ps_state = [n \in Numas |-> FALSE]
    /\ ps_pct = [n \in Numas |-> 0]
    /\ nr_ps_numas = 0
    /\ pc = "stat"
    /\ level = 1
    /\ numa_id = 0 /\ partition_id = 0
    /\ from = None /\ to = None
    /\ todo = {} /\ mloads = {}
    /\ ios = 0 /\ min_load = None /\ min_lsize = 0 /\ limit = 0
    /\ fresh = FALSE

-----------------------------------------------------------------------------
(* The rest of the program.                                                *)

\* LWTs are created and end: the size of a load changes at any time.
SizeChange(l, n) ==
    /\ pc # "trap"
    /\ size[l] # n
    /\ size' = [size EXCEPT ![l] = n]
    /\ fresh' = FALSE
    /\ UNCHANGED <<placeVars, statVars, psVars, loopVars, workVars, sleep_nsec,
                   init_rank, curr_rank, pc, level>>

\* An idle base scheduler adds its sleep to the stream's statistics.
Sleep(c, n) ==
    /\ pc # "trap"
    /\ sleep_nsec[c] < n
    /\ sleep_nsec' = [sleep_nsec EXCEPT ![c] = n]
    /\ UNCHANGED <<placeVars, statVars, psVars, loopVars, workVars, init_rank,
                   curr_rank, size, fresh, pc, level>>

\* A base scheduler carries a migration out (module Sched).
Land(l) ==
    /\ pc # "trap"
    /\ curr_rank[l] # dest_rank[l]
    /\ curr_rank' = [curr_rank EXCEPT ![l] = dest_rank[l]]
    /\ UNCHANGED <<placeVars, statVars, psVars, loopVars, workVars, sleep_nsec,
                   init_rank, size, fresh, pc, level>>

-----------------------------------------------------------------------------
(* Moving loads.                                                           *)

\* Mutant: the loads stay in the list of f, too.
MoveLoadsKeep(L, f, t) ==
    /\ load_q' = [load_q EXCEPT ![t] = @ \cup L]
    /\ dest_rank' = [l \in Loads |-> IF l \in L THEN t ELSE dest_rank[l]]

\* Mutant: the loads change lists, but are not set migrating.
MoveLoadsNoDest(L, f, t) ==
    /\ load_q' = [load_q EXCEPT ![f] = @ \ L, ![t] = @ \cup L]
    /\ UNCHANGED dest_rank

\* Remove L from the list of f, add it to the list of t, set migrating.
MoveLoads(L, f, t) ==
    /\ load_q' = [load_q EXCEPT ![f] = @ \ L, ![t] = @ \cup L]
    /\ dest_rank' = [l \in Loads |-> IF l \in L THEN t ELSE dest_rank[l]]

\* Mutant: the queue depth of f is not cleared.
CombineKeepsDepth(f, t) ==
    IF load_q[f] = {}
    THEN UNCHANGED <<load_q, dest_rank, qdepth>>
    ELSE /\ MoveLoads(load_q[f], f, t)
         /\ qdepth' = [qdepth EXCEPT ![t] = qdepth[f] + qdepth[t]]

\* The loads of f go to t, and the queue depth with them.
abtst_combine_streams(f, t) ==
    IF load_q[f] = {}
    THEN UNCHANGED <<load_q, dest_rank, qdepth>>
    ELSE /\ MoveLoads(load_q[f], f, t)
         /\ qdepth' = [qdepth EXCEPT ![t] = qdepth[f] + qdepth[t], ![f] = 0]

ClearWork ==
    /\ from' = None /\ to' = None /\ todo' = {} /\ mloads' = {}
    /\ ios' = 0 /\ min_load' = None /\ min_lsize' = 0 /\ limit' = 0

-----------------------------------------------------------------------------
(* Beginning and end of a pass.                                            *)

\* Mutant: the partitions are counted before the streams.
UpdateStatOldDepth ==
    /\ pc = "stat"
    /\ qdepth' = abtst_update_streams_stat
    /\ numa_stats' = abtst_update_partition_stats(part_id, qdepth)
    /\ numa_stat' = abtst_update_numa_stats(qdepth')
    /\ ps_pct' = abtst_update_power_stats
    /\ fresh' = TRUE
    /\ pc' = "level"
    /\ UNCHANGED <<part_id, load_q, dest_rank, psVars, loopVars, workVars,
                   sleep_nsec, init_rank, curr_rank, size, level>>

\* abtst_reb_update_stat.
UpdateStat ==
    /\ pc = "stat"
    /\ qdepth' = abtst_update_streams_stat
    /\ numa_stats' = abtst_update_partition_stats(part_id, qdepth')
    /\ numa_stat' = abtst_update_numa_stats(qdepth')
    /\ ps_pct' = abtst_update_power_stats
    /\ fresh' = TRUE
    /\ pc' = "level"
    /\ UNCHANGED <<part_id, load_q, dest_rank, psVars, loopVars, workVars,
                   sleep_nsec, init_rank, curr_rank, size, level>>

\* qdepth/cnt in update_numa_stat, for a NUMA with no used stream.
TrapInStat ==
    /\ pc = "stat"
    /\ \E n \in Numas : CoresIn(n) = {}
    /\ pc' = "trap"
    /\ UNCHANGED <<placeVars, statVars, psVars, loopVars, workVars, envVars, level>>

\* The level is read once per pass.
ReadLevel ==
    /\ pc = "level"
    /\ level' \in Levels
    /\ pc' = CASE level' >= 3 -> "ps"
               [] level' = 2  -> "l2"
               [] level' = 1  -> "l1"
               [] level' < 1  -> "reset"
    /\ UNCHANGED <<placeVars, statVars, psVars, loopVars, workVars, envVars>>

\* abtst_reset_streams_stat, and the sleep before the next pass.
ResetStat ==
    /\ pc = "reset"
    /\ sleep_nsec' = [c \in Cores |-> 0]
    /\ pc' = "stat"
    /\ UNCHANGED <<placeVars, statVars, psVars, loopVars, workVars, init_rank,
                   curr_rank, size, fresh, level>>

-----------------------------------------------------------------------------
(* abtst_reb_power_saving.                                                 *)

Awake == {n \in Numas : ~ps_state[n]}

\* Nothing to do.
PsKeep ==
    /\ pc = "ps"
    /\ \/ FALSE \in PsModes
       \/ abtst_estimate_ps_numas = nr_ps_numas
       \/ abtst_estimate_ps_numas > nr_ps_numas /\ Cardinality(Awake) <= 1
       \/ abtst_estimate_ps_numas < nr_ps_numas /\ NrNumas <= 1
    /\ pc' = "l3"
    /\ UNCHANGED <<placeVars, statVars, psVars, loopVars, workVars, envVars, level>>

\* The NUMA with the lowest number of used cores, but never NUMA 0.
SleepCandidates ==
    LET used == [n \in Numas |-> numa_stat[n].used_cores]
        first == Least(Awake, used)
    IN (first \ {0}) \cup (IF 0 \in first THEN Least(Awake \ {0}, used) ELSE {})

\* Mutant: the first core of the first awake NUMA, whatever its partition.
ToCoreFirst(n, p) == Min(CoresIn(Min(Awake \ {n})))

\* The awake NUMAs other than n that have cores of partition p; the loads of p
\* go to the first core of p in the first of them.
ToNumas(n, p) == {m \in Awake \ {n} : numa_stats[p][m].used_cores > 0}
ToCore(n, p) ==
    LET m == Min(ToNumas(n, p)) IN Min(StreamsOf(part_id, m, p))

\* reb_combine_numas finds a stream for every partition before it moves a load.
CanCombine(n) ==
    \A p \in Parts : numa_stats[p][n].used_cores > 0 => ToNumas(n, p) # {}

RefreshStats(pid, q) ==
    /\ numa_stats' = abtst_update_partition_stats(pid, q)
    /\ numa_stat' = abtst_update_numa_stats(q)
    /\ ps_pct' = abtst_update_power_stats

PsSleep ==
    /\ pc = "ps"
    /\ TRUE \in PsModes
    /\ abtst_estimate_ps_numas > nr_ps_numas
    /\ Cardinality(Awake) > 1
    /\ \E n \in SleepCandidates :
        IF CanCombine(n)
        THEN /\ numa_id' = n
             /\ todo' = CoresIn(n)
             /\ pc' = "psmove"
             /\ UNCHANGED statVars
        ELSE /\ RefreshStats(part_id, qdepth)
             /\ pc' = "l3"
             /\ UNCHANGED <<numa_id, todo>>
    /\ UNCHANGED <<placeVars, psVars, partition_id, from, to, mloads, ios,
                   min_load, min_lsize, limit, envVars, level>>

\* One stream of the NUMA that is going to sleep.
PsMove(c) ==
    /\ pc = "psmove"
    /\ c \in todo
    /\ abtst_combine_streams(c, ToCore(numa_id, part_id[c]))
    /\ todo' = todo \ {c}
    /\ UNCHANGED <<part_id, statVars, psVars, loopVars, from, to, mloads, ios,
                   min_load, min_lsize, limit, envVars, pc, level>>

\* Mutant: the statistics are not read again.
PsSleptOldStats ==
    /\ pc = "psmove"
    /\ todo = {}
    /\ ps_state' = [ps_state EXCEPT ![numa_id] = TRUE]
    /\ nr_ps_numas' = nr_ps_numas + 1
    /\ numa_id' = 0
    /\ pc' = "l3"
    /\ UNCHANGED <<placeVars, statVars, partition_id, workVars, envVars, level>>

\* abtst_set_numa_ps_state, and the statistics again.
PsSlept ==
    /\ pc = "psmove"
    /\ todo = {}
    /\ ps_state' = [ps_state EXCEPT ![numa_id] = TRUE]
    /\ nr_ps_numas' = nr_ps_numas + 1
    /\ RefreshStats(part_id, qdepth)
    /\ numa_id' = 0
    /\ pc' = "l3"
    /\ UNCHANGED <<placeVars, partition_id, workVars, envVars, level>>

\* Mutant: nr_ps_numas is not decremented.
PsWakeNoCount ==
    /\ pc = "ps"
    /\ TRUE \in PsModes
    /\ abtst_estimate_ps_numas < nr_ps_numas
    /\ LET used == [n \in Numas |-> numa_stat[n].used_cores] IN
       \E n \in Greatest(Numas \ Awake, used) :
        ps_state' = [ps_state EXCEPT ![n] = FALSE]
    /\ pc' = "l3"
    /\ UNCHANGED <<nr_ps_numas, placeVars, statVars, loopVars, workVars,
                   envVars, level>>

\* The sleeping NUMA with the highest number of used cores wakes.
PsWake ==
    /\ pc = "ps"
    /\ TRUE \in PsModes
    /\ abtst_estimate_ps_numas < nr_ps_numas
    /\ NrNumas > 1
    /\ LET used == [n \in Numas |-> numa_stat[n].used_cores] IN
       \E n \in Greatest(Numas \ Awake, used) :
        /\ ps_state' = [ps_state EXCEPT ![n] = FALSE]
        /\ nr_ps_numas' = nr_ps_numas - 1
    /\ pc' = "l3"
    /\ UNCHANGED <<placeVars, statVars, loopVars, workVars, envVars, level>>

-----------------------------------------------------------------------------
(* Level 3: abtst_reb_between_numas.                                       *)

AvgQdepth(n) == numa_stat[n].avg_qdepth
SortedNumas(S) == Sorted(S, [n \in S |-> AvgQdepth(n)])

\* What reb_between_numas may move for partition p.
PartDiff(f, t, p) ==
    IF numa_stats[p][f].used_cores = 0 \/ numa_stats[p][t].used_cores = 0
    THEN 0 ELSE numa_stats[p][f].qdepth - numa_stats[p][t].qdepth

\* The pair of NUMAs <<from, to>> that the two searches over the sorted NUMAs
\* q end with, if any.
NumaPair(q) ==
    LET avg == abtst_get_average_qdepth
        T == {i \in 1..(Len(q) - 1) : /\ numa_stat[q[i]].used_cores > 0
                                      /\ AvgQdepth(q[i]) < avg}
        F == {i \in (Min(T) + 1)..Len(q) : /\ numa_stat[q[i]].used_cores > 0
                                           /\ AvgQdepth(q[i]) >= 2 * avg
                                           /\ AvgQdepth(q[i]) > 2 * MinIos}
    IN IF T = {} THEN {} ELSE IF F = {} THEN {} ELSE {<<q[Max(F)], q[Min(T)]>>}

\* The partition with the greatest difference, the first of several.
L3Part(f, t) ==
    LET diff == [p \in Parts |-> PartDiff(f, t, p)] IN Min(Greatest(Parts, diff))

\* No pair, or no partition to take loads from.
L3Keep ==
    /\ pc = "l3"
    /\ \E q \in SortedNumas(Awake) :
        \A pair \in NumaPair(q) :
            PartDiff(pair[1], pair[2], L3Part(pair[1], pair[2])) <= 0
    /\ pc' = "l2"
    /\ UNCHANGED <<placeVars, statVars, psVars, loopVars, workVars, envVars, level>>

\* Of the NUMAs S: the least loaded stream of the partition in the NUMA to
\* becomes the target.
L3StartAmong(S) ==
    /\ pc = "l3"
    /\ \E q \in SortedNumas(S) : \E pair \in NumaPair(q) :
        LET f == pair[1]
            t == pair[2]
            p == L3Part(f, t)
            ios_to_migrate == (abtst_get_average_qdepth - AvgQdepth(t))
                              * numa_stat[t].used_cores
        IN /\ PartDiff(f, t, p) > 0
           /\ to' \in Least(StreamsOf(part_id, t, p), qdepth)
           /\ todo' = StreamsOf(part_id, f, p)
           /\ limit' = Min({ios_to_migrate, PartDiff(f, t, p) \div 2})
    /\ ios' = 0
    /\ pc' = "l3move"
    /\ UNCHANGED <<placeVars, statVars, psVars, loopVars, from, mloads, min_load,
                   min_lsize, envVars, level>>

\* Mutant: the sleeping NUMAs take part.
L3StartAll == L3StartAmong(Numas)

L3Start == L3StartAmong(Awake)

\* Mutant: the limit is applied to each stream on its own.
L3MoveNoCount ==
    /\ pc = "l3move"
    /\ \E c \in Greatest(todo, qdepth) :
        /\ todo' = todo \ {c}
        /\ IF qdepth[c] = 0 \/ qdepth[c] > limit
           THEN UNCHANGED <<load_q, dest_rank, qdepth>>
           ELSE abtst_combine_streams(c, to)
    /\ UNCHANGED <<part_id, statVars, psVars, loopVars, from, to, mloads, ios,
                   min_load, min_lsize, limit, envVars, pc, level>>

\* One stream, in descending order of queue depth: all its loads or none.
L3Move ==
    /\ pc = "l3move"
    /\ \E c \in Greatest(todo, qdepth) :
        /\ todo' = todo \ {c}
        /\ IF qdepth[c] = 0 \/ ios + qdepth[c] > limit
           THEN UNCHANGED <<ios, load_q, dest_rank, qdepth>>
           ELSE /\ ios' = ios + qdepth[c]
                /\ abtst_combine_streams(c, to)
    /\ UNCHANGED <<part_id, statVars, psVars, loopVars, from, to, mloads,
                   min_load, min_lsize, limit, envVars, pc, level>>

\* Mutant: the partition statistics are not read again.
L3EndOldStats ==
    /\ pc = "l3move"
    /\ todo = {}
    /\ numa_stat' = abtst_update_numa_stats(qdepth)
    /\ ClearWork
    /\ pc' = "l2"
    /\ UNCHANGED <<placeVars, numa_stats, ps_pct, psVars, loopVars, envVars, level>>

L3End ==
    /\ pc = "l3move"
    /\ todo = {}
    /\ numa_stats' = abtst_update_partition_stats(part_id, qdepth)
    /\ numa_stat' = abtst_update_numa_stats(qdepth)
    /\ ClearWork
    /\ pc' = "l2"
    /\ UNCHANGED <<placeVars, ps_pct, psVars, loopVars, envVars, level>>

-----------------------------------------------------------------------------
(* Level 2: abtst_reb_in_numas, one step per NUMA.                         *)

PartAvg(n, p) == Quot(numa_stats[p][n].qdepth, numa_stats[p][n].used_cores)

\* abtst_reb_in_numas skips a NUMA, and everything if there is one partition.
L2Skips(n) ==
    NrParts <= 1 \/ numa_stat[n].used_cores = 0 \/ AvgQdepth(n) = 0

\* Mutant: the core that would go is still counted.
CanGiveNow(n, p) ==
    /\ numa_stats[p][n].used_cores > 1
    /\ PartAvg(n, p) <= AvgQdepth(n)

\* A partition that can give a core away, one that is to get one.
CanGive(n, p) ==
    /\ numa_stats[p][n].used_cores > 1
    /\ numa_stats[p][n].qdepth \div (numa_stats[p][n].used_cores - 1) <= AvgQdepth(n)
NeedsCore(n, p) ==
    /\ numa_stats[p][n].qdepth \div (numa_stats[p][n].used_cores + 1) >= AvgQdepth(n)
    /\ PartAvg(n, p) > MinIos

\* sort_partitions, and the pair of partitions <<from_pid, to_pid>> that the
\* two searches over the sorted partitions q end with, if any.
SortedParts(n) == Sorted(Parts, [p \in Parts |-> PartAvg(n, p)])
PartPair(n, q) ==
    LET F == {i \in 1..(Len(q) - 1) : CanGive(n, q[i])}
        T == {i \in (Min(F) + 1)..Len(q) : NeedsCore(n, q[i])}
    IN IF F = {} THEN {} ELSE IF T = {} THEN {} ELSE {<<q[Min(F)], q[Max(T)]>>}

NextNuma ==
    IF numa_id + 1 < NrNumas
    THEN numa_id' = numa_id + 1 /\ pc' = "l2"
    ELSE numa_id' = 0 /\ pc' = "l1"

L2Keep ==
    /\ pc = "l2"
    /\ \/ L2Skips(numa_id)
       \/ \E q \in SortedParts(numa_id) : PartPair(numa_id, q) = {}
    /\ NextNuma
    /\ UNCHANGED <<placeVars, statVars, psVars, partition_id, workVars, envVars, level>>

\* Mutant: the stream changes partitions with its loads, and the statistics are
\* not read again.
L2MoveLoaded ==
    /\ pc = "l2"
    /\ ~L2Skips(numa_id)
    /\ \E o \in SortedParts(numa_id) : \E pair \in PartPair(numa_id, o) :
        \E c \in StreamsOf(part_id, numa_id, pair[1]) :
            part_id' = [part_id EXCEPT ![c] = pair[2]]
    /\ NextNuma
    /\ UNCHANGED <<load_q, dest_rank, qdepth, statVars, psVars, partition_id,
                   workVars, envVars, level>>

\* Empty the stream with the lowest queue depth, or the first one that was
\* borrowed from another partition, and give it away.
L2Move ==
    /\ pc = "l2"
    /\ ~L2Skips(numa_id)
    /\ \E o \in SortedParts(numa_id) : \E pair \in PartPair(numa_id, o) :
        LET S == StreamsOf(part_id, numa_id, pair[1])
        IN \E q \in Sorted(S, qdepth) :
            LET borrowed == {i \in 1..Len(q) : part_id[q[i]] # PartMap[q[i]]}
                i == IF borrowed = {} THEN 1 ELSE Min(borrowed)
                j == IF i = 1 THEN 2 ELSE 1
            IN /\ abtst_combine_streams(q[i], q[j])
               /\ part_id' = [part_id EXCEPT ![q[i]] = pair[2]]
    /\ numa_stats' = abtst_update_partition_stats(part_id', qdepth')
    /\ NextNuma
    /\ UNCHANGED <<numa_stat, ps_pct, psVars, partition_id, workVars, envVars, level>>

\* qdepth / used_cores in sort_partitions, for a partition with no core here.
TrapInSort ==
    /\ pc = "l2"
    /\ ~L2Skips(numa_id)
    /\ \E p \in Parts : numa_stats[p][numa_id].used_cores = 0
    /\ pc' = "trap"
    /\ UNCHANGED <<placeVars, statVars, psVars, loopVars, workVars, envVars, level>>

-----------------------------------------------------------------------------
(* Level 1: abtst_reb_in_partitions, one pair of streams for each NUMA and *)
(* partition.                                                              *)

NextPartition ==
    /\ ClearWork
    /\ IF partition_id + 1 < NrParts
       THEN partition_id' = partition_id + 1 /\ numa_id' = numa_id /\ pc' = "l1"
       ELSE /\ partition_id' = 0
            /\ IF numa_id + 1 < NrNumas
               THEN numa_id' = numa_id + 1 /\ pc' = "l1"
               ELSE numa_id' = 0 /\ pc' = "reset"

PartStat == numa_stats[partition_id][numa_id]
PartStreams == StreamsOf(part_id, numa_id, partition_id)
Avg == PartStat.qdepth \div PartStat.used_cores

\* The tests of reb_in_partition, for the stream t with the lowest and f with
\* the highest queue depth: the difference is worth it, and t has slept.
WorthIt(t, f) == qdepth[f] - qdepth[t] >= MinIos /\ sleep_nsec[t] # 0

\* The tests at the top of abtst_rebalance_streams.
NeedsRebalance(t, f) ==
    /\ qdepth[t] < Avg /\ qdepth[f] > Avg
    /\ 2 * qdepth[f] >= 3 * qdepth[t]

Ends == Least(PartStreams, qdepth) \X Greatest(PartStreams, qdepth)

L1Keep ==
    /\ pc = "l1"
    /\ \/ PartStat.used_cores <= 1
       \/ PartStat.qdepth = 0
       \/ \E e \in Ends : ~(WorthIt(e[1], e[2]) /\ NeedsRebalance(e[1], e[2]))
    /\ NextPartition
    /\ UNCHANGED <<placeVars, statVars, psVars, envVars, level>>

L1Start ==
    /\ pc = "l1"
    /\ PartStat.used_cores > 1 /\ PartStat.qdepth # 0
    /\ \E e \in Ends : /\ WorthIt(e[1], e[2]) /\ NeedsRebalance(e[1], e[2])
                       /\ to' = e[1] /\ from' = e[2] /\ ios' = qdepth[e[1]]
    /\ pc' = "foreign"
    /\ UNCHANGED <<placeVars, statVars, psVars, loopVars, todo, mloads, min_load,
                   min_lsize, limit, envVars, level>>

\* Mutant: the queue depth of from becomes a negative number.
MigrateSigned(L, n) ==
    /\ MoveLoads(L, from, to)
    /\ qdepth' = [qdepth EXCEPT ![from] = qdepth[from] - n, ![to] = qdepth[to] + n]
    /\ NextPartition

\* Mutant: the IOs stay with from, too.
MigrateKeepsDepth(L, n) ==
    /\ MoveLoads(L, from, to)
    /\ qdepth' = [qdepth EXCEPT ![to] = qdepth[to] + n]
    /\ NextPartition

\* Give the loads L with n IOs to the stream to.
Migrate(L, n) ==
    /\ MoveLoads(L, from, to)
    /\ qdepth' = [qdepth EXCEPT ![from] = (qdepth[from] - n) % Word,
                                ![to] = qdepth[to] + n]
    /\ NextPartition

\* All loads that are not at their initial stream go, whatever their size.
L1Foreign ==
    /\ pc = "foreign"
    /\ LET F == {l \in load_q[from] : curr_rank[l] # init_rank[l]}
       IN IF F = {}
          THEN /\ pc' = "own"
               /\ todo' = load_q[from]
               /\ UNCHANGED <<load_q, dest_rank, qdepth, loopVars, from, to,
                              mloads, ios, min_load, min_lsize, limit>>
          ELSE Migrate(F, Total(size, F))
    /\ UNCHANGED <<part_id, statVars, psVars, envVars, level>>

\* IOs left on from once those picked so far have gone.
FromIos == qdepth[from] - (ios - qdepth[to])

\* A load fits if from stays at or above, and to at or below the average.  The
\* first comparison is made on unsigned integers.
Fits(n) == (FromIos - n) % Word >= Avg /\ ios + n <= Avg

\* One load of the scan for loads that fit.
L1Pick(l) ==
    /\ pc = "own"
    /\ l \in todo
    /\ IF size[l] = 0
       THEN /\ todo' = todo \ {l}
            /\ UNCHANGED <<mloads, ios, min_load, min_lsize>>
       ELSE /\ IF min_lsize = 0 \/ size[l] < min_lsize
               THEN min_lsize' = size[l] /\ min_load' = l
               ELSE UNCHANGED <<min_lsize, min_load>>
            /\ IF Fits(size[l])
               THEN ios' = ios + size[l] /\ mloads' = mloads \cup {l}
               ELSE UNCHANGED <<ios, mloads>>
            /\ todo' = IF \/ Cardinality(mloads') >= MaxPicked /\ load_q[to] # {}
                          \/ ios' = Avg
                       THEN {} ELSE todo \ {l}
    /\ UNCHANGED <<placeVars, statVars, psVars, loopVars, from, to, limit,
                   envVars, pc, level>>

\* Mutant: what from loses is not taken into account.
SmallestGoesLoose ==
    min_lsize # 0 /\ 2 * (qdepth[to] + min_lsize) < 3 * qdepth[from]

\* If no load fits, the smallest one may still go.
SmallestGoes ==
    /\ min_lsize # 0
    /\ 2 * (qdepth[to] + min_lsize) < 3 * (qdepth[from] - min_lsize)

L1Move ==
    /\ pc = "own"
    /\ todo = {}
    /\ \/ mloads # {} /\ Migrate(mloads, ios - qdepth[to])
       \/ mloads = {} /\ SmallestGoes /\ Migrate({min_load}, min_lsize)
       \/ /\ mloads = {} /\ ~SmallestGoes
          /\ NextPartition
          /\ UNCHANGED <<load_q, dest_rank, qdepth>>
    /\ UNCHANGED <<part_id, statVars, psVars, envVars, level>>

-----------------------------------------------------------------------------
RebStep ==
    \/ UpdateStat \/ TrapInStat \/ ReadLevel \/ ResetStat
    \/ PsKeep \/ PsSleep \/ PsSlept \/ PsWake
    \/ \E c \in Cores : PsMove(c)
    \/ L3Keep \/ L3Start \/ L3Move \/ L3End
    \/ L2Keep \/ L2Move \/ TrapInSort
    \/ L1Keep \/ L1Start \/ L1Foreign \/ L1Move
    \/ \E l \in Loads : L1Pick(l)

Environment ==
    \/ \E l \in Loads : Land(l) \/ \E n \in Sizes : SizeChange(l, n)
    \/ \E c \in Cores, n \in Sleeps : Sleep(c, n)

Next == RebStep \/ Environment

Spec == Init /\ [][Next]_vars

-----------------------------------------------------------------------------
(* Safety.                                                                 *)

PCs == {"stat", "level", "ps", "psmove", "l3", "l3move", "l2", "l1", "foreign",
        "own", "reset", "trap"}

\* Type invariant of the rebalancer's data and of the locals of reb_func.
TypeOK ==
    /\ part_id \in [Cores -> Parts]
    /\ load_q \in [Cores -> SUBSET Loads]
    /\ qdepth \in [Cores -> 0..(Word - 1)] /\ sleep_nsec \in [Cores -> Sleeps]
    /\ init_rank \in [Loads -> Cores] /\ curr_rank \in [Loads -> Cores]
    /\ dest_rank \in [Loads -> Cores] /\ size \in [Loads -> Nat]
    /\ numa_stats \in [Parts -> [Numas -> [used_cores : Nat, qdepth : Nat]]]
    /\ numa_stat \in [Numas -> [used_cores : Nat, avg_qdepth : Nat]]
    /\ ps_state \in [Numas -> BOOLEAN] /\ ps_pct \in [Numas -> 0..100]
    /\ nr_ps_numas \in Nat
    /\ pc \in PCs /\ level \in 0..3
    /\ numa_id \in Numas /\ partition_id \in Parts
    /\ from \in Cores \cup {None} /\ to \in Cores \cup {None}
    /\ todo \subseteq Cores \cup Loads /\ mloads \subseteq Loads
    /\ ios \in Nat /\ limit \in Nat
    /\ min_load \in Loads \cup {None} /\ min_lsize \in Nat
    /\ fresh \in BOOLEAN

\* Through combinations, migrations and power saving, a load stays in the list
\* of exactly one stream, the one its dest_rank sends its unit to: a load in no
\* list is never balanced again, one in two lists is counted twice.
LoadPlacement ==
    \A l \in Loads : {c \in Cores : l \in load_q[c]} = {dest_rank[l]}

\* "A partition is a collections of cores that a mapping of LWTs runs on"
\* (Documentation/partition.txt): a load is never sent to a core of another
\* partition, although level 2 gives cores to other partitions.
PartitionKept == \A l \in Loads : part_id[dest_rank[l]] = LoadPart[l]

\* Statistics of partition p in NUMA n that a stage has still to use.
Pending(n, p) ==
    \/ pc \in {"level", "ps", "l3", "l2"}
    \/ /\ pc \in {"l1", "foreign", "own"}
       /\ n > numa_id \/ (n = numa_id /\ p >= partition_id)

\* No stage decides on statistics that an earlier stage of the pass has made
\* stale; params[used_cores - 1] of rebalance.c is the last sorted stream, and
\* reb_combine_numas finds the stream that its statistics promise.
StatsCurrent ==
    /\ \A n \in Numas, p \in Parts :
          Pending(n, p) =>
            numa_stats[p][n] = abtst_update_partition_stats(part_id, qdepth)[p][n]
    /\ pc \in {"level", "ps", "l3", "l2"} =>
            numa_stat = abtst_update_numa_stats(qdepth)

\* The queue depths that combine_streams and rebalance_streams maintain without
\* counting again are those of the loads in the lists, as long as the loads
\* have not changed since they were counted.
QdepthTracksLoads == fresh => \A c \in Cores : qdepth[c] = get_stream_ios(c)

\* nr_ps_numas counts the sleeping NUMAs, NUMA 0 is not one of them, and no
\* stream of a sleeping NUMA has a load: no level gives it one.
PsConsistent ==
    /\ nr_ps_numas = Cardinality(Numas \ Awake)
    /\ 0 \in Awake
    /\ \A c \in Cores : NumaOf[c] \notin Awake => load_q[c] = {}

\* No division by zero.  "This numa hasn't been used for xstreams" (power.c)
\* foresees a NUMA without streams.
NeverTraps == pc # "trap"

-----------------------------------------------------------------------------
(* Action properties.                                                      *)

\* A level 1 move of loads that are at home lowers the greater queue depth of
\* the pair, and its unsigned arithmetic does not wrap.
OwnMovesImprove ==
    [][pc = "own" /\ qdepth' # qdepth =>
        qdepth'[from] < qdepth[from] /\ qdepth'[to] < qdepth[from]]_vars

\* Level 3 lifts the NUMA that gets loads at most to the average, and leaves
\* the partition in the NUMA that gives them no less than it has where they go.
L3KeepsOrder ==
    [][pc = "l3move" /\ pc' = "l2" =>
        LET t == NumaOf[to]
            p == part_id[to]
        IN /\ numa_stat'[t].avg_qdepth <= abtst_get_average_qdepth
           /\ \A n \in Numas :
                numa_stats'[p][n].qdepth < numa_stats[p][n].qdepth =>
                    numa_stats'[p][n].qdepth >= numa_stats'[p][t].qdepth]_vars

\* After a core has moved, the partition that gave it is still no more loaded
\* per core than the one that got it: the core does not come straight back.
L2KeepsOrder ==
    [][\A c \in Cores, p, q \in Parts :
        p # q /\ part_id[c] = p /\ part_id'[c] = q =>
            PartAvg(NumaOf[c], p)' <= PartAvg(NumaOf[c], q)']_vars

\* "moves one core from one partition with highest queue depth to the partition
\* with lowest queue depth" (Documentation/rebalance.txt).
L2Documented ==
    [][\A c \in Cores : part_id'[c] # part_id[c] =>
        PartAvg(NumaOf[c], part_id[c]) >= PartAvg(NumaOf[c], part_id'[c])]_vars
=============================================================================
