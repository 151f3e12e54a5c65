-------------------------------- MODULE App --------------------------------
(***************************************************************************)
(* The storage application from start to end: main() (src/app/main.c), its *)
(* I/O function (src/app/st.c) and the calls of the runtime that main()    *)
(* makes (abt_st.c): it initialises the partitions and the streams, starts *)
(* the rebalancer, creates a hash mapping on partition 0 and a random one  *)
(* on partition 1, keeps a fixed array of I/O slots filled with LWTs until *)
(* its time is over, and takes everything down again.                      *)
(*                                                                         *)
(* The schedulers appear by what they promise (module LoadOwnership, which *)
(* Sched implements): the LWTs of a load start in the order of its pool,   *)
(* one at a time, on some xstream of the load's partition.  Which xstream  *)
(* is the rebalancer's business and is left open.                          *)
(***************************************************************************)
EXTENDS Integers, Sequences, FiniteSets, FiniteSetsExt

CONSTANTS
    NrCores,           \* env.nr_cores
    Tables,            \* the partition tables abtst_init may be given
    LoadsPerXstream,   \* LOADS_PER_XSTREAM (32)
    TotalBuckets,      \* HASH_TABLE_BUCKETS
    NrSlots,           \* PARALLEL_IOS
    Word               \* pkt_started and pkt_ended count modulo Word (2^64)

Cores == 0 .. NrCores - 1
Slots == 0 .. NrSlots - 1

\* A table lists, for each partition, its cores; core 0 is main's own.
ASSUME AppAssumption ==
    /\ NrCores \in Nat \ {0}
    /\ LoadsPerXstream \in Nat \ {0}
    /\ TotalBuckets \in Nat \ {0}
    /\ NrSlots \in Nat \ {0}
    /\ Word \in Nat \ {0, 1}
    /\ \A t \in Tables : /\ Len(t) = 2
                         /\ \A p \in 1 .. 2 : t[p] \in Seq(Cores \ {0})

None == -1

-----------------------------------------------------------------------------
(* Partitions and streams. *)

\* The assignments abtst_init_partitions makes, in their order: <<core, id>>.
Entries(table) ==
    LET first[p \in 0 .. Len(table)] ==
          IF p = 0 THEN <<>>
          ELSE first[p - 1] \o [i \in DOMAIN table[p] |-> <<table[p][i], p - 1>>]
    IN  first[Len(table)]

\* The first entry whose core already has a partition ends the loop; what was
\* assigned before it stays.
PartitionMap(table) ==
    LET e == Entries(table)
        Repeats(k) == \E j \in 1 .. k - 1 : e[j][1] = e[k][1]
        Done == {k \in DOMAIN e : \A j \in 1 .. k : ~Repeats(j)}
    IN  [c \in Cores |->
           IF \E k \in Done : e[k][1] = c
           THEN e[CHOOSE k \in Done : e[k][1] = c][2]
           ELSE None]

\* find_next_stream: cyclically from start, the first used stream of partition
\* id; None if it has none.  A stream is used iff it has a partition.
FindNextStream(map, id, start) ==
    LET At(k) == (start + k) % NrCores
        Hits == {k \in 0 .. NrCores - 1 : map[At(k)] = id}
    IN  IF Hits = {} THEN None
        ELSE At(CHOOSE k \in Hits : \A j \in Hits : k <= j)

\* Mutant: the search starts at the last stream, not after it.
InitLoadsSame(map, id, nr) ==
    LET place[k \in 0 .. nr] ==
          IF k = 0 THEN <<>>
          ELSE LET r == place[k - 1]
                   s == FindNextStream(map, id,
                                       IF r = <<>> THEN 0 ELSE r[Len(r)])
               IN  IF s = None THEN r ELSE Append(r, s)
    IN  place[nr]

\* abtst_init_loads: the ranks of the nr loads of a mapping, each on the stream
\* after the one before; shorter than nr when there is no stream.
InitLoads(map, id, nr) ==
    LET place[k \in 0 .. nr] ==
          IF k = 0 THEN <<>>
          ELSE LET r == place[k - 1]
                   s == FindNextStream(map, id,
                                       IF r = <<>> THEN 0 ELSE r[Len(r)] + 1)
               IN  IF s = None THEN r ELSE Append(r, s)
    IN  place[nr]

-----------------------------------------------------------------------------
(* Mappings. *)

\* Mutant: the buckets per load are rounded down.
HashIndexFloor(h, buckets, nr_loads) ==
    LET buckets_per_loads == buckets \div nr_loads
    IN  h \div buckets_per_loads

\* hash_mapping_to_load: the load of a key whose hash falls in bucket h.
HashIndex(h, buckets, nr_loads) ==
    LET buckets_per_loads == (buckets + nr_loads - 1) \div nr_loads
    IN  h \div buckets_per_loads

\* The number of loads of a new mapping of partition id.
NrLoads(type, table, id) ==
    CASE type = "hashing" -> Len(table[id + 1]) * LoadsPerXstream
      [] type = "random"  -> NrCores \div 2

MappingIds == {0, 1}

\* Indices of the load array of mapping 0.
Loads == 0 .. Max({NrLoads("hashing", t, 0) : t \in Tables}) - 1

-----------------------------------------------------------------------------
VARIABLES
    pc,           \* the next statement of main()
    part_id,      \* partition_map, copied to the streams: None is an unused core
    streams,      \* the stream array: "none", "live" or "freed"
    xstreams,     \* the cores whose base scheduler runs
    reb,          \* the rebalancer thread: "none", "run" or "ended"
    table,        \* the partition table in use
    nr_mappings,
    loads,        \* for each mapping id: the ranks its loads were placed on
    heap,         \* for each mapping id, its load array: "none", "live", "freed"
    stopping,
    params,       \* the slot array: "live" or "freed"
    i,            \* main's index into it
    used, load,   \* the two fields of a slot that matter
    pool,         \* for each load of mapping 0, the slots of its waiting LWTs
    lwt,          \* for each core, the LWT it executes
    pkt_started, pkt_ended,
    refilled      \* history: a slot got a new load before its last LWT read it

sysVars == <<part_id, streams, xstreams, reb, table, nr_mappings, loads, heap>>
slotVars == <<params, i, used, load>>
ioVars == <<pool, lwt, pkt_started, pkt_ended, refilled>>
vars == <<pc, stopping, sysVars, slotVars, ioVars>>

Idle == [step |-> "idle", slot |-> None, load |-> None, ptr |-> None, val |-> 0]

Init ==
    /\ pc = "init_partitions"
    /\ part_id = [c \in Cores |-> None]
    /\ streams = "none" /\ xstreams = {} /\ reb = "none"
    /\ table \in Tables
    /\ nr_mappings = 0
    /\ loads = [m \in MappingIds |-> <<>>]
    /\ heap = [m \in MappingIds |-> "none"]
    /\ stopping = FALSE
    /\ params = "live" /\ i = 0
    /\ used = [s \in Slots |-> FALSE]
    /\ load = [s \in Slots |-> None]
    /\ pool = [l \in Loads |-> <<>>]
    /\ lwt = [c \in Cores |-> Idle]
    /\ pkt_started = [l \in Loads |-> 0]
    /\ pkt_ended = [l \in Loads |-> 0]
    /\ refilled = FALSE

-----------------------------------------------------------------------------
(* abtst_init.  Its calls' results are ignored: it always returns 0. *)

InitPartitions ==
    /\ pc = "init_partitions"
    /\ part_id' = PartitionMap(table)
    /\ pc' = "init_streams"
    /\ UNCHANGED <<streams, xstreams, reb, table, nr_mappings, loads, heap,
                   stopping, slotVars, ioVars>>

\* Every stream with a partition gets a pool, a base scheduler and an xstream.
\* When Argobots refuses one of them the array is freed, and the xstreams made
\* before it go on.
InitStreams ==
    /\ pc = "init_streams"
    /\ \/ /\ streams' = "live"
          /\ xstreams' = {c \in Cores : part_id[c] # None}
       \/ \E c \in Cores :
             /\ part_id[c] # None
             /\ streams' = "freed"
             /\ xstreams' = {d \in Cores : d < c /\ part_id[d] # None}
    /\ pc' = "init_rebalance"
    /\ UNCHANGED <<part_id, reb, table, nr_mappings, loads, heap, stopping,
                   slotVars, ioVars>>

\* After a refusal the new thread walks the freed array: what happens from here
\* on is undefined, and the model stops.
InitRebalance ==
    /\ pc = "init_rebalance"
    /\ reb' = "run"
    /\ pc' = IF streams = "live" THEN "create_hash" ELSE "undefined"
    /\ UNCHANGED <<part_id, streams, xstreams, table, nr_mappings, loads, heap,
                   stopping, slotVars, ioVars>>

-----------------------------------------------------------------------------
(* abtst_create_mapping.  The id is taken before anything can fail. *)

\* The loads get their pools and sub schedulers one by one until one has no
\* stream or Argobots refuses it; those placed before stay on their streams.
CreateMapping(type, part, next) ==
    LET id == nr_mappings
        nr == NrLoads(type, table, part)
        ranks == InitLoads(part_id, part, nr)
    IN  /\ nr_mappings' = nr_mappings + 1
        /\ heap' = [heap EXCEPT ![id] = "live"]
        /\ \/ /\ Len(ranks) = nr
              /\ loads' = [loads EXCEPT ![id] = ranks]
              /\ pc' = next
           \/ \E k \in 0 .. Len(ranks) :
                 /\ k < nr
                 /\ loads' = [loads EXCEPT ![id] = SubSeq(ranks, 1, k)]
                 /\ pc' = "exit1"
        /\ UNCHANGED <<part_id, streams, xstreams, reb, table, stopping,
                       slotVars, ioVars>>

CreateHash ==
    /\ pc = "create_hash"
    /\ CreateMapping("hashing", 0, "create_random")

CreateRandom ==
    /\ pc = "create_random"
    /\ CreateMapping("random", 1, "scan")

-----------------------------------------------------------------------------
(* The loop of main() that keeps the slots filled. *)

\* After the last slot main() sleeps, and leaves the loop if its time is over.
NextSlot ==
    /\ i' = (i + 1) % NrSlots
    /\ pc' = "scan" \/ (i' = 0 /\ pc' = "exit1")

\* if (params[i].used) continue.
SkipSlot ==
    /\ pc = "scan"
    /\ used[i]
    /\ NextSlot
    /\ UNCHANGED <<stopping, sysVars, params, used, load, ioVars>>

\* Mutant: a slot in use is filled again.
FillUsedSlot ==
    /\ pc = "scan"
    /\ used' = [used EXCEPT ![i] = TRUE]
    /\ \E h \in 0 .. TotalBuckets - 1 :
         load' = [load EXCEPT ![i] =
                    HashIndex(h, TotalBuckets, NrLoads("hashing", table, 0))]
    /\ refilled' = (refilled \/ \E c \in Cores : /\ lwt[c].step = "released"
                                                 /\ lwt[c].slot = i
                                                 /\ lwt[c].load # load'[i])
    /\ pc' = "create"
    /\ UNCHANGED <<stopping, sysVars, params, i, pool, lwt, pkt_started, pkt_ended>>

\* A free slot is marked used and gets its load; the next lba may hash to any
\* bucket.  No other thread reads the flag in between.
FillSlot ==
    /\ pc = "scan"
    /\ ~used[i]
    /\ used' = [used EXCEPT ![i] = TRUE]
    /\ \E h \in 0 .. TotalBuckets - 1 :
         load' = [load EXCEPT ![i] =
                    HashIndex(h, TotalBuckets, NrLoads("hashing", table, 0))]
    /\ refilled' = (refilled \/ \E c \in Cores : /\ lwt[c].step = "released"
                                                 /\ lwt[c].slot = i
                                                 /\ lwt[c].load # load'[i])
    /\ pc' = "create"
    /\ UNCHANGED <<stopping, sysVars, params, i, pool, lwt, pkt_started, pkt_ended>>

\* ABT_thread_create pushes the LWT to the pool of its load, or fails.
CreateThread ==
    /\ pc = "create"
    /\ \/ /\ pool' = [pool EXCEPT ![load[i]] = Append(@, i)]
          /\ pc' = "count"
       \/ pc' = "exit1" /\ UNCHANGED pool
    /\ UNCHANGED <<stopping, sysVars, slotVars, lwt, pkt_started, pkt_ended,
                   refilled>>

IncStarted ==
    /\ pc = "count"
    /\ pkt_started' = [pkt_started EXCEPT ![load[i]] = (@ + 1) % Word]
    /\ NextSlot
    /\ UNCHANGED <<stopping, sysVars, params, used, load, pool, lwt, pkt_ended,
                   refilled>>

-----------------------------------------------------------------------------
(* st_thread_func, executed by the xstream of core c. *)

Executing(l) == {c \in Cores : lwt[c].step # "idle" /\ lwt[c].load = l}

\* Mutant: two LWTs of a load run at once.
StartLwtAnywhere(c, l) ==
    /\ c \in xstreams /\ part_id[c] = 0
    /\ lwt[c].step = "idle"
    /\ pool[l] # <<>>
    /\ lwt' = [lwt EXCEPT ![c] = [step |-> "work", slot |-> Head(pool[l]),
                                  load |-> l, ptr |-> None, val |-> 0]]
    /\ pool' = [pool EXCEPT ![l] = Tail(@)]
    /\ UNCHANGED <<pc, stopping, sysVars, slotVars, pkt_started, pkt_ended,
                   refilled>>

\* The schedulers start the first LWT of load l on core c.
StartLwt(c, l) ==
    /\ c \in xstreams /\ part_id[c] = 0
    /\ lwt[c].step = "idle"
    /\ Executing(l) = {}
    /\ pool[l] # <<>>
    /\ lwt' = [lwt EXCEPT ![c] = [step |-> "work", slot |-> Head(pool[l]),
                                  load |-> l, ptr |-> None, val |-> 0]]
    /\ pool' = [pool EXCEPT ![l] = Tail(@)]
    /\ UNCHANGED <<pc, stopping, sysVars, slotVars, pkt_started, pkt_ended,
                   refilled>>

\* Mutant: the slot is not given back.
ReleaseNot(c) ==
    /\ lwt[c].step = "work"
    /\ lwt' = [lwt EXCEPT ![c] = [step |-> "released", slot |-> @.slot,
                                  load |-> @.load, ptr |-> None, val |-> 0]]
    /\ UNCHANGED <<pc, stopping, sysVars, params, i, used, load, pool, pkt_started,
                   pkt_ended, refilled>>

\* param->used = false.
Release(c) ==
    /\ lwt[c].step = "work"
    /\ used' = [used EXCEPT ![lwt[c].slot] = FALSE]
    /\ lwt' = [lwt EXCEPT ![c] = [step |-> "released", slot |-> @.slot,
                                  load |-> @.load, ptr |-> None, val |-> 0]]
    /\ UNCHANGED <<pc, stopping, sysVars, params, i, load, pool, pkt_started,
                   pkt_ended, refilled>>

\* abtst_load_inc_ended(param->load) is pkt_ended++: the pointer and the count
\* are read (and the slot no more) ...
ReadEnded(c) ==
    /\ lwt[c].step = "released"
    /\ LET l == load[lwt[c].slot]
       IN  lwt' = [lwt EXCEPT ![c] = [step |-> "counting", slot |-> None,
                                      load |-> @.load, ptr |-> l,
                                      val |-> pkt_ended[l]]]
    /\ UNCHANGED <<pc, stopping, sysVars, slotVars, pool, pkt_started, pkt_ended,
                   refilled>>

\* Mutant: the counter does not wrap around.
WriteEndedWide(c) ==
    /\ lwt[c].step = "counting"
    /\ pkt_ended' = [pkt_ended EXCEPT ![lwt[c].ptr] = lwt[c].val + 1]
    /\ lwt' = [lwt EXCEPT ![c] = Idle]
    /\ UNCHANGED <<pc, stopping, sysVars, slotVars, pool, pkt_started, refilled>>

\* ... and the incremented count is written; the LWT ends.
WriteEnded(c) ==
    /\ lwt[c].step = "counting"
    /\ pkt_ended' = [pkt_ended EXCEPT ![lwt[c].ptr] = (lwt[c].val + 1) % Word]
    /\ lwt' = [lwt EXCEPT ![c] = Idle]
    /\ UNCHANGED <<pc, stopping, sysVars, slotVars, pool, pkt_started, refilled>>

-----------------------------------------------------------------------------
(* EXIT1: abtst_set_stopping, abtst_finalize, ABT_finalize, abtst_free. *)

SetStopping ==
    /\ pc = "exit1"
    /\ stopping' = TRUE
    /\ pc' = "join_rebalance"
    /\ i' = 0   \* not read any more
    /\ UNCHANGED <<sysVars, params, used, load, ioVars>>

RebalanceEnds ==
    /\ reb = "run" /\ stopping
    /\ reb' = "ended"
    /\ UNCHANGED <<pc, stopping, part_id, streams, xstreams, table, nr_mappings,
                   loads, heap, slotVars, ioVars>>

\* abtst_free_rebalance.
JoinRebalance ==
    /\ pc = "join_rebalance"
    /\ reb = "ended"
    /\ pc' = "join_streams"
    /\ UNCHANGED <<stopping, sysVars, slotVars, ioVars>>

\* The xstreams are joined in the order of their cores.  The base scheduler of
\* the one being joined ends between two LWTs; some may be left in the pools.
XstreamEnds(c) ==
    /\ pc = "join_streams"
    /\ c \in xstreams /\ \A d \in xstreams : c <= d
    /\ lwt[c].step = "idle"
    /\ xstreams' = xstreams \ {c}
    /\ UNCHANGED <<pc, stopping, part_id, streams, reb, table, nr_mappings, loads,
                   heap, slotVars, ioVars>>

\* Mutant: the xstreams are not joined.
FinalizeNoJoin ==
    /\ pc = "join_streams"
    /\ pc' = "free_mappings"
    /\ UNCHANGED <<stopping, sysVars, slotVars, ioVars>>

FinalizeStreams ==
    /\ pc = "join_streams"
    /\ xstreams = {}
    /\ pc' = "free_mappings"
    /\ UNCHANGED <<stopping, sysVars, slotVars, ioVars>>

\* Mutant: the mapping created last is forgotten.
FreeMappingsButLast ==
    /\ pc = "free_mappings"
    /\ heap' = [m \in MappingIds |-> IF m + 1 < nr_mappings /\ heap[m] = "live"
                                     THEN "freed" ELSE heap[m]]
    /\ pc' = "free_streams"
    /\ UNCHANGED <<stopping, part_id, streams, xstreams, reb, table, nr_mappings,
                   loads, slotVars, ioVars>>

\* The load arrays of all mappings, failed ones included.
FreeMappings ==
    /\ pc = "free_mappings"
    /\ heap' = [m \in MappingIds |-> IF m < nr_mappings /\ heap[m] = "live"
                                     THEN "freed" ELSE heap[m]]
    /\ pc' = "free_streams"
    /\ UNCHANGED <<stopping, part_id, streams, xstreams, reb, table, nr_mappings,
                   loads, slotVars, ioVars>>

\* abtst_free.
FreeStreams ==
    /\ pc = "free_streams"
    /\ streams' = "freed"
    /\ pc' = "free_params"
    /\ UNCHANGED <<stopping, part_id, xstreams, reb, table, nr_mappings, loads,
                   heap, slotVars, ioVars>>

FreeParams ==
    /\ pc = "free_params"
    /\ params' = "freed"
    /\ pc' = "done"
    /\ UNCHANGED <<stopping, sysVars, i, used, load, ioVars>>

-----------------------------------------------------------------------------
Shutdown ==
    \/ SetStopping \/ JoinRebalance \/ FinalizeStreams
    \/ FreeMappings \/ FreeStreams \/ FreeParams

Main ==
    \/ InitPartitions \/ InitStreams \/ InitRebalance
    \/ CreateHash \/ CreateRandom
    \/ SkipSlot \/ FillSlot \/ CreateThread \/ IncStarted
    \/ Shutdown

Lwt(c) == Release(c) \/ ReadEnded(c) \/ WriteEnded(c)

Next ==
    \/ Main
    \/ RebalanceEnds
    \/ \E c \in Cores : \/ \E l \in Loads : StartLwt(c, l)
                         \/ Lwt(c)
                         \/ XstreamEnds(c)

Spec == Init /\ [][Next]_vars

\* An LWT that runs goes on, the rebalancer comes back from its sleep, and main()
\* does not stop during the shutdown; a base scheduler that is joined ends, as
\* the property FinalizeTerminates of Sched shows.  That a waiting LWT is ever
\* started is not assumed: a load with endless arrivals may keep its stream
\* (sub.c 139-164), and a unit may get lost (base.c 146-148).
FairSpec ==
    /\ Spec
    /\ WF_<<pc, xstreams>>(Shutdown \/ \E c \in Cores : XstreamEnds(c))
    /\ WF_reb(RebalanceEnds)
    /\ \A c \in Cores \ {0} : WF_lwt(Lwt(c))

-----------------------------------------------------------------------------
TypeOK ==
    /\ part_id \in [Cores -> {None, 0, 1}]
    /\ streams \in {"none", "live", "freed"}
    /\ xstreams \subseteq Cores
    /\ reb \in {"none", "run", "ended"}
    /\ table \in Tables
    /\ nr_mappings \in 0 .. 2
    /\ loads \in [MappingIds -> Seq(Cores)]
    /\ heap \in [MappingIds -> {"none", "live", "freed"}]
    /\ stopping \in BOOLEAN /\ refilled \in BOOLEAN
    /\ params \in {"live", "freed"}
    /\ i \in Slots
    /\ used \in [Slots -> BOOLEAN]
    /\ load \in [Slots -> Loads \cup {None}]
    /\ pool \in [Loads -> Seq(Slots)]
    /\ lwt \in [Cores -> [step : {"idle", "work", "released", "counting"},
                          slot : Slots \cup {None}, load : Loads \cup {None},
                          ptr : Loads \cup {None}, val : 0 .. Word - 1]]
    /\ pkt_started \in [Loads -> 0 .. Word - 1]
    /\ pkt_ended \in [Loads -> 0 .. Word - 1]

\* The cores whose LWT still has its slot.
Working == {c \in Cores : lwt[c].step = "work"}

\* main.c:106-129, st.c:47: main() reuses a slot as soon as its flag is clear.
\* From its creation until it clears that flag, an I/O is the only one on its
\* slot, and the slot is marked used and holds the load whose pool it is in.
SlotOwned ==
    /\ \A l \in Loads : \A k \in 1 .. Len(pool[l]) :
         /\ used[pool[l][k]] /\ load[pool[l][k]] = l
         /\ \A j \in 1 .. Len(pool[l]) : pool[l][j] = pool[l][k] => j = k
    /\ \A c \in Working :
         /\ used[lwt[c].slot] /\ load[lwt[c].slot] = lwt[c].load
         /\ \A l \in Loads : \A k \in 1 .. Len(pool[l]) : pool[l][k] # lwt[c].slot
         /\ \A d \in Working : lwt[d].slot = lwt[c].slot => d = c

\* The I/O of slot s waits, or runs and has not given the slot back.
HasIo(s) ==
    \/ \E l \in Loads : \E k \in 1 .. Len(pool[l]) : pool[l][k] = s
    \/ \E c \in Working : lwt[c].slot = s

\* main.c:105-134, st.c:47: no slot is leaked.  While main() fills the slots, one
\* that is marked used belongs to an I/O that will clear the flag when it has
\* run, or to the one main() is about to create.  Together with SlotOwned the
\* slots in use are the I/Os under way, so every I/O that ends lets main() go on.
NoSlotLeaked ==
    pc \in {"scan", "create", "count"} =>
      \A s \in Slots : used[s] => HasIo(s) \/ (pc = "create" /\ s = i)

\* load.h:72-80: as long as no slot was refilled between the two statements of
\* st.c:47-49, the two counters of a load differ by the I/Os it has to do, up to
\* the one that main() has created and not yet counted.
CountsExact ==
    ~refilled =>
      \A l \in Loads :
        (pkt_started[l] + IF pc = "count" /\ load[i] = l THEN 1 ELSE 0) % Word
          = (pkt_ended[l] + Len(pool[l]) + Cardinality(Executing(l))) % Word

\* load.c:50-116: the loads of a mapping, however many were made, are on used
\* streams of its partition, and no such stream has two more than another.
LoadsSpread ==
    \A m \in MappingIds :
        LET on(c) == Cardinality({k \in DOMAIN loads[m] : loads[m][k] = c})
        IN  /\ \A k \in DOMAIN loads[m] : part_id[loads[m][k]] = m
            /\ \A c, d \in Cores :
                 (part_id[c] = m /\ part_id[d] = m) => on(c) <= on(d) + 1

\* hash.c:50-67, main.c:120-123: the load a key is mapped to is one that was
\* created, whatever the hash and however the buckets divide among the loads.
KeyMapsToLoad ==
    \A s \in Slots : load[s] # None => load[s] \in 0 .. Len(loads[0]) - 1

\* abt_st.c:77-99, main.c:143-169: unless abtst_init_streams failed, no thread
\* runs without the memory it works on: the rebalancer and the base schedulers
\* the streams and the loads, an LWT its load and its slot.
NoDangling ==
    pc \notin {"init_rebalance", "undefined"} =>
      /\ reb = "run" \/ xstreams # {} =>
           streams = "live" /\ \A m \in MappingIds : heap[m] # "freed"
      /\ \A c \in Cores : lwt[c].step # "idle" =>
           heap[0] = "live" /\ params = "live" /\ c \in xstreams

\* main.c:143-170: from whatever point main() goes to EXIT1, it ends, with every
\* thread joined and every array freed.
CleanExit ==
    pc = "exit1" ~> /\ pc = "done"
                    /\ reb = "ended" /\ xstreams = {}
                    /\ streams = "freed" /\ params = "freed"
                    /\ \A m \in MappingIds : heap[m] # "live"

\* README:26-28: "IOs in the same load run inside one xstream(core).
\* Instructions inside same core are serialized and do not need locks."  Then
\* the counters of every load agree whenever no I/O is under way.
QuietCountsAgree ==
    (/\ pc = "scan"
     /\ \A l \in Loads : pool[l] = <<>> /\ Executing(l) = {})
    => pkt_started = pkt_ended

=============================================================================
