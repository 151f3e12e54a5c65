# A TLA+ verification of abt-st

abt-st is a run-time for storage applications on top of Argobots. It maps
light-weight threads (LWTs, one per IO) to *loads*, runs every load on one
xstream (a core) at a time so that the LWTs of a load need no locks, and moves
loads between cores while they run. This directory models the run-time and its
storage application and checks the models with TLC. All safety properties that
the checks confirm are also proved with TLAPS, for machines and loads of any size.

## The system

| Part | Source | Module | State of the model |
|---|---|---|---|
| base scheduler, one per xstream | `sched/base.c`, `sched/sched.c` | `Sched` | whole loop |
| sub scheduler, one per load | `sched/sub.c` | `Sched` | whole loop |
| loads | `load/load.c`, `load.h` | `App`, `Sched`, `Rebalance` | whole |
| streams | `stream/stream.c`, `abtst_stream.h` | `App`, `Sched`, `Rebalance`, `Requests` | without printing |
| rebalancer thread, levels 1-3 | `rebalance/rebalance.c` | `Rebalance` | whole pass |
| power saving | `power/power.c`, `rebalance.c` | `Rebalance` | whole |
| requests to add and remove cores | `rebalance/reb_req.c`, `rebalance.c` 37-141, `list.h`, `spinlock.h` | `Requests` | whole; compiled out in the loop |
| partitions | `partition/partition.c` | `App`, `Rebalance` | map and statistics |
| environment (NUMA) | `arch/env.c`, `env.h` | `Requests`, `Rebalance` | topology, statistics |
| mapping | `mapping/*` | `App` | creation, hash index |
| application | `app/main.c`, `app/st.c`, `app/abt_st.c` | `App`, `Sched` | whole |
| Argobots | not in the repository | `Sched`, `App`, `Requests` | pools as FIFO queues, join, `ABT_sched_has_to_stop` |

How they interact. The main thread creates mappings, whose loads are placed
round robin on the streams of a partition, and then LWTs, which go to the pool
of their load. The base scheduler of a stream pops the unit of a load from the
stream's pool, hands it to another stream if the rebalancer has changed the
load's `dest_rank`, otherwise lets the load's sub scheduler run up to 16 LWTs,
and pushes the unit back. The rebalancer is a pthread that wakes every second,
sums up queue depths per stream, partition and NUMA, decides which loads or
cores to move, and does so by changing lists and ranks that the schedulers read
without a lock.

## Modules

`Sched` models the schedulers, the main thread and the rebalancer as far as the
schedulers see it (`SetMigrating` stands for every place where it writes
`dest_rank`). An action is one C statement, or several that touch no shared
state or commute with what other threads do:

| Action | Code |
|---|---|
| `Inner`, `Pop`, `Check` | base.c 127-143: blocking test and size, pop, migration test |
| `Target`, `Update`, `Push` | base.c 146, 147, 148: the three steps of a hand-off |
| `Size`, `After`, `Events` | base.c 153-159, 161-169, 183-197 |
| `SubPop`, `LwtEnd` | sub.c 148-162 |
| `InitLoad`, `CreateLwt` | load.c 74-116, main.c 123 |
| `SetStopping`, `JoinRebalancer`, `JoinStream`, `Finalized` | main.c 144, abt_st.c 77-91, stream.c 137-154 |
| `SetBlocking`, `SetMigrating`, `RebEnd` | abtst_stream.h 98, load.h 60, rebalance.c 835 |

`LoadOwnership` is the abstract promise: a load has at most one owner, its LWTs
run one at a time on the owner, and it changes hands, or is given up, only
between two LWTs. `Sched` refines it (`OwnershipSpec`). What an LWT does, the slot and
the counters of its load included, is in `App`.

`Rebalance` models one pass of the rebalancer after the other. The names of the
operators are those of the C functions; the stages are `UpdateStat`,
`ReadLevel`, power saving (`Ps...`), level 3 (`L3...`), level 2 (`L2...`),
level 1 (`L1...`) and `ResetStat`. Between any two steps loads grow and shrink
(`SizeChange`), schedulers sleep (`Sleep`) and carry out migrations (`Land`).
The level and the power saving switch are chosen where the code reads them.

`App` models the program around the schedulers: `main()` with its calls of
`abtst_init`, `abtst_create_mapping`, `abtst_finalize` and `abtst_free`, and the
I/O function. The variable `pc` is the statement `main()` is at. The schedulers
appear by what `LoadOwnership` promises of them: `StartLwt` starts the first LWT
of a load that has none running. `Release`, `ReadEnded` and `WriteEnded` are the
statements of st.c 47-49, the increment split into its read and its write.
Argobots may refuse a stream, a load or an LWT at any point, and `main()` then
goes to `EXIT1` as the code does. If `abtst_init_streams` fails, `abtst_init`
goes on with a freed array; what follows is undefined and the model stops.

| Action | Code |
|---|---|
| `InitPartitions`, `InitStreams`, `InitRebalance` | abt_st.c 44-75, partition.c 38-72, stream.c 21-135, rebalance.c 876-896 |
| `CreateHash`, `CreateRandom` | main.c 65-83, mapping.c 21-76, load.c 50-116 |
| `SkipSlot`, `FillSlot`, `CreateThread`, `IncStarted` | main.c 103-141, hash.c 45-67 |
| `Release`, `ReadEnded`, `WriteEnded` | st.c 32-52, load.h 77-80 |
| `SetStopping` ... `FreeParams` | main.c 143-170, abt_st.c 77-99 |

`Requests` models the queue of requests to add or remove a core: the doubly
linked list, link by link, in memory that is reused, its spin lock, the threads
that make requests and the rebalancer that serves them
(`abtst_reb_process_requests`). Serving a removal retargets the loads of the core
and joins an xstream; the base schedulers appear by their hand-offs (`TakeUnit`,
`GiveUnit`) and by their end. The NUMA ranges come from `abtst_init_env`, applied
to small contents of `/sys`. The call in `reb_func` is compiled out
(rebalance.c 839-842), so the rest of the pass is absent here: level 0, no
shutdown.

`RequestFifo` is what that list promises: a queue of requests, one of them being
served. `Requests` refines it (`FifoSpec`).

`MCSched`, `MCRebalance`, `MCApp` and `MCRequests` hold the constants for TLC;
`SchedProofs` and `SchedRefinement` hold the proofs about `Sched`, `AppProofs` and
`RequestsProofs` those about `App` and `Requests`. Those about `Rebalance` are in
four modules, each of which builds on the one before: `RebalanceMoves` (sums over
finite sets, and what the operators on lists and depths do), `RebalanceProofs`
(the inductive invariant), `RebalanceStats` (what the stages know of statistics)
and `RebalanceDepths` (level 3 and the queue depths).

How the modules fit together. `LoadOwnership` is the interface between the
schedulers and the rest: `Sched` is proved to implement it, `App` is built on it.
`Land` of `Rebalance`, which may happen or not, stands for the hand-off of `Sched`;
`SetMigrating` of `Sched` over-approximates what `Rebalance` decides. The counters that
`App` keeps are the sizes that `Rebalance` reads, except that its sizes are never
negative: load.h 84-86 reads both counters twice, and LWTs that end between the last
two reads make a difference that should be 0 negative. That is left out.

Abstractions. In `Sched` an LWT is a unit of a counter, a list of loads is a set (no
property depends on its order), equal elements come out of `qsort` in any
order, and only used streams appear. Where the rebalancer reads a size or a
rank of several loads it reads each once per stage, so reading them in one step
gives the same combinations. `sort_param.ios` and the comparisons keep the
signedness of the code; the queue depth of a stream is taken modulo `Word`.
A division by zero traps or yields 0, as on the ARM servers the
documentation names. `sleep_nsec` is written by two threads without atomics; an
addition that undoes a reset has the effect of a long sleep right after the
reset, which `Sleep` allows. The hash function of `App` may yield any bucket.

History variables. `created` and `ended` (`Sched`) count the LWTs that were made and
have run; `raced` (`Sched`) says that a load was retargeted between the
two reads of `dest_rank` of its hand-off; `refilled` (`App`) that a slot was given
another load between st.c 47 and 49; `astray` (`Requests`) that a removal joined
another stream than the one it emptied (rebalance.c 133 joins the loop variable,
the last core of the NUMA), or that an xstream could not be started, which
rebalance.c 50 ignores. No action reads them. They let the properties say what
holds until then.

## Runs

| Run | Question | Bounds | States |
|---|---|---|---|
| `sched` | With a load retargeted at any time and a stream blocked at times: is the unit ever duplicated or lost, do LWTs stay serial, are they conserved, is ownership refined, and does `stream + (dest_rank - curr_rank)` find the destination until the first race? | streams 1, 2 and 4, 1 load, 2 LWTs, batch 1, 3 retargetings | 1.2M |
| `sched_live` | Does every LWT end, also of loads that share a stream, and is every migration carried out, unless the race has lost the unit? Does `abtst_finalize` return? | 2 streams; 1 load, 1 LWT and 4 retargetings, or 2 loads, 1 LWT each and 1 retargeting | 0.6M |
| `reb_levels` | Levels 2 and 1: are lists and depths consistent, does a move improve the pair, do cores change partitions without loads, and not back and forth? | 3 streams, 2 partitions, 3 loads, sizes 0, 2, 6 | 2.5M |
| `reb_level3` | Does a move between NUMAs keep the order and the average? | 4 streams, 2 NUMAs, 3 loads | 2.1M |
| `reb_power` | Does a sleeping NUMA stay empty, do the counts agree, are the loads of a NUMA that goes to sleep sent to their own partitions? | 3 streams, 4 NUMAs (one unused), 2 partitions, switch on and off | 0.3M |
| `app` | Is a slot ever shared or lost, are ends counted for the right load unless a slot was refilled early, are loads spread, does a key map to a load, is the shutdown in order from every exit? | 4 cores, 3 partition tables, 2 slots, counters modulo 2 | 0.3M |
| `requests` | Is the list a queue, is the saved cursor valid, is a removed core empty, is every request served on a machine whose NUMAs cover its cores? | 3 cores, 4 topologies, 2 threads, 3 requests in 2 pieces of memory, 2 loads | 0.5M |

Every property of these runs holds. A hand-off involves at most two streams and
one load at a time; the third stream and the gap in the ranks of `sched` are
where a wrong offset leads, and two retargetings are needed for one to overtake
the other, three to push the unit to a stream that does not exist, and a fourth,
which `sched_live` has, to see that it is never carried out. In `app` two slots are enough for one to be
refilled while the LWT of the other runs; a lost, doubled or misdirected count
changes the parity, so counters modulo 2 show it. The tables of `app` include two
that list a core twice. In `requests` the memory is smaller than the number of
requests, so that a freed node is used again while the cursor is saved; three
requests allow one to be served, one to be next and one to arrive. A decision of
the rebalancer compares at most two streams, partitions or NUMAs; the sizes are chosen on both sides of the thresholds `MinIos`, 1.5 and 2,
and `MaxPicked` so that the limit on picked loads is reached. `Word` is large
enough that only a negative result wraps. Loads are
symmetric where only invariants and action properties are checked.

The `sched` runs, `app`, `requests` and `reb_power` do not check for deadlock: the
first two end, `requests` stops when its bound is used up or a removal traps, and
in `reb_power` a NUMA without streams lets the division of env.c 160 trap, after
which the process is gone. `sched_live` has no blocked stream; `FinalizeTerminates`
presupposes that none is blocked when the system stops.

Runs that show a disagreement between the code and what its comments or
documentation say:

| Run | What happens | Said at |
|---|---|---|
| `sched_race` | A retargeting between base.c 146 and 147 leaves the unit in a pool that `curr_rank` does not name; later hand-offs miss by the difference. | scheduler.txt:5 |
| `sched_lost_work` | LWTs stay in a load's pool after `abtst_finalize`: base.c 163 does not push the unit back once stopping is set. | main.c:153 |
| `reb_unused_numa` | env.c 160 divides by zero for a NUMA without streams, as with the default partitions. | power.c:60 |
| `reb_level2_doc` | Level 2 takes the core from the less loaded partition; the documentation says the opposite. | rebalance.txt:5-6 |
| `app_counts` | An I/O clears its slot's flag (st.c 47) before it reads its load from the slot (49). The end is counted for another load, or two streams increment one counter at once. | README:26-28 |

`PlacedUntilRace` of `sched` says that the race of `sched_race` is the only way
for a unit to get astray. Even after it no load runs on two streams and no LWT
disappears, although the LWTs of a unit that was pushed to a stream that is not
in use (`stray`) stay in their pool for ever, and a migration of its load is never
carried out: `IoCompletes` and `MigrationCompletes` exempt such a unit, and only it. In the same way `CountsExact` of `app` says
that the counters are right until a slot is refilled too early.

`Requests` shows two more things that nothing in the repository contradicts, so
there is no run for them: a removal of any core but the last of its NUMA joins a
stream that still has its loads, and a removal of a used core that env.c 73 put into
no NUMA reads through a NULL pointer (rebalance.c 82; `RequestsServed` is about machines
without such a core). A negative core does not get there: rebalance.c 66 compares it as
an unsigned number and turns it away (`RemoveNothing`), so the branch of lines 119-123
that expects one is unreachable.

## Fairness

Every xstream is a kernel thread that goes on running (`WF` of `SchedStep(s)`);
the rebalancer returns from `sleep` and tests the stopping flag; main does not
stop inside `abtst_finalize`. Creating work, retargeting, blocking and deciding
to stop are not fair. `IoCompletes` and `MigrationCompletes` are about finitely many
LWTs: a load whose LWTs keep arriving may keep its stream (sub.c 139-164). So `App`
does not assume that a waiting LWT is ever started; only LWTs that run, the
rebalancer's exit and the shutdown are fair there, the end of a joined base scheduler
as `FinalizeTerminates` of `Sched` shows. That slots are reused is stated without
liveness: `NoSlotLeaked` says that a slot in use has an I/O under way, which gives it
back when it is run. `Rebalance` has no fairness: nothing it checks depends on when, or
whether, a migration is carried out. In `Requests` the rebalancer and the base
schedulers go on, and so does a thread that holds the lock; making a request and
getting the lock are not fair (a spin lock may starve a thread).

## Proofs

For every value of the constants:

| Theorem | Module | Statement |
|---|---|---|
| `Typing` | `SchedProofs` | `Spec => []TypeOK` |
| `UnitsConserved` | `SchedProofs` | `Spec => []UnitInOnePlace` |
| `LoadsAreSerial` | `SchedProofs` | `Spec => []SerialLoad` |
| `UnitsPlacedUntilRace` | `SchedProofs` | `Spec => []PlacedUntilRace` |
| `IosConserved` | `SchedProofs` | `Spec => []IoConservation` |
| `SchedulersKeepOwnership` | `SchedRefinement` | `Spec => OwnershipSpec` |
| `NothingDangles` | `AppProofs` | `Spec => []NoDangling` |
| `SlotsAreOwned` | `AppProofs` | `Spec => []SlotOwned` |
| `SlotsAreKept` | `AppProofs` | `TablesFilled` and `TablesBounded` imply `Spec => []NoSlotLeaked` |
| `CountsAreExact` | `AppProofs` | `Spec => []CountsExact` |
| `LoadsAreSpread` | `AppProofs` | `Spec => []LoadsSpread` |
| `KeysMapToLoads` | `AppProofs` | `TablesFilled` implies `Spec => []KeyMapsToLoad` |
| `AppTypes` | `AppProofs` | `TablesFilled` and `TablesBounded` imply `Spec => []TypeOK` |
| `RemovalsLeaveNothing` | `RequestsProofs` | `Spec => []RemovedIsEmpty` |
| `CursorStaysValid` | `RequestsProofs` | `Spec => []SafeCursor` |
| `ListIsAQueue` | `RequestsProofs` | `Spec => FifoSpec` |
| `RequestTypes` | `RequestsProofs` | `Spec => []TypeOK` |
| `LoadsStayPlaced` | `RebalanceProofs` | `Spec => []LoadPlacement` |
| `LoadsKeepPartition` | `RebalanceProofs` | `Spec => []PartitionKept` |
| `SleepersHaveNoLoads` | `RebalanceProofs` | `Spec => []PsConsistent` |
| `StagesSeeCurrentStats` | `RebalanceStats` | `Spec => []StatsCurrent` |
| `GivenCoresKeepOrder` | `RebalanceStats` | `Spec => L2KeepsOrder` |
| `FilledNeverTraps` | `RebalanceStats` | `NumasFilled` implies `Spec => []NeverTraps` |
| `PickedLoadsImprove` | `RebalanceStats` | `Spec => OwnMovesImprove` |
| `LevelingKeepsOrder` | `RebalanceDepths` | `Spec => L3KeepsOrder` |
| `DepthsTrackLoads` | `RebalanceDepths` | `DepthsFit` implies `Spec => []QdepthTracksLoads` |
| `RebalancerTypes` | `RebalanceDepths` | `DepthsFit` implies `Spec => []TypeOK` |

They assume what the modules assume of their constants, which TLC evaluates:

- `Sched`: ranks are positive numbers, the batch limit and the event frequency are
  positive, the bounds are numbers, `NoLoad` is no load.
- `App`: its numbers are positive, counters have more than one value, and a table
  has two partitions, neither with core 0.
- `Requests`: there is a core; memory is finite, and the list head and the poison
  are not in it; the threads have names of their own (`QueueAssumption`); a cpulist
  is a list of ranges and single cores (`TopologyAssumption`).
- `Rebalance`: cores and loads are finite in number, no core is core 0, every core
  has a NUMA and a partition, every load has a partition with a core; the interval
  and the thresholds are positive.

Four conditions are hypotheses of the theorems that need them, because the code
does not establish them:

- `NumasFilled`: every NUMA has a used core of every partition. Without it the
  division of `reb_unused_numa` happens.
- `DepthsFit`: the queue depths of all loads together fit in a `uint32_t`. Without
  it the sums wrap.
- `TablesFilled`: the partition of the hash mapping has a core. Without it hash.c
  divides by the number of loads, 0.
- `TablesBounded`: there is a longest partition table, so that the set of loads of
  `App` is finite.

### Schedulers

`SerialLoad` is not inductive: nothing in it says that a unit in a
pool is not also held by a scheduler. `UnitInOnePlace` says so, and with
`TypeOK` it is inductive: every action that touches units is a pop (`PoolPop`)
or a push of a held unit (`PoolPush`), and all others leave the places alone
(`SamePlaces`). `IoConservation` needs it, since two holders of a load would
count one running LWT twice. `PlacedUntilRace` is strengthened to
`HandOffRanks`, which says what is true between lines 146 and 148; its step
for `SetMigrating` is where `raced` becomes true.

The refinement maps the owner of a load to the stream that holds its unit or has
it in its pool, which `UnitInOnePlace` makes unique (`SoleOwner`). Each action is
an abstract step or a stutter: `Push` hands over, `After` gives up or keeps,
`SubPop` and `LwtEnd` start and finish an LWT, `CreateLwt` submits one,
`InitLoad` attaches the load; all others leave the owners alone (`SameOwners`).

### Application

`NoDangling` is strengthened to `Alive`, which says for every statement of main()
which threads and which arrays exist (`Threads`, `Arrays`), and that LWTs exist
only for a mapping that does and run only where an xstream does (`Ios`). One lemma
per phase of main() shows that it is kept, one that the other threads keep it.

`SlotOwned` lacks only what main() knows between marking a slot and creating its
LWT (`OwnSlot`): no LWT has that slot. `FillSlot` establishes it from the cleared
flag, `CreateThread` uses it. It does not matter which load the hash yields nor
where the schedulers start an LWT. `NoSlotLeaked` is the converse: `Kept` adds that no
slot is in use before the loop begins and that the LWT to be created has a pool to go
to. An I/O keeps its slot from the pool to the core, and clears the flag in the step in
which it gives the slot up.

`CountsExact` needs what the schedulers promise (`OneRuns`: a load has one LWT under
way) and that an LWT which reads its load after it has cleared its flag finds the
one it was started with until a slot is refilled early (`SameLoad`); then no two
LWTs increment one counter at once, and each end is counted where its start was.
With `CountTypes` they are `Counted`, which is inductive. The counters wrap
around: `ModAdd` and `ModSucc` say that it does not matter when.

`LoadsSpread` rests on `Evenly`: after each load that `abtst_init_loads` has placed,
the streams of the partition up to the last one taken have one load more than
those after it. `FindsNext` shows that `find_next_stream` yields the next stream of the
partition in the cyclic order, `NextPlaceEven` that a load placed there keeps the rest
even. A prefix of an even placement is one (`PrefixEven`), which covers the load that
could not be made.

`KeyMapsToLoad` is arithmetic: the buckets per load are rounded up (hash.c 64), so the
quotient stays below the number of loads (`HashInRange`), and main() hashes only after
all loads are made (`Mapped`). `AppTypes` adds `SysTyped` and `IoTyped`: an LWT that has
given its slot back still finds a load in it.

### Requests

`RemovedIsEmpty` says nothing of the time while a stream is being joined.
`Orderly` does: then, and only then, a load may have a rank it has not reached,
its unit is in the pool of the stream that is joined or in the hands of its
scheduler, and its destination is another stream in use. The join returns when
that pool is empty, so no unit is left behind. Because requests are served one at
a time, no destination is removed before its units have arrived.

That the list is a queue is shown with the list as a witness: `Queue` says that there
is a sequence `q` of nodes (`ListIs(q)`) such that the links lead through `q` and back to
the head, each node once (`Chain`); the backward links at the two ends, the only ones
that are read, are right, also between the writes of `list_add_tail` and `list_del`
(`Ends`); nodes in the list, being filled and being served are different ones
(`Memory`); the rebalancer deletes the first node and its saved cursor is the next one
(`Cursor`). With the lock, held by whoever is between its two ends (`Locks`), this is
inductive. A sequence like that is unique (`LinkedIs`), so it is the one the refinement
mapping reads off the links. `ReqAppend` appends to the queue, `Delete` takes its first
request, `FreeRequest` ends it; all other steps leave it alone (`QueueStep`).
`SafeCursor` is a consequence of `Cursor` and `Memory`. `RequestTypes` needs, besides,
that `abtst_init_env` keeps only NUMA nodes of cores the machine has (`InitNumas`), so
that the stream to be joined is one (`LastIsCore`).

### Rebalancer

`Inv` is the inductive invariant: the types, what each stage knows (`Control`: the
counts of cores are right, the NUMA that is put to sleep is emptied stream by stream,
level 3 moves loads of one partition between two NUMAs, level 1 picks loads of one
stream for another), and the three properties
`LoadPlacement`, `PartitionKept` and `PsConsistent`, which need one another: a load is
moved from the list it is in, to a stream of its partition, that is awake.
`PartitionKept` is about where loads are sent; a unit may still run on a core that was
given away until its scheduler has handed it off.
All moves are `MoveLoads`, so one lemma about it serves every level.

`StatsCurrent` is kept because power saving and levels 3 and 2 count again after what
they move, and level 1 does not come back to a partition. From it follow the decisions: `L2KeepsOrder` from the averages level 2
compares; `L3KeepsOrder` from `Settling`, which says after each stream what the NUMAs
have and may still get; `OwnMovesImprove` from `Improving`, which bounds the IOs that are
picked by the average. `NeverTraps` needs `Filled`: the stream that gets the loads of the
core that level 2 gives away stays in the partition.

`QdepthTracksLoads` and `TypeOK` need to say what a depth is the sum of: `Snapshot` says
that up to level 1 there are sizes, those that were read when the pass began, of which
the depths are the sums over the lists, `Tracking` what level 1 has added up. If all sizes
together fit, no sum wraps (`Bounded`).

Sums are folds over finite sets. That such a fold exists and may be taken in any order
is shown from the minimal counterexample (`SubsetInduction`); the same argument over
numbers (`LeastNumber`) serves the placement of loads and the walk along the list.

### Checked by TLC only

Liveness: `IoCompletes`, `MigrationCompletes`, `FinalizeTerminates`, `CleanExit` and
`RequestsServed`. The prover has no rules for fairness.

## Not modelled

- Failing `malloc`/`calloc`, `ABT_init` and `pthread_create`; printing; freeing of
  single scheduler objects.
- `random_mapping_to_load`, `map_key_to_xstream` and the "normal thread" branch of
  base.c 170-174, which no code reaches; the list operations nothing calls.
- A ninth mapping (mapping.h 45 returns -1, which is used as an index): the
  program creates two. An interval of 0 (a divisor in power.c 52) or above four
  seconds (`sleep_nsec` has 32 bits): no code sets one.
- The creation of mappings while the rebalancer is in its first pass, which walks
  the same lists without a lock: the outcome depends on how the compiler orders
  the writes of `list_add`.
- A sub scheduler that never reaches its batch limit because LWTs keep arriving
  one by one (the count restarts with every pass, sub.c 139): `Sched` bounds the
  LWTs that are created, and `App` promises no turn to any load.
- A queue depth below zero, from the second reading of the counters (load.h 86).
- What should happen to sleeping NUMAs when power saving is switched off or the
  level lowered: the code leaves them asleep and nothing says more.
- The test programs, except for their use of `abtst_stream_set_blocking` and their
  partition layouts.
