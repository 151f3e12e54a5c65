------------------------------- MODULE Sched -------------------------------
(***************************************************************************)
(* The stacked schedulers of abt-st at run time: one base scheduler per    *)
(* xstream (src/src/sched/base.c) that pops the units of the loads from    *)
(* its pool, one sub scheduler per load (src/src/sched/sub.c) that runs    *)
(* the load's light-weight threads (LWTs), the rebalancer thread as far as *)
(* the schedulers see it (it writes dest_rank), and the main thread, which *)
(* creates loads and LWTs, blocks streams, and shuts the system down.  The *)
(* counters pkt_started and pkt_ended of a load are in module App.         *)
(*                                                                         *)
(* Every C statement that reads or writes a shared field is a step of its  *)
(* own unless it commutes with the other threads' steps.  An xstream is    *)
(* named by its rank; rank 0 is the main stream, which has no abt-st       *)
(* scheduler.  A pool holds the units of loads only: nothing in the        *)
(* program puts a plain thread into an xstream's pool, so the "Normal      *)
(* thread/task" branch of sched_run (base.c 170-174) is never taken.       *)
(* A local that is not read again before its next assignment is set to 0.  *)
(***************************************************************************)
EXTENDS Integers, Sequences, FiniteSets

CONSTANTS
    Streams,    \* ranks of the used xstreams
    Loads,      \* the loads of all mappings
    MaxBatch,   \* MAX_BATCH_COUNT of sub.c (16)
    EventFreq,  \* event_freq of the base scheduler (10)
    Bounds,     \* what main and the rebalancer do at most, see InBounds
    Blockable,  \* streams the application blocks and unblocks
    NoLoad      \* no load: the scheduler holds no unit

ASSUME StreamsAssumption == Streams \subseteq Nat \ {0}
ASSUME LimitsAssumption == MaxBatch \in Nat \ {0} /\ EventFreq \in Nat \ {0}
ASSUME BoundsAssumption == Bounds \subseteq [loads : Nat, ios : Nat, moves : Nat]
ASSUME NoLoadAssumption == NoLoad \notin Loads
ASSUME BlockableAssumption == Blockable \subseteq Streams

VARIABLES
    mapped,       \* loads that abtst_init_loads has created
    curr_rank, dest_rank, used,                           \* abtst_load
    subpool,      \* number of LWTs waiting in load->pool
    pool,         \* stream->pool: FIFO of units, one per load
    blocking,     \* stream->blocking
    pc,           \* next statement of sched_run of each stream
    unit,         \* the load whose unit the scheduler holds
    pool_size, run_subpool, stop, work_count,             \* locals of sched_run
    ran,          \* run_cnt # 0 in sched_run
    new_stream,   \* rank of the stream that base.c 146 computed
    batch,        \* run_cnt in sub_sched_run
    join_req,     \* streams ABT_xstream_join has been called on
    retired,      \* loads whose unit was not pushed back (base.c 163)
    stray,        \* loads whose unit was pushed to no used stream
    stopping,     \* env.stopping
    reb,          \* the rebalancer thread: "running" or "ended"
    moves,        \* dest_rank writes so far
    raced,        \* history: one of them fell between base.c 146 and 147
    created,      \* history: the number of LWTs created for each load
    ended,        \* history: the number of its LWTs that have returned
    main          \* next step of the main thread

loadVars  == <<curr_rank, dest_rank, used, created, ended, subpool>>
localVars == <<unit, pool_size, run_subpool, stop, work_count, ran,
               new_stream, batch>>
placeVars == <<retired, stray>>
ctlVars   == <<mapped, blocking, stopping, reb, moves, raced, main, join_req>>
vars      == <<loadVars, pool, pc, localVars, placeVars, ctlVars>>

PCs == {"inner", "pop", "check", "target", "update", "push", "size",
        "sub", "lwt", "after", "events", "exit"}

\* The scheduler of s has popped a unit and not pushed it anywhere yet.
Holding == {"check", "target", "update", "push", "size", "sub", "lwt", "after"}
Holds(s, l) == pc[s] \in Holding /\ unit[s] = l

\* The unit of l waits in the pool of s.
Queued(s, l) == \E i \in 1..Len(pool[s]) : pool[s][i] = l

\* The bound: one of Bounds limits the number of loads, of LWTs of each load, and
\* of dest_rank writes together.
InBounds ==
    \E b \in Bounds : /\ Cardinality(mapped) <= b.loads
                      /\ \A l \in Loads : created[l] <= b.ios
                      /\ moves <= b.moves

\* The LWT of l that is running now, if any.
Running(l) == IF \E s \in Streams : pc[s] = "lwt" /\ unit[s] = l THEN 1 ELSE 0

abtst_load_is_migrating(l) == curr_rank[l] # dest_rank[l]

\* abtst_init_streams: every used stream starts its scheduler, no load exists.
Init ==
    /\ mapped = {}
    /\ curr_rank = [l \in Loads |-> 0]
    /\ dest_rank = [l \in Loads |-> 0]
    /\ used = [l \in Loads |-> FALSE]
    /\ created = [l \in Loads |-> 0]
    /\ ended = [l \in Loads |-> 0]
    /\ subpool = [l \in Loads |-> 0]
    /\ pool = [s \in Streams |-> << >>]
    /\ blocking = [s \in Streams |-> FALSE]
    /\ pc = [s \in Streams |-> "inner"]
    /\ unit = [s \in Streams |-> NoLoad]
    /\ pool_size = [s \in Streams |-> 0]
    /\ run_subpool = [s \in Streams |-> 0]
    /\ stop = [s \in Streams |-> FALSE]
    /\ work_count = [s \in Streams |-> 0]
    /\ ran = [s \in Streams |-> FALSE]
    /\ new_stream = [s \in Streams |-> 0]
    /\ batch = [s \in Streams |-> 0]
    /\ join_req = {}
    /\ retired = {}
    /\ stray = {}
    /\ stopping = FALSE
    /\ reb = "running"
    /\ moves = 0
    /\ raced = FALSE
    /\ main = "run"

-----------------------------------------------------------------------------
(* The main thread: mappings, LWTs, blocking.                              *)

\* Mutant: init_load forgets dest_rank.
InitLoadNoDest(l, s) ==
    /\ main = "run"
    /\ l \notin mapped
    /\ mapped' = mapped \cup {l}
    /\ curr_rank' = [curr_rank EXCEPT ![l] = s]
    /\ pool' = [pool EXCEPT ![s] = Append(@, l)]
    /\ UNCHANGED <<dest_rank, used, created, ended, subpool, pc,
                   localVars, placeVars, blocking, stopping, reb, moves, raced,
                   main, join_req>>
    /\ InBounds'

\* abtst_init_loads for one load: init_load sets the three ranks to the rank
\* of the stream that find_next_stream returned, and ABT_pool_add_sched puts
\* the sub scheduler's unit into that stream's pool.
InitLoad(l, s) ==
    /\ main = "run"
    /\ l \notin mapped
    /\ mapped' = mapped \cup {l}
    /\ curr_rank' = [curr_rank EXCEPT ![l] = s]
    /\ dest_rank' = [dest_rank EXCEPT ![l] = s]
    /\ pool' = [pool EXCEPT ![s] = Append(@, l)]
    /\ UNCHANGED <<used, created, ended, subpool, pc, localVars,
                   placeVars, blocking, stopping, reb, moves, raced, main,
                   join_req>>
    /\ InBounds'

\* ABT_thread_create puts an LWT into the load's pool.
CreateLwt(l) ==
    /\ main = "run"
    /\ l \in mapped
    /\ subpool' = [subpool EXCEPT ![l] = @ + 1]
    /\ created' = [created EXCEPT ![l] = @ + 1]
    /\ UNCHANGED <<curr_rank, dest_rank, used, ended, pool, pc, localVars,
                   placeVars, ctlVars>>
    /\ InBounds'

\* abtst_stream_set_blocking, as the rebalance tests use it.
SetBlocking(s) ==
    /\ main = "run"
    /\ blocking' = [blocking EXCEPT ![s] = ~@]
    /\ UNCHANGED <<loadVars, pool, pc, localVars, placeVars, mapped, stopping,
                   reb, moves, raced, main, join_req>>

(* Shutdown: abtst_set_stopping, then abtst_finalize.                      *)

SetStopping ==
    /\ main = "run"
    /\ stopping' = TRUE
    /\ main' = "stopping"
    /\ UNCHANGED <<loadVars, pool, pc, localVars, placeVars, mapped, blocking,
                   reb, moves, raced, join_req>>

\* abtst_free_rebalance: pthread_join returns once reb_func has returned.
JoinRebalancer ==
    /\ main = "stopping"
    /\ reb = "ended"
    /\ main' = "join"
    /\ UNCHANGED <<loadVars, pool, pc, localVars, placeVars, mapped, blocking,
                   stopping, reb, moves, raced, join_req>>

\* abtst_finalize_streams joins the streams one by one in rank order; the
\* join of one returns when its scheduler has returned.
JoinStream(s) ==
    /\ main = "join"
    /\ s \notin join_req
    /\ \A t \in Streams : t < s => t \in join_req /\ pc[t] = "exit"
    /\ join_req' = join_req \cup {s}
    /\ UNCHANGED <<loadVars, pool, pc, localVars, placeVars, mapped, blocking,
                   stopping, reb, moves, raced, main>>

Finalized ==
    /\ main = "join"
    /\ \A s \in Streams : s \in join_req /\ pc[s] = "exit"
    /\ main' = "done"
    /\ UNCHANGED <<loadVars, pool, pc, localVars, placeVars, mapped, blocking,
                   stopping, reb, moves, raced, join_req>>

-----------------------------------------------------------------------------
(* The rebalancer thread, as the schedulers see it.                        *)

\* abtst_load_set_migrating, from abtst_combine_streams or
\* abtst_rebalance_streams: a listed load gets another used stream as its
\* destination.  The rebalancer may still do so after stopping was set, until
\* reb_func tests the flag again.
SetMigrating(l, s) ==
    /\ reb = "running"
    /\ l \in mapped
    /\ s # dest_rank[l]
    /\ dest_rank' = [dest_rank EXCEPT ![l] = s]
    /\ moves' = moves + 1
    /\ raced' = (raced \/ \E t \in Streams : pc[t] = "update" /\ unit[t] = l)
    /\ UNCHANGED <<curr_rank, used, created, ended, subpool, pool, pc,
                   localVars, placeVars, mapped, blocking, stopping, reb,
                   main, join_req>>
    /\ InBounds'

\* The test of reb_func's loop.
RebEnd ==
    /\ reb = "running"
    /\ stopping
    /\ reb' = "ended"
    /\ UNCHANGED <<loadVars, pool, pc, localVars, placeVars, mapped, blocking,
                   stopping, moves, raced, main, join_req>>

-----------------------------------------------------------------------------
(* sched_run, the base scheduler of stream s.                              *)

Goto(s, label) == pc' = [pc EXCEPT ![s] = label]

\* The test of the inner loop, and ABT_pool_get_size.
Inner(s) ==
    /\ pc[s] = "inner"
    /\ IF blocking[s]
       THEN Goto(s, "events") /\ UNCHANGED pool_size
       ELSE /\ Goto(s, "pop")
            /\ pool_size' = [pool_size EXCEPT ![s] = Len(pool[s])]
    /\ UNCHANGED <<loadVars, pool, unit, run_subpool, stop, work_count, ran,
                   new_stream, batch, placeVars, ctlVars>>

\* ABT_pool_pop.
Pop(s) ==
    /\ pc[s] = "pop"
    /\ \/ /\ pool[s] = << >>
          /\ Goto(s, "events")
          /\ pool_size' = [pool_size EXCEPT ![s] = 0]
          /\ UNCHANGED <<pool, unit>>
       \/ /\ pool[s] # << >>
          /\ unit' = [unit EXCEPT ![s] = Head(pool[s])]
          /\ pool' = [pool EXCEPT ![s] = Tail(@)]
          /\ Goto(s, "check")
          /\ UNCHANGED pool_size
    /\ UNCHANGED <<loadVars, run_subpool, stop, work_count, ran,
                   new_stream, batch, placeVars, ctlVars>>

\* Mutant: an idle load is not migrated.
CheckBusyOnly(s) ==
    /\ pc[s] = "check"
    /\ Goto(s, IF abtst_load_is_migrating(unit[s]) /\ subpool[unit[s]] > 0
               THEN "target" ELSE "size")
    /\ UNCHANGED <<loadVars, pool, localVars, placeVars, ctlVars>>

\* The two tests of curr_rank against dest_rank.  The first one only decides
\* whether the second is made, so one read of dest_rank stands for both.
Check(s) ==
    /\ pc[s] = "check"
    /\ Goto(s, IF abtst_load_is_migrating(unit[s]) THEN "target" ELSE "size")
    /\ UNCHANGED <<loadVars, pool, localVars, placeVars, ctlVars>>

\* stream + (int)(dest_rank - curr_rank): the address of another stream,
\* relative to this one.
Target(s) ==
    /\ pc[s] = "target"
    /\ new_stream' = [new_stream EXCEPT
                        ![s] = s + (dest_rank[unit[s]] - curr_rank[unit[s]])]
    /\ Goto(s, "update")
    /\ UNCHANGED <<loadVars, pool, unit, pool_size, run_subpool, stop,
                   work_count, ran, batch, placeVars, ctlVars>>

\* Mutant: curr_rank is not updated.
UpdateNoRank(s) ==
    /\ pc[s] = "update"
    /\ Goto(s, "push")
    /\ UNCHANGED <<loadVars, pool, localVars, placeVars, ctlVars>>

\* abtst_load_update_curr_rank reads dest_rank again.
Update(s) ==
    /\ pc[s] = "update"
    /\ curr_rank' = [curr_rank EXCEPT ![unit[s]] = dest_rank[unit[s]]]
    /\ Goto(s, "push")
    /\ UNCHANGED <<dest_rank, used, created, ended, subpool, pool,
                   localVars, placeVars, ctlVars>>

\* Mutant: no "continue" after the push, so the load is run here as well.
PushNoContinue(s) ==
    /\ pc[s] = "push"
    /\ IF new_stream[s] \in Streams
       THEN /\ pool' = [pool EXCEPT ![new_stream[s]] = Append(@, unit[s])]
            /\ UNCHANGED stray
       ELSE /\ stray' = stray \cup {unit[s]}
            /\ UNCHANGED pool
    /\ Goto(s, "size")
    /\ UNCHANGED <<loadVars, localVars, retired, ctlVars>>

\* ABT_pool_push to the other stream's pool, and continue.  A rank that is no
\* used stream has no pool that a base scheduler serves (its pool handle is
\* null, or the address is outside the array): the unit is gone.
Push(s) ==
    /\ pc[s] = "push"
    /\ IF new_stream[s] \in Streams
       THEN /\ pool' = [pool EXCEPT ![new_stream[s]] = Append(@, unit[s])]
            /\ UNCHANGED stray
       ELSE /\ stray' = stray \cup {unit[s]}
            /\ UNCHANGED pool
    /\ unit' = [unit EXCEPT ![s] = NoLoad]
    /\ pool_size' = [pool_size EXCEPT ![s] = 0]
    /\ new_stream' = [new_stream EXCEPT ![s] = 0]
    /\ Goto(s, "inner")
    /\ UNCHANGED <<loadVars, run_subpool, stop, work_count, ran, batch, retired,
                   ctlVars>>

\* Run the sub scheduler if the load has LWTs or was never run.
Size(s) ==
    /\ pc[s] = "size"
    /\ LET l == unit[s] IN
       IF subpool[l] > 0 \/ ~used[l]
       THEN /\ used' = [used EXCEPT ![l] = TRUE]
            /\ ran' = [ran EXCEPT ![s] = TRUE]
            /\ batch' = [batch EXCEPT ![s] = 0]
            /\ Goto(s, "sub")
       ELSE Goto(s, "after") /\ UNCHANGED <<used, ran, batch>>
    /\ UNCHANGED <<curr_rank, dest_rank, created, ended, subpool,
                   pool, unit, pool_size, run_subpool, stop, work_count,
                   new_stream, placeVars, ctlVars>>

\* What follows the push: count the load, and leave the inner loop after one
\* round over the pool.
AfterRest(s) ==
    /\ run_subpool' = [run_subpool EXCEPT ![s] = @ + 1]
    /\ unit' = [unit EXCEPT ![s] = NoLoad]
    /\ pool_size' = [pool_size EXCEPT ![s] = 0]
    /\ batch' = [batch EXCEPT ![s] = 0]
    /\ Goto(s, IF run_subpool[s] + 1 >= pool_size[s] THEN "events" ELSE "inner")
    /\ UNCHANGED <<loadVars, stop, work_count, ran, new_stream, stray, ctlVars>>

\* Mutant: the unit is pushed back while the system is stopping, too.
AfterAlwaysPush(s) ==
    /\ pc[s] = "after"
    /\ pool' = [pool EXCEPT ![s] = Append(@, unit[s])]
    /\ UNCHANGED retired
    /\ AfterRest(s)

\* Mutant: an idle load is not pushed back.
AfterDropIdle(s) ==
    /\ pc[s] = "after"
    /\ IF stopping \/ subpool[unit[s]] = 0
       THEN retired' = retired \cup {unit[s]} /\ UNCHANGED pool
       ELSE pool' = [pool EXCEPT ![s] = Append(@, unit[s])] /\ UNCHANGED retired
    /\ AfterRest(s)

\* Mutant: the unit is pushed back at the head of the pool.
AfterPushHead(s) ==
    /\ pc[s] = "after"
    /\ IF stopping
       THEN retired' = retired \cup {unit[s]} /\ UNCHANGED pool
       ELSE pool' = [pool EXCEPT ![s] = <<unit[s]>> \o @] /\ UNCHANGED retired
    /\ AfterRest(s)

\* After the load: push the unit back unless the system is stopping.
After(s) ==
    /\ pc[s] = "after"
    /\ IF stopping
       THEN retired' = retired \cup {unit[s]} /\ UNCHANGED pool
       ELSE pool' = [pool EXCEPT ![s] = Append(@, unit[s])] /\ UNCHANGED retired
    /\ AfterRest(s)

\* ABT_xstream_check_events and ABT_sched_has_to_stop (Argobots): a joined
\* scheduler has to stop once its pool is empty.
ABT_sched_has_to_stop(s) == s \in join_req /\ pool[s] = << >>

\* The end of the outer loop; every EventFreq-th iteration looks for a join
\* request.  stop is sticky, and the scheduler returns after an iteration
\* that ran nothing.
Events(s) ==
    /\ pc[s] = "events"
    /\ LET poll == work_count[s] + 1 >= EventFreq
           halt == stop[s] \/ (poll /\ ABT_sched_has_to_stop(s))
       IN /\ stop' = [stop EXCEPT ![s] = halt]
          /\ work_count' = [work_count EXCEPT ![s] = IF poll THEN 0 ELSE @ + 1]
          /\ Goto(s, IF poll /\ halt /\ ~ran[s] /\ run_subpool[s] = 0
                     THEN "exit" ELSE "inner")
    /\ ran' = [ran EXCEPT ![s] = FALSE]
    /\ run_subpool' = [run_subpool EXCEPT ![s] = 0]
    /\ UNCHANGED <<loadVars, pool, unit, pool_size, new_stream, batch,
                   placeVars, ctlVars>>

-----------------------------------------------------------------------------
(* sub_sched_run, the sub scheduler of the load that stream s holds.       *)

\* ABT_pool_pop of the load's pool.  An empty pool ends a pass; the sub
\* scheduler returns after a pass that ran nothing and makes another one
\* otherwise.
SubPop(s) ==
    /\ pc[s] = "sub"
    /\ LET l == unit[s] IN
       IF subpool[l] > 0
       THEN /\ subpool' = [subpool EXCEPT ![l] = @ - 1]
            /\ Goto(s, "lwt")
            /\ UNCHANGED batch
       ELSE /\ batch' = [batch EXCEPT ![s] = 0]
            /\ Goto(s, IF batch[s] = 0 THEN "after" ELSE "sub")
            /\ UNCHANGED subpool
    /\ UNCHANGED <<curr_rank, dest_rank, used, created, ended, pool,
                   unit, pool_size, run_subpool, stop, work_count, ran,
                   new_stream, placeVars, ctlVars>>

\* Mutant: the next LWT is popped before the batch limit is tested.
LwtEndPopFirst(s) ==
    /\ pc[s] = "lwt"
    /\ ended' = [ended EXCEPT ![unit[s]] = @ + 1]
    /\ batch' = [batch EXCEPT ![s] = @ + 1]
    /\ IF batch[s] + 1 >= MaxBatch
       THEN /\ subpool' = [subpool EXCEPT ![unit[s]] = IF @ > 0 THEN @ - 1 ELSE 0]
            /\ Goto(s, "after")
       ELSE Goto(s, "sub") /\ UNCHANGED subpool
    /\ UNCHANGED <<curr_rank, dest_rank, used, created, pool, unit,
                   pool_size, run_subpool, stop, work_count, ran, new_stream,
                   placeVars, ctlVars>>

\* ABT_xstream_run_unit returns; the sub scheduler returns after MaxBatch LWTs
\* in one pass and pops the next one otherwise.
LwtEnd(s) ==
    /\ pc[s] = "lwt"
    /\ ended' = [ended EXCEPT ![unit[s]] = @ + 1]
    /\ batch' = [batch EXCEPT ![s] = @ + 1]
    /\ Goto(s, IF batch[s] + 1 >= MaxBatch THEN "after" ELSE "sub")
    /\ UNCHANGED <<curr_rank, dest_rank, used, created, subpool, pool,
                   unit, pool_size, run_subpool, stop, work_count, ran,
                   new_stream, placeVars, ctlVars>>

-----------------------------------------------------------------------------
SchedStep(s) ==
    \/ Inner(s) \/ Pop(s) \/ Check(s) \/ Target(s) \/ Update(s) \/ Push(s)
    \/ Size(s) \/ SubPop(s) \/ LwtEnd(s) \/ After(s) \/ Events(s)

MainFinalize ==
    \/ JoinRebalancer \/ Finalized
    \/ \E s \in Streams : JoinStream(s)

Next ==
    \/ \E l \in Loads, s \in Streams : InitLoad(l, s) \/ SetMigrating(l, s)
    \/ \E l \in Loads : CreateLwt(l)
    \/ \E s \in Blockable : SetBlocking(s)
    \/ SetStopping
    \/ RebEnd
    \/ MainFinalize
    \/ \E s \in Streams : SchedStep(s)

Spec == Init /\ [][Next]_vars

\* Every xstream is a kernel thread that keeps running, the rebalancer comes
\* back from sleep(), and main does not stop inside abtst_finalize.  Creating
\* work, moving loads and (un)blocking streams are free choices.
Fairness ==
    /\ \A s \in Streams : WF_vars(SchedStep(s))
    /\ WF_vars(RebEnd)
    /\ WF_vars(MainFinalize)

FairSpec == Spec /\ Fairness

-----------------------------------------------------------------------------
(* Safety.                                                                 *)

LoadTypes ==
    /\ curr_rank \in [Loads -> Nat] /\ dest_rank \in [Loads -> Nat]
    /\ used \in [Loads -> BOOLEAN]
    /\ created \in [Loads -> Nat] /\ ended \in [Loads -> Nat]
    /\ subpool \in [Loads -> Nat]

RankTypes ==
    /\ mapped \subseteq Loads
    /\ \A l \in mapped : curr_rank[l] \in Streams /\ dest_rank[l] \in Streams

PoolTypes ==
    /\ pool \in [Streams -> Seq(Loads)]
    /\ \A s \in Streams, l \in Loads : Queued(s, l) => l \in mapped
    /\ retired \subseteq mapped /\ stray \subseteq mapped

UnitTypes ==
    /\ pc \in [Streams -> PCs]
    /\ unit \in [Streams -> Loads \cup {NoLoad}]
    /\ \A s \in Streams : /\ pc[s] \in Holding => unit[s] \in mapped
                          /\ pc[s] \notin Holding => unit[s] = NoLoad

LocalTypes ==
    /\ pool_size \in [Streams -> Nat] /\ run_subpool \in [Streams -> Nat]
    /\ work_count \in [Streams -> Nat] /\ batch \in [Streams -> Nat]
    /\ new_stream \in [Streams -> Int]
    /\ stop \in [Streams -> BOOLEAN] /\ ran \in [Streams -> BOOLEAN]

CtlTypes ==
    /\ blocking \in [Streams -> BOOLEAN] /\ stopping \in BOOLEAN
    /\ join_req \subseteq Streams
    /\ reb \in {"running", "ended"} /\ moves \in Nat /\ raced \in BOOLEAN
    /\ main \in {"run", "stopping", "join", "done"}

\* Type invariant: ranks of created loads are used streams, and a scheduler of
\* base.c holds the unit of a created load exactly from its pop to its push.
TypeOK ==
    LoadTypes /\ RankTypes /\ PoolTypes /\ UnitTypes /\ LocalTypes /\ CtlTypes

\* The lockless promise of README (mapping): the LWTs of a load never run on
\* two xstreams at once, whatever the rebalancer does meanwhile.
SerialLoad ==
    \A s, t \in Streams :
        pc[s] = "lwt" /\ pc[t] = "lwt" /\ unit[s] = unit[t] => s = t

NoTwoHolders ==
    \A s, t \in Streams : \A l \in Loads : Holds(s, l) /\ Holds(t, l) => s = t

HeldNotQueued ==
    \A s, t \in Streams : \A l \in Loads : ~(Holds(s, l) /\ Queued(t, l))

QueuedOnce ==
    \A s, t \in Streams : \A i \in 1..Len(pool[s]), j \in 1..Len(pool[t]) :
        pool[s][i] = pool[t][j] => s = t /\ i = j

GoneForGood ==
    /\ retired \cap stray = {}
    /\ \A l \in retired \cup stray, s \in Streams : ~Holds(s, l) /\ ~Queued(s, l)

NeverLost ==
    \A l \in mapped : \/ l \in retired \cup stray
                      \/ \E s \in Streams : Holds(s, l) \/ Queued(s, l)

\* The unit of every load that was created, and of no other, is in exactly one
\* place: the pool of one stream, the hands of one scheduler, retired by the
\* shutdown, or lost to a stream that does not exist.  base.c moves units
\* between pools of different threads without a lock around pop and push.
UnitInOnePlace ==
    NoTwoHolders /\ HeldNotQueued /\ QueuedOnce /\ GoneForGood /\ NeverLost

\* No LWT is lost or run twice, though several streams in turn take LWTs from
\* the pool of the load (sub.c 141-149) and main puts them there: those created
\* are waiting, running or have returned.
IoConservation ==
    \A l \in Loads : created[l] = subpool[l] + Running(l) + ended[l]

\* A unit waits in the pool of the stream that curr_rank names, and none is
\* pushed to a stream that is not in use.  "each xstream owns a base/main
\* scheduler to run all loads in the xstream" (Documentation/scheduler.txt).
PlacedWhereRanked ==
    /\ \A s \in Streams, l \in Loads : Queued(s, l) => curr_rank[l] = s
    /\ stray = {}

\* The relative address of base.c 146 and the second read of dest_rank in 147
\* agree, and units stay where their ranks say, until the rebalancer writes
\* dest_rank between the two lines.
PlacedUntilRace == ~raced => PlacedWhereRanked

\* PlacedWhereRanked with what a scheduler knows in the middle of a hand-off:
\* until the push of base.c 148 it is the stream that curr_rank names, from
\* line 146 on new_stream is the destination, after 147 it is curr_rank.
HandOffRanks ==
    /\ PlacedWhereRanked
    /\ \A s \in Streams, l \in Loads :
          Holds(s, l) => /\ pc[s] # "push" => curr_rank[l] = s
                         /\ pc[s] = "update" => new_stream[s] = dest_rank[l]
                         /\ pc[s] = "push" => new_stream[s] = curr_rank[l]

\* "Wait all work to be done" (main.c): after abtst_finalize no LWT is left.
AllWorkDone == main = "done" => \A l \in Loads : subpool[l] = 0

-----------------------------------------------------------------------------
(* Refinement.                                                             *)

Ownership == INSTANCE LoadOwnership WITH
    owners  <- [l \in Loads |-> {s \in Streams : Holds(s, l) \/ Queued(s, l)}],
    gone    <- retired \cup stray,
    pending <- subpool,
    running <- [l \in Loads |-> \E s \in Streams : pc[s] = "lwt" /\ unit[s] = l],
    done    <- ended

\* The schedulers implement the ownership of loads: a load changes streams, or
\* is given up, only between two of its LWTs.
OwnershipSpec == Ownership!Spec

-----------------------------------------------------------------------------
(* Liveness.                                                               *)

\* The application lets the schedulers work: it has not begun to stop them and
\* blocks no stream.
Undisturbed == ~stopping /\ \A s \in Streams : ~blocking[s]

LwtNumbers == UNION {1..b.ios : b \in Bounds}

\* Every LWT that is created returns, through all migrations of its load and
\* whatever other loads share its stream, unless a stream is blocked, the system
\* is being stopped, or the unit of its load was pushed to no used stream (base.c
\* 146-148, after a race; see PlacedUntilRace).  The main thread creates finitely
\* many LWTs: with endless arrivals the pass of sub.c 139-164 need not end.
IoCompletes ==
    \A l \in Loads : \A k \in LwtNumbers :
        created[l] >= k ~> (ended[l] >= k \/ ~Undisturbed \/ l \in stray)

\* A migration that the rebalancer decides is carried out by the scheduler
\* that has the load, also of a unit that a race has left in the pool of another
\* stream, unless a stream is blocked, the system is stopped, or a race has lost
\* the unit.
MigrationCompletes ==
    \A l \in Loads :
        abtst_load_is_migrating(l)
          ~> (~abtst_load_is_migrating(l) \/ ~Undisturbed \/ l \in stray)

\* abtst_finalize returns if no stream is blocked when stopping is set.
FinalizeTerminates ==
    (stopping /\ \A s \in Streams : ~blocking[s]) ~> main = "done"
=============================================================================
