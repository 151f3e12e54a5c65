------------------------------ MODULE Requests ------------------------------
(***************************************************************************)
(* Requests to add a core to the system or to take one away                *)
(* (src/rebalance/reb_req.c, rebalance.c:37-141): any thread may put one    *)
(* into the queue of the rebalancer, a doubly linked list (list.h) under a *)
(* spin lock (spinlock.h); the rebalancer takes them out one by one, drops *)
(* the lock while it serves one, and goes on from the cursor it saved.     *)
(*                                                                         *)
(* To serve a removal it retargets the loads of the core and joins an      *)
(* xstream, which ends when its base scheduler finds its pool empty.  The  *)
(* schedulers appear by their hand-offs alone (base.c:142-149).  The       *)
(* rebalancer is at level 0, so that requests are all it does, and the     *)
(* system is not shut down.                                                *)
(***************************************************************************)
EXTENDS Integers, Sequences, FiniteSets, FiniteSetsExt

CONSTANTS
    NrCores,      \* env.nr_cores
    Topologies,   \* what /sys may say of the NUMA nodes
    Producers,    \* the threads that make requests
    Nodes,        \* the memory for requests; freed nodes are used again
    Loads,
    ReqQ,         \* rebalance.req_q
    Poison,       \* LIST_POISON1, LIST_POISON2
    MaxReqs       \* bound on the number of requests

Cores == 0 .. NrCores - 1
None == -1
Free == "free"    \* the lock is free

ASSUME RequestsAssumption ==
    /\ NrCores \in Nat \ {0}
    /\ MaxReqs \in Nat

\* The head is none of the nodes, and the threads have names of their own.
ASSUME QueueAssumption ==
    /\ IsFiniteSet(Nodes)
    /\ ReqQ \notin Nodes /\ Poison \notin Nodes /\ ReqQ # Poison
    /\ Free \notin Producers /\ "rebalancer" \notin Producers

\* A cpulist is a list of ranges and single cores, possibly of more cores than
\* the machine has.
ASSUME TopologyAssumption ==
    \A nodes \in Topologies :
        /\ DOMAIN nodes \subseteq Nat
        /\ \A node \in DOMAIN nodes : nodes[node] \in Seq(Seq(Nat) \ {<<>>})

-----------------------------------------------------------------------------
(* abtst_init_env.  A topology gives for each node that has a directory its *)
(* cpulist: ranges <<a, b>> and single cores <<a>>.                         *)

WholeMachine == [start |-> 0, end |-> NrCores - 1]

\* get_node_cpus: sscanf of "%d-%d" takes the first range.  What it does not
\* find keeps its value: 0, or the whole machine for node 0.
get_node_cpus(line, node) ==
    LET old == IF node = 0 THEN WholeMachine ELSE [start |-> 0, end |-> 0]
    IN  [start |-> IF line = <<>> THEN old.start ELSE line[1][1],
         end   |-> IF line # <<>> /\ Len(line[1]) = 2 THEN line[1][2] ELSE old.end]

\* One NUMA if there is one node, or one of them cannot be read or is out of
\* range.
abtst_init_env(nodes) ==
    LET top == Max(DOMAIN nodes \cup {0})
        cpus(node) == get_node_cpus(nodes[node], node)
        Bad(node) == \/ node \notin DOMAIN nodes
                     \/ cpus(node).start >= NrCores
                     \/ cpus(node).end >= NrCores
    IN  IF top = 0 \/ \E node \in 0 .. top : Bad(node)
        THEN [node \in {0} |-> WholeMachine]
        ELSE [node \in 0 .. top |-> cpus(node)]

-----------------------------------------------------------------------------
VARIABLES
    numa_info,
    lock,             \* Free or the thread that holds rebalance.lock
    next, prev,       \* the links of ReqQ and of the nodes
    req, allocated,   \* the contents of the nodes; the nodes in use
    prod,             \* for each producer, its next step and its node
    calls,            \* the number of requests so far
    pc, pos, n,       \* the rebalancer: next step, list cursor, saved cursor
    joining,          \* the xstream it joins
    used, xstreams,   \* the streams in use; those whose scheduler runs
    on,               \* for each load, the stream whose load_q it is in
    curr_rank, dest_rank,
    pool,             \* for each stream, the units in its pool
    hand,             \* for each stream, the hand-off it is carrying out
    stray,            \* units in a pool that no scheduler serves
    astray            \* history: a removal joined another stream than the one
                      \* it emptied, or a stream could not be started

lockVars == <<lock>>
listVars == <<next, prev, req, allocated>>
prodVars == <<prod, calls>>
rebVars == <<pc, pos, n, joining>>
unitVars == <<curr_rank, pool, hand, stray>>
coreVars == <<numa_info, used, xstreams, on, dest_rank, astray>>
vars == <<lockVars, listVars, prodVars, rebVars, unitVars, coreVars>>

\* The arguments the two request functions let pass.  -1 stands for any
\* negative core.
Requests ==
    [type : {"add"}, core : Cores \ {0}]
      \cup [type : {"remove"}, core : Cores \cup {-1}]

NoRequest == [type |-> "none", core |-> None]

Init ==
    /\ numa_info \in {abtst_init_env(nodes) : nodes \in Topologies}
    /\ lock = Free
    /\ next = [x \in Nodes \cup {ReqQ} |-> x]
    /\ prev = [x \in Nodes \cup {ReqQ} |-> x]
    /\ req = [x \in Nodes |-> NoRequest]
    /\ allocated = {}
    /\ prod = [p \in Producers |-> [step |-> "idle", node |-> ReqQ]]
    /\ calls = 0
    /\ pc = "sleep" /\ pos = ReqQ /\ n = ReqQ
    /\ joining = None
    /\ used \in (SUBSET (Cores \ {0})) \ {{}}
    /\ xstreams = used
    /\ on \in [Loads -> used]
    /\ curr_rank = on /\ dest_rank = on
    /\ pool = [c \in Cores |-> {l \in Loads : on[l] = c}]
    /\ hand = [c \in Cores |-> {}]
    /\ stray = {} /\ astray = FALSE

-----------------------------------------------------------------------------
(* abtst_reb_req_add_core, abtst_reb_req_remove_core. *)

ProdStep(p, from, to) ==
    /\ prod[p].step = from
    /\ prod' = [prod EXCEPT ![p].step = to]

\* A node for the request; INIT_LIST_HEAD links it to itself.
Call(p) ==
    /\ prod[p].step = "idle"
    /\ calls < MaxReqs
    /\ calls' = calls + 1
    /\ \E x \in Nodes \ allocated, r \in Requests :
         /\ allocated' = allocated \cup {x}
         /\ req' = [req EXCEPT ![x] = r]
         /\ next' = [next EXCEPT ![x] = x]
         /\ prev' = [prev EXCEPT ![x] = x]
         /\ prod' = [prod EXCEPT ![p] = [step |-> "lock", node |-> x]]
    /\ UNCHANGED <<lockVars, rebVars, unitVars, coreVars>>

\* Mutant: the lock is taken without a test.
spin_lock_no_test(t) == lock' = t

\* spin_lock.  A thread that spins changes nothing.
spin_lock(t) == lock = Free /\ lock' = t

spin_unlock == lock' = Free

ReqLock(p) ==
    /\ ProdStep(p, "lock", "link")
    /\ spin_lock(p)
    /\ UNCHANGED <<listVars, calls, rebVars, unitVars, coreVars>>

\* Mutant: list_add instead of list_add_tail.
ReqLinkFirst(p) ==
    /\ ProdStep(p, "link", "append")
    /\ LET x == prod[p].node
       IN  /\ prev' = [prev EXCEPT ![next[ReqQ]] = x, ![x] = ReqQ]
           /\ next' = [next EXCEPT ![x] = next[ReqQ]]
    /\ UNCHANGED <<lockVars, req, allocated, calls, rebVars, unitVars, coreVars>>

\* list_add_tail up to the last of its four writes ...
ReqLink(p) ==
    /\ ProdStep(p, "link", "append")
    /\ LET x == prod[p].node
       IN  /\ prev' = [prev EXCEPT ![ReqQ] = x, ![x] = prev[ReqQ]]
           /\ next' = [next EXCEPT ![x] = ReqQ]
    /\ UNCHANGED <<lockVars, req, allocated, calls, rebVars, unitVars, coreVars>>

\* ... prev->next = new.
ReqAppend(p) ==
    /\ ProdStep(p, "append", "unlock")
    /\ next' = [next EXCEPT ![prev[prod[p].node]] = prod[p].node]
    /\ UNCHANGED <<lockVars, prev, req, allocated, calls, rebVars, unitVars,
                   coreVars>>

ReqUnlock(p) ==
    /\ prod[p].step = "unlock"
    /\ prod' = [prod EXCEPT ![p] = [step |-> "idle", node |-> ReqQ]]
    /\ spin_unlock
    /\ UNCHANGED <<listVars, calls, rebVars, unitVars, coreVars>>

-----------------------------------------------------------------------------
(* abtst_reb_process_requests. *)

Goto(from, to) == pc = from /\ pc' = to

\* spin_lock, at the start and after a request was served.
LockQueue ==
    /\ \/ Goto("sleep", "first")
       \/ Goto("relock", "advance")
    /\ spin_lock("rebalancer")
    /\ UNCHANGED <<listVars, prodVars, pos, n, joining, unitVars, coreVars>>

\* list_for_each_safe: the first step ...
First ==
    /\ Goto("first", "test")
    /\ pos' = next[ReqQ]
    /\ n' = next[next[ReqQ]]
    /\ UNCHANGED <<lockVars, listVars, prodVars, joining, unitVars, coreVars>>

\* Mutant: list_for_each, which reads the link of the deleted node.
AdvanceUnsafe ==
    /\ Goto("advance", "test")
    /\ pos' = next[pos]
    /\ UNCHANGED <<lockVars, listVars, prodVars, n, joining, unitVars, coreVars>>

\* ... and the others.
Advance ==
    /\ Goto("advance", "test")
    /\ pos' = n
    /\ n' = next[n]
    /\ UNCHANGED <<lockVars, listVars, prodVars, joining, unitVars, coreVars>>

\* At the end of the list the lock is dropped until the next pass.
Finish ==
    /\ pos = ReqQ
    /\ Goto("test", "sleep")
    /\ n' = ReqQ   \* not read any more
    /\ spin_unlock
    /\ UNCHANGED <<listVars, prodVars, pos, joining, unitVars, coreVars>>

\* list_del: next->prev = prev, ...
Unlink ==
    /\ pos # ReqQ
    /\ Goto("test", "delete")
    /\ prev' = [prev EXCEPT ![next[pos]] = prev[pos]]
    /\ UNCHANGED <<lockVars, next, req, allocated, prodVars, pos, n, joining,
                   unitVars, coreVars>>

\* ... prev->next = next, and the poison.
Delete ==
    /\ Goto("delete", "drop")
    /\ next' = [next EXCEPT ![prev[pos]] = next[pos], ![pos] = Poison]
    /\ prev' = [prev EXCEPT ![pos] = Poison]
    /\ UNCHANGED <<lockVars, req, allocated, prodVars, pos, n, joining, unitVars,
                   coreVars>>

DropLock ==
    /\ Goto("drop", "serve")
    /\ spin_unlock
    /\ UNCHANGED <<listVars, prodVars, pos, n, joining, unitVars, coreVars>>

FreeRequest ==
    /\ Goto("free", "relock")
    /\ allocated' = allocated \ {pos}
    /\ req' = [req EXCEPT ![pos] = NoRequest]
    /\ UNCHANGED <<lockVars, next, prev, prodVars, pos, n, joining, unitVars,
                   coreVars>>

-----------------------------------------------------------------------------
(* abtst_reb_process_add_core, abtst_reb_process_remove_core. *)

Serves(type, core) == pc = "serve" /\ req[pos] = [type |-> type, core |-> core]

\* init_xstream empties the stream's load list and starts an xstream with an
\* empty pool.  Its result is ignored.
AddCore ==
    /\ \E core \in Cores :
         /\ Serves("add", core)
         /\ IF core \in used THEN UNCHANGED coreVars
            ELSE /\ used' = used \cup {core}
                 /\ on' = [l \in Loads |-> IF on[l] = core THEN None ELSE on[l]]
                 /\ \/ xstreams' = xstreams \cup {core} /\ UNCHANGED astray
                    \/ astray' = TRUE /\ UNCHANGED xstreams
                 /\ UNCHANGED <<numa_info, dest_rank>>
    /\ pc' = "free"
    /\ UNCHANGED <<lockVars, listVars, prodVars, pos, n, joining, unitVars>>

\* The first NUMA whose range has the core.
abtst_env_get_numa_id(core) ==
    LET Of == {i \in DOMAIN numa_info :
                 core \in numa_info[i].start .. numa_info[i].end}
    IN  IF Of = {} THEN None ELSE Min(Of)

NumaCores(core) ==
    LET numa == numa_info[abtst_env_get_numa_id(core)]
    IN  numa.start .. numa.end

\* The core is negative (as an unsigned number it is not below env.nr_cores) or
\* not used, or no other stream of its NUMA is.
RemoveNothing ==
    /\ \E core \in Cores \cup {-1} :
         /\ Serves("remove", core)
         /\ \/ core = -1
            \/ core \notin used
            \/ /\ abtst_env_get_numa_id(core) # None
               /\ NumaCores(core) \cap used = {core}
    /\ pc' = "free"
    /\ UNCHANGED <<lockVars, listVars, prodVars, pos, n, joining, unitVars, coreVars>>

\* No NUMA has the core, and numa_info is NULL when it is read: the process ends.
RemoveTraps ==
    /\ \E core \in used :
         Serves("remove", core) /\ abtst_env_get_numa_id(core) = None
    /\ pc' = "trap"
    /\ UNCHANGED <<lockVars, listVars, prodVars, pos, n, joining, unitVars, coreVars>>

\* Mutant: the loads change lists only.
RemoveCoreNoDest ==
    /\ \E core \in used :
         /\ Serves("remove", core)
         /\ abtst_env_get_numa_id(core) # None
         /\ \E to \in (NumaCores(core) \cap used) \ {core} :
              on' = [l \in Loads |-> IF on[l] = core THEN to ELSE on[l]]
         /\ joining' = Max(NumaCores(core))
         /\ astray' = (astray \/ joining' # core)
    /\ pc' = "join"
    /\ UNCHANGED <<lockVars, listVars, prodVars, pos, n, unitVars, numa_info, used,
                   xstreams, dest_rank>>

\* abtst_combine_streams: all loads go to the least loaded other stream of the
\* NUMA, which may be any of them.  The stream to be joined is the one the loop
\* over the NUMA ended with.
RemoveCore ==
    /\ \E core \in used :
         /\ Serves("remove", core)
         /\ abtst_env_get_numa_id(core) # None
         /\ \E to \in (NumaCores(core) \cap used) \ {core} :
              /\ on' = [l \in Loads |-> IF on[l] = core THEN to ELSE on[l]]
              /\ dest_rank' = [l \in Loads |-> IF on[l] = core THEN to
                                               ELSE dest_rank[l]]
         /\ joining' = Max(NumaCores(core))
         /\ astray' = (astray \/ joining' # core)
    /\ pc' = "join"
    /\ UNCHANGED <<lockVars, listVars, prodVars, pos, n, unitVars, numa_info, used,
                   xstreams>>

\* ABT_xstream_join returns when the xstream has ended, or at once if there is
\* none.
Join ==
    /\ joining \notin xstreams
    /\ Goto("join", "free")
    /\ used' = used \ {joining}
    /\ joining' = None
    /\ UNCHANGED <<lockVars, listVars, prodVars, pos, n, unitVars, numa_info,
                   xstreams, on, dest_rank, astray>>

-----------------------------------------------------------------------------
(* The base scheduler of stream s.  To run a load that stays changes nothing *)
(* here.                                                                     *)

\* It pops a unit that is to move, and computes where to from dest_rank.
TakeUnit(s) ==
    /\ s \in xstreams
    /\ hand[s] = {}
    /\ \E l \in pool[s] :
         /\ curr_rank[l] # dest_rank[l]
         /\ pool' = [pool EXCEPT ![s] = @ \ {l}]
         /\ hand' = [hand EXCEPT ![s] =
                       {<<l, s + (dest_rank[l] - curr_rank[l])>>}]
    /\ UNCHANGED <<lockVars, listVars, prodVars, rebVars, curr_rank, stray,
                   coreVars>>

\* It reads dest_rank again for curr_rank, and pushes the unit.
GiveUnit(s) ==
    /\ \E h \in hand[s] :
         /\ curr_rank' = [curr_rank EXCEPT ![h[1]] = dest_rank[h[1]]]
         /\ IF h[2] \in xstreams
            THEN /\ pool' = [pool EXCEPT ![h[2]] = @ \cup {h[1]}]
                 /\ UNCHANGED stray
            ELSE stray' = stray \cup {h[1]} /\ UNCHANGED pool
    /\ hand' = [hand EXCEPT ![s] = {}]
    /\ UNCHANGED <<lockVars, listVars, prodVars, rebVars, coreVars>>

\* Mutant: the scheduler ends with units in its pool.
XstreamEndsBusy(s) ==
    /\ s \in xstreams
    /\ joining = s
    /\ hand[s] = {}
    /\ xstreams' = xstreams \ {s}
    /\ UNCHANGED <<lockVars, listVars, prodVars, rebVars, unitVars, numa_info, used,
                   on, dest_rank, astray>>

\* An xstream that is joined ends when its scheduler has found its pool empty
\* (ABT_sched_has_to_stop).
XstreamEnds(s) ==
    /\ s \in xstreams
    /\ joining = s
    /\ pool[s] = {} /\ hand[s] = {}
    /\ xstreams' = xstreams \ {s}
    /\ UNCHANGED <<lockVars, listVars, prodVars, rebVars, unitVars, numa_info, used,
                   on, dest_rank, astray>>

-----------------------------------------------------------------------------
Rebalancer ==
    \/ LockQueue \/ First \/ Advance \/ Finish \/ Unlink \/ Delete \/ DropLock
    \/ AddCore \/ RemoveNothing \/ RemoveTraps \/ RemoveCore \/ Join
    \/ FreeRequest

Locked(p) == ReqLink(p) \/ ReqAppend(p) \/ ReqUnlock(p)

Scheduler(s) == TakeUnit(s) \/ GiveUnit(s) \/ XstreamEnds(s)

\* After a trap nothing runs.
Next ==
    /\ pc # "trap"
    /\ \/ Rebalancer
       \/ \E p \in Producers : Call(p) \/ ReqLock(p) \/ Locked(p)
       \/ \E s \in Cores : Scheduler(s)

Spec == Init /\ [][Next]_vars

\* Threads run, and whoever has the lock goes on to release it.  The lock is
\* not fair: a producer may spin for as long as others make requests.
FairSpec ==
    /\ Spec
    /\ WF_vars(pc # "trap" /\ Rebalancer)
    /\ \A p \in Producers : WF_vars(pc # "trap" /\ Locked(p))
    /\ \A s \in Cores \ {0} : WF_vars(pc # "trap" /\ Scheduler(s))

-----------------------------------------------------------------------------
TypeOK ==
    /\ lock = Free \/ lock = "rebalancer" \/ lock \in Producers
    /\ next \in [Nodes \cup {ReqQ} -> Nodes \cup {ReqQ, Poison}]
    /\ prev \in [Nodes \cup {ReqQ} -> Nodes \cup {ReqQ, Poison}]
    /\ req \in [Nodes -> Requests \cup {NoRequest}]
    /\ allocated \subseteq Nodes
    /\ prod \in [Producers -> [step : {"idle", "lock", "link", "append", "unlock"},
                               node : Nodes \cup {ReqQ}]]
    /\ calls \in 0 .. MaxReqs
    /\ pc \in {"sleep", "first", "advance", "test", "delete", "drop", "serve",
               "join", "free", "relock", "trap"}
    /\ pos \in Nodes \cup {ReqQ}
    /\ n \in Nodes \cup {ReqQ}
    /\ joining \in Cores \cup {None}
    /\ used \subseteq Cores \ {0} /\ xstreams \subseteq used
    /\ on \in [Loads -> Cores \cup {None}]
    /\ curr_rank \in [Loads -> Cores] /\ dest_rank \in [Loads -> Cores]
    /\ pool \in [Cores -> SUBSET Loads]
    /\ \A s \in Cores : /\ Cardinality(hand[s]) <= 1
                        /\ \A h \in hand[s] : h[1] \in Loads
    /\ stray \subseteq Loads /\ astray \in BOOLEAN

\* The node before the k-th of list q, or the head.
Before(q, k) == IF k = 1 THEN ReqQ ELSE q[k - 1]

\* The nodes that are reached from the head, in their order.
Linked ==
    CHOOSE q \in UNION {[1 .. m -> Nodes] : m \in 0 .. Cardinality(Nodes)} :
        /\ \A k \in 1 .. Len(q) : q[k] = next[Before(q, k)]
        /\ Len(q) = Cardinality(Nodes) \/ next[Before(q, Len(q) + 1)] \notin Nodes

Serving == pc \in {"drop", "serve", "join", "free", "trap"}

\* reb_req.c:79-110: the list, its lock and the cursor that is kept while the
\* lock is dropped implement a queue.
Fifo == INSTANCE RequestFifo
          WITH queue <- [k \in 1 .. Len(Linked) |-> req[Linked[k]]],
               serving <- IF Serving THEN <<req[pos]>> ELSE <<>>

FifoSpec == Fifo!Spec

\* list.h:111-113, reb_req.c:88-105: while the rebalancer serves a request
\* without the lock, the cursor it goes on with stays valid, though producers
\* append to the list and reuse the memory of requests that were freed: it is
\* the first node of the list, or the head, and then what has been appended
\* meanwhile waits for the next pass.
SafeCursor ==
    pc \in {"serve", "join", "free", "relock"} =>
      \/ n = ReqQ
      \/ n \in allocated /\ Linked # <<>> /\ n = Linked[1]

\* rebalance.c:54-141: as long as only the last core of a NUMA was ever removed
\* and every xstream could be started, a core that is not used has no xstream,
\* no load, no unit of a load and none on its way; every load is listed where it
\* is going, and its unit is in the pool of its rank or handed off from there.
RemovedIsEmpty ==
    ~astray =>
      /\ stray = {}
      /\ \A c \in Cores \ used :
           /\ c \notin xstreams /\ pool[c] = {} /\ hand[c] = {}
           /\ \A s \in Cores : \A h \in hand[s] : h[2] # c
      /\ \A l \in Loads :
           /\ on[l] = dest_rank[l] /\ dest_rank[l] \in used
           /\ \/ l \in pool[curr_rank[l]]
              \/ \E h \in hand[curr_rank[l]] : h[1] = l

\* Every core that a stream may be on is in the range of a NUMA.
Covered == \A c \in Cores \ {0} : abtst_env_get_numa_id(c) # None

\* reb_req.c:86-106, rebalance.c:54-141: on a machine whose NUMAs cover its
\* cores, a request in the list is served and its memory freed, whatever core it
\* names, as long as no removal goes astray.  In particular none reads through
\* a NULL numa_info, and the join of the core that is removed returns.
RequestsServed ==
    \A x \in Nodes :
        (Covered /\ \E k \in DOMAIN Linked : Linked[k] = x)
          ~> (x \notin allocated \/ astray)
=============================================================================
