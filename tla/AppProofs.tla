----------------------------- MODULE AppProofs -----------------------------
(***************************************************************************)
(* The order in which main() starts and stops the system, the slots and    *)
(* counters of its I/Os, and where loads and keys are placed: for any      *)
(* machine, any partition table and any point at which Argobots refuses    *)
(* something.                                                              *)
(***************************************************************************)
EXTENDS App, FiniteSetTheorems, WellFoundedInduction, TLAPS

Starting == {"init_partitions", "init_streams", "init_rebalance", "undefined"}
Running == {"scan", "create", "count"}
Freeing == {"free_mappings", "free_streams", "free_params", "done"}

\* Which threads there are, by the statement main() is at.
Threads ==
    /\ pc \in {"init_partitions", "init_streams"} => xstreams = {} /\ reb = "none"
    /\ pc \in Freeing \cup {"join_streams"} => reb = "ended"
    /\ pc \in Freeing => xstreams = {}

\* Which arrays there are.
Arrays ==
    /\ pc \notin Starting \cup {"free_params", "done"} => streams = "live"
    /\ pc # "done" => params = "live"
    /\ heap \in [MappingIds -> {"none", "live", "freed"}]
    /\ \A m \in MappingIds : /\ pc \in Starting \cup {"create_hash"} => heap[m] = "none"
                             /\ heap[m] = "freed" => pc \in Freeing
    /\ pc \in Starting \cup {"create_hash"} => nr_mappings = 0
    /\ pc = "create_random" => nr_mappings = 1
    /\ pc \in Running \cup {"create_random"} => heap[0] = "live"

\* LWTs are made for loads that exist, and run on xstreams that do.
Ios ==
    /\ DOMAIN lwt = Cores
    /\ (\E l \in Loads : pool[l] # <<>>) => heap[0] # "none"
    /\ \A c \in Cores : lwt[c].step # "idle" => heap[0] = "live" /\ c \in xstreams

\* The inductive invariant.
Alive == Threads /\ Arrays /\ Ios

\* It gives NoDangling.
LEMMA AliveSuffices == Alive => NoDangling
  <1> SUFFICES ASSUME Alive, pc \notin {"init_rebalance", "undefined"} PROVE NoDangling
    BY Zenon DEF NoDangling
  <1>1. ASSUME reb = "run" \/ xstreams # {}
        PROVE  streams = "live" /\ \A m \in MappingIds : heap[m] # "freed"
    BY Zenon, <1>1 DEF Alive, Threads, Arrays, Starting, Freeing
  <1>2. ASSUME NEW c \in Cores, lwt[c].step # "idle"
        PROVE  heap[0] = "live" /\ params = "live" /\ c \in xstreams
    BY Zenon, <1>2 DEF Alive, Threads, Arrays, Ios, Freeing
  <1>3. QED
    BY Zenon, <1>1, <1>2 DEF NoDangling

\* At the beginning there is nothing.
LEMMA InitAlive == Init => Alive
  <1> SUFFICES ASSUME Init PROVE Alive
    BY Zenon
  <1>1. Threads /\ Arrays
    BY Zenon DEF Init, Threads, Arrays, Starting, Running, Freeing, MappingIds
  <1>2. Ios
    BY Zenon DEF Init, Ios, Idle
  <1>3. QED
    BY Zenon, <1>1, <1>2 DEF Alive

\* A step that starts nothing, ends nothing and frees nothing keeps the I/Os.
LEMMA IosKept ==
    ASSUME Ios, UNCHANGED <<pool, lwt, heap, xstreams>>
    PROVE  Ios'
  BY Zenon DEF Ios

\* abtst_init: streams and rebalancer are started one after the other.
LEMMA StartAlive ==
    ASSUME Alive, InitPartitions \/ InitStreams \/ InitRebalance
    PROVE  Alive'
  <1>1. CASE InitPartitions
    <2>1. Threads' /\ Arrays'
      BY Zenon, <1>1 DEF InitPartitions, Alive, Threads, Arrays, Starting, Running, Freeing,
         slotVars
    <2>2. QED
      BY Zenon, <1>1, <2>1, IosKept DEF InitPartitions, Alive, ioVars
  <1>2. CASE InitStreams
    <2>1. Threads' /\ Arrays'
      BY Zenon, <1>2 DEF InitStreams, Alive, Threads, Arrays, Starting, Running, Freeing,
         slotVars
    <2>2. \A c \in Cores : lwt[c].step = "idle"
      BY Zenon, <1>2 DEF InitStreams, Alive, Threads, Ios
    <2>3. Ios'
      BY Zenon, <1>2, <2>2 DEF InitStreams, Alive, Ios, ioVars
    <2>4. QED
      BY Zenon, <2>1, <2>3 DEF Alive
  <1>3. CASE InitRebalance
    <2>1. Threads' /\ Arrays'
      BY Zenon, <1>3 DEF InitRebalance, Alive, Threads, Arrays, Starting, Running, Freeing,
         slotVars
    <2>2. QED
      BY Zenon, <1>3, <2>1, IosKept DEF InitRebalance, Alive, ioVars
  <1>4. QED
    BY Zenon, <1>1, <1>2, <1>3

\* abtst_create_mapping makes the load array before anything can fail.
LEMMA CreateAlive == ASSUME Alive, CreateHash \/ CreateRandom PROVE Alive'
  <1>1. /\ \/ pc = "create_hash" /\ nr_mappings = 0 /\ pc' \in {"create_random", "exit1"}
           \/ pc = "create_random" /\ nr_mappings = 1 /\ pc' \in {"scan", "exit1"}
        /\ heap' = [heap EXCEPT ![nr_mappings] = "live"]
        /\ nr_mappings' = nr_mappings + 1
        /\ UNCHANGED <<streams, xstreams, reb, params, pool, lwt>>
    <2>1. CASE CreateHash
      BY Zenon, <2>1 DEF CreateHash, CreateMapping, Alive, Arrays, slotVars, ioVars
    <2>2. CASE CreateRandom
      BY Zenon, <2>2 DEF CreateRandom, CreateMapping, Alive, Arrays, slotVars, ioVars
    <2>3. QED
      BY Zenon, <2>1, <2>2
  <1>2. Threads'
    BY Zenon, <1>1 DEF Alive, Threads, Freeing
  <1>3. Arrays'
    BY <1>1 DEF Alive, Arrays, Starting, Running, Freeing, MappingIds
  <1>4. Ios'
    <2>1. heap'[0] = "live" \/ heap'[0] = heap[0]
      BY Zenon, <1>1 DEF Alive, Arrays, MappingIds
    <2>2. QED
      BY Zenon, <1>1, <2>1 DEF Alive, Ios
  <1>5. QED
    BY Zenon, <1>2, <1>3, <1>4 DEF Alive

\* The loop that fills the slots works on a live mapping.
LEMMA LoopAlive ==
    ASSUME Alive, SkipSlot \/ FillSlot \/ CreateThread \/ IncStarted
    PROVE  Alive'
  <1>1. /\ pc \in Running /\ pc' \in Running \cup {"exit1"}
        /\ UNCHANGED <<streams, xstreams, reb, params, heap, nr_mappings, lwt>>
    BY Zenon DEF SkipSlot, FillSlot, CreateThread, IncStarted, NextSlot, Running, sysVars,
       slotVars, ioVars
  <1>2. Threads' /\ Arrays'
    BY Zenon, <1>1 DEF Alive, Threads, Arrays, Starting, Running, Freeing
  <1>3. Ios'
    BY Zenon, <1>1 DEF Alive, Arrays, Ios, Running
  <1>4. QED
    BY Zenon, <1>2, <1>3 DEF Alive

\* The shutdown stops the threads before it frees what they use.
LEMMA ShutdownAlive ==
    ASSUME Alive, Shutdown
    PROVE  Alive'
  <1>1. CASE SetStopping \/ JoinRebalance \/ FinalizeStreams
    <2>1. /\ \/ pc = "exit1" /\ pc' = "join_rebalance"
             \/ pc = "join_rebalance" /\ reb = "ended" /\ pc' = "join_streams"
             \/ pc = "join_streams" /\ xstreams = {} /\ pc' = "free_mappings"
          /\ UNCHANGED <<streams, xstreams, reb, params, heap, nr_mappings, pool, lwt>>
      BY Zenon, <1>1 DEF SetStopping, JoinRebalance, FinalizeStreams, sysVars, slotVars, ioVars
    <2>2. Threads' /\ Arrays'
      BY Zenon, <2>1 DEF Alive, Threads, Arrays, Starting, Running, Freeing
    <2>3. QED
      BY Zenon, <2>1, <2>2, IosKept DEF Alive
  <1>2. CASE FreeMappings \/ FreeStreams \/ FreeParams
    <2>1. /\ \/ /\ pc = "free_mappings" /\ pc' = "free_streams"
                /\ UNCHANGED <<streams, params>>
             \/ /\ pc = "free_streams" /\ pc' = "free_params"
                /\ UNCHANGED params
             \/ pc = "free_params" /\ pc' = "done"
          /\ UNCHANGED <<xstreams, reb, pool, lwt>>
      BY Zenon, <1>2 DEF FreeMappings, FreeStreams, FreeParams, sysVars, slotVars, ioVars
    <2>2. /\ heap' \in [MappingIds -> {"none", "live", "freed"}]
          /\ \A m \in MappingIds : heap'[m] = heap[m] \/ heap'[m] = "freed"
      BY Zenon, <1>2 DEF FreeMappings, FreeStreams, FreeParams, sysVars, Alive, Arrays
    <2>3. Threads' /\ Arrays'
      BY Zenon, <2>1, <2>2 DEF Alive, Threads, Arrays, Starting, Running, Freeing
    <2>4. \A c \in Cores : lwt[c].step = "idle"
      BY Zenon, <2>1 DEF Alive, Threads, Ios, Freeing
    <2>5. Ios'
      BY Zenon, <2>1, <2>2, <2>4 DEF Alive, Ios, MappingIds
    <2>6. QED
      BY Zenon, <2>3, <2>5 DEF Alive
  <1>3. QED
    BY Zenon, <1>1, <1>2 DEF Shutdown

\* An LWT starts where a scheduler runs, and its xstream ends after it.
LEMMA ThreadsAlive ==
    ASSUME Alive, NEW c \in Cores,
           (\E l \in Loads : StartLwt(c, l)) \/ Lwt(c) \/ XstreamEnds(c)
    PROVE  Alive'
  <1>1. ASSUME NEW l \in Loads, StartLwt(c, l)
        PROVE  /\ UNCHANGED <<pc, streams, reb, params, heap, nr_mappings, xstreams>>
               /\ c \in xstreams /\ pool[l] # <<>>
               /\ \E r : lwt' = [lwt EXCEPT ![c] = r]
    BY <1>1, Zenon DEF StartLwt, sysVars, slotVars
  <1>2. /\ UNCHANGED <<pc, streams, reb, params, heap, nr_mappings>>
        /\ xstreams' \subseteq xstreams
    <2>1. CASE Lwt(c) \/ XstreamEnds(c)
      BY Zenon, <2>1 DEF Lwt, Release, ReadEnded, WriteEnded, XstreamEnds, sysVars, slotVars
    <2>2. QED
      BY Zenon, <1>1, <2>1
  <1>3. Threads' /\ Arrays'
    BY Zenon, <1>2 DEF Alive, Threads, Arrays
  <1>4. CASE \E l \in Loads : StartLwt(c, l)
    <2>1. PICK l \in Loads : StartLwt(c, l)
      BY Zenon, <1>4
    <2>2. c \in xstreams /\ heap[0] # "none" /\ UNCHANGED xstreams
      BY Zenon, <1>1, <2>1 DEF Alive, Ios
    <2>3. heap[0] = "live"
      BY Zenon, <2>2 DEF Alive, Threads, Arrays, MappingIds
    <2>4. DOMAIN lwt' = Cores /\ \A d \in Cores \ {c} : lwt'[d] = lwt[d]
      BY Zenon, <1>1, <2>1 DEF Alive, Ios
    <2>5. QED
      BY Zenon, <1>2, <1>3, <2>2, <2>3, <2>4 DEF Alive, Ios
  <1>5. CASE Lwt(c)
    <2>1. /\ lwt[c].step # "idle" /\ UNCHANGED <<pool, xstreams>>
          /\ DOMAIN lwt' = Cores /\ \A d \in Cores \ {c} : lwt'[d] = lwt[d]
      BY Zenon, <1>5 DEF Lwt, Release, ReadEnded, WriteEnded, Alive, Ios, sysVars
    <2>2. QED
      BY Zenon, <1>2, <1>3, <2>1 DEF Alive, Ios
  <1>6. CASE XstreamEnds(c)
    BY Zenon, <1>2, <1>3, <1>6 DEF XstreamEnds, Alive, Ios, ioVars
  <1>7. QED
    BY Zenon, <1>4, <1>5, <1>6

\* Every step keeps the invariant.
LEMMA AliveStep == Alive /\ [Next]_vars => Alive'
  <1> SUFFICES ASSUME Alive, [Next]_vars PROVE Alive'
    BY Zenon
  <1>1. CASE Main
    BY Zenon, <1>1, StartAlive, CreateAlive, LoopAlive, ShutdownAlive DEF Main
  <1>2. CASE RebalanceEnds
    <2>1. /\ reb = "run" /\ reb' = "ended"
          /\ UNCHANGED <<pc, streams, xstreams, params, heap, nr_mappings, pool, lwt>>
      BY Zenon, <1>2 DEF RebalanceEnds, slotVars, ioVars
    <2>2. Threads' /\ Arrays'
      BY Zenon, <2>1 DEF Alive, Threads, Arrays
    <2>3. QED
      BY Zenon, <2>1, <2>2, IosKept DEF Alive
  <1>3. ASSUME NEW c \in Cores,
               (\E l \in Loads : StartLwt(c, l)) \/ Lwt(c) \/ XstreamEnds(c)
        PROVE  Alive'
    BY Zenon, <1>3, ThreadsAlive
  <1>4. CASE UNCHANGED vars
    <2>1. UNCHANGED <<pc, streams, xstreams, reb, params, heap, nr_mappings, pool, lwt>>
      BY Zenon, <1>4 DEF vars, sysVars, slotVars, ioVars
    <2>2. Threads' /\ Arrays'
      BY Zenon, <2>1 DEF Alive, Threads, Arrays
    <2>3. QED
      BY Zenon, <2>1, <2>2, IosKept DEF Alive
  <1>5. QED
    BY Zenon, <1>1, <1>2, <1>3, <1>4 DEF Next

\* abt_st.c:77-99, main.c:143-169: from every exit of main(), and whenever the
\* schedulers and the rebalancer take their steps, no thread runs without the
\* memory it works on.
THEOREM NothingDangles == Spec => []NoDangling
  <1>1. Spec => []Alive
    BY InitAlive, AliveStep, PTL DEF Spec
  <1>2. QED
    BY <1>1, AliveSuffices, PTL

-----------------------------------------------------------------------------
(* Slots. *)

\* The types that the argument needs.
SlotTypes ==
    /\ i \in Slots
    /\ used \in [Slots -> BOOLEAN]
    /\ DOMAIN load = Slots
    /\ pool \in [Loads -> Seq(Slots)]
    /\ DOMAIN lwt = Cores
    /\ \A c \in Working : lwt[c].slot \in Slots

\* Between marking a slot and creating its LWT main() has it for itself.
OwnSlot ==
    pc = "create" =>
      /\ used[i]
      /\ \A l \in Loads : \A k \in 1 .. Len(pool[l]) : pool[l][k] # i
      /\ \A c \in Working : lwt[c].slot # i

\* The inductive invariant.
Owned == SlotTypes /\ OwnSlot /\ SlotOwned

LEMMA InitOwned == Init => Owned
  <1> SUFFICES ASSUME Init PROVE Owned
    BY Zenon
  <1>1. Working = {}
    BY Zenon DEF Init, Working, Idle
  <1>2. \A l \in Loads : pool[l] = <<>>
    BY Zenon DEF Init
  <1>3. SlotTypes
    BY <1>1, AppAssumption DEF Init, SlotTypes, Slots
  <1>4. OwnSlot
    BY Zenon DEF Init, OwnSlot
  <1>5. SlotOwned
    BY <1>1, <1>2 DEF SlotOwned
  <1>6. QED
    BY Zenon, <1>3, <1>4, <1>5 DEF Owned

\* Most steps touch no slot, and leave no LWT to be created.
LEMMA OwnedKept ==
    ASSUME Owned, i' \in Slots, pc' # "create" \/ UNCHANGED <<pc, i>>,
           UNCHANGED <<used, load, pool, lwt>>
    PROVE  Owned'
  <1>1. Working' = Working
    BY Zenon DEF Working
  <1>2. SlotTypes'
    BY Zenon, <1>1 DEF Owned, SlotTypes
  <1>3. OwnSlot'
    BY Zenon, <1>1 DEF Owned, OwnSlot
  <1>4. SlotOwned'
    BY <1>1 DEF Owned, SlotOwned
  <1>5. QED
    BY Zenon, <1>2, <1>3, <1>4 DEF Owned

\* A free slot has no LWT, so it can be filled.
LEMMA FillOwned == ASSUME Owned, FillSlot PROVE Owned'
  <1>1. /\ ~used[i] /\ i \in Slots
        /\ used' = [used EXCEPT ![i] = TRUE]
        /\ \E v : load' = [load EXCEPT ![i] = v]
        /\ UNCHANGED <<i, pool, lwt>>
    BY Zenon DEF FillSlot, Owned, SlotTypes
  <1>2. Working' = Working
    BY Zenon, <1>1 DEF Working
  <1>3. /\ \A l \in Loads : \A k \in 1 .. Len(pool[l]) : pool[l][k] # i
        /\ \A c \in Working : lwt[c].slot # i
    BY <1>1 DEF Owned, SlotOwned
  <1>4. SlotTypes'
    BY Zenon, <1>1, <1>2 DEF Owned, SlotTypes
  <1>5. OwnSlot'
    BY Zenon, <1>1, <1>2, <1>3 DEF Owned, SlotTypes, OwnSlot
  <1>6. \A s \in Slots \ {i} : used'[s] = used[s] /\ load'[s] = load[s]
    BY Zenon, <1>1 DEF Owned, SlotTypes
  <1>7. \A l \in Loads : \A k \in 1 .. Len(pool[l]) : pool[l][k] \in Slots
    BY DEF Owned, SlotTypes
  <1>8. SlotOwned'
    BY <1>1, <1>2, <1>3, <1>6, <1>7, SMTT(30) DEF Owned, SlotTypes, SlotOwned
  <1>9. QED
    BY Zenon, <1>4, <1>5, <1>8 DEF Owned

\* The LWT that is created is the only one of its slot.
LEMMA CreateOwned == ASSUME Owned, CreateThread PROVE Owned'
  <1>1. /\ pc = "create" /\ pc' # "create" /\ UNCHANGED <<i, used, load, lwt>>
        /\ pool' = [pool EXCEPT ![load[i]] = Append(@, i)] \/ UNCHANGED pool
    BY Zenon DEF CreateThread, slotVars
  <1>2. CASE UNCHANGED pool \/ load[i] \notin Loads
    <2>1. UNCHANGED pool
      BY Zenon, <1>1, <1>2 DEF Owned, SlotTypes
    <2>2. QED
      BY Zenon, <1>1, <2>1, OwnedKept DEF Owned, SlotTypes
  <1>3. CASE load[i] \in Loads /\ pool' = [pool EXCEPT ![load[i]] = Append(@, i)]
    <2> DEFINE m == load[i]
    <2>1. Working' = Working
      BY Zenon, <1>1 DEF Working
    <2>2. i \in Slots /\ pool \in [Loads -> Seq(Slots)]
      BY Zenon DEF Owned, SlotTypes
    <2>3. /\ pool' \in [Loads -> Seq(Slots)]
          /\ \A l \in Loads \ {m} : pool'[l] = pool[l]
          /\ Len(pool'[m]) = Len(pool[m]) + 1 /\ Len(pool[m]) \in Nat
          /\ pool'[m][Len(pool[m]) + 1] = i
          /\ \A k \in 1 .. Len(pool[m]) : pool'[m][k] = pool[m][k]
      BY <1>3, <2>2
    <2>4. SlotTypes' /\ OwnSlot'
      BY Zenon, <1>1, <2>1, <2>3 DEF Owned, SlotTypes, OwnSlot
    <2>5. ASSUME NEW l \in Loads, NEW k \in 1 .. Len(pool'[l])
          PROVE  \/ k \in 1 .. Len(pool[l]) /\ pool'[l][k] = pool[l][k]
                 \/ l = m /\ k = Len(pool[m]) + 1 /\ pool'[l][k] = i
      BY <2>3
    <2>6. /\ used[i]
          /\ \A l \in Loads : \A k \in 1 .. Len(pool[l]) : pool[l][k] # i
          /\ \A c \in Working : lwt[c].slot # i
      BY Zenon, <1>1 DEF Owned, OwnSlot
    <2>7. SlotOwned'
      BY <1>1, <2>1, <2>5, <2>6 DEF Owned, SlotOwned
    <2>8. QED
      BY Zenon, <2>4, <2>7 DEF Owned
  <1>4. QED
    BY Zenon, <1>1, <1>2, <1>3

\* An LWT that starts takes its slot with it from the pool.
LEMMA StartOwned ==
    ASSUME Owned, NEW c \in Cores, NEW l \in Loads, StartLwt(c, l)
    PROVE  Owned'
  <1>1. /\ lwt[c].step = "idle" /\ pool[l] # <<>>
        /\ pool \in [Loads -> Seq(Slots)] /\ DOMAIN lwt = Cores
        /\ pool' = [pool EXCEPT ![l] = Tail(@)]
        /\ lwt' = [lwt EXCEPT ![c] = [step |-> "work", slot |-> Head(pool[l]),
                                      load |-> l, ptr |-> None, val |-> 0]]
        /\ UNCHANGED <<pc, i, used, load>>
    BY Zenon DEF StartLwt, slotVars, Owned, SlotTypes
  <1>owned. \A m \in Loads : \A a \in 1 .. Len(pool[m]) :
              /\ used[pool[m][a]] /\ load[pool[m][a]] = m
              /\ \A b \in 1 .. Len(pool[m]) : pool[m][b] = pool[m][a] => b = a
              /\ \A d \in Working : pool[m][a] # lwt[d].slot
    BY Zenon DEF Owned, SlotOwned
  <1>2. /\ pool' \in [Loads -> Seq(Slots)]
        /\ \A m \in Loads \ {l} : pool'[m] = pool[m]
        /\ Len(pool[l]) \in Nat \ {0} /\ Len(pool'[l]) = Len(pool[l]) - 1
        /\ \A k \in 1 .. Len(pool'[l]) : pool'[l][k] = pool[l][k + 1]
        /\ Head(pool[l]) = pool[l][1] /\ Head(pool[l]) \in Slots
    BY <1>1
  <1>3. /\ DOMAIN lwt' = Cores
        /\ lwt'[c].step = "work" /\ lwt'[c].slot = pool[l][1] /\ lwt'[c].load = l
        /\ \A d \in Cores \ {c} : lwt'[d] = lwt[d]
    BY Zenon, <1>1, <1>2
  <1>4. Working' = Working \cup {c} /\ c \notin Working
    BY <1>1, <1>3 DEF Working
  <1>5. ASSUME NEW m \in Loads, NEW k \in 1 .. Len(pool'[m])
        PROVE  \E j \in 1 .. Len(pool[m]) :
                 /\ pool'[m][k] = pool[m][j]
                 /\ m = l => j = k + 1
                 /\ m # l => j = k
    <2>1. CASE m = l
      <3>1. k + 1 \in 1 .. Len(pool[l]) /\ pool'[l][k] = pool[l][k + 1]
        BY <1>2, <2>1
      <3>2. QED
        BY Zenon, <2>1, <3>1
    <2>2. CASE m # l
      BY Zenon, <1>2, <2>2
    <2>3. QED
      BY Zenon, <2>1, <2>2
  <1>6. SlotTypes'
    BY Zenon, <1>1, <1>2, <1>3, <1>4 DEF Owned, SlotTypes, Working
  <1>7. OwnSlot'
    BY <1>1, <1>2, <1>3, <1>4, <1>5 DEF Owned, OwnSlot, Working
  <1>8. SlotOwned'
    <2>1. ASSUME NEW m \in Loads, NEW k \in 1 .. Len(pool'[m])
          PROVE  /\ used[pool'[m][k]] /\ load[pool'[m][k]] = m
                 /\ pool'[m][k] # pool[l][1]
                 /\ \A d \in Working : pool'[m][k] # lwt[d].slot
      <3>1. PICK a \in 1 .. Len(pool[m]) : /\ pool'[m][k] = pool[m][a]
                                           /\ m = l => a = k + 1
        BY Zenon, <1>5
      <3>2. /\ used[pool[m][a]] /\ load[pool[m][a]] = m
            /\ \A d \in Working : pool[m][a] # lwt[d].slot
            /\ \A b \in 1 .. Len(pool[m]) : pool[m][b] = pool[m][a] => b = a
        BY <1>owned
      <3>3. 1 \in 1 .. Len(pool[l])
        BY <1>2
      <3>4. load[pool[l][1]] = l
        BY Zenon, <1>owned, <3>3
      <3>5. m = l => a # 1
        BY <3>1
      <3>6. QED
        BY Zenon, <3>1, <3>2, <3>3, <3>4, <3>5
    <2>2. ASSUME NEW m \in Loads, NEW k \in 1 .. Len(pool'[m]),
                 NEW j \in 1 .. Len(pool'[m]), pool'[m][j] = pool'[m][k]
          PROVE  j = k
      <3>1. PICK a \in 1 .. Len(pool[m]) : /\ pool'[m][k] = pool[m][a]
                                           /\ m = l => a = k + 1
                                           /\ m # l => a = k
        BY Zenon, <1>5
      <3>2. PICK b \in 1 .. Len(pool[m]) : /\ pool'[m][j] = pool[m][b]
                                           /\ m = l => b = j + 1
                                           /\ m # l => b = j
        BY Zenon, <1>5
      <3>3. pool[m][b] = pool[m][a]
        BY Zenon, <2>2, <3>1, <3>2
      <3>4. b = a
        BY Zenon, <1>owned, <3>3
      <3>5. QED
        BY <3>1, <3>2, <3>4
    <2>3. /\ used[pool[l][1]] /\ load[pool[l][1]] = l
          /\ \A d \in Working : lwt[d].slot # pool[l][1]
      BY <1>2 DEF Owned, SlotOwned
    <2>4. ASSUME NEW d \in Working'
          PROVE  /\ used[lwt'[d].slot] /\ load[lwt'[d].slot] = lwt'[d].load
                 /\ \A m \in Loads : \A k \in 1 .. Len(pool'[m]) :
                      pool'[m][k] # lwt'[d].slot
                 /\ \A e \in Working' : lwt'[e].slot = lwt'[d].slot => e = d
      BY <1>3, <1>4, <2>1, <2>3 DEF Owned, SlotOwned, Working
    <2>5. UNCHANGED <<used, load>>
      BY Zenon, <1>1
    <2>6. QED
      BY <2>1, <2>2, <2>4, <2>5, ZenonT(40) DEF SlotOwned
  <1>9. QED
    BY Zenon, <1>6, <1>7, <1>8 DEF Owned

\* The LWT that clears the flag is the only one that has the slot.
LEMMA LwtOwned == ASSUME Owned, NEW c \in Cores, Lwt(c) PROVE Owned'
  <1>1. /\ lwt[c].step # "idle" /\ lwt'[c].step # "work" /\ DOMAIN lwt' = Cores
        /\ \A d \in Cores \ {c} : lwt'[d] = lwt[d]
        /\ UNCHANGED <<pc, i, load, pool>>
    BY DEF Lwt, Release, ReadEnded, WriteEnded, slotVars, Owned, SlotTypes, Idle
  <1>2. Working' = Working \ {c} /\ \A d \in Working' : lwt'[d] = lwt[d]
    BY Zenon, <1>1 DEF Working
  <1>3. \/ UNCHANGED used
        \/ /\ c \in Working /\ lwt[c].slot \in Slots
           /\ used' = [used EXCEPT ![lwt[c].slot] = FALSE]
    BY Zenon DEF Lwt, Release, ReadEnded, WriteEnded, slotVars, Owned, SlotTypes, Working
  <1>4. SlotTypes'
    BY <1>1, <1>2, <1>3, ZenonT(40) DEF Owned, SlotTypes
  <1>5. OwnSlot'
    BY Zenon, <1>1, <1>2, <1>3 DEF Owned, SlotTypes, OwnSlot
  <1>6. SlotOwned'
    BY <1>1, <1>2, <1>3 DEF Owned, SlotTypes, SlotOwned
  <1>7. QED
    BY Zenon, <1>4, <1>5, <1>6 DEF Owned

LEMMA OwnedStep == Owned /\ [Next]_vars => Owned'
  <1> SUFFICES ASSUME Owned, [Next]_vars PROVE Owned'
    BY Zenon
  <1>1. i \in Slots /\ (i + 1) % NrSlots \in Slots /\ 0 \in Slots
    BY AppAssumption DEF Owned, SlotTypes, Slots
  <1>2. CASE InitPartitions \/ InitStreams \/ InitRebalance \/ CreateHash \/ CreateRandom
    <2>1. pc' # "create" /\ UNCHANGED <<i, used, load, pool, lwt>>
      BY Zenon, <1>2 DEF InitPartitions, InitStreams, InitRebalance, CreateHash, CreateRandom,
         CreateMapping, slotVars, ioVars
    <2>2. QED
      BY Zenon, <1>1, <2>1, OwnedKept
  <1>3. CASE SkipSlot \/ IncStarted \/ Shutdown
    <2>1. pc' # "create" /\ i' \in Slots /\ UNCHANGED <<used, load, pool, lwt>>
      BY Zenon, <1>1, <1>3 DEF SkipSlot, IncStarted, NextSlot, Shutdown, SetStopping,
         JoinRebalance, FinalizeStreams, FreeMappings, FreeStreams, FreeParams,
         slotVars, ioVars
    <2>2. QED
      BY Zenon, <2>1, OwnedKept
  <1>4. CASE RebalanceEnds \/ (\E c \in Cores : XstreamEnds(c)) \/ UNCHANGED vars
    <2>1. UNCHANGED <<pc, i, used, load, pool, lwt>>
      BY Zenon, <1>4 DEF RebalanceEnds, XstreamEnds, vars, slotVars, ioVars
    <2>2. QED
      BY Zenon, <1>1, <2>1, OwnedKept
  <1>5. CASE FillSlot \/ CreateThread
    BY Zenon, <1>5, FillOwned, CreateOwned
  <1>6. CASE \E c \in Cores : Lwt(c) \/ \E l \in Loads : StartLwt(c, l)
    BY Zenon, <1>6, StartOwned, LwtOwned
  <1>7. QED
    BY Zenon, <1>2, <1>3, <1>4, <1>5, <1>6 DEF Next, Main

\* main.c:106-129, st.c:47: for any number of slots, loads and cores, and
\* wherever the schedulers start the LWTs, an I/O that has not cleared its flag
\* is the only one on its slot, and the slot still names its load.
THEOREM SlotsAreOwned == Spec => []SlotOwned
  <1>1. Spec => []Owned
    BY InitOwned, OwnedStep, PTL DEF Spec
  <1>2. Owned => SlotOwned
    BY Zenon DEF Owned
  <1>3. QED
    BY <1>1, <1>2, PTL

-----------------------------------------------------------------------------
(* Counters. *)

\* A remainder is determined by what it is congruent to.
LEMMA ModUnique ==
    ASSUME NEW w \in Nat \ {0}, NEW k \in Int, NEW r \in 0 .. w - 1
    PROVE  (w * k + r) % w = r
  <1> DEFINE x == w * k + r
             t == x \div w
             s == x % w
  <1>1. x \in Int
    OBVIOUS
  <1>2. t \in Int /\ s \in 0 .. w - 1 /\ x = w * t + s
    <2> HIDE DEF x
    <2> QED
      BY <1>1
  <1>3. w * (k - t) = s - r
    BY <1>2
  <1>4. k - t \in Int /\ -w < w * (k - t) /\ w * (k - t) < w
    BY <1>2, <1>3
  <1>5. k - t = 0
    BY <1>4
  <1> QED
    BY <1>2, <1>3, <1>5

\* What a counter has wrapped around before makes no difference.
LEMMA ModAdd ==
    ASSUME NEW w \in Nat \ {0}, NEW a \in Nat, NEW b \in Nat
    PROVE  ((a % w) + b) % w = (a + b) % w
  <1> DEFINE y == (a % w) + b
  <1>1. a \div w \in Int /\ a % w \in 0 .. w - 1 /\ a = w * (a \div w) + (a % w)
    OBVIOUS
  <1>2. y \in Int
    BY <1>1
  <1>3. y \div w \in Int /\ y % w \in 0 .. w - 1 /\ y = w * (y \div w) + (y % w)
    <2> HIDE DEF y
    <2> QED
      BY <1>2
  <1>4. a + b = w * ((a \div w) + (y \div w)) + (y % w)
    BY <1>1, <1>3
  <1>5. (a \div w) + (y \div w) \in Int
    BY <1>1, <1>3
  <1> QED
    BY Zenon, <1>3, <1>4, <1>5, ModUnique

\* A counter that is incremented before it wraps around, or after.
LEMMA ModSucc ==
    ASSUME NEW w \in Nat \ {0}, NEW a \in Nat, NEW b \in Nat, a % w = b % w
    PROVE  (a + 1) % w = (b + 1) % w
  <1>1. 1 \in Nat
    OBVIOUS
  <1>2. ((a % w) + 1) % w = (a + 1) % w
    BY Zenon, <1>1, ModAdd
  <1>3. ((b % w) + 1) % w = (b + 1) % w
    BY Zenon, <1>1, ModAdd
  <1> QED
    BY Zenon, <1>2, <1>3

\* The counters, and the load an LWT belongs to.
CountTypes ==
    /\ pkt_started \in [Loads -> 0 .. Word - 1]
    /\ pkt_ended \in [Loads -> 0 .. Word - 1]
    /\ \A c \in Cores :
         /\ lwt[c].step \in {"idle", "work", "released", "counting"}
         /\ lwt[c].step # "idle" => lwt[c].load \in Loads
         /\ lwt[c].step = "counting" /\ lwt[c].ptr \in Loads
              => lwt[c].val \in 0 .. Word - 1

\* LoadOwnership: a load has one LWT under way.
OneRuns ==
    \A c, d \in Cores :
        lwt[c].step # "idle" /\ lwt[d].step # "idle" /\ lwt[c].load = lwt[d].load
          => c = d

\* As long as no slot was refilled early, what an LWT reads after it cleared
\* its flag is what it was started with.
SameLoad ==
    ~refilled =>
      \A c \in Cores :
        /\ lwt[c].step = "released" => /\ lwt[c].slot \in Slots
                                       /\ load[lwt[c].slot] = lwt[c].load
        /\ lwt[c].step = "counting" => /\ lwt[c].ptr = lwt[c].load
                                       /\ lwt[c].val = pkt_ended[lwt[c].load]

\* The inductive invariant.
Counted == CountTypes /\ OneRuns /\ SameLoad /\ CountsExact

\* LoadOwnership: the number of LWTs of a load that have started is 0 or 1.
LEMMA ExecutingCount ==
    ASSUME OneRuns, NEW l
    PROVE  Cardinality(Executing(l)) \in {0, 1}
  <1>1. CASE Executing(l) = {}
    BY Zenon, <1>1, FS_EmptySet
  <1>2. CASE Executing(l) # {}
    <2>1. PICK c : Executing(l) = {c}
      BY Zenon, <1>2 DEF Executing, OneRuns
    <2> QED
      BY Zenon, <2>1, FS_Singleton
  <1> QED
    BY Zenon, <1>1, <1>2

\* What CountsExact says of a load.
Agree(l) ==
    (pkt_started[l] + IF pc = "count" /\ load[i] = l THEN 1 ELSE 0) % Word
      = (pkt_ended[l] + Len(pool[l]) + Cardinality(Executing(l))) % Word

\* The numbers in it.
LEMMA CountNumbers ==
    ASSUME Owned, CountTypes, OneRuns, NEW l \in Loads
    PROVE  /\ pkt_started[l] \in Nat /\ pkt_ended[l] \in Nat /\ Word \in Nat \ {0}
           /\ Len(pool[l]) \in Nat /\ Cardinality(Executing(l)) \in Nat
  <1>1. /\ pkt_started[l] \in Nat /\ pkt_ended[l] \in Nat /\ Word \in Nat \ {0}
        /\ Len(pool[l]) \in Nat
    BY AppAssumption DEF Owned, SlotTypes, CountTypes
  <1>2. Cardinality(Executing(l)) \in Nat
    BY ExecutingCount
  <1> QED
    BY Zenon, <1>1, <1>2

\* It holds before the first LWT.
LEMMA InitCounted == Init => Counted
  <1> SUFFICES ASSUME Init PROVE Counted
    BY Zenon
  <1>1. /\ pkt_started = [l \in Loads |-> 0] /\ pkt_ended = [l \in Loads |-> 0]
        /\ \A c \in Cores : lwt[c].step = "idle"
        /\ \A l \in Loads : pool[l] = <<>>
        /\ pc = "init_partitions"
    BY Zenon DEF Init, Idle
  <1>2. 0 \in 0 .. Word - 1
    BY AppAssumption
  <1>3. CountTypes /\ OneRuns
    BY Zenon, <1>1, <1>2 DEF CountTypes, OneRuns
  <1>4. SameLoad
    BY Zenon, <1>1 DEF SameLoad
  <1>5. ASSUME NEW l \in Loads
        PROVE  /\ pkt_started[l] = 0 /\ pkt_ended[l] = 0
               /\ Len(pool[l]) = 0 /\ Cardinality(Executing(l)) = 0
    <2>1. Executing(l) = {}
      BY Zenon, <1>1 DEF Executing
    <2> QED
      BY <1>1, <2>1, FS_EmptySet
  <1>6. CountsExact
    BY <1>1, <1>5 DEF CountsExact
  <1> QED
    BY Zenon, <1>3, <1>4, <1>6 DEF Counted

\* Most steps touch no counter and no LWT.
LEMMA CountedKept ==
    ASSUME Counted, UNCHANGED <<pool, lwt, pkt_started, pkt_ended, refilled, load>>,
           (pc # "count" /\ pc' # "count") \/ UNCHANGED <<pc, i>>
    PROVE  Counted'
  <1>1. CountTypes' /\ OneRuns' /\ SameLoad'
    BY Zenon DEF Counted, CountTypes, OneRuns, SameLoad
  <1>2. CountsExact'
    BY Zenon DEF Counted, CountsExact, Executing
  <1> QED
    BY Zenon, <1>1, <1>2 DEF Counted

\* A slot that is filled while no released LWT has it, or with the same load.
LEMMA FillCounted == ASSUME Owned, Counted, FillSlot PROVE Counted'
  <1>1. /\ pc = "scan" /\ pc' = "create" /\ i \in Slots /\ DOMAIN load = Slots
        /\ UNCHANGED <<i, pool, lwt, pkt_started, pkt_ended>>
        /\ \E v : load' = [load EXCEPT ![i] = v]
        /\ refilled' = (refilled \/ \E c \in Cores : /\ lwt[c].step = "released"
                                                     /\ lwt[c].slot = i
                                                     /\ lwt[c].load # load'[i])
    BY Zenon DEF FillSlot, Owned, SlotTypes
  <1>2. CountTypes' /\ OneRuns'
    BY Zenon, <1>1 DEF Counted, CountTypes, OneRuns
  <1>3. \A s \in Slots \ {i} : load'[s] = load[s]
    BY Zenon, <1>1
  <1>4. SameLoad'
    BY Zenon, <1>1, <1>3 DEF Counted, SameLoad
  <1>5. CountsExact'
    BY Zenon, <1>1 DEF Counted, CountsExact, Executing
  <1> QED
    BY Zenon, <1>2, <1>4, <1>5 DEF Counted

\* ABT_thread_create: the LWT is under way before main() counts it.
LEMMA CreateCounted == ASSUME Owned, Counted, CreateThread PROVE Counted'
  <1>1. /\ pc = "create" /\ UNCHANGED <<i, load, lwt, pkt_started, pkt_ended, refilled>>
        /\ \/ pc' = "count" /\ pool' = [pool EXCEPT ![load[i]] = Append(@, i)]
           \/ pc' = "exit1" /\ UNCHANGED pool
        /\ i \in Slots /\ pool \in [Loads -> Seq(Slots)]
    BY Zenon DEF CreateThread, slotVars, Owned, SlotTypes
  <1>2. CASE pc' = "exit1" /\ UNCHANGED pool
    BY Zenon, <1>1, <1>2, CountedKept
  <1>3. CASE pc' = "count" /\ pool' = [pool EXCEPT ![load[i]] = Append(@, i)]
    <2>1. CountTypes' /\ OneRuns' /\ SameLoad'
      BY Zenon, <1>1 DEF Counted, CountTypes, OneRuns, SameLoad
    <2>2. ASSUME ~refilled', NEW l \in Loads PROVE Agree(l)'
      <3>1. /\ pkt_started[l] \in Nat /\ pkt_ended[l] \in Nat /\ Word \in Nat \ {0}
            /\ Len(pool[l]) \in Nat /\ Cardinality(Executing(l)) \in Nat
        BY Zenon, CountNumbers DEF Counted
      <3>3. (pkt_started[l] + 0) % Word
              = (pkt_ended[l] + Len(pool[l]) + Cardinality(Executing(l))) % Word
        BY Zenon, <1>1, <2>2 DEF Counted, CountsExact
      <3>4. Executing(l)' = Executing(l)
        BY Zenon, <1>1 DEF Executing
      <3>5. CASE load[i] = l
        <4>1. Len(pool'[l]) = Len(pool[l]) + 1
          BY <1>1, <1>3, <3>5
        <4>2. pkt_started[l] + 0 \in Nat
               /\ pkt_ended[l] + Len(pool[l]) + Cardinality(Executing(l)) \in Nat
          BY <3>1
        <4>3. (pkt_started[l] + 0 + 1) % Word
                = (pkt_ended[l] + Len(pool[l]) + Cardinality(Executing(l)) + 1) % Word
          BY Zenon, <3>1, <3>3, <4>2, ModSucc
        <4>4. /\ pkt_ended[l] + Len(pool[l]) + Cardinality(Executing(l)) + 1
                   = pkt_ended[l] + (Len(pool[l]) + 1) + Cardinality(Executing(l))
              /\ pkt_started[l] + 0 + 1 = pkt_started[l] + 1
          <5>1. \A a, b, c \in Nat : a + b + c + 1 = a + (b + 1) + c
            OBVIOUS
          <5>2. \A a \in Nat : a + 0 + 1 = a + 1
            OBVIOUS
          <5> QED
            BY Zenon, <3>1, <5>1, <5>2
        <4> QED
          BY Zenon, <1>1, <1>3, <3>4, <3>5, <4>1, <4>3, <4>4 DEF Agree
      <3>6. CASE load[i] # l
        <4>1. pool'[l] = pool[l]
          BY Zenon, <1>1, <1>3, <3>6
        <4> QED
          BY Zenon, <1>1, <3>3, <3>4, <3>6, <4>1 DEF Agree
      <3> QED
        BY Zenon, <3>5, <3>6
    <2>3. CountsExact'
      BY Zenon, <2>2 DEF CountsExact, Agree
    <2> QED
      BY Zenon, <2>1, <2>3 DEF Counted
  <1> QED
    BY Zenon, <1>1, <1>2, <1>3

\* abtst_load_inc_started: main() counts the LWT it has created.
LEMMA IncCounted == ASSUME Owned, Counted, IncStarted PROVE Counted'
  <1>1. /\ pc = "count" /\ pc' # "count"
        /\ pkt_started' = [pkt_started EXCEPT ![load[i]] = (@ + 1) % Word]
        /\ UNCHANGED <<load, pool, lwt, pkt_ended, refilled>>
    BY Zenon DEF IncStarted, NextSlot
  <1>2. CountTypes'
    <2>1. \A l \in Loads : (pkt_started[l] + 1) % Word \in 0 .. Word - 1
      BY AppAssumption DEF Counted, CountTypes
    <2> QED
      BY Zenon, <1>1, <2>1 DEF Counted, CountTypes
  <1>3. OneRuns' /\ SameLoad'
    BY Zenon, <1>1 DEF Counted, OneRuns, SameLoad
  <1>4. ASSUME ~refilled', NEW l \in Loads PROVE Agree(l)'
    <2>1. Agree(l)
      BY Zenon, <1>1, <1>4 DEF Counted, CountsExact, Agree
    <2>2. pkt_started[l] \in Nat /\ Word \in Nat \ {0}
      BY Zenon, CountNumbers DEF Counted
    <2>3. Executing(l)' = Executing(l)
      BY Zenon, <1>1 DEF Executing
    <2>4. pkt_started'[l] = IF load[i] = l THEN (pkt_started[l] + 1) % Word
                            ELSE pkt_started[l]
      BY Zenon, <1>1 DEF Counted, CountTypes
    <2>5. (((pkt_started[l] + 1) % Word) + 0) % Word = (pkt_started[l] + 1) % Word
      <3>1. pkt_started[l] + 1 \in Nat /\ 0 \in Nat
        BY <2>2
      <3>2. (((pkt_started[l] + 1) % Word) + 0) % Word = (pkt_started[l] + 1 + 0) % Word
        BY Zenon, <2>2, <3>1, ModAdd
      <3>3. pkt_started[l] + 1 + 0 = pkt_started[l] + 1
        BY <2>2
      <3> QED
        BY Zenon, <3>2, <3>3
    <2> QED
      BY Zenon, <1>1, <2>1, <2>3, <2>4, <2>5 DEF Agree
  <1>5. CountsExact'
    BY Zenon, <1>4 DEF CountsExact, Agree
  <1> QED
    BY Zenon, <1>2, <1>3, <1>5 DEF Counted

\* An LWT that starts leaves the pool of its load, which has no other running.
LEMMA StartCounted ==
    ASSUME Owned, Counted, NEW c \in Cores, NEW l \in Loads, StartLwt(c, l)
    PROVE  Counted'
  <1>1. /\ lwt[c].step = "idle" /\ Executing(l) = {} /\ pool[l] # <<>>
        /\ lwt' = [lwt EXCEPT ![c] = [step |-> "work", slot |-> Head(pool[l]),
                                      load |-> l, ptr |-> None, val |-> 0]]
        /\ pool' = [pool EXCEPT ![l] = Tail(@)]
        /\ UNCHANGED <<pc, i, load, pkt_started, pkt_ended, refilled>>
        /\ DOMAIN lwt = Cores /\ pool \in [Loads -> Seq(Slots)]
    BY Zenon DEF StartLwt, slotVars, Owned, SlotTypes
  <1>2. /\ lwt'[c].step = "work" /\ lwt'[c].load = l
        /\ \A d \in Cores \ {c} : lwt'[d] = lwt[d]
    BY Zenon, <1>1
  <1>3. CountTypes' /\ SameLoad'
    BY Zenon, <1>1, <1>2 DEF Counted, CountTypes, SameLoad
  <1>4. \A d \in Cores : lwt[d].step # "idle" => lwt[d].load # l
    BY Zenon, <1>1 DEF Executing
  <1>5. OneRuns'
    BY <1>2, <1>4 DEF Counted, OneRuns
  <1>6. Executing(l)' = {c} /\ \A m \in Loads \ {l} : Executing(m)' = Executing(m)
    BY <1>1, <1>2, <1>4 DEF Executing
  <1>7. ASSUME ~refilled', NEW m \in Loads PROVE Agree(m)'
    <2>1. Agree(m)
      BY Zenon, <1>1, <1>7 DEF Counted, CountsExact, Agree
    <2>2. CASE m = l
      <3>1. Cardinality(Executing(l)) = 0 /\ Cardinality(Executing(l)') = 1
        BY Zenon, <1>1, <1>6, FS_EmptySet, FS_Singleton
      <3>2. pkt_ended[l] \in Nat
        BY Zenon, CountNumbers DEF Counted
      <3>3. Len(pool[l]) \in Nat /\ Len(pool'[l]) = Len(pool[l]) - 1
        BY <1>1
      <3>4. pkt_ended[l] + Len(pool[l]) + 0 = pkt_ended[l] + (Len(pool[l]) - 1) + 1
        BY <3>2, <3>3
      <3> QED
        BY Zenon, <1>1, <2>1, <2>2, <3>1, <3>3, <3>4 DEF Agree
    <2>3. CASE m # l
      BY Zenon, <1>1, <1>6, <2>1, <2>3 DEF Agree
    <2> QED
      BY Zenon, <2>2, <2>3
  <1>8. CountsExact'
    BY Zenon, <1>7 DEF CountsExact, Agree
  <1> QED
    BY Zenon, <1>3, <1>5, <1>8 DEF Counted

\* The flag is cleared and the count is read; the LWT is still under way.
LEMMA ReadCounted ==
    ASSUME Owned, Counted, NEW c \in Cores, Release(c) \/ ReadEnded(c)
    PROVE  Counted'
  <1>1. /\ UNCHANGED <<pc, i, load, pool, pkt_started, pkt_ended, refilled>>
        /\ DOMAIN lwt = Cores
    BY Zenon DEF Release, ReadEnded, slotVars, Owned, SlotTypes
  <1>2. /\ lwt[c].step # "idle" /\ lwt'[c].step \in {"released", "counting"}
        /\ lwt'[c].load = lwt[c].load
        /\ \A d \in Cores \ {c} : lwt'[d] = lwt[d]
    BY <1>1 DEF Release, ReadEnded
  <1>3. OneRuns'
    BY <1>1, <1>2 DEF Counted, OneRuns
  <1>count. CountTypes'
    <2>1. lwt'[c].step = "counting" => lwt'[c].val = pkt_ended[lwt'[c].ptr]
      BY <1>1 DEF Release, ReadEnded
    <2> QED
      BY Zenon, <1>1, <1>2, <2>1 DEF Counted, CountTypes
  <1>4. SameLoad'
    <2> SUFFICES ASSUME ~refilled' PROVE SameLoad'
      BY Zenon DEF SameLoad
    <2>1. CASE Release(c)
      <3>1. lwt[c].step = "work" /\ lwt'[c].step = "released" /\ lwt'[c].slot = lwt[c].slot
        BY Zenon, <1>1, <2>1 DEF Release
      <3>2. lwt[c].slot \in Slots /\ load[lwt[c].slot] = lwt[c].load
        BY Zenon, <3>1 DEF Owned, SlotTypes, SlotOwned, Working
      <3> QED
        BY <1>1, <1>2, <3>1, <3>2 DEF Counted, SameLoad
    <2>2. CASE ReadEnded(c)
      <3>1. /\ lwt[c].step = "released" /\ lwt'[c].step = "counting"
            /\ lwt'[c].ptr = load[lwt[c].slot]
            /\ lwt'[c].val = pkt_ended[load[lwt[c].slot]]
        BY Zenon, <1>1, <2>2 DEF ReadEnded
      <3>2. load[lwt[c].slot] = lwt[c].load
        BY Zenon, <1>1, <3>1 DEF Counted, SameLoad
      <3> QED
        BY <1>1, <1>2, <3>1, <3>2 DEF Counted, SameLoad
    <2> QED
      BY Zenon, <2>1, <2>2
  <1>5. \A l : Executing(l)' = Executing(l)
    BY Zenon, <1>2 DEF Executing
  <1>6. CountsExact'
    BY Zenon, <1>1, <1>5 DEF Counted, CountsExact
  <1> QED
    BY Zenon, <1>3, <1>count, <1>4, <1>6 DEF Counted

\* abtst_load_inc_ended: no other LWT of the load has written the counter since
\* it was read.
LEMMA WriteCounted ==
    ASSUME Owned, Counted, NEW c \in Cores, WriteEnded(c)
    PROVE  Counted'
  <1>1. /\ lwt[c].step = "counting" /\ lwt[c].load \in Loads /\ DOMAIN lwt = Cores
        /\ pkt_ended' = [pkt_ended EXCEPT ![lwt[c].ptr] = (lwt[c].val + 1) % Word]
        /\ lwt' = [lwt EXCEPT ![c] = Idle]
        /\ UNCHANGED <<pc, i, load, pool, pkt_started, refilled>>
    BY Zenon DEF WriteEnded, slotVars, Owned, SlotTypes, Counted, CountTypes
  <1>2. lwt'[c].step = "idle" /\ \A d \in Cores \ {c} : lwt'[d] = lwt[d]
    BY Zenon, <1>1 DEF Idle
  <1>3. OneRuns'
    BY ZenonT(30), <1>2 DEF Counted, OneRuns
  <1>4. CountTypes'
    <2>1. lwt[c].ptr \in Loads => (lwt[c].val + 1) % Word \in 0 .. Word - 1
      BY <1>1, AppAssumption DEF Counted, CountTypes
    <2>2. pkt_ended' \in [Loads -> 0 .. Word - 1]
      BY Zenon, <1>1, <2>1 DEF Counted, CountTypes
    <2> QED
      BY Zenon, <1>1, <1>2, <2>2 DEF Counted, CountTypes
  <1>load. PICK m \in Loads : m = lwt[c].load
    BY Zenon, <1>1
  <1>5. ASSUME ~refilled'
        PROVE  /\ pkt_ended'[m] = (pkt_ended[m] + 1) % Word
               /\ \A l \in Loads \ {m} : pkt_ended'[l] = pkt_ended[l]
    <2>1. lwt[c].ptr = m /\ lwt[c].val = pkt_ended[m]
      BY Zenon, <1>1, <1>load, <1>5 DEF Counted, SameLoad
    <2> QED
      BY Zenon, <1>1, <2>1 DEF Counted, CountTypes
  <1>6. \A d \in Cores \ {c} : lwt[d].step # "idle" => lwt[d].load \in Loads \ {m}
    BY Zenon, <1>1, <1>load DEF Counted, CountTypes, OneRuns
  <1>7. SameLoad'
    BY <1>1, <1>2, <1>load, <1>5, <1>6 DEF Counted, SameLoad
  <1>8. /\ Executing(m) = {c} /\ Executing(m)' = {}
        /\ \A l \in Loads \ {m} : Executing(l)' = Executing(l)
    <2>1. \A d \in Cores : lwt[d].step # "idle" /\ lwt[d].load = m <=> d = c
      BY Zenon, <1>1, <1>load, <1>6
    <2>2. \A d \in Cores : ~(lwt'[d].step # "idle" /\ lwt'[d].load = m)
      BY Zenon, <1>2, <2>1
    <2>3. ASSUME NEW l \in Loads \ {m}, NEW d \in Cores
          PROVE  lwt'[d].step # "idle" /\ lwt'[d].load = l
                   <=> lwt[d].step # "idle" /\ lwt[d].load = l
      BY Zenon, <1>2, <1>load
    <2>4. {d \in Cores : lwt[d].step # "idle" /\ lwt[d].load = m} = {c}
      BY Zenon, <2>1
    <2>5. {d \in Cores : lwt'[d].step # "idle" /\ lwt'[d].load = m} = {}
      BY Zenon, <2>2
    <2> QED
      BY Zenon, <2>3, <2>4, <2>5 DEF Executing
  <1>9. ASSUME ~refilled', NEW l \in Loads PROVE Agree(l)'
    <2>1. Agree(l)
      BY Zenon, <1>1, <1>9 DEF Counted, CountsExact, Agree
    <2>2. CASE l = m
      <3>1. Cardinality(Executing(l)) = 1 /\ Cardinality(Executing(l)') = 0
        <4>1. Executing(l) = {c} /\ Executing(l)' = {}
          BY Zenon, <1>8, <2>2
        <4> QED
          BY Zenon, <4>1, FS_EmptySet, FS_Singleton
      <3>2. /\ pkt_ended[l] \in Nat /\ Len(pool[l]) \in Nat /\ Word \in Nat \ {0}
            /\ pkt_ended[l] + 1 \in Nat /\ Len(pool[l]) + 0 \in Nat
        <4>1. pkt_ended[l] \in Nat /\ Len(pool[l]) \in Nat /\ Word \in Nat \ {0}
          BY Zenon, CountNumbers DEF Counted
        <4> QED
          BY <4>1
      <3>3. (((pkt_ended[l] + 1) % Word) + (Len(pool[l]) + 0)) % Word
              = (pkt_ended[l] + 1 + (Len(pool[l]) + 0)) % Word
        BY Zenon, <3>2, ModAdd
      <3>4. /\ pkt_ended[l] + 1 + (Len(pool[l]) + 0) = pkt_ended[l] + Len(pool[l]) + 1
            /\ ((pkt_ended[l] + 1) % Word) + (Len(pool[l]) + 0)
                 = ((pkt_ended[l] + 1) % Word) + Len(pool[l]) + 0
        <4>1. (pkt_ended[l] + 1) % Word \in Int
          BY <3>2
        <4> QED
          BY <3>2, <4>1
      <3> QED
        BY ZenonT(30), <1>1, <1>5, <1>9, <2>1, <2>2, <3>1, <3>3, <3>4 DEF Agree
    <2>3. CASE l # m
      BY Zenon, <1>1, <1>5, <1>8, <1>9, <2>1, <2>3 DEF Agree
    <2> QED
      BY Zenon, <2>2, <2>3
  <1>10. CountsExact'
    BY Zenon, <1>9 DEF CountsExact, Agree
  <1> QED
    BY Zenon, <1>3, <1>4, <1>7, <1>10 DEF Counted

\* Every step keeps the invariant.
LEMMA CountedStep == Owned /\ Counted /\ [Next]_vars => Counted'
  <1> SUFFICES ASSUME Owned, Counted, [Next]_vars PROVE Counted'
    BY Zenon
  <1>1. CASE InitPartitions \/ InitStreams \/ InitRebalance \/ CreateHash \/ CreateRandom
    <2>1. /\ pc # "count" /\ pc' # "count"
          /\ UNCHANGED <<pool, lwt, pkt_started, pkt_ended, refilled, load>>
      BY Zenon, <1>1 DEF InitPartitions, InitStreams, InitRebalance, CreateHash, CreateRandom,
         CreateMapping, slotVars, ioVars
    <2> QED
      BY Zenon, <2>1, CountedKept
  <1>2. CASE SkipSlot \/ Shutdown
    <2>1. /\ pc # "count" /\ pc' # "count"
          /\ UNCHANGED <<pool, lwt, pkt_started, pkt_ended, refilled, load>>
      BY Zenon, <1>2 DEF SkipSlot, NextSlot, Shutdown, SetStopping, JoinRebalance,
         FinalizeStreams, FreeMappings, FreeStreams, FreeParams, slotVars, ioVars
    <2> QED
      BY Zenon, <2>1, CountedKept
  <1>3. CASE RebalanceEnds \/ (\E c \in Cores : XstreamEnds(c)) \/ UNCHANGED vars
    <2>1. UNCHANGED <<pc, i, pool, lwt, pkt_started, pkt_ended, refilled, load>>
      BY Zenon, <1>3 DEF RebalanceEnds, XstreamEnds, vars, slotVars, ioVars
    <2> QED
      BY Zenon, <2>1, CountedKept
  <1>4. CASE FillSlot \/ CreateThread \/ IncStarted
    BY Zenon, <1>4, FillCounted, CreateCounted, IncCounted
  <1>5. CASE \E c \in Cores : Lwt(c) \/ \E l \in Loads : StartLwt(c, l)
    BY Zenon, <1>5, StartCounted, ReadCounted, WriteCounted DEF Lwt
  <1> QED
    BY Zenon, <1>1, <1>2, <1>3, <1>4, <1>5 DEF Next, Main

\* load.h:72-80, st.c:47-49: for any number of loads, slots and cores and any
\* width of the counters, pkt_started and pkt_ended differ by the I/Os under way
\* until a slot is refilled between the two statements of an I/O function.
THEOREM CountsAreExact == Spec => []CountsExact
  <1>1. Spec => []Owned
    BY InitOwned, OwnedStep, PTL DEF Spec
  <1>2. Spec => []Counted
    BY <1>1, InitCounted, CountedStep, PTL DEF Spec
  <1>3. Counted => CountsExact
    BY Zenon DEF Counted
  <1> QED
    BY <1>2, <1>3, PTL

-----------------------------------------------------------------------------
(* Induction over numbers, as a smallest counterexample argument. *)

\* A set of numbers that is not empty has a least one.
LEMMA LeastNumber ==
    ASSUME NEW T, T \subseteq Nat, T # {}
    PROVE  \E n \in T : \A m \in T : n <= m
  <1> DEFINE R == {ss \in Nat \X Nat : ss[1] < ss[2]}
  <1>1. IsWellFoundedOn(R, Nat)
    BY NatLessThanWellFounded, Zenon DEF OpToRel
  <1>2. \E n \in T : \A m \in T : ~(<<m, n>> \in R)
    <2> HIDE DEF R
    <2> QED
      BY Zenon, <1>1, WFMin
  <1>3. PICK n \in T : \A m \in T : ~(<<m, n>> \in R)
    BY Zenon, <1>2
  <1>4. ASSUME NEW m \in T PROVE n <= m
    <2>1. m \in Nat /\ n \in Nat /\ ~(m < n)
      <3>1. <<m, n>> \in Nat \X Nat /\ <<m, n>>[1] = m /\ <<m, n>>[2] = n
        BY Zenon
      <3> QED
        BY Zenon, <1>3, <3>1
    <2> QED
      BY <2>1
  <1> QED
    BY Zenon, <1>4

\* What holds at 0 and from each number to the next holds up to any bound.
LEMMA UpTo ==
    ASSUME NEW n \in Nat, NEW G, 0 \in G, \A k \in 0 .. n - 1 : k \in G => k + 1 \in G
    PROVE  \A k \in 0 .. n : k \in G
  <1> DEFINE B == {k \in 0 .. n : k \notin G}
  <1> SUFFICES ASSUME B # {} PROVE FALSE
    BY Zenon
  <1>1. B \subseteq Nat
    OBVIOUS
  <1>2. \E k \in B : \A j \in B : k <= j
    <2> HIDE DEF B
    <2> QED
      BY Zenon, <1>1, LeastNumber
  <1>3. PICK k \in B : \A j \in B : k <= j
    BY Zenon, <1>2
  <1>4. k \in 0 .. n /\ k \notin G /\ k # 0
    BY Zenon, <1>3
  <1>5. k - 1 \in 0 .. n - 1 /\ k - 1 \in 0 .. n /\ ~(k <= k - 1) /\ k - 1 + 1 = k
    BY <1>4
  <1>6. k - 1 \in G
    BY Zenon, <1>3, <1>5
  <1> QED
    BY Zenon, <1>4, <1>5, <1>6

-----------------------------------------------------------------------------
(* Where the loads of a mapping are placed. *)

\* The streams of partition id.
StreamsOf(map, id) == {c \in Cores : map[c] = id}

\* find_next_stream: the next stream of the partition in the cyclic order.
LEMMA FindsNext ==
    ASSUME NEW map, NEW id, NEW start \in 0 .. NrCores,
           StreamsOf(map, id) # {}
    PROVE  LET s == FindNextStream(map, id, start)
           IN  /\ s \in StreamsOf(map, id)
               /\ \/ s >= start /\ \A c \in StreamsOf(map, id) : c >= start => s <= c
                  \/ \A c \in StreamsOf(map, id) : c < start /\ s <= c
  <1> DEFINE At(k) == (start + k) % NrCores
             Hits == {k \in 0 .. NrCores - 1 : map[At(k)] = id}
             Of(c) == IF c >= start THEN c - start ELSE c + NrCores - start
  <1>1. \A k \in 0 .. NrCores - 1 :
          /\ At(k) \in Cores
          /\ At(k) = IF start + k < NrCores THEN start + k ELSE start + k - NrCores
    <2> TAKE k \in 0 .. NrCores - 1
    <2>1. NrCores \in Nat \ {0} /\ 0 \in Int /\ 1 \in Int
      BY AppAssumption
    <2>2. CASE start + k < NrCores
      <3>1. start + k \in 0 .. NrCores - 1 /\ NrCores * 0 + (start + k) = start + k
        BY <2>1, <2>2
      <3>2. (NrCores * 0 + (start + k)) % NrCores = start + k
        BY Zenon, <2>1, <3>1, ModUnique
      <3> QED
        BY Zenon, <2>2, <3>1, <3>2 DEF Cores
    <2>3. CASE ~(start + k < NrCores)
      <3>1. /\ start + k - NrCores \in 0 .. NrCores - 1
            /\ NrCores * 1 + (start + k - NrCores) = start + k
        BY <2>1, <2>3
      <3>2. (NrCores * 1 + (start + k - NrCores)) % NrCores = start + k - NrCores
        BY Zenon, <2>1, <3>1, ModUnique
      <3> QED
        BY Zenon, <2>3, <3>1, <3>2 DEF Cores
    <2> QED
      BY Zenon, <2>2, <2>3
  <1> HIDE DEF At
  <1>2. ASSUME NEW c \in StreamsOf(map, id) PROVE Of(c) \in Hits
    <2>1. c \in 0 .. NrCores - 1 /\ map[c] = id /\ NrCores \in Nat \ {0}
      BY AppAssumption DEF StreamsOf, Cores
    <2>2. Of(c) \in 0 .. NrCores - 1 /\ At(Of(c)) = c
      BY <1>1, <2>1
    <2> QED
      BY Zenon, <2>1, <2>2
  <1>3. Hits # {}
    BY Zenon, <1>2
  <1>4. \E k \in Hits : \A j \in Hits : k <= j
    <2>1. Hits \subseteq Nat
      OBVIOUS
    <2> HIDE DEF Hits
    <2> QED
      BY Zenon, <1>3, <2>1, LeastNumber
  <1>5. PICK k \in Hits : /\ \A j \in Hits : k <= j
                          /\ FindNextStream(map, id, start) = At(k)
    <2> DEFINE least == CHOOSE k \in Hits : \A j \in Hits : k <= j
    <2>1. least \in Hits /\ \A j \in Hits : least <= j
      BY Zenon, <1>4
    <2>2. FindNextStream(map, id, start) = At(least)
      BY Zenon, <1>3 DEF FindNextStream, At
    <2> QED
      BY Zenon, <2>1, <2>2
  <1>6. k \in 0 .. NrCores - 1 /\ map[At(k)] = id
    BY Zenon
  <1>7. \A c \in StreamsOf(map, id) : c \in Nat /\ c < NrCores /\ k <= Of(c)
    <2>1. \A c \in StreamsOf(map, id) : c \in Nat /\ c < NrCores
      BY AppAssumption DEF StreamsOf, Cores
    <2>2. \A c \in StreamsOf(map, id) : k <= Of(c)
      BY Zenon, <1>2, <1>5
    <2> QED
      BY Zenon, <2>1, <2>2
  <1>8. At(k) \in StreamsOf(map, id)
    BY Zenon, <1>1, <1>6 DEF StreamsOf
  <1>9. \/ At(k) >= start /\ \A c \in StreamsOf(map, id) : c >= start => At(k) <= c
        \/ \A c \in StreamsOf(map, id) : c < start /\ At(k) <= c
    <2>1. NrCores \in Nat \ {0}
      BY AppAssumption
    <2>2. CASE start + k < NrCores
      <3>1. At(k) = start + k
        BY <1>1, <1>6, <2>2
      <3> QED
        BY <1>6, <1>7, <2>1, <3>1
    <2>3. CASE ~(start + k < NrCores)
      <3>1. At(k) = start + k - NrCores
        BY <1>1, <1>6, <2>3
      <3> QED
        BY <1>6, <1>7, <2>1, <2>3, <3>1
    <2> QED
      BY Zenon, <2>2, <2>3
  <1> QED
    BY Zenon, <1>5, <1>8, <1>9

\* How many of the first j loads are on stream c.
Count(r, j, c) == Cardinality({k \in 1 .. j : r[k] = c})

\* Counts are numbers.
LEMMA CountNat ==
    ASSUME NEW r, NEW j \in Nat, NEW c
    PROVE  IsFiniteSet({k \in 1 .. j : r[k] = c}) /\ Count(r, j, c) \in Nat
  <1>1. IsFiniteSet(1 .. j)
    BY FS_Interval
  <1>2. {k \in 1 .. j : r[k] = c} \subseteq 1 .. j
    BY Zenon
  <1>3. IsFiniteSet({k \in 1 .. j : r[k] = c})
    BY Zenon, <1>1, <1>2, FS_Subset
  <1> QED
    BY Zenon, <1>3, FS_CardinalityType DEF Count

\* One more load is one more on its stream.
LEMMA CountNext ==
    ASSUME NEW r, NEW j \in Nat, NEW c
    PROVE  Count(r, j + 1, c) = Count(r, j, c) + IF r[j + 1] = c THEN 1 ELSE 0
  <1> DEFINE S == {k \in 1 .. j : r[k] = c}
             T == {k \in 1 .. j + 1 : r[k] = c}
  <1>1. /\ \A k \in 1 .. j + 1 : k \in 1 .. j \/ k = j + 1
        /\ \A k \in 1 .. j : k \in 1 .. j + 1
        /\ j + 1 \in 1 .. j + 1
    OBVIOUS
  <1>2. j + 1 \notin 1 .. j
    OBVIOUS
  <1>3. Cardinality(S) \in Nat
    <2>1. Count(r, j, c) \in Nat
      BY Zenon, CountNat
    <2> QED
      BY Zenon, <2>1 DEF Count
  <1>4. CASE r[j + 1] = c
    <2>1. T = S \cup {j + 1} /\ j + 1 \notin S
      BY Zenon, <1>1, <1>2, <1>4
    <2>2. Cardinality(S \cup {j + 1}) = Cardinality(S) + 1
      <3>1. IsFiniteSet(S)
        BY Zenon, CountNat
      <3> HIDE DEF S
      <3> QED
        BY Zenon, <2>1, <3>1, FS_AddElement
    <2> QED
      BY Zenon, <1>4, <2>1, <2>2 DEF Count
  <1>5. CASE r[j + 1] # c
    <2>1. T = S
      BY Zenon, <1>1, <1>5
    <2>2. Cardinality(S) + 0 = Cardinality(S)
      BY <1>3
    <2> QED
      BY Zenon, <1>5, <2>1, <2>2 DEF Count
  <1> QED
    BY Zenon, <1>4, <1>5

\* Later loads do not change the count of the first j.
LEMMA CountSame ==
    ASSUME NEW r, NEW q, NEW j, NEW c, \A k \in 1 .. j : r[k] = q[k]
    PROVE  Count(r, j, c) = Count(q, j, c)
  <1>1. {k \in 1 .. j : r[k] = c} = {k \in 1 .. j : q[k] = c}
    BY Zenon
  <1> QED
    BY Zenon, <1>1 DEF Count

\* The first j loads are on the streams U one by one, round after round: the
\* streams up to the last one taken have one more than the others.
Even(U, r, j) ==
    \E n \in Nat : \A c \in U :
        Count(r, j, c) = n + IF j > 0 /\ c <= r[j] THEN 1 ELSE 0

Evenly(U, r) == r \in Seq(U) /\ \A j \in 0 .. Len(r) : Even(U, r, j)

\* The step of the loop of abtst_init_loads.
NextPlace(map, id, r) ==
    LET s == FindNextStream(map, id, IF r = <<>> THEN 0 ELSE r[Len(r)] + 1)
    IN  IF s = None THEN r ELSE Append(r, s)

\* It keeps the loads spread evenly.
LEMMA NextPlaceEven ==
    ASSUME NEW map, NEW id, NEW r, Evenly(StreamsOf(map, id), r)
    PROVE  Evenly(StreamsOf(map, id), NextPlace(map, id, r))
  <1> DEFINE U == StreamsOf(map, id)
             start == IF r = <<>> THEN 0 ELSE r[Len(r)] + 1
  <1>0. r \in Seq(U) /\ Len(r) \in Nat /\ \A j \in 0 .. Len(r) : Even(U, r, j)
    <2>1. r \in Seq(U) /\ \A j \in 0 .. Len(r) : Even(U, r, j)
      BY Zenon DEF Evenly
    <2> HIDE DEF U
    <2> QED
      BY <2>1
  <1>1. /\ \A c \in U : c \in Nat /\ c < NrCores /\ c # None
        /\ NrCores \in Nat \ {0}
    BY AppAssumption DEF StreamsOf, Cores, None
  <1>2. CASE FindNextStream(map, id, start) = None
    BY Zenon, <1>2 DEF NextPlace
  <1>3. CASE FindNextStream(map, id, start) # None
    <2>1. start \in 0 .. NrCores /\ (r # <<>> => r[Len(r)] \in U /\ Len(r) > 0)
      <3>1. r # <<>> => r[Len(r)] \in U /\ Len(r) > 0
        <4> HIDE DEF U
        <4> QED
          BY <1>0
      <3> HIDE DEF U
      <3> QED
        BY <1>1, <3>1
    <2>2. U # {}
      <3> SUFFICES ASSUME U = {} PROVE FALSE
        BY Zenon
      <3>1. \A k \in 0 .. NrCores - 1 : (start + k) % NrCores \in Cores
        BY <1>1, <2>1 DEF Cores
      <3>2. {k \in 0 .. NrCores - 1 : map[(start + k) % NrCores] = id} = {}
        BY Zenon, <3>1 DEF StreamsOf
      <3> QED
        BY Zenon, <1>3, <3>2 DEF FindNextStream
    <2>3. PICK s \in U :
            /\ s = FindNextStream(map, id, start)
            /\ \/ s >= start /\ \A c \in U : c >= start => s <= c
               \/ \A c \in U : c < start /\ s <= c
      <3> HIDE DEF start
      <3> QED
        BY Zenon, <2>1, <2>2, FindsNext
    <2> DEFINE q == Append(r, s)
               m == Len(r)
    <2>4. NextPlace(map, id, r) = q
      BY Zenon, <1>3, <2>3 DEF NextPlace
    <2>5. /\ q \in Seq(U) /\ Len(q) = m + 1 /\ q[m + 1] = s
          /\ \A k \in 1 .. m : q[k] = r[k]
      <3> HIDE DEF U
      <3> QED
        BY <1>0
    <2> HIDE DEF q, U
    <2>6. ASSUME NEW j \in 0 .. m PROVE Even(U, q, j)
      <3>1. \A k \in 1 .. j : q[k] = r[k]
        BY <1>0, <2>5
      <3>2. ASSUME NEW c PROVE Count(q, j, c) = Count(r, j, c)
        BY <3>1, CountSame
      <3>3. j > 0 => q[j] = r[j]
        BY <1>0, <2>5
      <3>4. Even(U, r, j)
        BY Zenon, <1>0
      <3> QED
        BY Zenon, <3>2, <3>3, <3>4 DEF Even
    <2>7. Even(U, q, m + 1)
      <3>1. PICK n \in Nat : \A c \in U :
               Count(q, m, c) = n + IF m > 0 /\ c <= q[m] THEN 1 ELSE 0
        <4>1. Even(U, q, m)
          BY <1>0, <2>6
        <4> QED
          BY Zenon, <4>1 DEF Even
      <3>2. ASSUME NEW c
            PROVE  Count(q, m + 1, c) = Count(q, m, c) + IF s = c THEN 1 ELSE 0
        <4>1. Count(q, m + 1, c) = Count(q, m, c) + IF q[m + 1] = c THEN 1 ELSE 0
          BY Zenon, <1>0, CountNext
        <4> QED
          BY Zenon, <2>5, <4>1
      <3>3. m > 0 => q[m] = r[m] /\ start = r[m] + 1 /\ r[m] \in Nat
        <4>1. m > 0 => m \in 1 .. m /\ r # <<>>
          BY <1>0
        <4> QED
          BY Zenon, <1>1, <2>1, <2>5, <4>1
      <3>4. m = 0 => start = 0
        BY <1>0
      <3>5. m > 0 \/ m = 0
        BY <1>0
      <3>6. \A c \in U : c \in Nat
        BY Zenon, <1>1
      <3>7. m + 1 > 0
        BY <1>0
      <3>8. CASE s >= start /\ \A c \in U : c >= start => s <= c
        <4>1. \A c \in U : Count(q, m + 1, c) = n + IF c <= s THEN 1 ELSE 0
          BY <2>3, <3>1, <3>2, <3>3, <3>4, <3>5, <3>6, <3>8
        <4> QED
          BY Zenon, <2>5, <3>7, <4>1 DEF Even
      <3>9. CASE \A c \in U : c < start /\ s <= c
        <4>1. n + 1 \in Nat
          OBVIOUS
        <4>2. \A c \in U : Count(q, m + 1, c) = n + 1 + IF c <= s THEN 1 ELSE 0
          BY <2>3, <3>1, <3>2, <3>3, <3>4, <3>5, <3>6, <3>9
        <4> QED
          BY Zenon, <2>5, <3>7, <4>1, <4>2 DEF Even
      <3> QED
        BY Zenon, <2>3, <3>8, <3>9
    <2>8. \A j \in 0 .. Len(q) : j \in 0 .. m \/ j = m + 1
      BY <1>0, <2>5
    <2>9. Evenly(U, q)
      BY Zenon, <2>5, <2>6, <2>7, <2>8 DEF Evenly
    <2> QED
      BY Zenon, <2>4, <2>9 DEF U
  <1> QED
    BY Zenon, <1>2, <1>3

\* g is the function by which InitLoads places n loads.
Places(map, id, n, g) ==
    g = [k \in 0 .. n |-> IF k = 0 THEN <<>> ELSE NextPlace(map, id, g[k - 1])]

\* The recursion of InitLoads defines a function.
LEMMA PlacesExists ==
    ASSUME NEW map, NEW id, NEW n \in Nat
    PROVE  \E g : Places(map, id, n, g)
  <1> DEFINE G == {k \in Nat : \E g : Places(map, id, k, g)}
  <1>1. 0 \in G
    <2> DEFINE g == [k \in 0 .. 0 |-> <<>>]
    <2>1. \A k \in 0 .. 0 : k = 0
      OBVIOUS
    <2>2. Places(map, id, 0, g)
      BY Zenon, <2>1 DEF Places
    <2> QED
      BY <2>2
  <1>2. ASSUME NEW k \in 0 .. n - 1, k \in G PROVE k + 1 \in G
    <2>1. PICK g : Places(map, id, k, g)
      BY Zenon, <1>2
    <2> DEFINE h == [j \in 0 .. k + 1 |->
                       IF j = k + 1 THEN NextPlace(map, id, g[k]) ELSE g[j]]
    <2>2. /\ k \in Nat /\ k + 1 \in Nat /\ k + 1 # 0 /\ k + 1 - 1 = k
          /\ k \in 0 .. k /\ k \in 0 .. k + 1 /\ k + 1 \in 0 .. k + 1 /\ k # k + 1
      OBVIOUS
    <2>3. \A j \in 0 .. k + 1 :
             \/ j = k + 1
             \/ /\ j \in 0 .. k /\ j # k + 1
                /\ j # 0 => j - 1 \in 0 .. k + 1 /\ j - 1 # k + 1
      BY <2>2
    <2>4. ASSUME NEW j \in 0 .. k + 1
          PROVE  h[j] = IF j = 0 THEN <<>> ELSE NextPlace(map, id, h[j - 1])
      <3>1. CASE j = k + 1
        <4>1. h[k + 1] = NextPlace(map, id, g[k]) /\ h[k] = g[k]
          BY Zenon, <2>2
        <4> QED
          BY <2>2, <3>1, <4>1
      <3>2. CASE j # k + 1
        <4>1. /\ j \in 0 .. k /\ h[j] = g[j]
              /\ j # 0 => h[j - 1] = g[j - 1]
          BY Zenon, <2>3, <3>2
        <4>2. g[j] = IF j = 0 THEN <<>> ELSE NextPlace(map, id, g[j - 1])
          BY Zenon, <2>1, <4>1 DEF Places
        <4> QED
          BY Zenon, <4>1, <4>2
      <3> QED
        BY Zenon, <3>1, <3>2
    <2>5. Places(map, id, k + 1, h)
      <3>1. h = [j \in 0 .. k + 1 |-> h[j]]
        BY Zenon
      <3> HIDE DEF h
      <3> QED
        BY Zenon, <2>4, <3>1 DEF Places
    <2> HIDE DEF h
    <2> QED
      BY Zenon, <2>2, <2>5
  <1>3. \A k \in 0 .. n : k \in G
    <2> HIDE DEF G
    <2> QED
      BY Zenon, <1>1, <1>2, UpTo
  <1>4. n \in 0 .. n
    OBVIOUS
  <1> QED
    BY Zenon, <1>3, <1>4

\* No loads are placed evenly.
LEMMA EmptyEven == ASSUME NEW U PROVE Evenly(U, <<>>)
  <1>1. <<>> \in Seq(U) /\ \A j \in 0 .. Len(<<>>) : j = 0
    OBVIOUS
  <1>2. ASSUME NEW c PROVE Count(<<>>, 0, c) = 0
    <2>1. {k \in 1 .. 0 : <<>>[k] = c} = {}
      OBVIOUS
    <2> QED
      BY Zenon, <2>1, FS_EmptySet DEF Count
  <1>3. 0 \in Nat /\ ~(0 > 0) /\ 0 + 0 = 0
    OBVIOUS
  <1>4. \A c \in U : Count(<<>>, 0, c)
                       = 0 + IF 0 > 0 /\ c <= <<>>[0] THEN 1 ELSE 0
    BY Zenon, <1>2, <1>3
  <1>5. Even(U, <<>>, 0)
    BY Zenon, <1>3, <1>4 DEF Even
  <1> QED
    BY Zenon, <1>1, <1>5 DEF Evenly

\* abtst_init_loads places the loads evenly, whatever their number.
LEMMA InitLoadsEven ==
    ASSUME NEW map, NEW id, NEW nr \in Nat
    PROVE  Evenly(StreamsOf(map, id), InitLoads(map, id, nr))
  <1> DEFINE U == StreamsOf(map, id)
             P == CHOOSE g : Places(map, id, nr, g)
  <1>1. Places(map, id, nr, P)
    BY Zenon, PlacesExists
  <1>2. InitLoads(map, id, nr) = P[nr]
    BY Zenon DEF InitLoads, Places, NextPlace
  <1> HIDE DEF P, U
  <1> DEFINE G == {k \in Nat : k <= nr => Evenly(U, P[k])}
  <1>3. 0 \in G
    <2>1. 0 \in 0 .. nr /\ 0 \in Nat
      OBVIOUS
    <2>2. P[0] = <<>>
      BY Zenon, <1>1, <2>1 DEF Places
    <2>3. Evenly(U, <<>>)
      BY Zenon, EmptyEven
    <2> QED
      BY Zenon, <2>1, <2>2, <2>3
  <1>4. ASSUME NEW k \in 0 .. nr - 1, k \in G PROVE k + 1 \in G
    <2>1. /\ k <= nr /\ k + 1 \in 0 .. nr /\ k + 1 \in Nat /\ k + 1 # 0
          /\ k + 1 - 1 = k
      OBVIOUS
    <2>2. P[k + 1] = NextPlace(map, id, P[k])
      BY <1>1, <2>1 DEF Places
    <2>3. Evenly(U, P[k])
      BY Zenon, <1>4, <2>1
    <2>4. Evenly(U, NextPlace(map, id, P[k]))
      BY Zenon, <2>3, NextPlaceEven DEF U
    <2> QED
      BY Zenon, <2>1, <2>2, <2>4
  <1>5. \A k \in 0 .. nr : k \in G
    <2> HIDE DEF G
    <2> QED
      BY Zenon, <1>3, <1>4, UpTo
  <1>6. nr \in 0 .. nr /\ nr <= nr
    OBVIOUS
  <1> QED
    BY Zenon, <1>2, <1>5, <1>6 DEF U

\* Also the loads that were placed before one could not be made.
LEMMA PrefixEven ==
    ASSUME NEW U, NEW r, Evenly(U, r), NEW k \in 0 .. Len(r)
    PROVE  Evenly(U, SubSeq(r, 1, k))
  <1> DEFINE q == SubSeq(r, 1, k)
  <1>1. r \in Seq(U) /\ \A j \in 0 .. Len(r) : Even(U, r, j)
    BY Zenon DEF Evenly
  <1>2. q \in Seq(U) /\ Len(q) = k /\ \A j \in 1 .. k : q[j] = r[j]
    BY <1>1
  <1> HIDE DEF q
  <1>3. ASSUME NEW j \in 0 .. k PROVE Even(U, q, j)
    <2>1. /\ j \in 0 .. Len(r)
          /\ j > 0 => q[j] = r[j]
          /\ \A a \in 1 .. j : q[a] = r[a]
      BY <1>1, <1>2
    <2>2. ASSUME NEW c PROVE Count(q, j, c) = Count(r, j, c)
      BY <2>1, CountSame
    <2>3. Even(U, r, j)
      BY Zenon, <1>1, <2>1
    <2> QED
      BY Zenon, <2>1, <2>2, <2>3 DEF Even
  <1>4. Evenly(U, q)
    BY Zenon, <1>2, <1>3 DEF Evenly
  <1> QED
    BY Zenon, <1>4 DEF q

\* Placed evenly, no stream has two loads more than another.
LEMMA EvenSpread ==
    ASSUME NEW U, NEW r, Evenly(U, r), NEW c \in U, NEW d \in U
    PROVE  Count(r, Len(r), c) <= Count(r, Len(r), d) + 1
  <1>1. Len(r) \in 0 .. Len(r)
    BY DEF Evenly
  <1>2. Even(U, r, Len(r))
    BY Zenon, <1>1 DEF Evenly
  <1>3. PICK n \in Nat : \A e \in U :
           Count(r, Len(r), e) = n + IF Len(r) > 0 /\ e <= r[Len(r)] THEN 1 ELSE 0
    BY Zenon, <1>2 DEF Even
  <1>4. \A e \in U : Count(r, Len(r), e) = n \/ Count(r, Len(r), e) = n + 1
    BY <1>3
  <1> QED
    BY <1>4

\* The inductive invariant: the partitions do not change once loads are placed.
Placed ==
    /\ table \in Tables
    /\ DOMAIN loads = MappingIds
    /\ \A m \in MappingIds : /\ pc = "init_partitions" => loads[m] = <<>>
                             /\ Evenly(StreamsOf(part_id, m), loads[m])

\* The invariant gives LoadsSpread.
LEMMA PlacedSuffices == Placed => LoadsSpread
  <1> SUFFICES ASSUME Placed, NEW m \in MappingIds
               PROVE  LET on(c) == Cardinality({k \in DOMAIN loads[m] : loads[m][k] = c})
                      IN  /\ \A k \in DOMAIN loads[m] : part_id[loads[m][k]] = m
                          /\ \A c, d \in Cores :
                               (part_id[c] = m /\ part_id[d] = m) => on(c) <= on(d) + 1
    BY Zenon DEF LoadsSpread
  <1>1. PICK U, r : /\ U = StreamsOf(part_id, m) /\ r = loads[m]
                    /\ Evenly(U, r)
    BY Zenon DEF Placed
  <1>2. r \in Seq(U)
    BY Zenon, <1>1 DEF Evenly
  <1>3. DOMAIN r = 1 .. Len(r) /\ \A k \in DOMAIN r : r[k] \in U
    BY <1>2
  <1>4. \A k \in DOMAIN r : part_id[r[k]] = m
    BY Zenon, <1>1, <1>3 DEF StreamsOf
  <1>5. ASSUME NEW c \in Cores, NEW d \in Cores, part_id[c] = m, part_id[d] = m
        PROVE  Count(r, Len(r), c) <= Count(r, Len(r), d) + 1
    <2>1. c \in U /\ d \in U
      BY Zenon, <1>1, <1>5 DEF StreamsOf
    <2> QED
      BY Zenon, <1>1, <2>1, EvenSpread
  <1> QED
    BY Zenon, <1>1, <1>3, <1>4, <1>5 DEF Count

\* No mapping has loads at first.
LEMMA InitPlaced == Init => Placed
  <1> SUFFICES ASSUME Init PROVE Placed
    BY Zenon
  <1>1. table \in Tables /\ DOMAIN loads = MappingIds /\ \A m \in MappingIds : loads[m] = <<>>
    BY Zenon DEF Init
  <1>2. ASSUME NEW m \in MappingIds PROVE Evenly(StreamsOf(part_id, m), <<>>)
    BY Zenon, EmptyEven
  <1> QED
    BY Zenon, <1>1, <1>2 DEF Placed

\* The number of loads of a mapping.
LEMMA NrLoadsNat ==
    ASSUME NEW t \in Tables
    PROVE  /\ NrLoads("hashing", t, 0) = Len(t[1]) * LoadsPerXstream
           /\ Len(t[1]) \in Nat /\ t[1] \in Seq(Cores)
           /\ NrLoads("hashing", t, 0) \in Nat /\ NrLoads("random", t, 1) \in Nat
  <1>1. t[1] \in Seq(Cores \ {0})
    BY AppAssumption
  <1>2. Len(t[1]) \in Nat /\ t[1] \in Seq(Cores)
    BY <1>1
  <1>3. NrLoads("hashing", t, 0) = Len(t[1]) * LoadsPerXstream
    BY DEF NrLoads
  <1>4. NrLoads("random", t, 1) = NrCores \div 2
    BY DEF NrLoads
  <1> QED
    BY <1>2, <1>3, <1>4, AppAssumption

\* abtst_init_loads, for the hash mapping and for the random one.
LEMMA CreatePlaced ==
    ASSUME Alive, Placed, CreateHash \/ CreateRandom
    PROVE  /\ Placed'
           /\ pc = "create_random" => loads'[0] = loads[0]
           /\ pc' = "create_random" => Len(loads'[0]) = NrLoads("hashing", table, 0)
  <1>1. PICK m \in MappingIds, type \in {"hashing", "random"} :
           /\ nr_mappings = m /\ CreateMapping(type, m, IF m = 0 THEN "create_random" ELSE "scan")
           /\ m = 0 => type = "hashing" /\ pc = "create_hash"
           /\ m = 1 => type = "random" /\ pc = "create_random"
    BY DEF CreateHash, CreateRandom, Alive, Arrays, MappingIds
  <1>2. PICK r : /\ r = InitLoads(part_id, m, NrLoads(type, table, m))
                 /\ \/ Len(r) = NrLoads(type, table, m)
                       /\ loads' = [loads EXCEPT ![m] = r]
                    \/ \E k \in 0 .. Len(r) :
                         loads' = [loads EXCEPT ![m] = SubSeq(r, 1, k)] /\ pc' = "exit1"
                 /\ UNCHANGED <<part_id, table>> /\ pc' # "init_partitions"
                 /\ m = 1 => pc' # "create_random"
    BY Zenon, <1>1 DEF CreateMapping, MappingIds
  <1>3. NrLoads(type, table, m) \in Nat
    BY Zenon, <1>1, NrLoadsNat DEF Placed, MappingIds
  <1>4. Evenly(StreamsOf(part_id, m), r)
    BY Zenon, <1>2, <1>3, InitLoadsEven
  <1>5. \A k \in 0 .. Len(r) : Evenly(StreamsOf(part_id, m), SubSeq(r, 1, k))
    BY Zenon, <1>4, PrefixEven
  <1>6. /\ DOMAIN loads' = MappingIds /\ Evenly(StreamsOf(part_id, m), loads'[m])
        /\ \A o \in MappingIds \ {m} : loads'[o] = loads[o]
    BY Zenon, <1>2, <1>4, <1>5 DEF Placed
  <1>7. Placed'
    BY Zenon, <1>2, <1>6 DEF Placed
  <1>8. pc = "create_random" => loads'[0] = loads[0]
    BY Zenon, <1>1, <1>6 DEF MappingIds
  <1>9. pc' = "create_random" => Len(loads'[0]) = NrLoads("hashing", table, 0)
    BY Zenon, <1>1, <1>2 DEF MappingIds, Placed
  <1> QED
    BY Zenon, <1>7, <1>8, <1>9

\* Every step keeps the invariant.
LEMMA PlacedStep == Alive /\ Placed /\ [Next]_vars => Placed'
  <1> SUFFICES ASSUME Alive, Placed, [Next]_vars PROVE Placed'
    BY Zenon
  <1>1. CASE CreateHash \/ CreateRandom
    BY Zenon, <1>1, CreatePlaced
  <1>2. CASE InitPartitions
    <2>1. /\ UNCHANGED <<table, loads>> /\ pc' # "init_partitions"
          /\ \A m \in MappingIds : loads[m] = <<>>
      BY Zenon, <1>2 DEF InitPartitions, Placed
    <2>2. ASSUME NEW m \in MappingIds PROVE Evenly(StreamsOf(part_id', m), <<>>)
      BY Zenon, EmptyEven
    <2> QED
      BY Zenon, <2>1, <2>2 DEF Placed
  <1>3. CASE UNCHANGED <<table, loads, part_id>> /\ pc' # "init_partitions"
    BY Zenon, <1>3 DEF Placed
  <1>4. CASE UNCHANGED <<table, loads, part_id, pc>>
    BY Zenon, <1>4 DEF Placed
  <1>5. ASSUME InitStreams \/ InitRebalance \/ SkipSlot \/ FillSlot \/ CreateThread
                 \/ IncStarted \/ Shutdown
        PROVE  UNCHANGED <<table, loads, part_id>> /\ pc' # "init_partitions"
    BY Zenon, <1>5 DEF InitStreams, InitRebalance, SkipSlot, FillSlot, CreateThread, IncStarted,
       NextSlot, Shutdown, SetStopping, JoinRebalance, FinalizeStreams, FreeMappings,
       FreeStreams, FreeParams, sysVars
  <1>6. ASSUME \/ RebalanceEnds \/ UNCHANGED vars
               \/ \E c \in Cores : Lwt(c) \/ XstreamEnds(c) \/ \E l \in Loads : StartLwt(c, l)
        PROVE  UNCHANGED <<table, loads, part_id, pc>>
    BY Zenon, <1>6 DEF RebalanceEnds, XstreamEnds, Lwt, Release, ReadEnded, WriteEnded, StartLwt,
       vars, sysVars
  <1> QED
    BY Zenon, <1>1, <1>2, <1>3, <1>4, <1>5, <1>6 DEF Next, Main

\* load.c:50-116: for any partition table and any number of loads, also when one
\* of them could not be made, the loads of a mapping are on streams of its
\* partition, and no such stream has two more than another.
THEOREM LoadsAreSpread == Spec => []LoadsSpread
  <1>1. Spec => []Alive
    BY InitAlive, AliveStep, PTL DEF Spec
  <1>2. Spec => []Placed
    BY <1>1, InitPlaced, PlacedStep, PTL DEF Spec
  <1> QED
    BY <1>2, PlacedSuffices, PTL

-----------------------------------------------------------------------------
(* The load of a key. *)

\* The hash mapping has a core, and so a load.
TablesFilled == \A t \in Tables : t[1] # <<>>

\* hash.c:64: the buckets per load are rounded up, so the last bucket still has
\* a load.
LEMMA HashInRange ==
    ASSUME NEW b \in Nat \ {0}, NEW n \in Nat \ {0}, NEW h \in 0 .. b - 1
    PROVE  HashIndex(h, b, n) \in 0 .. n - 1
  <1> DEFINE x == b + n - 1
             q == x \div n
             d == h \div q
  <1>1. x \in Nat
    OBVIOUS
  <1>2. q \in Nat /\ x % n \in 0 .. n - 1 /\ x = n * q + (x % n)
    <2> HIDE DEF x
    <2> QED
      BY <1>1
  <1>3. n * q >= b
    BY <1>2
  <1>4. q # 0
    BY <1>2, <1>3
  <1> HIDE DEF q
  <1>5. d \in Nat /\ h % q \in 0 .. q - 1 /\ h = q * d + (h % q)
    BY <1>2, <1>4
  <1>6. q * d < n * q
    BY <1>2, <1>3, <1>5
  <1>7. d < n
    BY <1>2, <1>4, <1>5, <1>6
  <1>8. HashIndex(h, b, n) = d
    BY Zenon DEF HashIndex, q
  <1> QED
    BY <1>5, <1>7, <1>8

\* The keys of a table's hash mapping.
LEMMA KeyInRange ==
    ASSUME TablesFilled, NEW t \in Tables, NEW h \in 0 .. TotalBuckets - 1
    PROVE  HashIndex(h, TotalBuckets, NrLoads("hashing", t, 0))
             \in 0 .. NrLoads("hashing", t, 0) - 1
  <1>1. /\ NrLoads("hashing", t, 0) = Len(t[1]) * LoadsPerXstream
        /\ Len(t[1]) \in Nat /\ t[1] \in Seq(Cores) /\ t[1] # <<>>
    BY Zenon, NrLoadsNat DEF TablesFilled
  <1>2. Len(t[1]) # 0
    BY <1>1
  <1>3. NrLoads("hashing", t, 0) \in Nat \ {0} /\ TotalBuckets \in Nat \ {0}
    BY <1>1, <1>2, AppAssumption
  <1> QED
    BY Zenon, <1>3, HashInRange

\* The inductive invariant: main() hashes keys only after all loads are made.
Mapped ==
    /\ pc \in Starting \cup {"create_hash"} => \A s \in Slots : load[s] = None
    /\ pc \in Running \cup {"create_random"} =>
         Len(loads[0]) = NrLoads("hashing", table, 0)
    /\ KeyMapsToLoad

\* Every step keeps the invariant.
LEMMA MappedStep ==
    ASSUME TablesFilled, Alive, Owned, Placed, Mapped, [Next]_vars
    PROVE  Mapped'
  <1>1. CASE CreateHash \/ CreateRandom
    <2>1. /\ UNCHANGED <<load, table>> /\ pc \in {"create_hash", "create_random"}
          /\ pc' \in {"create_random", "scan", "exit1"}
          /\ pc = "create_hash" => pc' # "scan"
          /\ pc = "create_random" => pc' # "create_random"
      BY Zenon, <1>1 DEF CreateHash, CreateRandom, CreateMapping, slotVars
    <2>2. /\ pc = "create_random" => loads'[0] = loads[0]
          /\ pc' = "create_random" => Len(loads'[0]) = NrLoads("hashing", table, 0)
      BY Zenon, <1>1, CreatePlaced
    <2>3. pc' \notin Starting \cup {"create_hash"}
      BY Zenon, <2>1 DEF Starting
    <2>4. pc' \in Running => pc = "create_random" /\ pc' = "scan"
      BY Zenon, <2>1 DEF Running
    <2>5. pc' \in Running \cup {"create_random"} =>
            Len(loads'[0]) = NrLoads("hashing", table, 0)
      BY Zenon, <2>1, <2>2, <2>4 DEF Mapped
    <2>6. KeyMapsToLoad'
      BY Zenon, <2>1, <2>2 DEF Mapped, KeyMapsToLoad, Starting
    <2> QED
      BY Zenon, <2>1, <2>3, <2>5, <2>6 DEF Mapped
  <1>2. CASE FillSlot
    <2>1. PICK h \in 0 .. TotalBuckets - 1 :
             load' = [load EXCEPT ![i] =
                        HashIndex(h, TotalBuckets, NrLoads("hashing", table, 0))]
      BY Zenon, <1>2 DEF FillSlot
    <2>2. /\ pc = "scan" /\ pc' = "create" /\ UNCHANGED <<loads, table>>
          /\ i \in Slots /\ DOMAIN load = Slots /\ table \in Tables
      BY Zenon, <1>2 DEF FillSlot, sysVars, Owned, SlotTypes, Placed
    <2>3. Len(loads[0]) = NrLoads("hashing", table, 0)
      BY Zenon, <2>2 DEF Mapped, Running
    <2>4. HashIndex(h, TotalBuckets, NrLoads("hashing", table, 0))
            \in 0 .. Len(loads[0]) - 1
      BY Zenon, <2>2, <2>3, KeyInRange
    <2>5. KeyMapsToLoad'
      BY Zenon, <2>1, <2>2, <2>4 DEF Mapped, KeyMapsToLoad
    <2> QED
      BY Zenon, <2>2, <2>3, <2>5 DEF Mapped, Starting
  <1>3. CASE /\ UNCHANGED <<load, table, loads>>
             /\ pc' \in {pc, "exit1"} \cup Freeing \cup {"join_rebalance", "join_streams"}
    BY Zenon, <1>3 DEF Mapped, KeyMapsToLoad, Starting, Running, Freeing
  <1>4. CASE /\ UNCHANGED <<load, table, loads>>
             /\ \/ pc \in Starting /\ pc' \in Starting \cup {"create_hash"}
                \/ pc \in Running /\ pc' \in Running
    BY Zenon, <1>4 DEF Mapped, KeyMapsToLoad, Starting, Running
  <1>5. ASSUME InitPartitions \/ InitStreams \/ InitRebalance
        PROVE  /\ UNCHANGED <<load, table, loads>>
               /\ pc \in Starting /\ pc' \in Starting \cup {"create_hash"}
    BY Zenon, <1>5 DEF InitPartitions, InitStreams, InitRebalance, slotVars, Starting
  <1>6. ASSUME SkipSlot \/ CreateThread \/ IncStarted
        PROVE  /\ UNCHANGED <<load, table, loads>>
               /\ pc \in Running /\ pc' \in Running \cup {"exit1"}
    BY Zenon, <1>6 DEF SkipSlot, CreateThread, IncStarted, NextSlot, sysVars, slotVars, Running
  <1>7. ASSUME Shutdown
        PROVE  /\ UNCHANGED <<load, table, loads>>
               /\ pc' \in Freeing \cup {"join_rebalance", "join_streams"}
    BY Zenon, <1>7 DEF Shutdown, SetStopping, JoinRebalance, FinalizeStreams, FreeMappings,
       FreeStreams, FreeParams, sysVars, slotVars, Freeing
  <1>8. ASSUME \/ RebalanceEnds \/ UNCHANGED vars
               \/ \E c \in Cores : Lwt(c) \/ XstreamEnds(c) \/ \E l \in Loads : StartLwt(c, l)
        PROVE  UNCHANGED <<load, table, loads, pc>>
    BY Zenon, <1>8 DEF RebalanceEnds, XstreamEnds, Lwt, Release, ReadEnded, WriteEnded, StartLwt,
       vars, sysVars, slotVars
  <1> QED
    BY Zenon, <1>1, <1>2, <1>3, <1>4, <1>5, <1>6, <1>7, <1>8 DEF Next, Main

\* hash.c:50-67, main.c:120-123: if the partition of the hash mapping has a core,
\* every key is mapped to a load that was made, for any number of buckets, cores
\* and loads per core.
THEOREM KeysMapToLoads ==
    ASSUME TablesFilled
    PROVE  Spec => []KeyMapsToLoad
  <1>1. Spec => [](Alive /\ Owned)
    BY InitAlive, AliveStep, InitOwned, OwnedStep, PTL DEF Spec
  <1>2. Spec => []Placed
    BY <1>1, InitPlaced, PlacedStep, PTL DEF Spec
  <1>3. Init => Mapped
    BY Zenon DEF Init, Mapped, KeyMapsToLoad, Running
  <1>4. Alive /\ Owned /\ Placed /\ Mapped /\ [Next]_vars => Mapped'
    BY Zenon, MappedStep
  <1>5. Mapped => KeyMapsToLoad
    BY Zenon DEF Mapped
  <1> QED
    BY <1>1, <1>2, <1>3, <1>4, <1>5, PTL DEF Spec

-----------------------------------------------------------------------------
(* Types. *)

\* The tables are not arbitrarily long: the load array has a size.
TablesBounded == \E n \in Nat : \A t \in Tables : Len(t[1]) <= n

\* Loads is as large as the largest hash mapping, so the loads of each are in it.
LEMMA LoadBound ==
    ASSUME TablesBounded, NEW t \in Tables
    PROVE  0 .. NrLoads("hashing", t, 0) - 1 \subseteq Loads
  <1> DEFINE S == {NrLoads("hashing", u, 0) : u \in Tables}
             B == {b \in Nat : \A x \in S : x <= b}
  <1>1. S \subseteq Nat /\ NrLoads("hashing", t, 0) \in S
    BY Zenon, NrLoadsNat
  <1>2. B # {}
    <2>1. PICK n \in Nat : \A u \in Tables : Len(u[1]) <= n
      BY Zenon DEF TablesBounded
    <2>2. ASSUME NEW u \in Tables PROVE NrLoads("hashing", u, 0) <= n * LoadsPerXstream
      <3>1. Len(u[1]) \in Nat /\ NrLoads("hashing", u, 0) = Len(u[1]) * LoadsPerXstream
        BY Zenon, NrLoadsNat
      <3>2. Len(u[1]) <= n
        BY Zenon, <2>1
      <3> QED
        BY <3>1, <3>2, AppAssumption
    <2>3. n * LoadsPerXstream \in Nat
      BY AppAssumption
    <2> QED
      BY Zenon, <2>2, <2>3
  <1>3. PICK b \in B : \A x \in B : b <= x
    BY Zenon, <1>2, LeastNumber
  <1> HIDE DEF S
  <1>4. b \in S
    <2> SUFFICES ASSUME b \notin S PROVE FALSE
      OBVIOUS
    <2>1. \A x \in S : x < b
      BY <1>1, <1>3
    <2>2. b \in Nat /\ S \subseteq Nat /\ \E x \in S : x < b
      BY Zenon, <1>1, <2>1
    <2>3. b \in Nat /\ b - 1 \in Nat /\ \A x \in S : x <= b - 1
      <3> HIDE DEF B
      <3> QED
        BY <2>2, <2>1
    <2>4. b - 1 \in B
      BY Zenon, <2>3
    <2>5. b <= b - 1
      BY Zenon, <1>3, <2>4
    <2> QED
      BY <2>3, <2>5
  <1>5. Max(S) \in S /\ \A x \in S : Max(S) >= x
    <2>1. \A x \in S : b >= x
      <3>1. b \in Nat /\ \A x \in S : x \in Nat /\ x <= b
        BY Zenon, <1>1, <1>3
      <3>2. \A x, y \in Nat : x <= y => y >= x
        OBVIOUS
      <3> QED
        BY Zenon, <3>1, <3>2
    <2> QED
      BY Zenon, <1>4, <2>1 DEF Max
  <1>6. PICK m \in Nat, k \in Nat : m = Max(S) /\ k = NrLoads("hashing", t, 0) /\ m >= k
    BY Zenon, <1>1, <1>5
  <1>7. Loads = 0 .. m - 1
    BY Zenon, <1>6 DEF Loads, S
  <1>8. 0 .. k - 1 \subseteq 0 .. m - 1
    BY <1>6
  <1> QED
    BY Zenon, <1>6, <1>7, <1>8

\* Every entry of the map is a core and a partition.
LEMMA EntriesTyped ==
    ASSUME NEW t \in Tables
    PROVE  Entries(t) \in Seq(Cores \X {0, 1})
  <1> DEFINE E(p) == [k \in DOMAIN t[p] |-> <<t[p][k], p - 1>>]
             F(f, p) == IF p = 0 THEN <<>> ELSE f[p - 1] \o E(p)
             g == [p \in 0 .. 2 |-> IF p = 0 THEN <<>>
                                    ELSE IF p = 1 THEN <<>> \o E(1)
                                    ELSE (<<>> \o E(1)) \o E(2)]
             h == CHOOSE f : f = [p \in 0 .. 2 |-> F(f, p)]
  <1>1. Len(t) = 2 /\ t[1] \in Seq(Cores) /\ t[2] \in Seq(Cores)
    <2>1. t[1] \in Seq(Cores \ {0}) /\ t[2] \in Seq(Cores \ {0})
      BY AppAssumption
    <2> QED
      BY <2>1, AppAssumption
  <1>2. E(1) \in Seq(Cores \X {0, 1}) /\ E(2) \in Seq(Cores \X {0, 1})
    <2>1. ASSUME NEW p \in 1 .. 2 PROVE E(p) \in Seq(Cores \X {0, 1})
      <3>1. /\ Len(t[p]) \in Nat /\ DOMAIN t[p] = 1 .. Len(t[p])
            /\ \A k \in 1 .. Len(t[p]) : t[p][k] \in Cores
        BY <1>1
      <3>2. p - 1 \in {0, 1}
        OBVIOUS
      <3>3. E(p) \in [1 .. Len(t[p]) -> Cores \X {0, 1}]
        BY Zenon, <3>1, <3>2
      <3> HIDE DEF E
      <3> QED
        BY <3>1, <3>3
    <2> QED
      BY <2>1
  <1>3. g = [p \in 0 .. 2 |-> F(g, p)]
    <2> HIDE DEF E
    <2> QED
      OBVIOUS
  <1>4. h = [p \in 0 .. 2 |-> F(h, p)]
    BY Zenon, <1>3
  <1>5. Entries(t) = h[2]
    BY Zenon, <1>1 DEF Entries
  <1> HIDE DEF h, E
  <1>6. h[0] = <<>> /\ h[1] = h[0] \o E(1) /\ h[2] = h[1] \o E(2)
    <2>1. \A p \in 0 .. 2 : h[p] = F(h, p)
      BY Zenon, <1>4
    <2>2. h[0] = <<>>
      BY <2>1
    <2>3. h[1] = h[1 - 1] \o E(1) /\ h[2] = h[2 - 1] \o E(2)
      BY <2>1
    <2>4. 1 - 1 = 0 /\ 2 - 1 = 1
      OBVIOUS
    <2> QED
      BY Zenon, <2>2, <2>3, <2>4
  <1> QED
    BY <1>2, <1>5, <1>6

\* The map that abtst_init_partitions makes of a table.
LEMMA MapTyped ==
    ASSUME NEW t \in Tables
    PROVE  PartitionMap(t) \in [Cores -> {None, 0, 1}]
  <1> DEFINE e == Entries(t)
             Repeats(k) == \E j \in 1 .. k - 1 : e[j][1] = e[k][1]
             Done == {k \in DOMAIN e : \A j \in 1 .. k : ~Repeats(j)}
  <1>1. \A k \in DOMAIN e : e[k][2] \in {0, 1}
    BY EntriesTyped
  <1>2. ASSUME NEW c \in Cores, \E k \in Done : e[k][1] = c
        PROVE  e[CHOOSE k \in Done : e[k][1] = c][2] \in {0, 1}
    BY Zenon, <1>1, <1>2
  <1>3. \A c \in Cores : (IF \E k \in Done : e[k][1] = c
                          THEN e[CHOOSE k \in Done : e[k][1] = c][2]
                          ELSE None) \in {None, 0, 1}
    BY Zenon, <1>2
  <1> QED
    BY Zenon, <1>3 DEF PartitionMap

\* What main() and the runtime keep.
SysTyped ==
    /\ part_id \in [Cores -> {None, 0, 1}]
    /\ streams \in {"none", "live", "freed"}
    /\ xstreams \subseteq Cores
    /\ reb \in {"none", "run", "ended"}
    /\ nr_mappings \in 0 .. 2
    /\ loads \in [MappingIds -> Seq(Cores)]
    /\ stopping \in BOOLEAN /\ refilled \in BOOLEAN
    /\ params \in {"live", "freed"}

LwtType ==
    [step : {"idle", "work", "released", "counting"}, slot : Slots \cup {None},
     load : Loads \cup {None}, ptr : Loads \cup {None}, val : 0 .. Word - 1]

\* What the LWTs keep: one that has cleared its flag still finds a load in its
\* slot.
IoTyped ==
    /\ load \in [Slots -> Loads \cup {None}]
    /\ lwt \in [Cores -> LwtType]
    /\ \A c \in Cores : lwt[c].step = "released" => /\ lwt[c].slot \in Slots
                                                    /\ load[lwt[c].slot] \in Loads

\* The invariants give TypeOK.
LEMMA TypedSuffices ==
    Alive /\ Owned /\ Counted /\ Placed /\ SysTyped /\ IoTyped => TypeOK
  BY Zenon DEF TypeOK, Alive, Arrays, Owned, SlotTypes, Counted, CountTypes, Placed, SysTyped,
     IoTyped, LwtType

\* They hold at first.
LEMMA InitTyped == Init => SysTyped /\ IoTyped
  <1> SUFFICES ASSUME Init PROVE SysTyped /\ IoTyped
    BY Zenon
  <1>0. 0 \in 0 .. 2 /\ <<>> \in Seq(Cores)
    OBVIOUS
  <1>1. SysTyped
    BY Zenon, <1>0 DEF Init, SysTyped
  <1>2. 0 \in 0 .. Word - 1
    BY AppAssumption
  <1>3. Idle \in LwtType /\ Idle.step = "idle"
    BY <1>2 DEF Idle, LwtType
  <1>4. IoTyped
    BY Zenon, <1>3 DEF Init, IoTyped
  <1> QED
    BY Zenon, <1>1, <1>4

\* What main() and the runtime keep, at every step.
LEMMA SysTypedStep ==
    ASSUME Alive, Placed, SysTyped, [Next]_vars
    PROVE  SysTyped'
  <1>1. CASE InitPartitions
    <2>1. part_id' \in [Cores -> {None, 0, 1}]
      BY Zenon, <1>1, MapTyped DEF InitPartitions, Placed
    <2> QED
      BY Zenon, <1>1, <2>1 DEF InitPartitions, SysTyped, slotVars, ioVars
  <1>2. CASE InitStreams \/ InitRebalance \/ RebalanceEnds \/ \E c \in Cores : XstreamEnds(c)
    BY Zenon, <1>2 DEF InitStreams, InitRebalance, RebalanceEnds, XstreamEnds, SysTyped, slotVars,
       ioVars
  <1>3. CASE CreateHash \/ CreateRandom
    <2>1. /\ nr_mappings' = nr_mappings + 1 /\ nr_mappings \in {0, 1}
          /\ \E q : loads' = [loads EXCEPT ![nr_mappings] = q]
          /\ UNCHANGED <<part_id, streams, xstreams, reb, stopping, params, refilled>>
      BY Zenon, <1>3 DEF CreateHash, CreateRandom, CreateMapping, slotVars, ioVars, Alive, Arrays
    <2>2. nr_mappings' \in 0 .. 2
      BY <2>1
    <2>3. ASSUME NEW m \in MappingIds PROVE loads'[m] \in Seq(Cores)
      <3>1. PICK U : U \subseteq Cores /\ loads'[m] \in Seq(U)
        <4>1. Placed'
          BY Zenon, <1>3, CreatePlaced
        <4> QED
          BY Zenon, <4>1 DEF Placed, Evenly, StreamsOf
      <3> QED
        BY <3>1
    <2>4. loads' \in [MappingIds -> Seq(Cores)]
      BY Zenon, <2>1, <2>3 DEF SysTyped, MappingIds
    <2> QED
      BY Zenon, <2>1, <2>2, <2>4 DEF SysTyped
  <1>4. CASE SkipSlot \/ FillSlot \/ CreateThread \/ IncStarted
    <2>1. /\ UNCHANGED <<part_id, streams, xstreams, reb, nr_mappings, loads, stopping, params>>
          /\ refilled' = refilled \/ refilled' \in BOOLEAN
      BY Zenon, <1>4 DEF SkipSlot, FillSlot, CreateThread, IncStarted, sysVars, slotVars, ioVars
    <2> QED
      BY Zenon, <2>1 DEF SysTyped
  <1>5. CASE FreeMappings \/ FreeStreams \/ FreeParams
    BY Zenon, <1>5 DEF FreeMappings, FreeStreams, FreeParams, SysTyped, sysVars, slotVars, ioVars
  <1>6. CASE SetStopping \/ JoinRebalance \/ FinalizeStreams
    <2>1. /\ stopping' \in {stopping, TRUE}
          /\ UNCHANGED <<part_id, streams, xstreams, reb, nr_mappings, loads, params, refilled>>
      BY Zenon, <1>6 DEF SetStopping, JoinRebalance, FinalizeStreams, sysVars, slotVars, ioVars
    <2>2. stopping' \in BOOLEAN
      BY Zenon, <2>1 DEF SysTyped
    <2> QED
      BY Zenon, <2>1, <2>2 DEF SysTyped
  <1>7. CASE UNCHANGED vars \/ \E c \in Cores : Lwt(c) \/ \E l \in Loads : StartLwt(c, l)
    <2>1. UNCHANGED <<part_id, streams, xstreams, reb, nr_mappings, loads, stopping, params,
                      refilled>>
      BY Zenon, <1>7 DEF Lwt, Release, ReadEnded, WriteEnded, StartLwt, vars, sysVars, slotVars,
         ioVars
    <2> QED
      BY Zenon, <2>1 DEF SysTyped
  <1> QED
    BY Zenon, <1>1, <1>2, <1>3, <1>4, <1>5, <1>6, <1>7 DEF Next, Main, Shutdown

\* What the LWTs keep, at every step.
LEMMA IoTypedStep ==
    ASSUME TablesFilled, TablesBounded, Owned, Counted, Placed, IoTyped, [Next]_vars
    PROVE  IoTyped'
  <1>1. CASE FillSlot
    <2>1. PICK h \in 0 .. TotalBuckets - 1 :
             load' = [load EXCEPT ![i] =
                        HashIndex(h, TotalBuckets, NrLoads("hashing", table, 0))]
      BY Zenon, <1>1 DEF FillSlot
    <2>2. UNCHANGED lwt /\ i \in Slots /\ table \in Tables
      BY Zenon, <1>1 DEF FillSlot, Owned, SlotTypes, Placed
    <2>3. HashIndex(h, TotalBuckets, NrLoads("hashing", table, 0)) \in Loads
      BY Zenon, <2>2, LoadBound, KeyInRange
    <2> QED
      BY Zenon, <2>1, <2>2, <2>3 DEF IoTyped
  <1>2. ASSUME NEW c \in Cores, Lwt(c) \/ \E l \in Loads : StartLwt(c, l)
        PROVE  IoTyped'
    <2>1. UNCHANGED load
      BY Zenon, <1>2 DEF Lwt, Release, ReadEnded, WriteEnded, StartLwt, slotVars
    <2>2. PICK r : lwt' = [lwt EXCEPT ![c] = r] /\ lwt'[c] = r
      BY Zenon, <1>2 DEF Lwt, Release, ReadEnded, WriteEnded, StartLwt, IoTyped
    <2>3. 0 \in 0 .. Word - 1
      BY AppAssumption
    <2>4. r \in LwtType /\ (r.step = "released" => r.slot \in Slots /\ load[r.slot] \in Loads)
      <3>1. CASE \E l \in Loads : StartLwt(c, l)
        <4>1. PICK l \in Loads : StartLwt(c, l)
          BY Zenon, <3>1
        <4>2. Head(pool[l]) \in Slots
          BY <4>1 DEF StartLwt, Owned, SlotTypes
        <4>3. r = [step |-> "work", slot |-> Head(pool[l]), load |-> l, ptr |-> None, val |-> 0]
          BY Zenon, <2>2, <4>1 DEF StartLwt, IoTyped
        <4> QED
          BY <2>3, <4>2, <4>3 DEF LwtType
      <3>2. CASE Release(c)
        <4>1. /\ lwt[c].step = "work" /\ lwt[c].slot \in Slots /\ lwt[c].load \in Loads
              /\ load[lwt[c].slot] = lwt[c].load
          BY Zenon, <3>2 DEF Release, Owned, SlotTypes, SlotOwned, Working, Counted, CountTypes
        <4>2. r = [step |-> "released", slot |-> lwt[c].slot, load |-> lwt[c].load,
                   ptr |-> None, val |-> 0]
          BY Zenon, <2>2, <3>2 DEF Release, IoTyped
        <4> QED
          BY <2>3, <4>1, <4>2 DEF LwtType
      <3>3. CASE ReadEnded(c)
        <4>1. PICK l \in Loads : l = load[lwt[c].slot]
          BY Zenon, <3>3 DEF ReadEnded, IoTyped
        <4>2. lwt[c].load \in Loads /\ pkt_ended[l] \in 0 .. Word - 1
          BY Zenon, <3>3 DEF ReadEnded, Counted, CountTypes
        <4>3. r = [step |-> "counting", slot |-> None, load |-> lwt[c].load, ptr |-> l,
                   val |-> pkt_ended[l]]
          BY Zenon, <2>2, <3>3, <4>1 DEF ReadEnded, IoTyped
        <4> QED
          BY <4>2, <4>3 DEF LwtType
      <3>4. CASE WriteEnded(c)
        <4>1. r = Idle
          BY Zenon, <2>2, <3>4 DEF WriteEnded, IoTyped
        <4> QED
          BY <2>3, <4>1 DEF Idle, LwtType
      <3> QED
        BY Zenon, <1>2, <3>1, <3>2, <3>3, <3>4 DEF Lwt
    <2> QED
      BY Zenon, <2>1, <2>2, <2>4 DEF IoTyped
  <1>3. CASE UNCHANGED <<load, lwt>>
    BY Zenon, <1>3 DEF IoTyped
  <1>4. ASSUME InitPartitions \/ InitStreams \/ InitRebalance \/ CreateHash \/ CreateRandom
                 \/ SkipSlot \/ CreateThread \/ IncStarted \/ Shutdown
        PROVE  UNCHANGED <<load, lwt>>
    BY Zenon, <1>4 DEF InitPartitions, InitStreams, InitRebalance, CreateHash, CreateRandom,
       CreateMapping, SkipSlot, CreateThread, IncStarted, Shutdown, SetStopping, JoinRebalance,
       FinalizeStreams, FreeMappings, FreeStreams, FreeParams, slotVars, ioVars
  <1>5. ASSUME RebalanceEnds \/ UNCHANGED vars \/ \E c \in Cores : XstreamEnds(c)
        PROVE  UNCHANGED <<load, lwt>>
    BY Zenon, <1>5 DEF RebalanceEnds, XstreamEnds, vars, slotVars, ioVars
  <1> QED
    BY Zenon, <1>1, <1>2, <1>3, <1>4, <1>5 DEF Next, Main

\* For any machine and any tables that give the hash mapping a core, and with any
\* number of slots: every variable keeps its type.  In particular no slot and no
\* LWT ever points outside the load array, also not an LWT that reads its slot
\* after it has given it back (st.c:47-49).
THEOREM AppTypes ==
    ASSUME TablesFilled, TablesBounded
    PROVE  Spec => []TypeOK
  <1>1. Spec => [](Alive /\ Owned)
    BY InitAlive, AliveStep, InitOwned, OwnedStep, PTL DEF Spec
  <1>2. Spec => [](Placed /\ Counted)
    BY <1>1, InitPlaced, PlacedStep, InitCounted, CountedStep, PTL DEF Spec
  <1>3. Alive /\ Owned /\ Placed /\ Counted /\ SysTyped /\ IoTyped /\ [Next]_vars
          => (SysTyped /\ IoTyped)'
    BY Zenon, SysTypedStep, IoTypedStep
  <1>4. Spec => [](SysTyped /\ IoTyped)
    BY <1>1, <1>2, <1>3, InitTyped, PTL DEF Spec
  <1> QED
    BY <1>1, <1>2, <1>4, TypedSuffices, PTL

-----------------------------------------------------------------------------
(* No slot is lost. *)

\* The inductive invariant: no slot is in use before main() fills the first one,
\* and the LWT that main() is about to create has a pool to go to.
Kept ==
    /\ pc \in Starting \cup {"create_hash", "create_random"} => \A s \in Slots : ~used[s]
    /\ pc = "create" => load[i] \in Loads
    /\ NoSlotLeaked

\* Steps that change no slot and no I/O, and do not bring main() into the loop.
LEMMA KeptUnchanged ==
    ASSUME Kept, UNCHANGED <<used, load, pool, lwt>>,
           \/ UNCHANGED <<pc, i>>
           \/ pc \in {"scan", "count"} /\ pc' = "scan"
           \/ pc \in Starting \cup {"create_hash", "create_random"}
              /\ pc' \in Starting \cup {"create_hash", "create_random", "scan"}
           \/ pc' \notin Starting \cup {"create_hash", "create_random"} \cup Running
    PROVE  Kept'
  <1>1. Working' = Working
    BY Zenon DEF Working
  <1>2. ASSUME NEW s \in Slots PROVE HasIo(s)' <=> HasIo(s)
    BY Zenon, <1>1 DEF HasIo
  <1>3. NoSlotLeaked'
    BY Zenon, <1>2 DEF Kept, NoSlotLeaked, Starting, Running
  <1> QED
    BY Zenon, <1>3 DEF Kept, Starting, Running

\* The slot that is filled is the one that main() is about to create.
LEMMA FillKept ==
    ASSUME TablesFilled, TablesBounded, Owned, Placed, Kept, FillSlot
    PROVE  Kept'
  <1>1. /\ pc = "scan" /\ pc' = "create" /\ i \in Slots /\ table \in Tables
        /\ used' = [used EXCEPT ![i] = TRUE] /\ DOMAIN load = Slots
        /\ UNCHANGED <<i, pool, lwt>>
    BY Zenon DEF FillSlot, Owned, SlotTypes, Placed
  <1>2. PICK h \in 0 .. TotalBuckets - 1 :
           load' = [load EXCEPT ![i] =
                      HashIndex(h, TotalBuckets, NrLoads("hashing", table, 0))]
    BY Zenon DEF FillSlot
  <1>3. load'[i] \in Loads
    BY Zenon, <1>1, <1>2, LoadBound, KeyInRange
  <1>4. Working' = Working
    BY Zenon, <1>1 DEF Working
  <1>5. ASSUME NEW s \in Slots PROVE HasIo(s)' <=> HasIo(s)
    BY Zenon, <1>1, <1>4 DEF HasIo
  <1>6. \A s \in Slots \ {i} : used'[s] = used[s]
    BY Zenon, <1>1 DEF Owned, SlotTypes
  <1>7. NoSlotLeaked'
    BY Zenon, <1>1, <1>5, <1>6 DEF Kept, NoSlotLeaked
  <1> QED
    BY Zenon, <1>1, <1>3, <1>7 DEF Kept, Starting

\* Its LWT goes to the pool of its load, or main() leaves the loop.
LEMMA CreateKept == ASSUME Owned, Kept, CreateThread PROVE Kept'
  <1>1. /\ pc = "create" /\ i \in Slots /\ load[i] \in Loads
        /\ pool \in [Loads -> Seq(Slots)]
        /\ UNCHANGED <<i, used, load, lwt>>
    BY Zenon DEF CreateThread, slotVars, Owned, SlotTypes, Kept
  <1>2. CASE pc' = "exit1"
    BY Zenon, <1>2 DEF Kept, NoSlotLeaked, Starting
  <1>3. CASE pc' = "count" /\ pool' = [pool EXCEPT ![load[i]] = Append(@, i)]
    <2>1. /\ \A l \in Loads : \A k \in 1 .. Len(pool[l]) :
               k \in 1 .. Len(pool'[l]) /\ pool'[l][k] = pool[l][k]
          /\ Len(pool[load[i]]) + 1 \in 1 .. Len(pool'[load[i]])
          /\ pool'[load[i]][Len(pool[load[i]]) + 1] = i
      BY <1>1, <1>3
    <2>2. Working' = Working
      BY Zenon, <1>1 DEF Working
    <2>3. HasIo(i)'
      BY Zenon, <1>1, <2>1 DEF HasIo
    <2>4. ASSUME NEW s \in Slots, HasIo(s) PROVE HasIo(s)'
      BY Zenon, <1>1, <2>1, <2>2, <2>4 DEF HasIo
    <2>5. NoSlotLeaked'
      BY Zenon, <1>1, <1>3, <2>3, <2>4 DEF Kept, NoSlotLeaked
    <2> QED
      BY Zenon, <1>3, <2>5 DEF Kept, Starting
  <1> QED
    BY Zenon, <1>2, <1>3 DEF CreateThread

\* An LWT that starts is no longer in the pool, and works.
LEMMA StartKept ==
    ASSUME Owned, Kept, NEW c \in Cores, NEW l \in Loads, StartLwt(c, l)
    PROVE  Kept'
  <1>1. /\ lwt[c].step = "idle" /\ pool[l] # <<>>
        /\ pool \in [Loads -> Seq(Slots)] /\ DOMAIN lwt = Cores
        /\ pool' = [pool EXCEPT ![l] = Tail(@)]
        /\ lwt' = [lwt EXCEPT ![c] = [step |-> "work", slot |-> Head(pool[l]),
                                      load |-> l, ptr |-> None, val |-> 0]]
        /\ UNCHANGED <<pc, i, used, load>>
    BY Zenon DEF StartLwt, slotVars, Owned, SlotTypes
  <1>2. /\ \A m \in Loads \ {l} : pool'[m] = pool[m]
        /\ \A k \in 1 .. Len(pool[l]) :
             \/ pool[l][k] = Head(pool[l])
             \/ k - 1 \in 1 .. Len(pool'[l]) /\ pool'[l][k - 1] = pool[l][k]
    BY <1>1
  <1>3. c \in Working' /\ lwt'[c].slot = Head(pool[l])
    BY Zenon, <1>1 DEF Working
  <1>4. \A d \in Working : d \in Working' /\ lwt'[d] = lwt[d]
    BY Zenon, <1>1 DEF Working
  <1>5. ASSUME NEW s \in Slots, HasIo(s) PROVE HasIo(s)'
    <2>1. CASE \E m \in Loads : \E k \in 1 .. Len(pool[m]) : pool[m][k] = s
      <3>1. PICK m \in Loads : \E k \in 1 .. Len(pool[m]) : pool[m][k] = s
        BY Zenon, <2>1
      <3>2. PICK k \in 1 .. Len(pool[m]) : pool[m][k] = s
        BY Zenon, <3>1
      <3>3. CASE m # l
        BY Zenon, <1>2, <3>2, <3>3 DEF HasIo
      <3>4. CASE m = l
        BY Zenon, <1>2, <1>3, <3>2, <3>4 DEF HasIo
      <3> QED
        BY Zenon, <3>3, <3>4
    <2>2. CASE \E d \in Working : lwt[d].slot = s
      BY Zenon, <1>4, <2>2 DEF HasIo
    <2> QED
      BY Zenon, <1>5, <2>1, <2>2 DEF HasIo
  <1>6. NoSlotLeaked'
    BY Zenon, <1>1, <1>5 DEF Kept, NoSlotLeaked
  <1> QED
    BY Zenon, <1>1, <1>6 DEF Kept

\* An LWT that has worked clears the flag of the slot it gives up.
LEMMA LwtKept == ASSUME Owned, Kept, NEW c \in Cores, Lwt(c) PROVE Kept'
  <1>1. /\ \A d \in Cores \ {c} : lwt'[d] = lwt[d]
        /\ UNCHANGED <<pc, i, load, pool>>
    BY Zenon DEF Lwt, Release, ReadEnded, WriteEnded, slotVars, Owned, SlotTypes
  <1>2. \A d \in Working \ {c} : d \in Working' /\ lwt'[d] = lwt[d]
    BY Zenon, <1>1 DEF Working
  <1>3. /\ \A s \in Slots : used'[s] => used[s]
        /\ c \in Working => ~used'[lwt[c].slot]
    BY Zenon DEF Lwt, Release, ReadEnded, WriteEnded, slotVars, Owned, SlotTypes, Working
  <1>4. ASSUME NEW s \in Slots, HasIo(s), used'[s] PROVE HasIo(s)'
    <2>1. CASE \E m \in Loads : \E k \in 1 .. Len(pool[m]) : pool[m][k] = s
      BY Zenon, <1>1, <2>1 DEF HasIo
    <2>2. CASE \E d \in Working : lwt[d].slot = s
      <3>1. PICK d \in Working : lwt[d].slot = s
        BY Zenon, <2>2
      <3>2. d # c
        BY Zenon, <1>3, <1>4, <3>1
      <3> QED
        BY Zenon, <1>2, <3>1, <3>2 DEF HasIo
    <2> QED
      BY Zenon, <1>4, <2>1, <2>2 DEF HasIo
  <1>5. NoSlotLeaked'
    BY Zenon, <1>1, <1>3, <1>4 DEF Kept, NoSlotLeaked
  <1> QED
    BY Zenon, <1>1, <1>3, <1>5 DEF Kept

\* Every step keeps the invariant.
LEMMA KeptStep ==
    ASSUME TablesFilled, TablesBounded, Owned, Placed, Kept, [Next]_vars
    PROVE  Kept'
  <1>1. CASE InitPartitions \/ InitStreams \/ InitRebalance \/ CreateHash \/ CreateRandom
    <2>1. /\ UNCHANGED <<used, load, pool, lwt>>
          /\ pc \in Starting \cup {"create_hash", "create_random"}
          /\ pc' \in Starting \cup {"create_hash", "create_random", "scan", "exit1"}
      BY Zenon, <1>1 DEF InitPartitions, InitStreams, InitRebalance, CreateHash, CreateRandom,
         CreateMapping, slotVars, ioVars, Starting
    <2>2. "exit1" \notin Starting \cup {"create_hash", "create_random"} \cup Running
      BY Zenon DEF Starting, Running
    <2> QED
      BY Zenon, <2>1, <2>2, KeptUnchanged
  <1>2. CASE SkipSlot \/ IncStarted \/ Shutdown
    <2>1. /\ UNCHANGED <<used, load, pool, lwt>>
          /\ \/ pc \in {"scan", "count"} /\ pc' = "scan"
             \/ pc' \in {"exit1", "join_rebalance", "join_streams"} \cup Freeing
      BY Zenon, <1>2 DEF SkipSlot, IncStarted, NextSlot, Shutdown, SetStopping, JoinRebalance,
         FinalizeStreams, FreeMappings, FreeStreams, FreeParams, slotVars, ioVars, Freeing
    <2>2. ASSUME pc' \in {"exit1", "join_rebalance", "join_streams"} \cup Freeing
          PROVE  pc' \notin Starting \cup {"create_hash", "create_random"} \cup Running
      BY Zenon, <2>2 DEF Starting, Running, Freeing
    <2> QED
      BY Zenon, <2>1, <2>2, KeptUnchanged
  <1>3. CASE RebalanceEnds \/ (\E c \in Cores : XstreamEnds(c)) \/ UNCHANGED vars
    <2>1. UNCHANGED <<pc, i, used, load, pool, lwt>>
      BY Zenon, <1>3 DEF RebalanceEnds, XstreamEnds, vars, slotVars, ioVars
    <2> QED
      BY Zenon, <2>1, KeptUnchanged
  <1>4. CASE FillSlot \/ CreateThread
    BY Zenon, <1>4, FillKept, CreateKept
  <1>5. CASE \E c \in Cores : Lwt(c) \/ \E l \in Loads : StartLwt(c, l)
    BY Zenon, <1>5, StartKept, LwtKept
  <1> QED
    BY Zenon, <1>1, <1>2, <1>3, <1>4, <1>5 DEF Next, Main

\* main.c:105-134, st.c:47: for any machine, any number of slots and any tables
\* that give the hash mapping a core, and wherever the schedulers start the LWTs:
\* while main() runs its loop, every slot marked used has its I/O under way.
THEOREM SlotsAreKept ==
    ASSUME TablesFilled, TablesBounded
    PROVE  Spec => []NoSlotLeaked
  <1>1. Spec => [](Alive /\ Owned)
    BY InitAlive, AliveStep, InitOwned, OwnedStep, PTL DEF Spec
  <1>2. Spec => []Placed
    BY <1>1, InitPlaced, PlacedStep, PTL DEF Spec
  <1>3. Init => Kept
    BY Zenon DEF Init, Kept, NoSlotLeaked
  <1>4. Owned /\ Placed /\ Kept /\ [Next]_vars => Kept'
    BY Zenon, KeptStep
  <1>5. Kept => NoSlotLeaked
    BY Zenon DEF Kept
  <1> QED
    BY <1>1, <1>2, <1>3, <1>4, <1>5, PTL DEF Spec
=============================================================================
