---------------------------- MODULE MCRebalance ----------------------------
(***************************************************************************)
(* Small machines for the rebalancer.                                      *)
(***************************************************************************)
EXTENDS Rebalance, TLC

CONSTANT SecondMapping   \* the loads of the mapping of partition 1

ASSUME SecondMappingAssumption == SecondMapping \subseteq Loads

\* The loads of the mappings of the partitions 0 and 1.
Mappings == [l \in Loads |-> IF l \in SecondMapping THEN 1 ELSE 0]

\* The loads of the first mapping are interchangeable.
LoadSymmetry == Permutations(Loads \ SecondMapping)

\* Level 1: one NUMA, one partition.
OneNuma == [c \in Cores |-> 0]
OnePart == [c \in Cores |-> 0]

\* Level 2: one NUMA, partition 0 has the cores 1 and 2, partition 1 the rest.
TwoAndRest == [c \in Cores |-> IF c <= 2 THEN 0 ELSE 1]

\* Level 3: the cores 1 and 2 in NUMA 0, the rest in NUMA 1.
Halves == [c \in Cores |-> IF c <= 2 THEN 0 ELSE 1]

\* Power saving: cores 1 and 2 in NUMA 0, core n > 2 in NUMA n - 2.
LargeFirst == [c \in Cores |-> IF c <= 2 THEN 0 ELSE c - 2]
\* ... and partition 0 on core 1 alone.
FirstApart == [c \in Cores |-> IF c = 1 THEN 0 ELSE 1]
=============================================================================
