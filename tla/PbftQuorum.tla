----------------------------- MODULE PbftQuorum -----------------------------
(***************************************************************************)
(* The swarm-size arithmetic of pbft.cpp.  Every threshold of the protocol *)
(* is computed from the number of peers by one of these three functions:   *)
(* the number of faulty nodes a swarm of that size is meant to tolerate, a *)
(* group too large to be all faulty, and a voting quorum.  C++ integer     *)
(* division rounds down, as \div does on naturals.                         *)
(***************************************************************************)
EXTENDS Integers, FiniteSets

faulty_nodes_bound(swarm_size) == (swarm_size - 1) \div 3

honest_member_size(swarm_size) == faulty_nodes_bound(swarm_size) + 1

honest_majority_size(swarm_size) == faulty_nodes_bound(swarm_size) * 2 + 1

=============================================================================
