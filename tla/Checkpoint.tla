----------------------------- MODULE Checkpoint -----------------------------
(***************************************************************************)
(* What pbft_checkpoint_manager does to the state of one replica, as       *)
(* functions from the state before a call to the state after it.           *)
(*                                                                         *)
(* database_pbft_service::service_state_hash returns the same hash for     *)
(* every sequence, so a checkpoint is its sequence number.  A manager is   *)
(*   local    the sequence of latest_local_checkpoint, 0 for the initial   *)
(*   stable   the sequence of latest_stable_checkpoint                     *)
(*   proof    the senders in latest_stable_checkpoint_proof                *)
(*   partial  partial_checkpoint_proofs: sequence -> senders               *)
(*   catchup  the checkpoint captured by trigger_catchup_timer, 0 when no  *)
(*            timer is armed                                               *)
(* All but catchup are persistent<>.                                       *)
(***************************************************************************)
EXTENDS PbftQuorum

(* The manager of a node that starts with empty storage.                   *)
InitialManager(Seqs) ==
    [local |-> 0, stable |-> 0, proof |-> {},
     partial |-> [s \in Seqs |-> {}], catchup |-> 0]

Managers(Peers, Seqs) ==
    [local : Seqs \cup {0}, stable : Seqs \cup {0}, proof : SUBSET Peers,
     partial : [Seqs -> SUBSET Peers], catchup : Seqs \cup {0}]

(* stabilize_checkpoint: s becomes stable, on the evidence collected for   *)
(* it; evidence for s and for anything older is dropped.                   *)
stabilize_checkpoint(c, s, attestants) ==
    [c EXCEPT !.stable = s,
              !.proof = attestants,
              !.partial = [t \in DOMAIN c.partial |->
                              IF t > s THEN c.partial[t] ELSE {}]]

(* send_delayed_state_request: arms the one catch-up timer, replacing the  *)
(* one that may be pending.                                                *)
send_delayed_state_request(c, s) == [c EXCEPT !.catchup = s]

(* maybe_stabilize_checkpoint: f+1 attestants among the current peers make *)
(* s stable; a replica that is behind it will ask for its state.           *)
maybe_stabilize_checkpoint(c, s, Peers) ==
    IF Cardinality(c.partial[s] \cap Peers) >= honest_member_size(Cardinality(Peers))
    THEN LET stabilized == stabilize_checkpoint(c, s, c.partial[s])
         IN  IF c.local < s THEN send_delayed_state_request(stabilized, s)
                            ELSE stabilized
    ELSE c

(***************************************************************************)
(* handle_checkpoint_message called on messages for checkpoint s from each *)
(* of the senders, one after the other.  The calls commute: each adds its  *)
(* sender to the evidence for s, which is the partial proof until s is     *)
(* stable and the stable proof from then on.  A message that arrives off   *)
(* the network is the case of one sender; the proofs carried by VIEWCHANGE *)
(* and SET_STATE messages have several.                                    *)
(***************************************************************************)
handle_checkpoint_messages(c, s, senders, Peers) ==
    IF senders = {} \/ s < c.local THEN c
    ELSE IF s = c.stable THEN [c EXCEPT !.proof = @ \cup senders]
    ELSE maybe_stabilize_checkpoint(
             [c EXCEPT !.partial[s] = @ \cup senders], s, Peers)

(* Mutant of local_checkpoint_reached: off by one *)
local_checkpoint_reached_late(c, s) == [c EXCEPT !.local = s + 1]

(* local_checkpoint_reached, past the test that throws when s is not newer *)
(* than the previous local checkpoint.                                     *)
local_checkpoint_reached(c, s) == [c EXCEPT !.local = s]

=============================================================================
