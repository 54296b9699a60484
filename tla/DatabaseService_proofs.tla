----------------------- MODULE DatabaseService_proofs -----------------------
(***************************************************************************)
(* While the process runs, DatabaseService implements the safety part of   *)
(* ServiceContract, for any number of sequences, and its saved state is    *)
(* that of last_checkpoint.  The invariant says what the database holds at *)
(* each point of the loop: the operations before next_request_sequence     *)
(* between iterations, that one too after it was executed, and those of    *)
(* the loaded state while set_service_state has not moved                  *)
(* next_request_sequence yet.                                              *)
(***************************************************************************)
EXTENDS DatabaseService, TLAPS

USE ZenonT(60)

(* The points of an iteration after the operation was executed.            *)
Executed == {"checkpoint", "saved", "post", "remove", "advance"}

Types ==
    /\ next \in Seqs \cup {MaxSeq + 1}
    /\ requested \subseteq Seqs /\ posted \subseteq requested
    /\ stored \subseteq requested /\ stored \subseteq awaiting
    /\ pc \in {"idle", "process", "loaded"} \cup Executed
    /\ pc \in Executed => next \in requested
    /\ pc = "loaded" => loading \in Seqs /\ loading >= next

Database ==
    db = Upto(IF pc = "loaded" THEN loading ELSE IF pc \in Executed THEN next ELSE next - 1)

Snapshot ==
    /\ pc = "saved" => snapshot = Upto(next)
    /\ pc = "loaded" => snapshot = Upto(loading)
    /\ SnapshotMatches

IInv == Types /\ Database /\ Snapshot

-----------------------------------------------------------------------------
(* Upto(s) is the sequence 1, 2, ... s.                                    *)
LEMMA UptoFacts ==
    ASSUME NEW s \in Nat
    PROVE  /\ Upto(s) \in Seq(Nat) /\ Len(Upto(s)) = s
           /\ Append(Upto(s), s + 1) = Upto(s + 1)
<1>1. Upto(s) \in Seq(Nat) /\ Len(Upto(s)) = s
  BY SMTT(60) DEF Upto
<1>2. Append(Upto(s), s + 1) = Upto(s + 1)
  BY SMTT(60), <1>1 DEF Upto
<1> QED BY <1>1, <1>2

(* A new service satisfies the invariant.                                  *)
LEMMA InitIInv == Init => IInv
<1> SUFFICES ASSUME Init PROVE IInv
  OBVIOUS
<1>1. Types
  BY SMTT(60), BoundsAssumption DEF Init, Types, Seqs, Executed
<1>2. Database
  <2>1. Upto(0) = <<>>
    BY SMTT(60) DEF Upto
  <2> QED BY SMTT(60), <2>1 DEF Init, Database, Executed
<1>3. Snapshot
  BY DEF Init, Snapshot, SnapshotMatches
<1> QED BY <1>1, <1>2, <1>3 DEF IInv

(* Every step keeps the invariant.                                         *)
LEMMA NextIInv == IInv /\ [Next]_vars => IInv'
<1> SUFFICES ASSUME IInv, [Next]_vars PROVE IInv'
  OBVIOUS
<1> USE BoundsAssumption DEF IInv, Types, Database, Snapshot, SnapshotMatches, Executed, Seqs,
        storageVars, checkpointVars
<1>1. ASSUME NEW s \in Seqs, PostApply(s) PROVE IInv'
  BY <1>1 DEF PostApply
<1>2. ASSUME NEW s \in Seqs, apply_operation(s) PROVE IInv'
  BY <1>2 DEF apply_operation
<1>3. ASSUME NEW s \in Seqs, RunHandler(s) PROVE IInv'
  BY <1>3 DEF RunHandler
<1>4. CASE Execute
  <2>1. next \in awaiting /\ next \in Nat \ {0} /\ next - 1 \in Nat
    BY SMTT(60), <1>4 DEF Execute
  <2>2. db' = Upto(next)
    <3>1. db = Upto(next - 1)
      BY <1>4 DEF Execute
    <3>2. next - 1 + 1 = next
      BY SMTT(60), <2>1
    <3> QED BY <1>4, <2>1, <3>1, <3>2, UptoFacts DEF Execute
  <2> QED BY <1>4, <2>1, <2>2 DEF Execute
<1>5. CASE SaveState
  BY <1>5 DEF SaveState
<1>6. CASE NoteCheckpoint
  BY <1>6 DEF NoteCheckpoint
<1>7. CASE PostHandler
  BY <1>7 DEF PostHandler
<1>8. CASE RemoveEntry
  BY <1>8 DEF RemoveEntry
<1>9. CASE Advance
  BY SMTT(60), <1>9 DEF Advance
<1>10. CASE Unlock
  BY <1>10 DEF Unlock
<1>11. ASSUME NEW s \in Checkpoints, set_service_state(s) PROVE IInv'
  BY <1>11 DEF set_service_state, Checkpoints
<1>12. ASSUME NEW s \in Checkpoints, get_service_state(s) PROVE IInv'
  BY <1>12 DEF get_service_state
<1>13. CASE DropBacklog
  <2>1. loading \in Seqs /\ next' = loading + 1 /\ next' - 1 = loading /\ loading \in Nat
    BY SMTT(60), <1>13 DEF DropBacklog
  <2>2. Types'
    BY SMTT(60), <1>13, <2>1 DEF DropBacklog
  <2>3. Database'
    BY <1>13, <2>1 DEF DropBacklog
  <2>4. Snapshot'
    BY <1>13, <2>1 DEF DropBacklog
  <2> QED BY <2>2, <2>3, <2>4
<1>14. CASE GetSavedState
  BY <1>14 DEF GetSavedState
<1>15. CASE UNCHANGED vars
  BY <1>15 DEF vars
<1> QED BY <1>1, <1>2, <1>3, <1>4, <1>5, <1>6, <1>7, <1>8, <1>9, <1>10, <1>11, <1>12, <1>13,
           <1>14, <1>15 DEF Next, process_awaiting_operations

(* Every step of the service is a step of the contract or changes nothing  *)
(* the contract speaks of.                                                 *)
LEMMA StepRefines == IInv /\ [Next]_vars => [Contract!Next]_Contract!vars
<1> SUFFICES ASSUME IInv, [Next]_vars PROVE [Contract!Next]_Contract!vars
  OBVIOUS
<1> USE DEF Contract!vars, storageVars, checkpointVars
<1>1. ASSUME NEW s \in Seqs, PostApply(s) PROVE Contract!Next
  BY <1>1 DEF PostApply, Contract!Next, Contract!Request
<1>2. CASE Execute
  <2>1. /\ next \in awaiting /\ next \in requested /\ db = Upto(next - 1)
        /\ next - 1 \in Nat /\ next \in Int
    BY SMTT(60), <1>2, BoundsAssumption DEF Execute, IInv, Types, Database, Executed, Seqs
  <2>2. Len(db) + 1 = next
    <3>1. Len(Upto(next - 1)) = next - 1
      BY <2>1, UptoFacts
    <3>2. Len(db) = next - 1
      BY <2>1, <3>1
    <3> QED BY SMTT(60), <2>1, <3>2
  <2> QED BY <1>2, <2>1, <2>2 DEF Execute, Contract!Next, Contract!Execute
<1>3. ASSUME NEW s \in Checkpoints, set_service_state(s) PROVE Contract!Next
  <2>1. next - 1 \in Nat /\ db = Upto(next - 1) /\ next <= s /\ s \in Seqs /\ s \in Int
    BY SMTT(60), <1>3, BoundsAssumption DEF set_service_state, IInv, Types, Database, Executed, Seqs, Checkpoints
  <2>2. s > Len(db)
    BY SMTT(60), <2>1, UptoFacts DEF IInv, Types, Seqs
  <2>3. Contract!Load(s)
    BY <1>3, <2>2 DEF set_service_state, Contract!Load, Upto
  <2> QED BY <2>1, <2>3 DEF Contract!Next
<1>4. ASSUME \/ \E s \in Seqs : apply_operation(s) \/ RunHandler(s)
             \/ \E s \in Checkpoints : get_service_state(s)
             \/ SaveState \/ NoteCheckpoint \/ PostHandler \/ RemoveEntry \/ Advance \/ Unlock
             \/ DropBacklog \/ GetSavedState \/ UNCHANGED vars
      PROVE  UNCHANGED <<requested, db>>
  BY <1>4 DEF apply_operation, RunHandler, get_service_state, SaveState, NoteCheckpoint,
     PostHandler, RemoveEntry, Advance, Unlock, DropBacklog, GetSavedState, vars
<1> QED BY <1>1, <1>2, <1>3, <1>4 DEF Next, process_awaiting_operations

(* The service executes in order and at most once, for any number of       *)
(* operations handed over in any order and any number of times, with       *)
(* states loaded in between, as long as the process runs.                  *)
THEOREM ContractTheorem == Spec => Contract!SafeSpec
<1>1. Init => Contract!Init
  BY DEF Init, Contract!Init
<1> QED BY <1>1, InitIInv, NextIInv, StepRefines, PTL DEF Spec, Contract!SafeSpec

(* The saved state is that of last_checkpoint between the steps that write *)
(* the two.                                                                *)
THEOREM SnapshotTheorem == Spec => []SnapshotMatches
<1>1. IInv => SnapshotMatches
  BY DEF IInv, Snapshot
<1> QED BY <1>1, InitIInv, NextIInv, PTL DEF Spec

-----------------------------------------------------------------------------
(* Types, also across restarts: next_request_sequence stays within bounds  *)
(* because an operation that is executed, or a state that is loaded, is    *)
(* one of the sequences in use.                                            *)
TInv ==
    /\ TypeOK
    /\ pc \in Executed => next \in Seqs
    /\ pc = "loaded" => loading \in Seqs

LEMMA InitTInv == Init => TInv
<1> SUFFICES ASSUME Init PROVE TInv
  OBVIOUS
<1>1. <<>> \in Seq(Seqs)
  BY SMTT(60)
<1>2. nextCheckpoint \in Nat
  <2> DEFINE q == 1 \div CheckpointInterval
  <2>1. q \in Nat
    BY SMTT(60), BoundsAssumption
  <2>2. nextCheckpoint = (q + 1) * CheckpointInterval
    BY DEF Init
  <2> HIDE DEF q
  <2> QED BY SMTT(60), <2>1, <2>2, BoundsAssumption
<1> QED BY SMTT(60), <1>1, <1>2, BoundsAssumption DEF Init, TInv, TypeOK, Executed, Seqs

LEMMA NextTInv == TInv /\ [Next \/ Restart]_vars => TInv'
<1> SUFFICES ASSUME TInv, [Next \/ Restart]_vars PROVE TInv'
  OBVIOUS
<1>0. Seqs \subseteq Nat /\ \A s \in Seqs : s + 1 \in 1 .. MaxSeq + 1 /\ s \in 1 .. MaxSeq + 1
  BY SMTT(60), BoundsAssumption DEF Seqs
<1>1. ASSUME NEW s \in Seqs, PostApply(s) \/ apply_operation(s) PROVE TInv'
  BY <1>1 DEF PostApply, apply_operation, TInv, TypeOK, Executed, storageVars, checkpointVars
<1>2. ASSUME NEW s \in Seqs, RunHandler(s) PROVE TInv'
  <2>1. s + CheckpointInterval \in Nat
    BY SMTT(60), <1>0, BoundsAssumption
  <2> QED BY <1>2, <2>1 DEF RunHandler, TInv, TypeOK, Executed, storageVars
<1>3. CASE Execute
  <2>1. next \in Seqs /\ db \in Seq(Seqs)
    BY <1>3 DEF Execute, TInv, TypeOK
  <2>2. Append(db, next) \in Seq(Seqs)
    BY SMTT(60), <2>1
  <2> QED BY <1>3, <2>1, <2>2 DEF Execute, TInv, TypeOK, Executed, checkpointVars
<1>4. CASE SaveState \/ NoteCheckpoint \/ PostHandler \/ RemoveEntry \/ Unlock
  BY <1>4 DEF SaveState, NoteCheckpoint, PostHandler, RemoveEntry, Unlock, TInv, TypeOK, Executed,
              storageVars, checkpointVars
<1>5. CASE Advance
  BY <1>0, <1>5 DEF Advance, TInv, TypeOK, Executed, checkpointVars
<1>6. ASSUME NEW s \in Checkpoints, set_service_state(s) PROVE TInv'
  <2>1. s \in Seqs /\ Upto(s) \in Seq(Seqs)
    BY SMTT(60), BoundsAssumption DEF Checkpoints, Seqs, Upto
  <2> QED BY <1>6, <2>1 DEF set_service_state, TInv, TypeOK, Executed, checkpointVars
<1>7. ASSUME NEW s \in Checkpoints, get_service_state(s) PROVE TInv'
  BY <1>7 DEF get_service_state, Checkpoints, TInv, TypeOK, Executed, storageVars, checkpointVars
<1>8. CASE DropBacklog
  BY <1>0, <1>8 DEF DropBacklog, TInv, TypeOK, Executed
<1>9. CASE GetSavedState
  BY <1>9 DEF GetSavedState, TInv, TypeOK, Executed, storageVars, checkpointVars
<1>10. CASE Restart
  <2>1. \A i \in 1 .. MaxSeq + 1 : i * CheckpointInterval \in Nat
    BY SMTT(60), BoundsAssumption
  <2>2. nextCheckpoint' \in Nat
    BY <1>10, <2>1 DEF Restart
  <2>3. restarts' \in 0 .. MaxRestarts
    BY SMTT(60), <1>10, BoundsAssumption DEF Restart, TInv, TypeOK
  <2> QED BY <1>10, <2>2, <2>3 DEF Restart, TInv, TypeOK, Executed
<1>11. CASE UNCHANGED vars
  BY <1>11 DEF vars, TInv, TypeOK, Executed, storageVars, checkpointVars
<1> QED BY <1>1, <1>2, <1>3, <1>4, <1>5, <1>6, <1>7, <1>8, <1>9, <1>10, <1>11
        DEF Next, process_awaiting_operations

(* Each variable keeps its type, whether or not the process restarts.      *)
THEOREM TypeTheorem == (Spec => []TypeOK) /\ (RestartSpec => []TypeOK)
<1>1. TInv => TypeOK
  BY DEF TInv
<1>2. TInv /\ [Next]_vars => TInv'
  BY NextTInv
<1>3. Spec => []TypeOK
  BY <1>1, <1>2, InitTInv, PTL DEF Spec
<1>4. RestartSpec => []TypeOK
  BY <1>1, InitTInv, NextTInv, PTL DEF RestartSpec
<1> QED BY <1>3, <1>4, PTL
=============================================================================
