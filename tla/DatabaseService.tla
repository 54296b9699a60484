-------------------------- MODULE DatabaseService --------------------------
(***************************************************************************)
(* database_pbft_service on one node: the operations pbft posts to it, the *)
(* backlog it keeps in storage, and the execute handlers it posts back.    *)
(*                                                                         *)
(* main.cpp runs the io_context on several threads, so posted calls run in *)
(* any order.  apply_operation and set_service_state hold the service lock *)
(* throughout; their writes to storage are steps of their own, because the *)
(* process may stop between two of them, and because get_service_state and *)
(* save_service_state_at take no lock.                                     *)
(*                                                                         *)
(* An operation is its sequence number: pbft hands over one request for a  *)
(* sequence, possibly several times.  The database is the sequence of the  *)
(* operations it is the result of.                                         *)
(***************************************************************************)
EXTENDS Integers, Sequences

CONSTANTS
    MaxSeq,             \* bound on sequence numbers
    CheckpointInterval, \* CHECKPOINT_INTERVAL
    MaxRestarts         \* bound on the times the process stops

ASSUME BoundsAssumption ==
    /\ MaxSeq \in Nat \ {0} /\ CheckpointInterval \in Nat \ {0} /\ MaxRestarts \in Nat

Seqs == 1 .. MaxSeq
Checkpoints == {s \in Seqs : s % CheckpointInterval = 0}
Upto(s) == [i \in 1 .. s |-> i]

VARIABLES
    requested,      \* the sequences pbft has posted since the node was created
    posted,         \* calls of apply_operation waiting for a thread
    pc,             \* where the thread that holds the service lock is
    loading,        \* the sequence_number of the set_service_state under way, or 0
    stored,         \* backlog: the keys of unstable_storage
    awaiting,       \* the keys of operations_awaiting_result
    next, savedNext,            \* next_request_sequence, in memory and in storage
    db,                         \* what crud has executed
    snapshot,                   \* crud's saved state
    nextCheckpoint, lastCheckpoint,
    handlers,       \* execute handlers waiting for a thread
    getting,        \* the sequence_number of the get_service_state under way, or 0
    restarts

storageVars == <<stored, savedNext, db, snapshot>>
checkpointVars == <<nextCheckpoint, lastCheckpoint>>
vars == <<requested, posted, pc, loading, awaiting, next, handlers, restarts,
          storageVars, checkpointVars, getting>>

-----------------------------------------------------------------------------
(* do_committed posts apply_operation; a view change may commit a sequence *)
(* again.                                                                  *)
PostApply(s) ==
    /\ s \notin posted
    /\ requested' = requested \cup {s}
    /\ posted' = posted \cup {s}
    /\ UNCHANGED <<pc, loading, awaiting, next, handlers, restarts,
                   storageVars, checkpointVars, getting>>

(* Mutant of apply_operation: an operation that arrives early is stored    *)
(* but not entered in operations_awaiting_result                           *)
apply_operation_unlisted(s) ==
    /\ pc = "idle" /\ s \in posted
    /\ posted' = posted \ {s}
    /\ IF s \in stored
       THEN UNCHANGED <<stored, awaiting, pc>>
       ELSE /\ stored' = stored \cup {s}
            /\ awaiting' = IF s = next THEN awaiting \cup {s} ELSE awaiting
            /\ pc' = "process"
    /\ UNCHANGED <<requested, loading, next, savedNext, db, snapshot, handlers, restarts,
                   checkpointVars, getting>>

(* apply_operation, up to its call of process_awaiting_operations: an      *)
(* operation that is in the backlog already is dropped.                    *)
apply_operation(s) ==
    /\ pc = "idle" /\ s \in posted
    /\ posted' = posted \ {s}
    /\ IF s \in stored
       THEN UNCHANGED <<stored, awaiting, pc>>
       ELSE /\ stored' = stored \cup {s}
            /\ awaiting' = awaiting \cup {s}
            /\ pc' = "process"
    /\ UNCHANGED <<requested, loading, next, savedNext, db, snapshot, handlers, restarts,
                   checkpointVars, getting>>

-----------------------------------------------------------------------------
(* One iteration of process_awaiting_operations.  Only an operation that   *)
(* arrived since the process started is executed; the entry is removed in  *)
(* any case.                                                               *)
Execute ==
    /\ pc = "process" /\ next \in stored
    /\ IF next \in awaiting
       THEN /\ db' = Append(db, next)
            /\ pc' = IF next = nextCheckpoint THEN "checkpoint" ELSE "post"
       ELSE pc' = "remove" /\ UNCHANGED db
    /\ UNCHANGED <<requested, posted, loading, stored, awaiting, next, savedNext, snapshot,
                   handlers, restarts, checkpointVars, getting>>

SaveState ==
    /\ pc = "checkpoint"
    /\ snapshot' = db
    /\ pc' = "saved"
    /\ UNCHANGED <<requested, posted, loading, stored, awaiting, next, savedNext, db,
                   handlers, restarts, checkpointVars, getting>>

NoteCheckpoint ==
    /\ pc = "saved"
    /\ lastCheckpoint' = next
    /\ pc' = "post"
    /\ UNCHANGED <<requested, posted, loading, awaiting, next, handlers, restarts,
                   storageVars, nextCheckpoint, getting>>

PostHandler ==
    /\ pc = "post"
    /\ handlers' = handlers \cup {next}
    /\ pc' = "remove"
    /\ UNCHANGED <<requested, posted, loading, awaiting, next, restarts,
                   storageVars, checkpointVars, getting>>

RemoveEntry ==
    /\ pc = "remove"
    /\ stored' = stored \ {next}
    /\ pc' = "advance"
    /\ UNCHANGED <<requested, posted, loading, awaiting, next, savedNext, db, snapshot,
                   handlers, restarts, checkpointVars, getting>>

Advance ==
    /\ pc = "advance"
    /\ next' = next + 1
    /\ savedNext' = next + 1
    /\ pc' = "process"
    /\ UNCHANGED <<requested, posted, loading, stored, awaiting, db, snapshot,
                   handlers, restarts, checkpointVars, getting>>

(* The loop ends, and the call that holds the lock returns *)
Unlock ==
    /\ pc = "process" /\ next \notin stored
    /\ pc' = "idle" /\ loading' = 0
    /\ UNCHANGED <<requested, posted, awaiting, next, handlers, restarts,
                   storageVars, checkpointVars, getting>>

process_awaiting_operations ==
    \/ Execute \/ SaveState \/ NoteCheckpoint \/ PostHandler
    \/ RemoveEntry \/ Advance \/ Unlock

-----------------------------------------------------------------------------
(* set_service_state, with the state of another node at checkpoint s: crud *)
(* replaces the database and its saved state ...  pbft calls it and        *)
(* get_service_state under pbft_lock, one at a time.                       *)
set_service_state(s) ==
    /\ pc = "idle" /\ getting = 0
    /\ next <= s
    /\ db' = Upto(s) /\ snapshot' = Upto(s)
    /\ loading' = s
    /\ pc' = "loaded"
    /\ UNCHANGED <<requested, posted, stored, awaiting, next, savedNext, handlers, restarts,
                   checkpointVars, getting>>

(* Mutants of DropBacklog: one sequence too many is skipped, or            *)
(* last_checkpoint is not set                                              *)
DropBacklogSkipping ==
    /\ pc = "loaded"
    /\ lastCheckpoint' = loading
    /\ stored' = stored \ (next .. loading)
    /\ next' = loading + 2
    /\ pc' = "process"
    /\ UNCHANGED <<requested, posted, loading, awaiting, savedNext, db, snapshot,
                   handlers, restarts, nextCheckpoint, getting>>
DropBacklogUnnoted ==
    /\ pc = "loaded"
    /\ stored' = stored \ (next .. loading)
    /\ next' = loading + 1
    /\ pc' = "process"
    /\ UNCHANGED <<requested, posted, loading, awaiting, savedNext, db, snapshot,
                   handlers, restarts, checkpointVars, getting>>

(* ... then the backlog up to s is dropped, and what follows is processed. *)
(* The new next_request_sequence is not saved here.                        *)
DropBacklog ==
    /\ pc = "loaded"
    /\ lastCheckpoint' = loading
    /\ stored' = stored \ (next .. loading)
    /\ next' = loading + 1
    /\ pc' = "process"
    /\ UNCHANGED <<requested, posted, loading, awaiting, savedNext, db, snapshot,
                   handlers, restarts, nextCheckpoint, getting>>

(* get_service_state: tests last_checkpoint, then returns crud's saved     *)
(* state, whatever that is by then.                                        *)
get_service_state(s) ==
    /\ getting = 0 /\ loading = 0
    /\ s = lastCheckpoint
    /\ getting' = s
    /\ UNCHANGED <<requested, posted, pc, loading, awaiting, next, handlers, restarts,
                   storageVars, checkpointVars>>

GetSavedState ==
    /\ getting # 0
    /\ getting' = 0
    /\ UNCHANGED <<requested, posted, pc, loading, awaiting, next, handlers, restarts,
                   storageVars, checkpointVars>>

(* The execute handler that pbft registered calls save_service_state_at at *)
(* a checkpoint; Pbft has the rest of it.                                  *)
RunHandler(s) ==
    /\ s \in handlers
    /\ handlers' = handlers \ {s}
    /\ nextCheckpoint' = IF s \in Checkpoints THEN s + CheckpointInterval ELSE nextCheckpoint
    /\ UNCHANGED <<requested, posted, pc, loading, awaiting, next, restarts,
                   storageVars, lastCheckpoint, getting>>

-----------------------------------------------------------------------------
(* The process stops and starts again.  When nothing runs in the service,  *)
(* it may be an orderly stop, in which the destructor saves                *)
(* next_request_sequence.  pbft's constructor sets next_checkpoint from    *)
(* next_issued_sequence_number, which may be anything at a backup.         *)
Restart ==
    /\ restarts < MaxRestarts
    /\ restarts' = restarts + 1
    /\ savedNext' \in {savedNext} \cup (IF pc = "idle" THEN {next} ELSE {})
    /\ next' = savedNext'
    /\ \E i \in 1 .. MaxSeq + 1 : nextCheckpoint' = i * CheckpointInterval
    /\ posted' = {} /\ awaiting' = {} /\ handlers' = {}
    /\ pc' = "idle" /\ loading' = 0 /\ lastCheckpoint' = 0 /\ getting' = 0
    /\ UNCHANGED <<requested, stored, db, snapshot>>

-----------------------------------------------------------------------------
Init ==
    /\ requested = {} /\ posted = {} /\ awaiting = {} /\ handlers = {}
    /\ pc = "idle" /\ loading = 0 /\ getting = 0 /\ restarts = 0
    /\ stored = {} /\ db = <<>> /\ snapshot = <<>>
    /\ next = 1 /\ savedNext = 1
    /\ nextCheckpoint = (1 \div CheckpointInterval + 1) * CheckpointInterval /\ lastCheckpoint = 0

Next ==
    \/ \E s \in Seqs : PostApply(s) \/ apply_operation(s) \/ RunHandler(s)
    \/ process_awaiting_operations
    \/ \E s \in Checkpoints : set_service_state(s) \/ get_service_state(s)
    \/ DropBacklog
    \/ GetSavedState

Spec == Init /\ [][Next]_vars
RestartSpec == Init /\ [][Next \/ Restart]_vars

(* A posted call gets a thread and, in its turn, the lock; the thread that *)
(* holds the lock goes on until it releases it.                            *)
Fairness ==
    /\ \A s \in Seqs : SF_vars(apply_operation(s))
    /\ WF_vars(process_awaiting_operations \/ DropBacklog)
FairSpec == Spec /\ Fairness

-----------------------------------------------------------------------------
(* Each variable has its type.                                             *)
TypeOK ==
    /\ requested \subseteq Seqs /\ posted \subseteq Seqs
    /\ stored \subseteq Seqs /\ awaiting \subseteq Seqs /\ handlers \subseteq Seqs
    /\ pc \in {"idle", "process", "checkpoint", "saved", "post", "remove", "advance", "loaded"}
    /\ next \in 1 .. MaxSeq + 1 /\ savedNext \in 1 .. MaxSeq + 1
    /\ db \in Seq(Seqs) /\ snapshot \in Seq(Seqs)
    /\ nextCheckpoint \in Nat
    /\ loading \in Seqs \cup {0} /\ lastCheckpoint \in Seqs \cup {0}
    /\ getting \in Seqs \cup {0} /\ restarts \in 0 .. MaxRestarts

Contract == INSTANCE ServiceContract

(* While the process runs, the service keeps the promises of               *)
(* pbft_service_base.hpp: whatever the order in which threads run posted   *)
(* calls, operations are executed in sequence order, at most once, and     *)
(* eventually, and a loaded state replaces the operations it covers.       *)
ImplementsContract == Contract!Spec

(* When no step of the service is between writing crud's saved state and   *)
(* noting its sequence, the saved state is that of last_checkpoint, even   *)
(* though the handler that sets next_checkpoint may run late.              *)
SnapshotMatches ==
    lastCheckpoint # 0 /\ pc \notin {"saved", "loaded"} => snapshot = Upto(lastCheckpoint)

(* pbft_service_base.hpp says of get_service_state: "Get the full database *)
(* state at the given sequence number, if available".  What it would       *)
(* return now is that state.                                               *)
AnswerExact == getting # 0 => snapshot = Upto(getting)

(* pbft_service_base.hpp says that a request "will not be executed until   *)
(* after the request supplied in the call apply_operation(x2, y-1)".       *)
PredecessorExecuted ==
    \A i \in DOMAIN db : db[i] > 1 => \E j \in 1 .. i - 1 : db[j] = db[i] - 1

=============================================================================
