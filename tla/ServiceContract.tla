--------------------------- MODULE ServiceContract ---------------------------
(***************************************************************************)
(* What pbft_service_base.hpp promises of a replicated service: the        *)
(* operations handed to it are executed in sequence order, each at most    *)
(* once, and each as soon as all before it have been; or the state after   *)
(* some sequence is loaded in place of executing up to it.                 *)
(***************************************************************************)
EXTENDS Naturals, Sequences

CONSTANT Seqs   \* the sequence numbers in use: 1 .. some bound

VARIABLES
    requested,  \* the sequences of the operations handed to the service
    db          \* the operations the database is the result of, in order

vars == <<requested, db>>

Init == requested = {} /\ db = <<>>

Request(s) ==
    /\ requested' = requested \cup {s}
    /\ UNCHANGED db

Execute ==
    /\ Len(db) + 1 \in requested
    /\ db' = Append(db, Len(db) + 1)
    /\ UNCHANGED requested

Load(s) ==
    /\ s > Len(db)
    /\ db' = [i \in 1 .. s |-> i]
    /\ UNCHANGED requested

Next == Execute \/ \E s \in Seqs : Request(s) \/ Load(s)

SafeSpec == Init /\ [][Next]_vars
Spec == SafeSpec /\ WF_vars(Execute)

==============================================================================
