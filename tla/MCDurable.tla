----------------------------- MODULE MCDurable -----------------------------
(***************************************************************************)
(* A small instance of CheckpointStore: four peers, of which three send    *)
(* messages for two checkpoints, and another client with one database.     *)
(***************************************************************************)
EXTENDS CheckpointStore

(* A key of one byte, a value that is its length *)
Bytes(k, v) == v + 1

FourPeers == {"a", "b", "c", "d"}
ThreeSenders == {"a", "b", "c"} \X {1, 2}

On(op, u, k, v) == [op |-> op, uuid |-> u, key |-> k, value |-> v, keys |-> {k}]
SomeCalls ==
    {On("create", "db", "k", 2), On("create", "db", "l", 1),
     On("update", "db", "k", 1), On("update", "db", "k", 3),
     On("remove", "db", "k", 0), On("remove_uuid", "db", "k", 0),
     On("create", "ops", "k", 1), On("remove_range", "ops", "k", 0),
     On("create_snapshot", "db", "k", 0)}
=============================================================================
