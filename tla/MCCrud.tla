------------------------------- MODULE MCCrud -------------------------------
(***************************************************************************)
(* The workloads: each starts from empty storage and asks a question of    *)
(* its own.                                                                *)
(***************************************************************************)
EXTENDS Crud
CONSTANTS d1, d2, k1, k2, k3, owner, padded, writer, node, s1, s2

MCTrimmed == [c \in Callers |-> IF c = padded THEN owner ELSE c]

Request(op) ==
    [op |-> op, db |-> d1, key |-> k1, size |-> 0, expire |-> 0, caller |-> owner,
     max |-> 0, policy |-> "none", writers |-> {}, session |-> "none", nonce |-> 0]

Pairs(op, keys, sizes, expiries) ==
    {[Request(op) EXCEPT !.key = k, !.size = v, !.expire = e] :
        k \in keys, v \in sizes, e \in expiries}
OnKeys(op, keys) == Pairs(op, keys, {0}, {0})
Sized(op, db, maxes, policies) ==
    {[Request(op) EXCEPT !.db = db, !.max = m, !.policy = p] : m \in maxes, p \in policies}

(* Three pairs in a database that evicts and whose limit shrinks and grows *)
Evicting ==
    Sized("create_db", d1, {6}, {"random", "volatile"}) \cup Sized("update_db", d1, {4}, {"random"})
    \cup Pairs("create", {k1, k2}, {1, 3}, {0, 1}) \cup Pairs("create", {k3}, {2}, {0})
    \cup Pairs("update", {k1}, {3}, {0})

(* Pairs that expire, are retimed and persisted *)
Expiring ==
    Sized("create_db", d1, {6}, {"none"}) \cup Pairs("create", {k1}, {1}, {0, 1})
    \cup Pairs("create", {k2}, {1}, {1}) \cup Pairs("update", {k1}, {2}, {2})
    \cup Pairs("update", {k1}, {9}, {0}) \cup Pairs("expire", {k1}, {0}, {0, 1})
    \cup OnKeys("persist", {k1}) \cup OnKeys("delete", {k1}) \cup OnKeys("read", {k1})
    \cup OnKeys("has", {k1}) \cup OnKeys("keys", {k1}) \cup OnKeys("ttl", {k1})

(* Pairs and databases that are deleted and come back with a saved state *)
Saving ==
    Sized("create_db", d1, {6}, {"none", "random"}) \cup Pairs("create", {k1}, {1}, {0, 1})
    \cup OnKeys("delete", {k1}) \cup OnKeys("delete_db", {k1}) \cup OnKeys("read", {k1})
    \cup {Request("save")}

By(caller, R) == {[r EXCEPT !.caller = caller] : r \in R}

(* Two databases that share the swarm's storage, and who may use them *)
Sharing ==
    UNION {Sized(op, d, {0, 2, 4}, {"none"}) : op \in {"create_db", "update_db"}, d \in {d1, d2}}
    \cup {[r EXCEPT !.db = d] : r \in OnKeys("delete_db", {k1}), d \in {d1, d2}}
    \cup {[Request(op) EXCEPT !.writers = W] :
             op \in {"add_writers", "remove_writers"}, W \in {{writer, owner}, {padded}}}
    \cup UNION {By(c, Pairs("create", {k1}, {1}, {0})) : c \in {padded, writer}}
    \cup UNION {By(writer, OnKeys(op, {k1})) : op \in {"delete", "create_db", "update_db", "delete_db",
                                                       "add_writers", "writers", "has_db", "size"}}

(* A limit with which the swarm's storage wraps *)
Wrapping ==
    UNION {Sized(op, d, {4, 14}, {"none"}) : op \in {"create_db", "update_db"}, d \in {d1, d2}}
    \cup OnKeys("delete_db", {k1}) \cup Pairs("create", {k1}, {1}, {0})

(* Two sessions that subscribe to two keys *)
Subscribing ==
    Sized("create_db", d1, {6}, {"none"}) \cup Pairs("create", {k1}, {1}, {0}) \cup OnKeys("delete", {k1})
    \cup {[Request(op) EXCEPT !.key = k, !.session = s, !.nonce = 1] :
             op \in {"subscribe", "unsubscribe"}, k \in {k1, k2}, s \in {s1}}
    \cup {[Request("subscribe") EXCEPT !.session = s2, !.nonce = n] : n \in {1, 2}}

MCWorkloads == {Evicting, Expiring, Saving, Sharing, Wrapping, Subscribing}
=============================================================================
