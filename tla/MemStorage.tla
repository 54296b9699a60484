----------------------------- MODULE MemStorage -----------------------------
(***************************************************************************)
(* mem_storage: what one uuid of the store holds, its byte counter and its *)
(* key/value pairs, as a value, and each operation as a function of it.    *)
(*                                                                         *)
(* A value is its length.  All keys have the same length.  The lock is     *)
(* held throughout an operation, so an operation is one step of its user.  *)
(***************************************************************************)
EXTENDS Integers, FiniteSets, Functions

CONSTANTS
    KeySize,        \* the length of a key
    MaxValueSize    \* MAX_VALUE_SIZE

ASSUME SizesAssumption == KeySize \in Nat /\ MaxValueSize \in Nat

(* The function f with k mapped to v, and f without the keys of K *)
Put(f, k, v) == [x \in DOMAIN f \cup {k} |-> IF x = k THEN v ELSE f[x]]
Without(f, K) == [x \in DOMAIN f \ K |-> f[x]]

NoPairs == [x \in {} |-> 0]
EmptyDb == [bytes |-> 0, pairs |-> NoPairs]

get_keys(s) == DOMAIN s.pairs
has(s, k) == k \in DOMAIN s.pairs
get_key_size(s, k) == KeySize + s.pairs[k]

(* The bytes of the pairs, which the counter is meant to be *)
PairBytes(s) == SumFunction(s.pairs) + KeySize * Cardinality(DOMAIN s.pairs)

create_result(s, k, v) ==
    IF v > MaxValueSize THEN "value_too_large" ELSE IF has(s, k) THEN "exists" ELSE "ok"
create(s, k, v) ==
    [bytes |-> s.bytes + v + KeySize, pairs |-> Put(s.pairs, k, v)]

update_result(s, k, v) ==
    IF v > MaxValueSize THEN "value_too_large" ELSE IF has(s, k) THEN "ok" ELSE "not_found"
update(s, k, v) ==
    [bytes |-> s.bytes - s.pairs[k] + v, pairs |-> Put(s.pairs, k, v)]

remove_result(s, k) == IF has(s, k) THEN "ok" ELSE "not_found"

(* Mutant of remove_all: the length of a removed key stays in the counter  *)
remove_all_keep_key(s, K) ==
    [bytes |-> s.bytes - SumFunctionOnSet(s.pairs, K), pairs |-> Without(s.pairs, K)]

(* remove, of each key of a set *)
remove_all(s, K) ==
    [bytes |-> s.bytes - SumFunctionOnSet(s.pairs, K) - KeySize * Cardinality(K),
     pairs |-> Without(s.pairs, K)]
=============================================================================
