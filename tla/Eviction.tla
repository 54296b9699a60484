------------------------------ MODULE Eviction ------------------------------
(***************************************************************************)
(* The eviction policies: the sets of keys keys_to_evict may return for a  *)
(* create or update of key k with value v in database s, whose limit is    *)
(* max.  None is returned when not enough can be freed.                    *)
(***************************************************************************)
EXTENDS MemStorage

(* The keys of E, taken in some order that ends with last, free need; and  *)
(* before last is taken they do not.                                       *)
JustEnough(size, need, E, last) ==
    /\ SumFunctionOnSet(size, E) >= need
    /\ SumFunctionOnSet(size, E \ {last}) < need

(* Mutant of random_keys_to_evict: the length of the new key is forgotten  *)
random_keys_value_only(s, k, v, max, isUpdate) ==
    LET size == [x \in get_keys(s) |-> get_key_size(s, x)]
        need == v - (max - s.bytes)
        keys == get_keys(s) \ (IF isUpdate THEN {k} ELSE {})
    IN  {E \in SUBSET keys : \E last \in E : JustEnough(size, need, E, last)}

(* policy::random: keys in the order of a generator seeded with the hash   *)
(* of the request, each counted with its key.  An update spares its key.   *)
random_keys_to_evict(s, k, v, max, isUpdate) ==
    LET size == [x \in get_keys(s) |-> get_key_size(s, x)]
        need == (IF isUpdate THEN v ELSE KeySize + v) - (max - s.bytes)
        keys == get_keys(s) \ (IF isUpdate THEN {k} ELSE {})
    IN  {E \in SUBSET keys : \E last \in E : JustEnough(size, need, E, last)}

(* policy::volatile_ttl: of the keys with a TTL entry those with the        *)
(* longest values first, only the value counted.  An entry whose key is     *)
(* gone counts for nothing.  An update spares its key and asks for the      *)
(* length of its value twice: current_free has it taken off already.        *)
volatile_keys_to_evict(s, timed, k, v, max, isUpdate) ==
    LET items == (timed \cap get_keys(s)) \ (IF isUpdate THEN {k} ELSE {})
        free == (max - s.bytes) - (IF isUpdate THEN v ELSE 0)
        need == (IF isUpdate THEN v ELSE KeySize + v) - free
    IN  {E \in SUBSET items :
            /\ \A x \in E, y \in items \ E : s.pairs[x] >= s.pairs[y]
            /\ \E last \in E : /\ \A x \in E : s.pairs[x] >= s.pairs[last]
                              /\ JustEnough(s.pairs, need, E, last)}
=============================================================================
