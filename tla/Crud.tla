-------------------------------- MODULE Crud --------------------------------
(***************************************************************************)
(* crud on one node: the requests pbft hands it in order, over a           *)
(* mem_storage with one uuid for the permissions, one for the TTL entries  *)
(* and one per database; the eviction policies, the subscriptions, and the *)
(* timer that has expired pairs deleted through pbft.  crud_lock is held   *)
(* throughout a handler, so each handler is one step.                      *)
(*                                                                         *)
(* A request is a record with the fields op, db, key, size (the length of  *)
(* the value), expire, caller, max, policy, writers, session and nonce;    *)
(* those its op does not use are left at a default.  reply is the last     *)
(* response, with its request; value is the set of what it returns.        *)
(***************************************************************************)
EXTENDS Eviction, Subscriptions

CONSTANTS
    Dbs, Keys, Callers, Sessions,
    Trimmed,            \* trim_copy, on Callers
    Peers,              \* the uuids of the current peers
    Self,               \* this node's uuid
    SwarmOwner,         \* owner_public_key: {} when it is empty, else one caller
    MaxSwarmStorage,    \* max_swarm_storage
    SizeWord,           \* 2^w for the width w of size_t, in which sizes are added
    Workloads,          \* the sets of requests that clients may make
    MaxTime,            \* bound on the clock
    MaxNotifications    \* bound on the sequence numbers of notifications

Policies == {"none", "random", "volatile"}

ASSUME CrudAssumption ==
    /\ Self \in Peers /\ Peers \subseteq Callers
    /\ Trimmed \in [Callers -> Callers] /\ \A p \in Peers : Trimmed[p] = p
    /\ SizeWord \in Nat /\ MaxSwarmStorage \in 0 .. SizeWord - 1 /\ MaxTime \in Nat
    /\ \A W \in Workloads : \A r \in W :
          /\ r.db \in Dbs /\ r.key \in Keys /\ r.size \in Nat /\ r.expire \in Nat
          /\ r.caller \in Callers /\ r.max \in 0 .. SizeWord - 1 /\ r.policy \in Policies
          /\ r.writers \subseteq Callers

VARIABLES
    workload,       \* the requests this run's clients make
    perms,          \* PERMS: the permissions of the databases that exist
    data,           \* the pairs of each database
    ttl,            \* TTL: when a <<database, key>> expires
    snapshots,      \* the storage's latest snapshot, if there is one
    clock,          \* seconds since the epoch
    pending,        \* deletes handed to pbft that it has not executed yet
    subs,           \* the subscription manager
    alive,          \* the sessions that still exist
    reply

storage == <<perms, data, ttl>>
vars == <<workload, storage, snapshots, clock, pending, subs, alive, reply>>

NoRequest == [op |-> "none"]

Init ==
    /\ workload \in Workloads
    /\ perms = [d \in {} |-> 0] /\ data = [d \in Dbs |-> EmptyDb] /\ ttl = [x \in {} |-> 0]
    /\ snapshots = {} /\ clock = 0 /\ pending = {}
    /\ subs = NoSubscribers(Dbs \X Keys)
    /\ alive = Sessions \cap {r.session : r \in workload}
    /\ reply = [req |-> NoRequest, code |-> "ok", value |-> {}]

-----------------------------------------------------------------------------
Exists(d) == d \in DOMAIN perms

expired(d, k) == <<d, k>> \in DOMAIN ttl /\ ttl[<<d, k>>] <= clock

is_caller_owner(c, d) == perms[d].owner = Trimmed[c]
is_caller_a_writer(c, d) ==
    Trimmed[c] \in perms[d].writers \cup Peers \/ is_caller_owner(c, d)

(* With a zero expiry the entry of an earlier pair goes *)
update_expiration_entry(d, k, expire) ==
    IF expire # 0 THEN Put(ttl, <<d, k>>, clock + expire) ELSE Without(ttl, {<<d, k>>})

flush_expiration_entries(d) == Without(ttl, {x \in DOMAIN ttl : x[1] = d})

(* The limits of the databases, added up; in size_t the sum may wrap *)
SwarmLimits(p) == SumFunction([d \in DOMAIN p |-> p[d].max])
get_swarm_storage_usage == SwarmLimits(perms) % SizeWord

(* operation_exceeds_available_space, by the kind of request.  An update   *)
(* of a key that is not there never exceeds.                               *)
create_exceeds(r) ==
    LET max == perms[r.db].max
    IN  max # 0 /\ data[r.db].bytes + KeySize + r.size > max
update_exceeds(r) ==
    LET max == perms[r.db].max
        s == data[r.db]
    IN  /\ max # 0 /\ has(s, r.key)
        /\ s.bytes - get_key_size(s, r.key) + KeySize + r.size > max
create_db_exceeds(r) ==
    MaxSwarmStorage # 0 /\ (get_swarm_storage_usage + r.max) % SizeWord > MaxSwarmStorage
update_db_exceeds(r) ==
    /\ MaxSwarmStorage # 0
    /\ (get_swarm_storage_usage - perms[r.db].max + r.max) % SizeWord > MaxSwarmStorage

(* do_eviction: what may be evicted; nothing when there is no policy.      *)
keys_to_evict(r, isUpdate) ==
    LET p == perms[r.db]
        timed == {k \in Keys : <<r.db, k>> \in DOMAIN ttl}
    IN  CASE p.policy = "random" -> random_keys_to_evict(data[r.db], r.key, r.size, p.max, isUpdate)
          [] p.policy = "volatile" ->
                volatile_keys_to_evict(data[r.db], timed, r.key, r.size, p.max, isUpdate)
          [] OTHER -> {}

Respond(r, code, value) == reply' = [req |-> r, code |-> code, value |-> value]

Refuse(r, code) ==
    /\ Respond(r, code, {})
    /\ UNCHANGED <<storage, subs>>

Denied(r) ==
    IF ~Exists(r.db) THEN "db_not_found"
    ELSE IF ~is_caller_a_writer(r.caller, r.db) THEN "access_denied" ELSE "ok"

-----------------------------------------------------------------------------
(* What follows a write in storage: the TTL entry and the notifications    *)
Commit(r, result) ==
    /\ ttl' = IF result = "ok" THEN update_expiration_entry(r.db, r.key, r.expire) ELSE ttl
    /\ subs' = IF result = "ok" THEN notify_sessions(subs, <<r.db, r.key>>, alive) ELSE subs
    /\ Respond(r, result, {})
    /\ UNCHANGED perms

(* Mutant of create_refusal: a key whose pair has expired is not refused   *)
create_refusal_unexpired(r) ==
    IF Denied(r) # "ok" THEN Denied(r)
    ELSE IF perms[r.db].max # 0 /\ KeySize + r.size > perms[r.db].max THEN "value_too_large"
    ELSE IF create_exceeds(r) /\ keys_to_evict(r, FALSE) = {} THEN "db_full" ELSE "ok"

create_refusal(r) ==
    IF Denied(r) # "ok" THEN Denied(r)
    ELSE IF perms[r.db].max # 0 /\ KeySize + r.size > perms[r.db].max THEN "value_too_large"
    ELSE IF expired(r.db, r.key) THEN "delete_pending"
    ELSE IF create_exceeds(r) /\ keys_to_evict(r, FALSE) = {} THEN "db_full" ELSE "ok"

(* Room is made before storage finds that the key exists: the pairs        *)
(* evicted are gone even so.                                               *)
handle_create(r) ==
    \/ create_refusal(r) # "ok" /\ Refuse(r, create_refusal(r))
    \/ /\ create_refusal(r) = "ok"
       /\ \E E \in IF create_exceeds(r) THEN keys_to_evict(r, FALSE) ELSE {{}} :
             LET s == remove_all(data[r.db], E)
                 result == create_result(s, r.key, r.size)
             IN  /\ data' = [data EXCEPT ![r.db] =
                                IF result = "ok" THEN create(s, r.key, r.size) ELSE s]
                 /\ Commit(r, result)

(* The size test of handle_update reads request.create(), which is empty   *)
(* in an update, so it never refuses.                                      *)
update_refusal(r) ==
    IF Denied(r) # "ok" THEN Denied(r)
    ELSE IF expired(r.db, r.key) THEN "delete_pending"
    ELSE IF update_exceeds(r) /\ keys_to_evict(r, TRUE) = {} THEN "db_full" ELSE "ok"

handle_update(r) ==
    \/ update_refusal(r) # "ok" /\ Refuse(r, update_refusal(r))
    \/ /\ update_refusal(r) = "ok"
       /\ \E E \in IF update_exceeds(r) THEN keys_to_evict(r, TRUE) ELSE {{}} :
             LET s == remove_all(data[r.db], E)
                 result == update_result(s, r.key, r.size)
             IN  /\ data' = [data EXCEPT ![r.db] =
                                IF result = "ok" THEN update(s, r.key, r.size) ELSE s]
                 /\ Commit(r, result)

(* There is no test for an expired pair: this is how it is removed. *)
handle_delete(r) ==
    LET result == IF Denied(r) # "ok" THEN Denied(r) ELSE remove_result(data[r.db], r.key)
    IN  \/ result # "ok" /\ Refuse(r, result)
        \/ /\ result = "ok"
           /\ data' = [data EXCEPT ![r.db] = remove_all(@, {r.key})]
           /\ subs' = notify_sessions(subs, <<r.db, r.key>>, alive)
           /\ ttl' = Without(ttl, {<<r.db, r.key>>})
           /\ Respond(r, "ok", {})
           /\ UNCHANGED perms

(* handle_persist and handle_expire go by the TTL entry alone *)
Retime(r, timed, refusal) ==
    \/ Denied(r) # "ok" /\ Refuse(r, Denied(r))
    \/ Denied(r) = "ok" /\ expired(r.db, r.key) /\ Refuse(r, "delete_pending")
    \/ Denied(r) = "ok" /\ ~expired(r.db, r.key) /\ ~timed /\ Refuse(r, refusal)
    \/ /\ Denied(r) = "ok" /\ ~expired(r.db, r.key) /\ timed
       /\ ttl' = update_expiration_entry(r.db, r.key, r.expire)
       /\ Respond(r, "ok", {})
       /\ UNCHANGED <<perms, data, subs>>

handle_persist(r) ==
    r.expire = 0 /\ Retime(r, <<r.db, r.key>> \in DOMAIN ttl, "ttl_not_found")

handle_expire(r) ==
    IF r.expire = 0
    THEN Retime(r, FALSE, "invalid_argument")
    ELSE Retime(r, <<r.db, r.key>> \in DOMAIN ttl \/ has(data[r.db], r.key), "not_found")

-----------------------------------------------------------------------------
(* The handlers that change nothing *)
Answer(r, code, value) == Respond(r, code, value) /\ UNCHANGED <<storage, subs>>

handle_read(r) ==
    IF ~Exists(r.db) THEN Refuse(r, "db_not_found")
    ELSE IF expired(r.db, r.key) THEN Refuse(r, "delete_pending")
    ELSE IF has(data[r.db], r.key) THEN Answer(r, "ok", {data[r.db].pairs[r.key]})
    ELSE Refuse(r, "not_found")

handle_has(r) ==
    IF expired(r.db, r.key) THEN Answer(r, "ok", {})
    ELSE IF Exists(r.db) THEN Answer(r, "ok", {r.key} \cap get_keys(data[r.db]))
    ELSE Refuse(r, "db_not_found")

handle_keys(r) ==
    IF Exists(r.db) THEN Answer(r, "ok", {k \in get_keys(data[r.db]) : ~expired(r.db, k)})
    ELSE Refuse(r, "db_not_found")

handle_ttl(r) ==
    IF has(data[r.db], r.key) /\ expired(r.db, r.key) THEN Refuse(r, "delete_pending")
    ELSE IF has(data[r.db], r.key) /\ <<r.db, r.key>> \in DOMAIN ttl
         THEN Answer(r, "ok", {ttl[<<r.db, r.key>>] - clock})
    ELSE Refuse(r, "ttl_not_found")

(* Pairs, bytes, and the bytes that remain when there is a limit *)
handle_size(r) ==
    LET s == data[r.db]
        max == perms[r.db].max
    IN  IF Exists(r.db)
        THEN Answer(r, "ok", {<<Cardinality(get_keys(s)), s.bytes,
                                IF s.bytes < max THEN max - s.bytes ELSE 0>>})
        ELSE Refuse(r, "db_not_found")

handle_has_db(r) == Answer(r, "ok", {r.db} \cap DOMAIN perms)

handle_writers(r) ==
    IF Exists(r.db) THEN Answer(r, "ok", {perms[r.db].owner} \cup perms[r.db].writers)
    ELSE Refuse(r, "not_found")

-----------------------------------------------------------------------------
(* The databases.  A limit of zero, no limit, is refused when the swarm    *)
(* has one.                                                                *)
NotSwarmOwner(r) == SwarmOwner # {} /\ r.caller \notin SwarmOwner
Unlimited(r) == r.max = 0 /\ MaxSwarmStorage # 0

SetPerms(r, p) ==
    /\ perms' = Put(perms, r.db, p)
    /\ Respond(r, "ok", {})
    /\ UNCHANGED <<data, ttl, subs>>

handle_create_db(r) ==
    IF NotSwarmOwner(r) THEN Refuse(r, "access_denied")
    ELSE IF Exists(r.db) THEN Refuse(r, "db_exists")
    ELSE IF Unlimited(r) THEN Refuse(r, "invalid_size")
    ELSE IF create_db_exceeds(r) THEN Refuse(r, "db_full")
    ELSE SetPerms(r, [owner |-> Trimmed[r.caller], writers |-> {},
                      max |-> r.max, policy |-> r.policy])

OwnerDenied(r) ==
    IF ~Exists(r.db) THEN "db_not_found"
    ELSE IF ~is_caller_owner(r.caller, r.db) THEN "access_denied" ELSE "ok"

(* Mutant of handle_update_db: what the swarm has left is not checked      *)
handle_update_db_unchecked(r) ==
    IF OwnerDenied(r) # "ok" THEN Refuse(r, OwnerDenied(r))
    ELSE IF Unlimited(r) THEN Refuse(r, "invalid_size")
    ELSE SetPerms(r, [perms[r.db] EXCEPT !.max = r.max, !.policy = r.policy])

(* The limit may go below what the database holds *)
handle_update_db(r) ==
    IF OwnerDenied(r) # "ok" THEN Refuse(r, OwnerDenied(r))
    ELSE IF Unlimited(r) THEN Refuse(r, "invalid_size")
    ELSE IF r.max > perms[r.db].max /\ update_db_exceeds(r) THEN Refuse(r, "db_full")
    ELSE SetPerms(r, [perms[r.db] EXCEPT !.max = r.max, !.policy = r.policy])

(* Mutant of handle_delete_db: the TTL entries are not flushed             *)
handle_delete_db_unflushed(r) ==
    \/ NotSwarmOwner(r) /\ Refuse(r, "access_denied")
    \/ ~NotSwarmOwner(r) /\ OwnerDenied(r) # "ok" /\ Refuse(r, OwnerDenied(r))
    \/ /\ ~NotSwarmOwner(r) /\ OwnerDenied(r) = "ok"
       /\ perms' = Without(perms, {r.db})
       /\ data' = [data EXCEPT ![r.db] = EmptyDb]
       /\ Respond(r, "ok", {})
       /\ UNCHANGED <<ttl, subs>>

handle_delete_db(r) ==
    \/ NotSwarmOwner(r) /\ Refuse(r, "access_denied")
    \/ ~NotSwarmOwner(r) /\ OwnerDenied(r) # "ok" /\ Refuse(r, OwnerDenied(r))
    \/ /\ ~NotSwarmOwner(r) /\ OwnerDenied(r) = "ok"
       /\ perms' = Without(perms, {r.db})
       /\ data' = [data EXCEPT ![r.db] = EmptyDb]
       /\ ttl' = flush_expiration_entries(r.db)
       /\ Respond(r, "ok", {})
       /\ UNCHANGED subs

(* Mutant of handle_add_writers: the list is added, not its writers        *)
handle_add_writers_nested(r) ==
    IF OwnerDenied(r) # "ok" THEN Refuse(r, OwnerDenied(r))
    ELSE SetPerms(r, [perms[r.db] EXCEPT !.writers = @ \cup {r.writers}])

(* The owner is kept out of the writers, by its name as it is written *)
handle_add_writers(r) ==
    IF OwnerDenied(r) # "ok" THEN Refuse(r, OwnerDenied(r))
    ELSE SetPerms(r, [perms[r.db] EXCEPT !.writers = @ \cup (r.writers \ {perms[r.db].owner})])

handle_remove_writers(r) ==
    IF OwnerDenied(r) # "ok" THEN Refuse(r, OwnerDenied(r))
    ELSE SetPerms(r, [perms[r.db] EXCEPT !.writers = @ \ r.writers])

(* Subscriptions need a session that is still there, but no database *)
Subscription(r) == <<r.db, r.key, r.session, r.nonce>>

handle_subscribe(r) ==
    /\ r.session \in alive
    /\ subs' = subscribe(subs, Subscription(r))
    /\ Respond(r, "ok", {"duplicate" : x \in {Subscription(r)} \cap subs.subs})
    /\ UNCHANGED storage

handle_unsubscribe(r) ==
    /\ r.session \in alive
    /\ subs' = unsubscribe(subs, Subscription(r))
    /\ Respond(r, "ok", {"invalid" : x \in {Subscription(r)} \ subs.subs})
    /\ UNCHANGED storage

(* message_handlers *)
Handle(r) ==
    \/ r.op = "create" /\ handle_create(r)
    \/ r.op = "read" /\ handle_read(r)
    \/ r.op = "update" /\ handle_update(r)
    \/ r.op = "delete" /\ handle_delete(r)
    \/ r.op = "has" /\ handle_has(r)
    \/ r.op = "keys" /\ handle_keys(r)
    \/ r.op = "size" /\ handle_size(r)
    \/ r.op = "subscribe" /\ handle_subscribe(r)
    \/ r.op = "unsubscribe" /\ handle_unsubscribe(r)
    \/ r.op = "create_db" /\ handle_create_db(r)
    \/ r.op = "update_db" /\ handle_update_db(r)
    \/ r.op = "delete_db" /\ handle_delete_db(r)
    \/ r.op = "has_db" /\ handle_has_db(r)
    \/ r.op = "writers" /\ handle_writers(r)
    \/ r.op = "add_writers" /\ handle_add_writers(r)
    \/ r.op = "remove_writers" /\ handle_remove_writers(r)
    \/ r.op = "ttl" /\ handle_ttl(r)
    \/ r.op = "persist" /\ handle_persist(r)
    \/ r.op = "expire" /\ handle_expire(r)

handle_request(r) ==
    /\ \A x \in DOMAIN subs.seq : subs.seq[x] < MaxNotifications
    /\ Handle(r)
    /\ UNCHANGED <<workload, snapshots, clock, pending, alive>>

-----------------------------------------------------------------------------
(* Mutant of check_key_expiration: a pair is taken to have expired only    *)
(* when its time is past                                                   *)
check_key_expiration_late ==
    LET due == {x \in DOMAIN ttl : ttl[x] < clock}
        stale == {x \in DOMAIN ttl \ due : ~has(data[x[1]], x[2])}
    IN  /\ pending' = pending \cup due
        /\ ttl' = Without(ttl, stale)
        /\ UNCHANGED <<workload, perms, data, snapshots, clock, subs, alive, reply>>

(* Every TTL_TICK: a delete of each pair that has expired is handed to     *)
(* pbft, in this node's name; entries without a pair are removed, but only *)
(* if they have not expired.                                               *)
check_key_expiration ==
    LET due == {x \in DOMAIN ttl : ttl[x] <= clock}
        stale == {x \in DOMAIN ttl \ due : ~has(data[x[1]], x[2])}
    IN  /\ pending' = pending \cup due
        /\ ttl' = Without(ttl, stale)
        /\ UNCHANGED <<workload, perms, data, snapshots, clock, subs, alive, reply>>

DeleteRequest(x) ==
    [op |-> "delete", db |-> x[1], key |-> x[2], size |-> 0, expire |-> 0, caller |-> Self,
     max |-> 0, policy |-> "none", writers |-> {}, session |-> "none", nonce |-> 0]

(* pbft has ordered the delete and the service executes it *)
ExecuteDelete(x) ==
    /\ x \in pending
    /\ pending' = pending \ {x}
    /\ handle_delete(DeleteRequest(x))
    /\ UNCHANGED <<workload, snapshots, clock, alive>>

save_state ==
    /\ snapshots' = {[perms |-> perms, data |-> data, ttl |-> ttl]}
    /\ UNCHANGED <<workload, storage, clock, pending, subs, alive, reply>>

(* pbft has the service load the state of a checkpoint; nobody is notified *)
load_state ==
    /\ \E s \in snapshots : perms' = s.perms /\ data' = s.data /\ ttl' = s.ttl
    /\ UNCHANGED <<workload, snapshots, clock, pending, subs, alive, reply>>

Tick ==
    /\ clock < MaxTime
    /\ clock' = clock + 1
    /\ UNCHANGED <<workload, storage, snapshots, pending, subs, alive, reply>>

(* The last reference to a session goes *)
SessionGone(s) ==
    /\ alive' = alive \ {s}
    /\ UNCHANGED <<workload, storage, snapshots, clock, pending, subs, reply>>

PurgeClosedSessions ==
    /\ subs' = purge_closed_sessions(subs, alive)
    /\ UNCHANGED <<workload, storage, snapshots, clock, pending, alive, reply>>

Next ==
    \/ \E r \in workload : handle_request(r)
    \/ check_key_expiration
    \/ \E x \in pending : ExecuteDelete(x)
    \/ \E r \in workload : r.op = "save" /\ (save_state \/ load_state)
    \/ Tick
    \/ \E s \in alive : SessionGone(s)
    \/ PurgeClosedSessions

(* The timer is armed again by its handler, and pbft is taken to order     *)
(* every delete it is handed.                                              *)
Fairness ==
    /\ WF_vars(check_key_expiration)
    /\ \A x \in Dbs \X Keys : WF_vars(ExecuteDelete(x))

Spec == Init /\ [][Next]_vars /\ Fairness

-----------------------------------------------------------------------------
Permissions == [owner : Callers, writers : SUBSET Callers, max : 0 .. SizeWord - 1, policy : Policies]

(* What is in storage, and in its snapshot, has the types crud reads it as *)
StorageOK(p, dt, tl) ==
    /\ DOMAIN p \subseteq Dbs /\ \A d \in DOMAIN p : p[d] \in Permissions
    /\ DOMAIN dt = Dbs
    /\ \A d \in Dbs : /\ dt[d].bytes \in Int /\ DOMAIN dt[d].pairs \subseteq Keys
                      /\ \A k \in DOMAIN dt[d].pairs : dt[d].pairs[k] \in Nat
    /\ DOMAIN tl \subseteq Dbs \X Keys /\ \A x \in DOMAIN tl : tl[x] \in Nat

(* Types: the permissions, pairs and TTL entries in storage and in a       *)
(* snapshot are of the databases and keys in use.                          *)
TypeOK ==
    /\ workload \in Workloads /\ clock \in Nat
    /\ StorageOK(perms, data, ttl)
    /\ \A s \in snapshots : StorageOK(s.perms, s.data, s.ttl)
    /\ pending \subseteq Dbs \X Keys

(* The byte counter of a database, kept by difference through creates,     *)
(* updates, deletes and evictions, is the bytes of its pairs.              *)
SizeExact == \A d \in Dbs : data[d].bytes = PairBytes(data[d])

(* A create or update that makes a database larger leaves it within its    *)
(* limit, whatever was evicted for it and wherever the limit was before.   *)
WithinLimit ==
    [][\A d \in DOMAIN perms :
          reply' # reply /\ data'[d].bytes > data[d].bytes
             => perms[d].max = 0 \/ data'[d].bytes <= perms[d].max]_vars

(* No limit that is asked for wraps when the swarm's storage is added      *)
NoneWraps(W) == \A r \in W : r.max + MaxSwarmStorage < SizeWord

(* No database is without a limit when the swarm has one, and as long as   *)
(* no request asks for a limit so near the end of size_t that the sum in   *)
(* operation_exceeds_available_space wraps, the limits never add up to     *)
(* more than the swarm's, whichever databases are created, resized,        *)
(* deleted or brought back by a state.                                     *)
SwarmStorageBound ==
    MaxSwarmStorage # 0 => /\ NoneWraps(workload) => SwarmLimits(perms) <= MaxSwarmStorage
                           /\ \A d \in DOMAIN perms : perms[d].max # 0

NothingLeft(p, dt, tl) ==
    /\ \A x \in DOMAIN tl : x[1] \in DOMAIN p
    /\ \A d \in Dbs : d \notin DOMAIN p => dt[d] = EmptyDb

(* handle_delete_db leaves nothing that a database created under the same  *)
(* name would find: no pair, no byte in the counter, no TTL entry, and no  *)
(* handler, timer or loaded state brings one back.                         *)
NothingLeftBehind ==
    /\ NothingLeft(perms, data, ttl)
    /\ \A s \in snapshots : NothingLeft(s.perms, s.data, s.ttl)

(* A session that is subscribed throughout misses no sequence number: once *)
(* it has been notified it has been sent the latest, however many others   *)
(* subscribe, unsubscribe or go.                                           *)
SubscribersCurrent ==
    \A x \in DOMAIN subs.sent : x[3] \in alive => subs.sent[x] = subs.seq[Topic(x)]

(* A pair that has expired in a database without an eviction policy is     *)
(* removed, and its key is free again.                                     *)
ExpiredRemoved ==
    \A d \in Dbs, k \in Keys :
        (Exists(d) /\ perms[d].policy = "none" /\ expired(d, k) /\ has(data[d], k))
            ~> (~expired(d, k) \/ perms[d].policy # "none")

(* What clients see: the pairs that have not expired *)
Visible(p, dt, tl) ==
    LET gone(d) == {k \in Keys : <<d, k>> \in DOMAIN tl /\ tl[<<d, k>>] <= clock}
        live == [d \in Dbs |-> Without(dt[d].pairs, gone(d))]
    IN  [live |-> live,
         mortal |-> {x \in DOMAIN tl : x[2] \in DOMAIN live[x[1]]},
         evicts |-> {d \in DOMAIN p : p[d].policy # "none"}]

Contract == INSTANCE KeyValueContract
            WITH cur <- Visible(perms, data, ttl),
                 saved <- {Visible(s.perms, s.data, s.ttl) : s \in snapshots},
                 reply <- reply

(* Every reply of crud is true of the pairs that have not expired, and a   *)
(* pair is lost only to a delete, its expiry or an eviction policy.        *)
ImplementsKeyValue == Contract!Spec
=============================================================================
