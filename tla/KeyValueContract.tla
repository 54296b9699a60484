-------------------------- MODULE KeyValueContract --------------------------
(***************************************************************************)
(* What a client of the databases may rely on: each database is a map, a   *)
(* reply is true of it, and a pair leaves it only when it is deleted, when *)
(* it was written to expire, or when the database has an eviction policy.  *)
(*                                                                         *)
(* A state is a record: live, the pairs a read returns, by database;       *)
(* mortal, the <<database, key>> that may expire; and evicts, the          *)
(* databases whose pairs may be evicted.  saved is the state saved last,   *)
(* if there is one.                                                        *)
(***************************************************************************)
EXTENDS MemStorage

CONSTANTS Dbs

VARIABLES cur, saved, reply

Lose(st, M) ==
    [st EXCEPT !.live = [d \in Dbs |-> Without(@[d], {k \in DOMAIN @[d] : <<d, k>> \in M})],
               !.mortal = @ \ M]

Faded(st) == {Lose(st, M) : M \in SUBSET st.mortal}

Store(st, r) ==
    [st EXCEPT !.live[r.db] = Put(@, r.key, r.size),
               !.mortal = IF r.expire = 0 THEN @ \ {<<r.db, r.key>>}
                                          ELSE @ \cup {<<r.db, r.key>>}]

Init ==
    /\ cur = [live |-> [d \in Dbs |-> NoPairs], mortal |-> {}, evicts |-> {}]
    /\ saved = {}

(* Time passes *)
Expire ==
    /\ UNCHANGED reply
    /\ cur' \in Faded(cur)
    /\ saved' \in {{st} : st \in UNION {Faded(st) : st \in saved}} \cup {saved}

(* A create or an update, which may evict other pairs even when it is      *)
(* refused because the key exists or its value is too long for storage.    *)
Write ==
    LET r == reply'.req
        there == r.key \in DOMAIN cur.live[r.db]
    IN  /\ r.op \in {"create", "update"}
        /\ \E E \in SUBSET DOMAIN cur.live[r.db] :
              LET base == Lose(cur, {r.db} \X E)
                  kept == r.key \in DOMAIN base.live[r.db]
              IN  /\ E # {} => /\ r.db \in cur.evicts
                               /\ reply'.code \in {"ok", "exists", "value_too_large"}
                  /\ reply'.code = "ok" => (kept <=> r.op = "update")
                  /\ reply'.code = "exists" => kept
                  /\ reply'.code \in {"not_found", "delete_pending"} => ~there
                  /\ cur' = IF reply'.code = "ok" THEN Store(base, r) ELSE base
        /\ UNCHANGED saved

(* A delete may find a pair that has expired and no read returns *)
Delete ==
    LET r == reply'.req
    IN  /\ r.op = "delete"
        /\ reply'.code = "not_found" => r.key \notin DOMAIN cur.live[r.db]
        /\ cur' = IF reply'.code = "ok" THEN Lose(cur, {<<r.db, r.key>>}) ELSE cur
        /\ UNCHANGED saved

(* persist and expire change only whether a pair may expire *)
Retime ==
    LET r == reply'.req
        pair == {<<r.db, r.key>> : x \in {r.key} \cap DOMAIN cur.live[r.db]}
    IN  /\ r.op \in {"persist", "expire"}
        /\ cur' = IF reply'.code # "ok" THEN cur
                  ELSE [cur EXCEPT !.mortal = IF r.op = "persist" THEN @ \ pair ELSE @ \cup pair]
        /\ UNCHANGED saved

Inquire ==
    LET r == reply'.req
        live == cur.live[r.db]
    IN  /\ r.op = "read" => IF r.key \in DOMAIN live
                            THEN reply'.code = "ok" /\ reply'.value = {live[r.key]}
                            ELSE reply'.code # "ok"
        /\ r.op = "has" /\ reply'.code = "ok" => reply'.value = {r.key} \cap DOMAIN live
        /\ r.op = "keys" /\ reply'.code = "ok" => reply'.value = DOMAIN live
        /\ r.op \in {"read", "has", "keys", "size", "ttl", "has_db", "writers", "add_writers",
                     "remove_writers", "subscribe", "unsubscribe"}
        /\ UNCHANGED <<cur, saved>>

(* A database is created empty, and is empty when it is deleted *)
Administer ==
    LET r == reply'.req
        change == {r.db : x \in {r.policy} \ {"none"}}
    IN  /\ r.op \in {"create_db", "update_db", "delete_db"}
        /\ r.op = "create_db" /\ reply'.code = "ok" => cur.live[r.db] = NoPairs
        /\ cur' = CASE reply'.code # "ok" -> cur
                    [] r.op = "delete_db" /\ reply'.code = "ok" ->
                          [Lose(cur, {r.db} \X DOMAIN cur.live[r.db]) EXCEPT !.evicts = @ \ {r.db}]
                    [] OTHER -> [cur EXCEPT !.evicts = (@ \ {r.db}) \cup change]
        /\ UNCHANGED saved

Save == UNCHANGED <<reply, cur>> /\ saved' = {cur}
Load == UNCHANGED <<reply, saved>> /\ cur' \in saved

Next == Write \/ Delete \/ Retime \/ Inquire \/ Administer \/ Save \/ Load \/ Expire

Spec == Init /\ [][Next]_<<cur, saved, reply>>
=============================================================================
