---------------------------- MODULE Subscriptions ----------------------------
(***************************************************************************)
(* subscription_manager: its state as a value and its operations as        *)
(* functions of it.  A subscription is <<database, key, session, nonce>>.  *)
(*                                                                         *)
(* subscribers is a map of maps of maps of maps.  An inner map that goes   *)
(* empty stays until the purge, so entries keeps the paths to the maps of  *)
(* nonces; a database or a key is in the map when a path goes through it.  *)
(* sent is the history of the notifications: the last sequence number sent *)
(* to each subscription.                                                   *)
(***************************************************************************)
EXTENDS Integers

NoSubscribers(Topics) ==
    [subs |-> {}, entries |-> {}, seq |-> [t \in Topics |-> 0], sent |-> [x \in {} |-> 0]]

Topic(x) == <<x[1], x[2]>>
Path(x) == <<x[1], x[2], x[3]>>
KnownDb(m, d) == \E e \in m.entries : e[1] = d
KnownTopic(m, t) == \E e \in m.entries : Topic(e) = t

Restricted(f, S) == [x \in DOMAIN f \cap S |-> f[x]]

(* Mutant of subscribe: a subscriber that joins a key others are           *)
(* subscribed to resets its sequence number too                            *)
subscribe_always_resets(m, x) ==
    IF x \in m.subs
    THEN m
    ELSE [m EXCEPT !.subs = @ \cup {x},
                   !.entries = @ \cup {Path(x)},
                   !.seq[Topic(x)] = 0]

(* subscribe: the second subscription with the same nonce is refused; a    *)
(* key that is new in a known database starts at zero, while in a database *)
(* that is new itself the key goes on from where it was.                   *)
subscribe(m, x) ==
    IF x \in m.subs
    THEN m
    ELSE [m EXCEPT !.subs = @ \cup {x},
                   !.entries = @ \cup {Path(x)},
                   !.seq[Topic(x)] = IF KnownDb(m, x[1]) /\ ~KnownTopic(m, Topic(x))
                                     THEN 0 ELSE @]

unsubscribe(m, x) ==
    [m EXCEPT !.subs = @ \ {x}, !.sent = Restricted(@, m.subs \ {x})]

(* notify_sessions: the sequence number goes up once per commit, even when *)
(* every map of nonces is empty or every session is gone.                  *)
notify_sessions(m, t, alive) ==
    LET told == {x \in m.subs : Topic(x) = t /\ x[3] \in alive}
    IN  IF ~KnownTopic(m, t)
        THEN m
        ELSE [m EXCEPT !.seq[t] = @ + 1,
                       !.sent = [x \in DOMAIN @ \cup told |->
                                    IF x \in told THEN m.seq[t] + 1 ELSE @[x]]]

(* purge_closed_sessions: subscriptions of sessions that are gone, then    *)
(* the maps that are empty.  key_seq_number is left alone.                 *)
purge_closed_sessions(m, alive) ==
    LET kept == {x \in m.subs : x[3] \in alive}
    IN  [m EXCEPT !.subs = kept,
                  !.entries = {Path(x) : x \in kept},
                  !.sent = Restricted(@, kept)]
=============================================================================
