---------------------------- MODULE DurableStore ----------------------------
(***************************************************************************)
(* What the storage of a node promises across crashes: a call takes effect *)
(* on the pairs as a whole or not at all, once it has returned the effect  *)
(* stays, and nothing else changes the pairs.  There are two exceptions:   *)
(* removing a whole uuid goes key by key, and a crash in the middle of a   *)
(* load leaves any part of what was being loaded.                          *)
(***************************************************************************)
EXTENDS Naturals

CONSTANT NoCall

VARIABLES
    content,    \* the pairs: a function from <<uuid, key>>
    call,       \* the call being executed, or NoCall
    acked       \* the last call that returned

Put(f, x, v) == [y \in DOMAIN f \cup {x} |-> IF y = x THEN v ELSE f[y]]
Without(f, X) == [y \in DOMAIN f \ X |-> f[y]]

(* What the pairs f may be after a part of the call's work, and whether    *)
(* they show that all of it is done                                        *)
Effects(f, c) ==
    LET x == <<c.uuid, c.key>>
    IN  CASE c.op = "create" -> {IF x \in DOMAIN f THEN f ELSE Put(f, x, c.value)}
          [] c.op = "update" -> {IF x \in DOMAIN f THEN Put(f, x, c.value) ELSE f}
          [] c.op = "remove" -> {Without(f, {x})}
          [] c.op = "remove_range" -> {Without(f, {c.uuid} \X c.keys)}
          [] c.op = "remove_uuid" -> {Without(f, X) : X \in SUBSET {y \in DOMAIN f : y[1] = c.uuid}}
          [] c.op = "create_snapshot" -> {f}
          [] c.op = "load_snapshot" -> {f, c.value}
Done(f, c) == Effects(f, c) = {f} \/ c.op = "load_snapshot"

(* The parts of what is loaded that a crash may leave *)
Torn(f, c) ==
    IF c # NoCall /\ c.op = "load_snapshot"
    THEN {f} \cup {Without(c.value, X) : X \in SUBSET DOMAIN c.value}
    ELSE {f}

(* What was there when the node started stays *)
Init == call = NoCall /\ acked = NoCall

Begin == call = NoCall /\ call' # NoCall /\ UNCHANGED <<content, acked>>
Take == call # NoCall /\ content' \in Effects(content, call) /\ UNCHANGED <<call, acked>>
Return == call # NoCall /\ Done(content, call) /\ call' = NoCall /\ acked' = call /\ UNCHANGED content
Crash == call' = NoCall /\ content' \in Torn(content, call) /\ UNCHANGED acked

Next == Begin \/ Take \/ Return \/ Crash

Spec == Init /\ [][Next]_<<content, call, acked>>
=============================================================================
