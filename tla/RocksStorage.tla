---------------------------- MODULE RocksStorage ----------------------------
(***************************************************************************)
(* rocksdb_storage: one database directory with the pairs and, under other *)
(* keys, the metadata that tells how large a uuid and each of its pairs    *)
(* are; a snapshot file; and the directory and file that load_snapshot     *)
(* sets aside.  Every write to the database or the file system is a step   *)
(* of its own, between which the process may crash.  The lock lets one     *)
(* call write at a time.                                                   *)
(*                                                                         *)
(* A uuid is not the prefix of another, so that uuid+key tells them apart; *)
(* I/O errors of the database are left out.                                *)
(***************************************************************************)
EXTENDS Integers, Sequences, FiniteSets, Functions

CONSTANTS
    Word,               \* 2^32: sizes are uint32_t
    SizeOf(_, _),       \* the bytes of a key and its value
    MaxCrashes          \* bound on the crashes

ASSUME WordAssumption == Word \in Nat \ {0} /\ MaxCrashes \in Nat

VARIABLES
    disk,       \* the database: pairs, ns (NAMESPACE sizes), ks (SIZE of keys)
    backup,     \* the database moved out of the way, if there is one
    snap,       \* the snapshot file, if there is one
    tmp,        \* the temporary snapshot file, if there is one
    call,       \* the call being executed
    todo,       \* the writes to the database that it has still to do
    phase,      \* how far load_snapshot or create_snapshot is
    acked,      \* the last call that returned
    crashes,    \* how many crashes there have been
    clean,      \* no crash came between the writes of a call
    torn        \* a crash came during load_snapshot

NoCall == [op |-> "none"]

(* The elements of a finite set, in some order: the order in which a       *)
(* container is walked through.                                            *)
Listing(S) == CHOOSE s \in Injection(1..Cardinality(S), S) : TRUE

rocksVars == <<disk, backup, snap, tmp, call, todo, phase, acked, crashes, clean, torn>>

(* What open would find; while load_snapshot may still put the old         *)
(* database back, that is what counts.                                     *)
Content ==
    IF phase \in {"moved", "failed", "wiped"}
    THEN (CHOOSE d \in backup : TRUE).pairs ELSE disk.pairs

Store == INSTANCE DurableStore WITH content <- Content
Put(f, x, v) == Store!Put(f, x, v)
Without(f, X) == Store!Without(f, X)

NoEntries == [x \in {} |-> 0]
EmptyDisk == [pairs |-> NoEntries, ns |-> NoEntries, ks |-> NoEntries]
File(d, whole) == [disk |-> d, whole |-> whole]

RocksInit(d) ==
    /\ disk = d /\ backup = {} /\ snap = {} /\ tmp = {}
    /\ call = NoCall /\ todo = <<>> /\ phase = "idle" /\ acked = NoCall
    /\ crashes = 0 /\ clean = TRUE /\ torn = FALSE

has_priv(u, k) == <<u, k>> \in DOMAIN disk.pairs
get_metadata_size(f, x) == IF x \in DOMAIN f THEN f[x] ELSE 0

PutIn(area, x, v) == [area |-> area, at |-> {x}, put |-> TRUE, value |-> v]
DeleteIn(area, X) == [area |-> area, at |-> X, put |-> FALSE, value |-> 0]

Apply(d, w) ==
    [d EXCEPT ![w.area] = IF w.put THEN Put(@, CHOOSE x \in w.at : TRUE, w.value) ELSE Without(@, w.at)]

(* The writes of each call, in their order *)
create(c) ==
    LET x == <<c.uuid, c.key>>
        size == SizeOf(c.key, c.value)
    IN  IF has_priv(c.uuid, c.key)
        THEN <<>>
        ELSE <<PutIn("pairs", x, c.value),
               PutIn("ns", c.uuid, (get_metadata_size(disk.ns, c.uuid) + size) % Word),
               PutIn("ks", x, size)>>

(* Mutant of update: the size of the old value is not taken off            *)
update_adds(c) ==
    LET x == <<c.uuid, c.key>>
        size == SizeOf(c.key, c.value)
    IN  IF ~has_priv(c.uuid, c.key)
        THEN <<>>
        ELSE <<PutIn("pairs", x, c.value),
               PutIn("ns", c.uuid, (get_metadata_size(disk.ns, c.uuid) + size) % Word),
               PutIn("ks", x, size)>>

(* Mutant of update: the old pair is deleted first                         *)
update_deletes(c) ==
    IF ~has_priv(c.uuid, c.key)
    THEN <<>>
    ELSE <<DeleteIn("pairs", {<<c.uuid, c.key>>}), PutIn("pairs", <<c.uuid, c.key>>, c.value)>>

update(c) ==
    LET x == <<c.uuid, c.key>>
        size == SizeOf(c.key, c.value)
        others == get_metadata_size(disk.ns, c.uuid) - get_metadata_size(disk.ks, x)
    IN  IF ~has_priv(c.uuid, c.key)
        THEN <<>>
        ELSE <<PutIn("pairs", x, c.value),
               PutIn("ns", c.uuid, (others + size) % Word),
               PutIn("ks", x, size)>>

(* Mutant of remove: a size that comes out negative does not wrap around   *)
remove_signed(c) ==
    LET x == <<c.uuid, c.key>>
        others == get_metadata_size(disk.ns, c.uuid) - get_metadata_size(disk.ks, x)
    IN  IF ~has_priv(c.uuid, c.key)
        THEN <<>>
        ELSE <<DeleteIn("pairs", {x}), PutIn("ns", c.uuid, others), DeleteIn("ks", {x})>>

(* Sizes are unsigned.  After a crash they may be too small, and the       *)
(* difference wraps around.                                                *)
remove(c) ==
    LET x == <<c.uuid, c.key>>
        others == get_metadata_size(disk.ns, c.uuid) - get_metadata_size(disk.ks, x)
    IN  IF ~has_priv(c.uuid, c.key)
        THEN <<>>
        ELSE <<DeleteIn("pairs", {x}), PutIn("ns", c.uuid, others % Word), DeleteIn("ks", {x})>>

(* One delete for each key found, then one for each of the metadata.  The  *)
(* iterator that finds the keys is a snapshot taken before the write lock: *)
(* crud calls in with its own lock held, so nothing is written between.    *)
remove_uuid(c) ==
    LET of(f) == Listing({x \in DOMAIN f : x[1] = c.uuid})
        each(area, xs) == [i \in DOMAIN xs |-> DeleteIn(area, {xs[i]})]
    IN  each("pairs", of(disk.pairs)) \o <<DeleteIn("ns", {c.uuid})>> \o each("ks", of(disk.ks))

(* The metadata is not touched *)
remove_range(c) == <<DeleteIn("pairs", {c.uuid} \X c.keys)>>

Begin(c) ==
    /\ call = NoCall /\ call' = c
    /\ todo' = CASE c.op = "create" -> create(c)
                 [] c.op = "update" -> update(c)
                 [] c.op = "remove" -> remove(c)
                 [] c.op = "remove_uuid" -> remove_uuid(c)
                 [] c.op = "remove_range" -> remove_range(c)
                 [] OTHER -> <<>>
    /\ UNCHANGED <<disk, backup, snap, tmp, phase, acked, crashes, clean, torn>>

Write ==
    /\ todo # <<>>
    /\ disk' = Apply(disk, Head(todo)) /\ todo' = Tail(todo)
    /\ UNCHANGED <<backup, snap, tmp, call, phase, acked, crashes, clean, torn>>

Returns == call' = NoCall /\ acked' = call /\ UNCHANGED <<todo, crashes, clean, torn>>

Return ==
    /\ call # NoCall /\ call.op \notin {"create_snapshot", "load_snapshot"} /\ todo = <<>>
    /\ Returns
    /\ UNCHANGED <<disk, backup, snap, tmp, phase>>

-----------------------------------------------------------------------------
(* create_snapshot: the dump goes straight into the snapshot file *)
create_snapshot ==
    /\ call # NoCall /\ call.op = "create_snapshot"
    /\ \/ /\ phase = "idle" /\ phase' = "dumping" /\ snap' = {File(EmptyDisk, FALSE)}
          /\ UNCHANGED <<call, todo, acked, crashes, clean, torn>>
       \/ /\ phase = "dumping" /\ phase' = "idle" /\ snap' = {File(disk, TRUE)}
          /\ Returns
    /\ UNCHANGED <<disk, backup, tmp>>

Goto(from, to) ==
    /\ phase = from /\ phase' = to
    /\ UNCHANGED <<call, todo, acked, crashes, clean, torn>>

(* A part of the data that the undump tool has written *)
Parts(d) ==
    {EmptyDisk} \cup {[d EXCEPT !.pairs = Without(@, X)] : X \in SUBSET DOMAIN d.pairs}

(* load_snapshot, step by step.  The database is moved aside, which fails  *)
(* when an earlier one is still there, and the data undumped in its place; *)
(* then the old database is removed, or put back.                          *)
SaveData == /\ Goto("idle", "saved") /\ tmp' = {call.data} /\ UNCHANGED <<disk, backup, snap>>
MoveAside ==
    /\ backup = {} /\ Goto("saved", "moved")
    /\ backup' = {disk} /\ disk' = EmptyDisk /\ UNCHANGED <<snap, tmp>>
MoveFails ==
    /\ backup # {} /\ phase = "saved" /\ phase' = "idle" /\ Returns
    /\ UNCHANGED <<disk, backup, snap, tmp>>
Undump ==
    /\ call.data.whole /\ Goto("moved", "loaded")
    /\ disk' = call.data.disk /\ UNCHANGED <<backup, snap, tmp>>
UndumpFails == /\ Goto("moved", "failed") /\ disk' \in Parts(call.data.disk) /\ UNCHANGED <<backup, snap, tmp>>

(* Mutant of DropBackup: the old database stays                            *)
DropBackup_not == Goto("loaded", "dropped") /\ UNCHANGED <<disk, backup, snap, tmp>>

DropBackup == Goto("loaded", "dropped") /\ backup' = {} /\ UNCHANGED <<disk, snap, tmp>>
DropSnapshot == Goto("dropped", "unlinked") /\ snap' = {} /\ UNCHANGED <<disk, backup, tmp>>
KeepSnapshot ==
    /\ phase = "unlinked" /\ phase' = "idle" /\ Returns
    /\ snap' = tmp /\ tmp' = {} /\ UNCHANGED <<disk, backup>>
Wipe == Goto("failed", "wiped") /\ disk' = EmptyDisk /\ UNCHANGED <<backup, snap, tmp>>
PutBack ==
    /\ Goto("wiped", "restored")
    /\ disk' = CHOOSE d \in backup : TRUE
    /\ backup' = {} /\ UNCHANGED <<snap, tmp>>
DropData ==
    /\ phase = "restored" /\ phase' = "idle" /\ Returns
    /\ tmp' = {} /\ UNCHANGED <<disk, backup, snap>>

load_snapshot ==
    /\ call # NoCall /\ call.op = "load_snapshot"
    /\ \/ SaveData \/ MoveAside \/ MoveFails \/ Undump \/ UndumpFails
       \/ DropBackup \/ DropSnapshot \/ KeepSnapshot \/ Wipe \/ PutBack \/ DropData

(* The process dies; open creates the database if it is missing *)
CrashStorage ==
    /\ crashes < MaxCrashes /\ crashes' = crashes + 1
    /\ call' = NoCall /\ todo' = <<>> /\ phase' = "idle"
    /\ disk' \in IF phase = "moved" THEN Parts(call.data.disk) ELSE {disk}
    /\ clean' = (/\ clean /\ phase \notin {"moved", "failed"}
                 /\ todo = <<>> \/ (Head(todo).area = "pairs" /\ call.op # "remove_uuid"))
    /\ torn' = (torn \/ (call # NoCall /\ call.op = "load_snapshot"))
    /\ UNCHANGED <<backup, snap, tmp, acked>>

StorageStep == Write \/ Return \/ create_snapshot \/ load_snapshot
=============================================================================
