-------------------------- MODULE CheckpointStore --------------------------
(***************************************************************************)
(* pbft_checkpoint_manager and the persistent<> values it keeps, on the    *)
(* storage of RocksStorage: every constructor, assignment and destroy() of *)
(* a persistent<> is a storage call, and the process may crash between two *)
(* of them or inside one.  The manager's lock is held until the last call  *)
(* of a handler has returned.  Clients of storage other than pbft, in a    *)
(* behaviour of their own, call it as they like.                           *)
(*                                                                         *)
(* A checkpoint is its sequence number (see Checkpoint), a checkpoint      *)
(* message its sender and checkpoint.  No uuid of a peer reads as a        *)
(* checkpoint, which is a number, '_' and a hash.                          *)
(***************************************************************************)
EXTENDS RocksStorage, PbftQuorum

CONSTANTS
    State,          \* STATE_UUID
    Ranged,         \* the uuids that remove_range is used on
    Peers,          \* the current peers
    Messages,       \* the checkpoint messages: <<sender, checkpoint>>
    Calls,          \* the calls the other clients may make
    MaxCalls        \* bound on them

ASSUME CallsAssumption ==
    \A c \in Calls :
        /\ c.op \in {"create", "update", "remove", "remove_uuid", "remove_range", "create_snapshot"}
        /\ c.op = "remove_range" => c.uuid \in Ranged

ASSUME ManagerAssumption ==
    IsFiniteSet(Peers) /\ Peers # {} /\ \A m \in Messages : m[2] \in Nat

VARIABLES
    pbft,           \* whether the behaviour is the manager's or the others'
    mem,            \* the manager's values in memory
    queue,          \* the storage calls of the handler that it has still to make
    up,             \* the manager could be constructed when the process started
    made            \* how many calls the others have made

vars == <<rocksVars, pbft, mem, queue, up, made>>

Stable == <<"stable">>
Local == <<"local">>
Proof(s) == <<"proof", s>>
Partial(cp, s) == <<"partial", cp, s>>

(* create and update refuse a key or a value that is too large: the bytes  *)
(* of every pair fit in a size.                                            *)
Fits(n) == n \in 0..(Word - 1)

ASSUME SizesAssumption ==
    /\ \A v \in {0} \cup {m[2] : m \in Messages} : Fits(SizeOf(Stable, v)) /\ Fits(SizeOf(Local, v))
    /\ \A m, n \in Messages :
          Fits(SizeOf(Proof(m[1]), n[2])) /\ Fits(SizeOf(Partial(m[2], m[1]), m[2]))
    /\ \A c \in Calls : c.op \in {"create", "update"} => Fits(SizeOf(c.key, c.value))

Call(op, k, v) == [op |-> op, uuid |-> State, key |-> k, value |-> v]

(* The stored values, as persistent<>'s constructor and init_persists read *)
(* them.  Evidence is stored under its checkpoint and then its sender, and *)
(* read back as a uuid and then a checkpoint: from_string throws on it,    *)
(* and the manager is not constructed.  Where it does not throw there is   *)
(* no evidence to read.                                                    *)
Stored(k) == disk.pairs[<<State, k>>]
StoredKeys(kind) ==
    {k \in {x[2] : x \in {x \in DOMAIN disk.pairs : x[1] = State}} : k[1] = kind}
init_persists_throws == StoredKeys("partial") # {}
init_persists ==
    [stable |-> Stored(Stable), local |-> Stored(Local),
     proof |-> [s \in {k[2] : k \in StoredKeys("proof")} |-> Stored(Proof(s))],
     partial |-> {}]

(* The database after the first start: both checkpoints have their default *)
FirstDisk ==
    LET both == {<<State, Stable>>, <<State, Local>>}
    IN  [pairs |-> [x \in both |-> 0],
         ns |-> [u \in {State} |-> (SizeOf(Stable, 0) + SizeOf(Local, 0)) % Word],
         ks |-> [x \in both |-> SizeOf(x[2], 0)]]

Init ==
    /\ pbft \in BOOLEAN
    /\ RocksInit(IF pbft THEN FirstDisk ELSE EmptyDisk)
    /\ mem = [stable |-> 0, local |-> 0, proof |-> NoEntries, partial |-> {}]
    /\ queue = <<>> /\ up = TRUE /\ made = 0

Idle == call = NoCall /\ queue = <<>>

(* latest_stable_checkpoint_proof[s] = persistent<>{storage, cp, ...}: a   *)
(* value that is in storage already is kept.                               *)
Kept(s, cp, destroyed) ==
    IF has_priv(State, Proof(s)) /\ s \notin destroyed THEN Stored(Proof(s)) ELSE cp
Destroys(K) == [i \in DOMAIN Listing(K) |-> Call("remove", Listing(K)[i], 0)]
Creates(K, cp) == [i \in DOMAIN Listing(K) |-> Call("create", Listing(K)[i], cp)]

Handled(m, calls) ==
    /\ mem' = m /\ queue' = calls
    /\ UNCHANGED <<rocksVars, pbft, up, made>>

(* Mutant of stabilize_checkpoint: the new proof is stored before the old  *)
(* one is destroyed                                                        *)
stabilize_checkpoint_swapped(m, cp) ==
    LET senders == {p[2] : p \in {p \in m.partial : p[1] = cp}}
        old == {p \in m.partial : p[1] <= cp}
    IN  [mem |-> [m EXCEPT !.stable = cp,
                           !.proof = [s \in senders |-> Kept(s, cp, {})],
                           !.partial = @ \ old],
         calls |-> <<Call("update", Stable, cp)>>
                     \o Creates({Proof(s) : s \in senders}, cp)
                     \o Destroys({Proof(s) : s \in DOMAIN m.proof \ senders})
                     \o Destroys({Partial(p[1], p[2]) : p \in old})]

(* Mutant of stabilize_checkpoint: the old evidence is dropped from memory *)
(* only                                                                    *)
stabilize_checkpoint_forgets(m, cp) ==
    LET senders == {p[2] : p \in {p \in m.partial : p[1] = cp}}
        old == {p \in m.partial : p[1] <= cp}
    IN  [mem |-> [m EXCEPT !.stable = cp,
                           !.proof = [s \in senders |-> Kept(s, cp, DOMAIN m.proof)],
                           !.partial = @ \ old],
         calls |-> <<Call("update", Stable, cp)>>
                     \o Destroys({Proof(s) : s \in DOMAIN m.proof})
                     \o Creates({Proof(s) : s \in senders}, cp)]

(* The checkpoint is written, the old proof destroyed, the new one stored, *)
(* and then the evidence for this checkpoint and older ones destroyed.     *)
stabilize_checkpoint(m, cp) ==
    LET senders == {p[2] : p \in {p \in m.partial : p[1] = cp}}
        old == {p \in m.partial : p[1] <= cp}
    IN  [mem |-> [m EXCEPT !.stable = cp,
                           !.proof = [s \in senders |-> Kept(s, cp, DOMAIN m.proof)],
                           !.partial = @ \ old],
         calls |-> <<Call("update", Stable, cp)>>
                     \o Destroys({Proof(s) : s \in DOMAIN m.proof})
                     \o Creates({Proof(s) : s \in senders}, cp)
                     \o Destroys({Partial(p[1], p[2]) : p \in old})]

handle_checkpoint_message(sender, cp) ==
    LET evidence == [mem EXCEPT !.partial = @ \cup {<<cp, sender>>}]
        store == IF <<cp, sender>> \in mem.partial THEN <<>>
                 ELSE <<Call("create", Partial(cp, sender), cp)>>
        attestants == {p[2] : p \in {p \in evidence.partial : p[1] = cp}} \cap Peers
        stabilized == stabilize_checkpoint(evidence, cp)
    IN  /\ pbft /\ up /\ Idle /\ cp >= mem.local
        /\ IF cp = mem.stable
           THEN Handled([mem EXCEPT !.proof = Put(@, sender, Kept(sender, cp, {}))],
                        <<Call("create", Proof(sender), cp)>>)
           ELSE IF Cardinality(attestants) >= honest_member_size(Cardinality(Peers))
           THEN Handled(stabilized.mem, store \o stabilized.calls)
           ELSE Handled(evidence, store)

local_checkpoint_reached(cp) ==
    /\ pbft /\ up /\ Idle /\ cp > mem.local
    /\ Handled([mem EXCEPT !.local = cp], <<Call("update", Local, cp)>>)

(* The handler makes its next call *)
NextCall ==
    /\ queue # <<>> /\ Begin(Head(queue)) /\ queue' = Tail(queue)
    /\ UNCHANGED <<pbft, mem, up, made>>

OtherCall ==
    /\ ~pbft /\ made < MaxCalls /\ made' = made + 1
    /\ \/ \E c \in Calls : Begin(c)
       \/ \E d \in snap \cup {File(EmptyDisk, TRUE)} :
             Begin([op |-> "load_snapshot", value |-> d.disk.pairs, data |-> d])
    /\ UNCHANGED <<pbft, mem, queue, up>>

StorageWorks == StorageStep /\ UNCHANGED <<pbft, mem, queue, up, made>>

(* The process dies and starts again: mem is read back from storage, by    *)
(* the same step, since the new database is known then, or the constructor *)
(* throws.                                                                 *)
Crash ==
    /\ CrashStorage
    /\ queue' = <<>>
    /\ up' = (pbft => ~init_persists_throws')
    /\ mem' = IF pbft /\ up' THEN init_persists' ELSE mem
    /\ UNCHANGED <<pbft, made>>

Next ==
    \/ \E m \in Messages : handle_checkpoint_message(m[1], m[2])
    \/ \E m \in Messages : local_checkpoint_reached(m[2])
    \/ NextCall \/ OtherCall \/ StorageWorks \/ Crash

Spec == Init /\ [][Next]_vars

-----------------------------------------------------------------------------
(* Types of the database, its copies, and what the manager has in memory   *)
DiskOK(d) ==
    /\ DOMAIN d = {"pairs", "ns", "ks"}
    /\ (\A u \in DOMAIN d.ns : Fits(d.ns[u])) /\ \A x \in DOMAIN d.ks : Fits(d.ks[x])
TypeOK ==
    /\ DiskOK(disk) /\ \A d \in backup : DiskOK(d)
    /\ \A f \in snap \cup tmp : DiskOK(f.disk) /\ f.whole \in BOOLEAN
    /\ Cardinality(backup) <= 1 /\ Cardinality(snap) <= 1 /\ Cardinality(tmp) <= 1
    /\ phase \in {"idle", "dumping", "saved", "moved", "loaded", "dropped", "unlinked",
                  "failed", "wiped", "restored"}
    /\ phase # "idle" => call # NoCall /\ todo = <<>>
    /\ up \in BOOLEAN /\ mem.partial \subseteq {<<m[2], m[1]>> : m \in Messages}

(* The sizes that create, update and remove keep by difference are those   *)
(* of the pairs, of each uuid and of each pair, until a crash comes        *)
(* between the writes of a call.  remove_range keeps none.                 *)
SizesExact ==
    clean /\ call = NoCall =>
        \A u \in {x[1] : x \in DOMAIN disk.pairs} \cup DOMAIN disk.ns :
            LET own == {x \in DOMAIN disk.pairs : x[1] = u}
            IN  u \notin Ranged =>
                  /\ get_metadata_size(disk.ns, u)
                        = SumFunction([x \in own |-> SizeOf(x[2], disk.pairs[x])]) % Word
                  /\ {x \in DOMAIN disk.ks : x[1] = u} = own
                  /\ \A x \in own : disk.ks[x] = SizeOf(x[2], disk.pairs[x])

(* load_snapshot leaves nothing behind, whether it succeeds or fails,      *)
(* unless the process died in it: a database that is left aside makes      *)
(* every later load fail.                                                  *)
LoadCleansUp == phase = "idle" /\ ~torn => backup = {} /\ tmp = {}

(* Storage keeps what DurableStore promises: calls are atomic on the pairs *)
(* and durable once they return, across crashes at any write.              *)
ImplementsStore == Store!Spec

(* What a restart after a handler would find, also after earlier crashes   *)
(* inside a handler: if the manager holds evidence for a checkpoint that   *)
(* is not stable yet, init_persists throws, and there is no manager; if it *)
(* holds none, init_persists does not throw, and reads back exactly what   *)
(* was in memory.  Evidence that was dropped from memory never stands in   *)
(* the way of a restart.                                                   *)
RestartFindsMemory ==
    pbft /\ up /\ Idle =>
        IF mem.partial = {}
        THEN ~init_persists_throws /\ init_persists = mem
        ELSE init_persists_throws

(* The proof of the stable checkpoint is of that checkpoint, and from      *)
(* enough peers, also after a crash between the writes of the two: the     *)
(* manager that would find one without the other is not constructed.       *)
ProofMatchesStable ==
    pbft /\ up /\ Idle /\ mem.stable # 0 =>
        /\ \A s \in DOMAIN mem.proof : mem.proof[s] = mem.stable
        /\ Cardinality(DOMAIN mem.proof) >= honest_member_size(Cardinality(Peers))
=============================================================================
