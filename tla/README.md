# A TLA+ model of the Bluzelle swarm

`swarm` is a replicated key/value database. A swarm of nodes orders client
requests with PBFT (`pbft/`), each node hands the ordered requests to a service
(`pbft/database_pbft_service.cpp`) that executes them on `crud/` over `storage/`,
and nodes talk over websocket sessions (`node/`). This directory holds TLA+
modules for the ordering protocol, its view change and checkpoints, the service,
the database with its expiry, eviction and subscriptions, storage with crashes
between its writes, and the sessions through which requests come in and answers
go out; TLC configurations for them; and TLAPS proofs. Paths below are relative
to the sources; `PROJECT.json` maps every definition to its lines.

## The system and its parts

| part | state | operations | with whom it interacts |
|---|---|---|---|
| pbft | view, view_is_valid, last_view_sent, next_issued, accepted_preprepares, recent_requests, valid_viewchange_messages_for_view, saved_newview | handlers of request, preprepare, prepare, commit, viewchange, newview, get/set state, failure; the execute handler | node, service, operation and checkpoint manager |
| operation manager | operations by view, sequence and hash, with their recorded messages | find_or_construct, delete_operations_until, prepared_operations_since | pbft, storage |
| checkpoint manager | local and stable checkpoint, stable proof, partial proofs, catch-up timer | local_checkpoint_reached, handle_checkpoint_message, the timer | pbft, node |
| database_pbft_service | backlog in storage, operations_awaiting_result, next_request_sequence, last/next checkpoint | apply_operation, set/get_service_state, save_service_state_at | pbft, crud, storage, io_context |
| crud, subscriptions, policies | databases, permissions, expiry entries, subscribers | one handler per request type, expiry tick, eviction | service, storage, sessions, pbft |
| storage | keys and values per database, sizes, a snapshot | create, read, update, remove, ranges, snapshots | everyone |
| node, session | sessions by endpoint, write queues, timeouts | send, receive, accept, close | pbft, crud |
| peers_beacon, audit, monitor, status, chaos, options, crypto | peer list; observed leaders and commits; timers; reports; faults; settings; keys | see `PROJECT.json` | |

What makes it hard: faulty replicas may sign anything; messages come late, twice,
out of order or to some only; handlers of pbft are serialised by `pbft_lock`, but
calls posted to the `io_context` run on several threads in any order; processes
stop between two writes and start again on what is in storage. `PROJECT.json`
lists the hazards, each at its line, with the properties that cover it.

## Modules

| module | models | notes |
|---|---|---|
| `PbftQuorum` | the threshold arithmetic of `pbft.cpp` | |
| `Checkpoint` | `pbft_checkpoint_manager` | functions on the state of one manager |
| `Pbft` | the swarm: `pbft.cpp`, operations, checkpoints, state transfer | one action per handler |
| `ViewChange` | the view-change handlers one message at a time | replicas stop, none lies |
| `ServiceContract` | what `pbft_service_base.hpp` promises | abstract specification |
| `DatabaseService` | `database_pbft_service.cpp` on one node | one action per write |
| `KeyValueContract` | what a client of the databases may rely on | abstract specification |
| `MemStorage`, `Eviction`, `Subscriptions` | `mem_storage.cpp`, `policy/`, `subscription_manager.cpp` | functions on their state |
| `Crud` | `crud.cpp` over those three | one action per handler and timer |
| `DurableStore` | what storage promises across crashes | abstract specification |
| `RocksStorage` | `rocksdb_storage.cpp` | one action per write or file operation |
| `CheckpointStore` | the checkpoint manager and its `persistent<>` values on `RocksStorage` | |
| `Session`, `Monitor` | `session.cpp`, the timers of `monitor.cpp` | functions on their state |
| `Node` | `node.cpp`: sessions, their strands, the map that finds them | one action per handler |
| `Gateway` | how `pbft.cpp` takes requests in, forwards and answers them, over `Node` and `Monitor` | |
| `MCPbft`, `MCViewChange`, `MCCrud`, `MCGateway`, `MCDurable` | instances and search bounds | |
| `*_proofs` | theorems and their lemmas | |

**Pbft.** Each variable is a function on the correct replicas. An operation is a
view, a sequence and a request hash; `preprepared`, `prepared` and `committed` say
what an operation's record holds, `applied` what was ever posted to
`apply_operation`. The network is the set of messages sent; nothing is removed,
which covers loss, delay, repetition and reordering. A replica in `Faulty` has no
state: its votes count wherever they help, and `FaultyViewchanges` are the
VIEWCHANGEs it can make up that pass the receivers' validation.
`handle_preprepare` does not test that the sender is the primary, so a faulty
replica may preprepare in any view.

Some of what a replica acts on is verified by nobody. `handle_checkpoint_message`
counts a CHECKPOINT without looking at its signature; `handle_membership_message`
takes a SET_STATE from anyone, and `handle_set_state` the state and the view in it;
`is_valid_newview_message` does not verify the VIEWCHANGEs inside a NEWVIEW. So a
replica in `Exposed` may receive CHECKPOINTs in the name of any peer
(`UnverifiedCheckpoints`) and SET_STATEs with any view and primary
(`UnverifiedSetstates`), and a faulty primary may put VIEWCHANGEs in the name of
others into its NEWVIEW (`FaultyNewviews`). Only the checkpoints in the C of a
VIEWCHANGE have their signatures verified: `Signed` is what of a replica's own
evidence still counts there, and `cps` of a VIEWCHANGE is that part.
`adopted` is a history variable: the replicas that took a view from a SET_STATE.

Abstractions of Pbft: the deliveries before the one that reaches a threshold are
folded into that one, because they only add to a tally (the tallies themselves are
in `ViewChange`). A NEWVIEW is its V, because receivers recompute O and reject any
other. A checkpoint is its sequence, because `service_state_hash` is constant;
CHECKPOINTs for another hash are not modelled. A replica that accepts a preprepare
has the request. Execution is in sequence order, one handler per sequence, as the
service contract promises. `Restart` keeps what is `persistent<>` and resets the
rest; a handler is atomic with its writes.

**ViewChange.** The tallies are compared for equality, so the order of deliveries
matters; `HandleViewchange` records one message, joins at f+1 and announces at
2f+1. The view announced (`find_if` over all tallies) and the VIEWCHANGEs sent
along (those of the message's view) are kept apart, as in the code.
`HandleSetState` is the one other way to a view: a replica in `Behind` takes a
state, and with it the view of a NEWVIEW that some replica had saved, which may be
older than its own. `view_is_valid` and `last_view_sent` stay as they are, which is
why `InvalidViewAsked` and `ViewChangeCompletes` except a replica that has taken one
(`states`).

**DatabaseService.** `pc` is where the thread holding the service lock is; every
write to storage is a step. `get_service_state` and `save_service_state_at` take
no lock and interleave with it. `db` is the sequence of operations the database
results from. `Restart` loses posted calls, handlers and the awaiting map. The
backlog removal loop of `set_service_state` is one step with the assignments
around it.

**Crud.** `perms`, `data` and `ttl` are the three kinds of uuid in storage: the
permissions, the pairs of each database with its byte counter, and the expiry
entries. A value is its length. A handler holds `crud_lock` and is one step; its
refusals are tested in the order of the code. An eviction policy is the set of
answers it may give, since its random choice is seeded by a hash.
`check_key_expiration` hands deletes to pbft (`pending`), and `ExecuteDelete` is
the delete that comes back, at any later time. `save_state` and `load_state` are
the service's. The sums of `operation_exceeds_available_space` are taken modulo
`SizeWord`, the code's `size_t`. Each behaviour draws its requests from one of six
workloads.

**RocksStorage and CheckpointStore.** `disk` has the pairs and the two kinds of
size entries; `todo` is the writes the current call has still to make, and `phase`
how far a snapshot is being dumped or loaded. A crash may come between any two
writes, and may leave part of a dump or of a load. Sizes are numbers modulo
`Word`, the code's `uint32_t`. On top of it a handler of the checkpoint manager
changes `mem` and queues one storage call for each constructor, assignment and
`destroy()` of a `persistent<>`. `Crash` ends in the constructor, which reads the
values back. Other clients make calls in behaviours of their own (`~pbft`).

The constructor shows a disagreement between two places of the code. Evidence for
a checkpoint is stored under the checkpoint and then the sender
(`pbft_checkpoint_manager.cpp:152`), but is read back as a uuid and then a
checkpoint (`:309`). `from_string` finds no checkpoint in a sender and throws, so
a node that stops while it has evidence for a checkpoint that is not stable yet
cannot be started on that storage, although `pbft_persistent_state.hpp:80-81` says
that stored members reappear. The model has this: `up` becomes false and stays so,
and `Restart` of `Pbft` has the matching guard. `RestartFindsMemory` says when it
happens: if and only if the manager that stopped had such evidence. It is also why
`ProofMatchesStable` holds across crashes: the crash that would leave a stable
checkpoint without its proof leaves evidence as well. If the order of the keys is
corrected, the writes of `stabilize_checkpoint` have to be looked at again.

**Session, Node and Gateway.** A session is a record with its strand (calls posted
to it, run in order) and its outstanding asynchronous operations. Connects,
handshakes, reads and writes may fail, and the peer may close or go away silently.
The map of `Node` holds weak pointers, and `Alive` says what keeps a session in
memory. `Gateway` is `pbft::handle_request` up to the preprepare: the tests of
age, size, admission and repetition, the session that waits, the forwarding of a
backup to the primary, and the answer. Quick reads and subscriptions, which
`apply_operation_now` answers at once, take the other branch of
`handle_database_message`. The view is fixed there.

## Runs

Passing runs finish in under three minutes with two workers.

| run | instance | result |
|---|---|---|
| `pbft_ordering` | 4 replicas, primary faulty, `p1` restarts, one request and the null request, 1 view, 1 sequence, checkpoint at each sequence, one state request, unverified messages at `p1`; `p3`, `p4` symmetric | `TypeOK`, `SameViewAgreement` hold |
| `pbft_view_change` | 4 replicas, a faulty backup, 2 requests (symmetric), 2 views, 1 sequence, checkpoint at each sequence, unverified messages at `p1` | `BaseReached`, `ApplyAgreement`, `PrimaryNeverReissues`, `CommittedCarriedOver` hold |
| `view_change` | 4 replicas, one down, one that may take a state, 3 views, fairness | `TypeOK`, `ViewsAreAskedFor`, `InvalidViewAsked`, `ViewChangeCompletes` hold |
| `service` | 4 sequences, checkpoint every 2, no restart, fairness | `TypeOK`, `SnapshotMatches`, `ImplementsContract` hold |
| `crud` | 2 databases, 3 keys, 2 sessions, clock up to 2, six workloads, fairness | `TypeOK`, `SizeExact`, `SwarmStorageBound`, `NothingLeftBehind`, `SubscribersCurrent`, `WithinLimit`, `ExpiredRemoved`, `ImplementsKeyValue` hold |
| `gateway` | one peer and a client, up to 2 sessions, 2 messages and 3 reads, six kinds of work, fairness | `TypeOK`, `OneWrite`, `WrittenInOrder`, `IssuedOnce`, `TimersBounded`, `QueuedResolved`, `ClosedForgotten`, `WaitingReleased` hold |
| `durable` | 4 peers, 3 of them send for 2 checkpoints; another client with 4 calls; 2 crashes | `TypeOK`, `SizesExact`, `LoadCleansUp`, `RestartFindsMemory`, `ProofMatchesStable`, `ImplementsStore` hold |
| `pbft_old_proof` | 4 correct replicas, 3 views, search directed at one schedule | `ApplyContract` violated |
| `pbft_stale_base` | 4 correct replicas, 2 views, search directed at one schedule | `ApplyContract` violated |
| `view_change_join` | as `view_change` | `EveryoneJoins` violated |
| `service_state` | 4 sequences, checkpoint every 2 | `AnswerExact` violated |
| `service_restart` | 3 sequences, 1 restart | `PredecessorExecuted` violated |

The violated properties are sentences of the repository's comments and tests; the
findings in `PROJECT.json` quote them and give the schedule. `pbft_view_change`
and the two runs on `ApplyContract` are one picture: one view change carries over
what was committed, two in a row need not, and neither does one across a stable
checkpoint that the first VIEWCHANGE's sender has not seen.

Bounds. Four replicas is the smallest swarm with f = 1, where quorums really
intersect in one correct replica. One sequence is enough for agreement, which is
per sequence; two hashes are enough for a conflict. Gaps filled with no-ops need
two sequences and are outside the `Pbft` runs (`NoNullProposed`), as are faulty
replicas and state transfer across views together. In `pbft_view_change` the
primary of view 1 issues nothing itself (`FaultyProposesFirst`): the faulty
replica proposes whatever it could. Only `p1` executes, before anyone asks for a
view (`ExecutedFirst`), and it hears of a checkpoint once it has committed, from
two peers (`LateEvidence`): the evidence, true or not, then meets a committed
operation and goes into its VIEWCHANGE. In `pbft_ordering` there is one state
request, and a proof has at most two senders, which is f + 1 (`OneStateRequest`,
`SmallProofs`). In `view_change` a state is taken when the VIEWCHANGEs sent have
been handled (`StateWhenQuiet`), which is when nothing else would move the replica
on. Four sequences with two checkpoints let the service be late, early,
overtaken by a loaded state and at a second checkpoint. Deadlock is not checked:
with bounded views and sequences the models run out of work, as the system does
without clients.

The workloads of `crud` are each as large as their question needs: three pairs
under a limit that is lowered and raised, so that evictions must free room for
more than one pair; two keys that expire at different times; two databases whose
limits together exceed the swarm's; two sessions on one key. In `gateway` two
sessions to one endpoint are enough for a replaced session, two messages for an
order, and a clock that passes `MaxAge` by one for the edge of the admitted ages.
In `durable` two crashes let the second one hit what the first one left; f + 1 = 2
senders make a checkpoint stable, the third comes late; `Word` = 8 lets sizes
wrap around after a crash.

Some of the properties have a condition because the code does not keep them
without it. `ApplyAgreement` and `CommittedCarriedOver` are about the first view
change (`FirstViewChange`): no checkpoint has been sent, nobody took a view from a
SET_STATE, the primary of view 2 is correct, and no correct replica has gone
beyond view 2 or asked for more. `PrimaryNeverReissues` excepts a replica that
took a view from a SET_STATE, which sets the view and not the next sequence;
`InvalidViewAsked` and `ViewChangeCompletes` except it too. `SwarmStorageBound`
bounds the sum of the limits as long as no request asks for a limit so near 2^64
that the sum wraps (`NoneWraps`); the workload `Wrapping` has one that does.
`QueuedResolved` excepts a session whose peer accepts the connection and never
finishes the handshake: the idle timer is started only after it. `IssuedOnce`
excepts the millisecond in which a request's timestamp reaches
`MAX_REQUEST_AGE_MS`. `ExpiredRemoved` is about databases without an eviction
policy: an evicted key keeps its expiry entry, and once that has expired the key
stays refused as `delete_pending`. `WaitingReleased` is about sessions whose
shutdown handler was registered before they closed: registration is posted, and a
handler that arrives after the close is never run. `PROJECT.json` has these cases
as hazards, or in the note of one. `LoadCleansUp` excepts a process that died
inside a load. `SizesExact` ends at the first crash between two writes of a call,
and leaves out uuids whose pairs `remove_range` removes without their sizes.

Fairness. `ViewChange`: a message sent is eventually handled by every replica that
stays up, since nodes hold sessions to each other and reconnect to send; this
assumes that the sessions between replicas that stay up do not die with messages
queued, because those are not sent again. Nothing is assumed of `HandleFailure`
and `HandleSetState`. `DatabaseService`: a thread that holds the lock goes on, and
a posted call gets a thread and eventually the lock (strong fairness, because
other calls take the lock in between). `Crud`: the expiry timer is armed again by
its own handler, and pbft is taken to order each delete it is handed. `Gateway`:
the `io_context` runs what is posted to it or to a strand, the idle timer fires,
and a connect is made or refused (`SessionWork` and the posted handlers). Nothing
is assumed of the peer or the client: a handshake, a read, the end of a write and
the end of a close may never come (`PeerWork`). `Pbft` and `CheckpointStore` have
none.

## Proofs

Proved for every value of the constants that satisfies the named assumptions. Each
theorem below says exactly what a run checks, without the run's bounds, except
`ContractTheorem`, which is the safety part of what its run checks. In the three
largest modules most lemmas that serve one proof are named steps of it.

**`Pbft_proofs`**, from `PeersAssumption`, `BoundsAssumption` and `FaultAssumption`
(two quorums share a correct replica; at 3f+1 peers that allows f faulty ones).

* `SameViewAgreementTheorem`. The property is not inductive: nothing in it says
  why a prepared operation is the only one. `IInv` adds that what is prepared or
  applied has a quorum of PREPAREs (`Certified`), that a correct replica's PREPARE
  is for an accepted preprepare (`PreparesAccepted`), and that
  `accepted_preprepares` has one hash per slot (`AcceptedOnce`). Quorum
  intersection then gives a replica that accepted both.
* `TypeTheorem`, `BaseReachedTheorem`. The evidence in a manager proves nothing, for
  it is unverified. `TInv` says that the checkpoints that count in a VIEWCHANGE of a
  correct replica are of replicas that signed one (`GoodVc`), as are those a faulty
  one can show; f+1 of them are not all faulty.
* `PrimaryNeverReissuesTheorem`. `IssueInv` says that all a replica has issued in
  its view lies below `next_issued_sequence_number`, and that it entered a later
  view by a NEWVIEW of its own. A replica that was sent a view in a SET_STATE is
  excepted: `handle_set_state` sets the view and not the next sequence.
* `CommittedCarriedOverTheorem`, `ApplyAgreementTheorem`. Both properties fail with
  a third view or across a checkpoint (`pbft_old_proof`, `pbft_stale_base`), and with
  a faulty primary of view 2, and so have the condition `FirstViewChange`. A replica
  may still be told of checkpoints nobody reached: by `BaseReached` no VIEWCHANGE
  that is accepted has one as its base. `FirstInv` says that a replica
  that asks for view 2 shows all it has prepared and prepares no more in view 1.
  What is or may still be committed in view 1 is then prepared at a correct
  replica in every quorum of VIEWCHANGEs, and in every O that passes validation.

**`ViewChange_proofs`**: `TypeTheorem`, `ViewsAreAskedForTheorem`,
`InvalidViewAskedTheorem`. `IInv` adds that a sender in a tally has asked for that
view, and that the senders in a NEWVIEW have asked for its `vcView`; the receivers'
test `vcView = view` does the rest. The views that a state can bring are those of
NEWVIEWs that were entered (`saved`).

**`DatabaseService_proofs`**: `ContractTheorem`, `SnapshotTheorem`. `IInv` says, for
each `pc`, which prefix of the sequences the database and the saved state are.
Every step then maps to a step of `ServiceContract` or to a stutter; the mapping is
the identity on `requested` and `db`. This is the safety part of
`ImplementsContract`. `TypeTheorem` is with and without restarts; its `TInv` adds
that while an operation is executed, or a state loaded, its sequence is in use.

**`Gateway_proofs`**: `TypeTheorem`, `OneWriteTheorem`, `WrittenInOrderTheorem`,
`IssuedOnceTheorem`, `TimersBoundedTheorem`, for any endpoints, work and bounds.
`NodeInv` says that every session is good: a write or read is outstanding only if
it is marked, at most one message is in flight, and the history adds up. The first
lemmas show once for each function of `Session` that it keeps a session good, and
the steps of `Node` and `Gateway` are then one update of one session each.
`RequestInv` says that an issued request is in `recent` or too old to be accepted,
but for the edge.

**`Crud_proofs`**, for any requests.

* `NothingLeftBehindTheorem`, `SubscribersCurrentTheorem`. `CleanInv` says that only
  existing databases have pairs, bytes or expiry entries, in storage and in the
  saved state alike. `SubsInv` adds that whoever was notified is subscribed, and
  that each subscription can be found under its database and key: a key taken to
  be new has nobody who was notified.
* `TypeTheorem`, `SizeExactTheorem`, `SwarmStorageBoundTheorem`,
  `WithinLimitTheorem`. `StoreInv` says of storage and of each saved state that the
  counter of a database is the sum over its pairs and that the limits add up to no
  more than the swarm's, when no request's limit wraps: the remainder that the code
  adds up is then the sum. `WithinLimit`, an action property, needs the counter to be
  exact: an eviction frees what the evicted pairs really take.

**`CheckpointStore_proofs`**, for any calls, peers and messages and any number of
crashes.

* `LoadCleansUpTheorem`, and `ImplementsStoreTheorem`, the refinement of
  `DurableStore`. The mapping takes the pairs that count (`Content`): the ones moved
  aside while a load may still put them back, else those in place. `StorageInv` says
  that of the writes a call has left at most one is to the pairs and has the effect
  that the contract gives the call, and one per remaining pair for `remove_uuid`;
  and for each `phase` of a load what is aside.
* `RestartFindsMemoryTheorem`, `ProofMatchesStableTheorem`, from `ManagerAssumption`
  (there are peers, finitely many, and checkpoints are numbers). Both say something
  of storage between handlers only. `ManagerInv` says it of every state: the calls
  that a handler has left come in a fixed order, so they can be seen as a set, and
  once they are made storage is as memory (`Ends`). While the checkpoint and its
  proof are being exchanged, evidence is in storage, or the write of it is still to
  come (`Guarded`): a crash then leaves a manager that is not constructed, and
  otherwise a checkpoint with its proof.

**`StorageSizes_proofs`**: `TypeOKTheorem`, `SizesExactTheorem`, from
`CallsAssumption` (the uuids in `Ranged` are those that `remove_range` is used on)
and `SizesAssumption` (a pair fits in a size, as `create` and `update` refuse keys
above `MAX_KEY_SIZE` and values above `MAX_VALUE_SIZE`; the size of a database need
not fit, and is kept modulo `Word`). `SizesExact` is about states without a call,
and about `disk` only. `SizeInv` says in the middle of a call what the writes that
are left will make of the sizes (`SizesLeft`), which for `remove_uuid` is about all
remaining pairs at once; and it says the same of the database set aside, the
snapshot and the file being loaded, which may become the database again. A crash
before the first write of a call or after the last leaves the sizes counted, any
other ends `clean`.

**`SumTheorems`** has what the counters need. A sum is a fold over a set in an order
that `CHOOSE` picks. That the order does not matter is shown by a smallest
counterexample, which avoids the induction theorems: a set of subsets of a finite
set that is not empty has a minimal member. So an element can be taken out of a
sum (`SumRemove`), and by `RemainderAdd` out of its remainder.

Only model-checked, because liveness under fairness is out of the prover's reach:
`ViewChangeCompletes`, `QueuedResolved`, `ClosedForgotten`, `WaitingReleased`,
`ExpiredRemoved` and the fair part of `ImplementsContract`. `ImplementsKeyValue` is
not proved: the safety of `Crud` is proved piece by piece instead.

## Not modelled

* `peers_beacon`: the members of the swarm are constants. `audit` and `status` only
  observe. `options`, `crypto`, `swarm/main.cpp` and the wrappers of libraries are
  settings, primitives taken to be sound, start-up and I/O.
* Locks: `crud::check_key_expiration` calls pbft with `crud_lock` held, while state
  transfer takes `pbft_lock` first. A handler is one step here, so this order of
  locks is not seen. `mem_storage` replaces its contents and its snapshot under a
  shared lock; `DatabaseService` has the interleaving this allows, not a torn read.
* Storage calls that report failure, and uuids of which one is the prefix of
  another.
* Clocks that differ between nodes, so replicas that disagree on what has expired;
  and a clock that is set back (`pbft::now` reads the system clock).
* Multicasts and sends by uuid, which are loops over the sends that are modelled;
  TLS; the counters of `monitor`.
* Two primaries that fail in a row, and catching up after the one request that the
  checkpoint manager's timer makes: the code does not promise either.
