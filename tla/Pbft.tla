-------------------------------- MODULE Pbft --------------------------------
(***************************************************************************)
(* The replicas of a swarm running pbft.cpp: ordering of client requests,  *)
(* view changes, checkpoints and state transfer.                           *)
(*                                                                         *)
(* Every handler of pbft runs under pbft_lock, so a handler is one atomic  *)
(* action.  The service is seen through its contract: it executes what is  *)
(* handed to it in sequence order, and the execute handler runs once per   *)
(* sequence, some time later (DatabaseService has the detail).             *)
(*                                                                         *)
(* The network is the set of messages sent so far.  A message is never     *)
(* removed, so it may be delivered late, out of order, many times or to    *)
(* some replicas only.  A replica in Faulty has no state here: whatever it *)
(* can sign is deliverable at any time, and so is what the receivers take  *)
(* from anyone: a CHECKPOINT, whose signature is not verified, a SET_STATE *)
(* with no sender or any, and the VIEWCHANGEs inside a NEWVIEW.            *)
(*                                                                         *)
(* Recording one PREPARE, COMMIT or VIEWCHANGE changes nothing but the     *)
(* tally it is counted in (and, for a VIEWCHANGE, the checkpoint evidence  *)
(* it carries), so the handler calls that precede the one reaching a       *)
(* threshold are folded into it: the tally is any set of messages sent so  *)
(* far.  ViewChange has handle_viewchange one message at a time.           *)
(***************************************************************************)
EXTENDS Checkpoint, Sequences, FiniteSetsExt

CONSTANTS
    Peers,              \* uuids of the swarm
    Faulty,             \* the replicas that may sign anything
    Ordered,            \* peers_beacon->ordered(): the peers sorted by uuid
    Restarting,         \* the replicas that may stop and start again
    Exposed,            \* the replicas that unverified messages may reach
    Requests,           \* hashes of client requests
    NullRequest,        \* hash of the database_nullmsg
    MaxView, MaxSeq,    \* bounds on views and sequence numbers
    AdmissionWindow,    \* options->get_admission_window()
    CheckpointInterval  \* CHECKPOINT_INTERVAL

N == Cardinality(Peers)
Correct == Peers \ Faulty
Views == 1 .. MaxView
Seqs == 1 .. MaxSeq
Hashes == Requests \cup {NullRequest}

(* operation_key_t *)
Operations == [view : Views, seq : Seqs, hash : Hashes]
(* PREPREPARE, PREPARE and COMMIT messages *)
Votes == [sender : Peers, op : Operations]
(* VIEWCHANGE: cps are the senders of the checkpoint messages in C whose   *)
(* signature holds, proofs the operations of the prepared proofs in P.     *)
Viewchanges == [sender : Peers, view : Views, seq : Seqs \cup {0},
                cps : SUBSET Peers, proofs : SUBSET Operations]
(* NEWVIEW: O is a function of V, and a message with any other O is        *)
(* rejected, so V is all the message says.                                 *)
Newviews == [sender : Peers, view : Views, vcs : SUBSET Viewchanges]
NoNewview == [view |-> 0]
(* pinned_primary when the sender of a NEWVIEW is not a peer *)
NoPrimary == "none"

ASSUME PeersAssumption ==
    /\ IsFiniteSet(Peers) /\ Peers # {} /\ Faulty \subseteq Peers
    /\ Restarting \subseteq Peers /\ Exposed \subseteq Peers
    /\ Ordered \in [1 .. N -> Peers]
    /\ \A i, j \in 1 .. N : Ordered[i] = Ordered[j] => i = j

(* Two quorums share a replica that is not faulty.  At 3f+1 peers this     *)
(* allows f faulty ones, at 3f+2 one less, at 3f+3 two less.               *)
ASSUME FaultAssumption ==
    N + Cardinality(Faulty) < 2 * honest_majority_size(N)

ASSUME BoundsAssumption ==
    /\ MaxView \in Nat \ {0} /\ MaxSeq \in Nat \ {0}
    /\ AdmissionWindow \in Nat /\ CheckpointInterval \in Nat \ {0}

VARIABLES
    view, viewValid, lastViewSent, nextIssued,  \* persistent
    primary, recent, savedNewview,              \* pinned_primary, recent_requests, saved_newview
    accepted,                                   \* accepted_preprepares
    preprepared, prepared, committed,           \* operations by what their record holds
    applied,                                    \* operations ever posted to apply_operation
    executed,                                   \* the service's next_request_sequence - 1
    lastExecuted,                               \* last_executed_sequence_number
    cp,                                         \* the checkpoint managers
    adopted,                                    \* history: took their view from a SET_STATE
    preprepares, prepares, commits, viewchanges, newviews,  \* messages sent
    checkpoints, getstates, setstates

voteVars == <<accepted, preprepared, prepared, committed, preprepares, prepares, commits>>
viewVars == <<view, viewValid, lastViewSent, nextIssued, primary, recent, savedNewview, adopted,
              viewchanges, newviews>>
serviceVars == <<applied, executed, lastExecuted>>
checkpointVars == <<cp, checkpoints, getstates, setstates>>
vars == <<voteVars, viewVars, serviceVars, checkpointVars>>

-----------------------------------------------------------------------------
(* Quorums and primaries *)

max_faulty_nodes == faulty_nodes_bound(N)
quorum_size == 1 + 2 * max_faulty_nodes

PrimaryOf(v) == Ordered[(v % N) + 1]

predict_primary(r, v) == IF v = view[r] THEN primary[r] ELSE PrimaryOf(v)

is_primary(r) == primary[r] = r

(* preliminary_filter_msg for the messages that carry an operation *)
InView(r, o) == viewValid[r] /\ o.view = view[r]

(* The replicas whose vote for o may have reached a correct one *)
Voters(votes, o) == {m.sender : m \in {x \in votes : x.op = o}} \cup Faulty

(* Mutant of HasQuorum: f+1 votes are enough *)
HasMember(votes, o) == Cardinality(Voters(votes, o)) >= honest_member_size(N)

HasQuorum(votes, o) == Cardinality(Voters(votes, o)) >= honest_majority_size(N)

-----------------------------------------------------------------------------
(* View change messages *)

VcsFor(V, v) == {m \in V : m.view = v}

Lowest(V) == CHOOSE m \in V : \A x \in V :
    \E i, j \in 1 .. N : i <= j /\ Ordered[i] = m.sender /\ Ordered[j] = x.sender

(* prepared_operations_since: per sequence, the one of the latest view *)
prepared_operations_since(r, s) ==
    {o \in prepared[r] : o.seq > s /\ \A p \in prepared[r] : p.seq = o.seq => p.view <= o.view}

(* The replicas that have signed a CHECKPOINT for s, or may have *)
CheckpointSenders(s) == {m.sender : m \in {x \in checkpoints : x.seq = s}} \cup Faulty

(* Mutant of Signed: the signatures are not verified *)
SignedUnverified(c) == {c.proof}

(* What may hold of the signatures in the proof of c's stable checkpoint:  *)
(* an unverified CHECKPOINT may have taken the place of any other.         *)
Signed(c) ==
    LET senders == c.proof \cap CheckpointSenders(c.stable)
    IN  IF Exposed = {} THEN {senders} ELSE SUBSET senders

(* Mutant of make_viewchange: committed operations are left out of P *)
make_viewchange_uncommitted(r, v, c, C) ==
    [sender |-> r, view |-> v, seq |-> c.stable, cps |-> C,
     proofs |-> prepared_operations_since(r, c.stable) \ committed[r]]

make_viewchange(r, v, c, C) ==
    [sender |-> r, view |-> v, seq |-> c.stable, cps |-> C,
     proofs |-> prepared_operations_since(r, c.stable)]

is_valid_prepared_proof(o, s) == o.seq > s /\ HasQuorum(prepares, o)

is_valid_viewchange_message(r, m) ==
    /\ m.view > view[r]
    /\ IF Cardinality(m.cps) >= honest_member_size(N) THEN m.seq # 0 ELSE m.seq = 0
    /\ \A o \in m.proofs : is_valid_prepared_proof(o, m.seq)

max_checkpoint_sequence(V) == Max({m.seq : m \in V})

(* The senders are visited in uuid order and the first proof for a         *)
(* sequence is the one that counts, whatever its view.                     *)
FirstProof(V, s) ==
    LET m == Lowest({x \in V : \E o \in x.proofs : o.seq = s})
    IN  CHOOSE o \in m.proofs : o.seq = s

ProvenSeqs(V) == {o.seq : o \in UNION {m.proofs : m \in V}}

(* The new preprepare for sequence s: the proven request, or a no-op to    *)
(* fill the gap.                                                           *)
NewPreprepare(v, V, s) ==
    [view |-> v, seq |-> s,
     hash |-> IF s \in ProvenSeqs(V) THEN FirstProof(V, s).hash ELSE NullRequest]

(* build_newview and fill_in_missing_pre_prepares: the operations of O *)
build_newview(v, V) ==
    LET low == max_checkpoint_sequence(V) IN
    {NewPreprepare(v, V, s) : s \in low + 1 .. Max(ProvenSeqs(V) \cup {low})}

is_valid_newview_message(r, m) ==
    /\ m.sender = predict_primary(r, m.view)
    /\ Cardinality(m.vcs) >= quorum_size
    /\ \A x \in m.vcs : x.view = m.view /\ is_valid_viewchange_message(r, x)
    /\ \A x, y \in m.vcs : x.sender = y.sender => x = y

(* The VIEWCHANGEs a faulty replica can make up in the name of p and that   *)
(* validation does not rule out: the operations and checkpoints they name  *)
(* need signatures of others.                                              *)
FaultyViewchanges(p) ==
    LET proven == {o \in Operations : HasQuorum(prepares, o)}
        bases  == {<<0, {}>>} \cup {<<s, CheckpointSenders(s)>> : s \in Seqs}
    IN  {[sender |-> p, view |-> v, seq |-> b[1], cps |-> b[2], proofs |-> P] :
           v \in Views \ {1}, b \in bases,
           P \in {Q \in SUBSET proven : \A x, y \in Q : x.seq = y.seq => x = y}}

(* The VIEWCHANGEs that arrive: handle_message verifies their signatures *)
SentViewchanges == viewchanges \cup UNION {FaultyViewchanges(p) : p \in Faulty}

(* The signatures of the VIEWCHANGEs inside a NEWVIEW are not verified *)
FaultyNewviews ==
    UNION {{[sender |-> PrimaryOf(v), view |-> v, vcs |-> V] :
              V \in {W \in SUBSET VcsFor(viewchanges \cup UNION {FaultyViewchanges(p) : p \in Peers}, v) :
                        Cardinality(W) >= quorum_size}} :
           v \in {w \in Views : w > 1 /\ PrimaryOf(w) \in Faulty}}

(* What may reach an exposed replica that nobody verifies.  The proof of   *)
(* such a SET_STATE brings nothing that CHECKPOINTs do not, and without    *)
(* one it is ignored unless it is at the stable checkpoint.                *)
UnverifiedCheckpoints(r) == IF r \in Exposed THEN [sender : Peers, seq : Seqs] ELSE {}
UnverifiedSetstates(r) ==
    IF r \in Exposed
    THEN [to : {r}, seq : {cp[r].stable} \ {0}, proof : {{}},
          newview : {NoNewview} \cup [view : Views, sender : Peers \cup {NoPrimary}]]
    ELSE {}

-----------------------------------------------------------------------------
(* Requests *)

(* handle_request at the primary: the paths that change state.  A replica  *)
(* that is not the primary forwards the request, and a client may submit   *)
(* any request again at any time.  The view need not be valid.  The        *)
(* difference tested against the admission window is unsigned.             *)
HandleRequest(r, h) ==
    /\ is_primary(r)
    /\ nextIssued[r] - lastExecuted[r] \in 0 .. AdmissionWindow
    /\ h \notin recent[r]
    /\ nextIssued[r] \in Seqs
    /\ recent' = [recent EXCEPT ![r] = @ \cup {h}]
    /\ nextIssued' = [nextIssued EXCEPT ![r] = @ + 1]
    /\ preprepares' = preprepares \cup
           {[sender |-> r, op |-> [view |-> view[r], seq |-> nextIssued[r], hash |-> h]]}
    /\ UNCHANGED <<view, viewValid, lastViewSent, primary, savedNewview, adopted, viewchanges,
                   newviews, accepted, preprepared, prepared, committed, prepares, commits,
                   serviceVars, checkpointVars>>

(* Mutant of Acceptable: accepted_preprepares is not consulted *)
AcceptableUnchecked(r, O) == O

(* Of the operations in O, those handle_preprepare does not reject *)
Acceptable(r, O) ==
    {o \in O : \A a \in accepted[r] : a.view = o.view /\ a.seq = o.seq => a.hash = o.hash}

(* handle_preprepare, past the filter: the preprepare is recorded, then    *)
(* entered in accepted_preprepares, then answered with a PREPARE.          *)
handle_preprepares(r, O) ==
    LET new == Acceptable(r, O) IN
    /\ accepted' = [accepted EXCEPT ![r] = @ \cup new]
    /\ preprepared' = [preprepared EXCEPT ![r] = @ \cup new]
    /\ prepares' = prepares \cup {[sender |-> r, op |-> o] : o \in new}

HandlePreprepare(r, o) ==
    /\ InView(r, o)
    /\ Voters(preprepares, o) # {}
    /\ handle_preprepares(r, {o})
    /\ UNCHANGED <<prepared, committed, preprepares, commits, viewVars, serviceVars, checkpointVars>>

(* The handle_prepare or handle_preprepare call that finds o ready for     *)
(* commit: do_prepared.                                                    *)
HandlePrepare(r, o) ==
    /\ InView(r, o)
    /\ o \in preprepared[r] \ prepared[r]
    /\ HasQuorum(prepares, o)
    /\ prepared' = [prepared EXCEPT ![r] = @ \cup {o}]
    /\ commits' = commits \cup {[sender |-> r, op |-> o]}
    /\ UNCHANGED <<accepted, preprepared, committed, preprepares, prepares,
                   viewVars, serviceVars, checkpointVars>>

(* The handle_commit call that finds o ready to execute: do_committed,     *)
(* which posts apply_operation(o).                                         *)
HandleCommit(r, o) ==
    /\ InView(r, o)
    /\ o \in prepared[r] \ committed[r]
    /\ HasQuorum(commits, o)
    /\ committed' = [committed EXCEPT ![r] = @ \cup {o}]
    /\ applied' = [applied EXCEPT ![r] = @ \cup {o}]
    /\ UNCHANGED <<accepted, preprepared, prepared, preprepares, prepares, commits,
                   executed, lastExecuted, viewVars, checkpointVars>>

-----------------------------------------------------------------------------
(* Execution *)

(* delete_operations_until: the storage range excludes the bound itself    *)
Kept(ops, bound) == {o \in ops : o.seq >= bound}

(* The service has executed the next sequence, and the execute handler     *)
(* registered by pbft::start runs for it.                                  *)
ExecuteHandler(r) ==
    LET s == executed[r] + 1
        bound == IF cp[r].stable < s THEN cp[r].stable ELSE s
    IN
    /\ \E o \in applied[r] : o.seq = s
    /\ executed' = [executed EXCEPT ![r] = s]
    /\ lastExecuted' = [lastExecuted EXCEPT ![r] = s]
    /\ IF s % CheckpointInterval = 0
       THEN /\ cp' = [cp EXCEPT ![r] = local_checkpoint_reached(@, s)]
            /\ checkpoints' = checkpoints \cup {[sender |-> r, seq |-> s]}
            /\ preprepared' = [preprepared EXCEPT ![r] = Kept(@, bound)]
            /\ prepared' = [prepared EXCEPT ![r] = Kept(@, bound)]
            /\ committed' = [committed EXCEPT ![r] = Kept(@, bound)]
       ELSE UNCHANGED <<cp, checkpoints, preprepared, prepared, committed>>
    /\ UNCHANGED <<applied, accepted, preprepares, prepares, commits,
                   getstates, setstates, viewVars>>

-----------------------------------------------------------------------------
(* View changes *)

(* initiate_viewchange(v), reading the checkpoint manager c; the test of   *)
(* last_view_sent is the caller's guard.                                   *)
initiate_viewchange(r, v, c) ==
    /\ viewValid' = [viewValid EXCEPT ![r] = FALSE]
    /\ lastViewSent' = [lastViewSent EXCEPT ![r] = v]
    /\ \E C \in Signed(c) : viewchanges' = viewchanges \cup {make_viewchange(r, v, c, C)}

(* handle_failure, called by the error handler that pbft::start registered *)
(* with the node: a send to the primary failed.                            *)
HandleFailure(r) ==
    /\ view[r] + 1 \in Views
    /\ view[r] + 1 > lastViewSent[r]
    /\ initiate_viewchange(r, view[r] + 1, cp[r])
    /\ UNCHANGED <<view, nextIssued, primary, recent, savedNewview, adopted, newviews,
                   voteVars, serviceVars, checkpointVars>>

(* save_checkpoint on the C of each VIEWCHANGE in V *)
save_checkpoints(c, V) ==
    FoldSet(LAMBDA m, d : handle_checkpoint_messages(d, m.seq, m.cps, Peers), c, V)

(* The VIEWCHANGEs r may have recorded for view v, one per sender *)
Tallies(r, v, size) ==
    {V \in kSubset(size, {m \in VcsFor(SentViewchanges, v) :
                             is_valid_viewchange_message(r, m)}) :
       \A x, y \in V : x.sender = y.sender => x = y}

(* handle_viewchange below the thresholds *)
HandleViewchange(r, m) ==
    /\ is_valid_viewchange_message(r, m)
    /\ cp' = [cp EXCEPT ![r] = save_checkpoints(@, {m})]
    /\ UNCHANGED <<checkpoints, getstates, setstates, voteVars, viewVars, serviceVars>>

(* The handle_viewchange call that records the (f+1)st VIEWCHANGE for v *)
JoinViewchange(r, v) ==
    /\ viewValid[r]
    /\ v > lastViewSent[r]
    /\ \E V \in Tallies(r, v, max_faulty_nodes + 1) :
          LET c == save_checkpoints(cp[r], V) IN
          /\ cp' = [cp EXCEPT ![r] = c]
          /\ initiate_viewchange(r, v, c)
    /\ UNCHANGED <<view, nextIssued, primary, recent, savedNewview, adopted, newviews, checkpoints,
                   getstates, setstates, voteVars, serviceVars>>

(* The handle_viewchange call that records the (2f+1)st VIEWCHANGE for v   *)
(* at the primary of v.  A sender of that tally that asks for v again, in  *)
(* whatever words, makes the primary announce v again: persistent<> keeps  *)
(* the VIEWCHANGE that it has stored for a sender and view.                *)
SendNewview(r, v) ==
    /\ predict_primary(r, v) = r
    /\ v > view[r]
    /\ \E V \in Tallies(r, v, 2 * max_faulty_nodes + 1) :
          /\ \A m \in newviews : m.sender = r /\ m.view = v => m.vcs = V
          /\ cp' = [cp EXCEPT ![r] = save_checkpoints(@, V)]
          /\ newviews' = newviews \cup {[sender |-> r, view |-> v, vcs |-> V]}
    /\ UNCHANGED <<view, viewValid, lastViewSent, nextIssued, primary, recent, savedNewview, adopted,
                   viewchanges, checkpoints, getstates, setstates, voteVars, serviceVars>>

(* viewchange_messages(0): make_newview lists the VIEWCHANGEs in the order *)
(* of their senders; a faulty primary may list them in any order.          *)
FirstViewchange(m) == IF m.sender \in Faulty THEN m.vcs ELSE {Lowest(m.vcs)}

(* Mutant of HandleNewview: the next sequence is that of the checkpoint    *)
(* even when the NEWVIEW carries preprepares                               *)
HandleNewviewReissuing(r, m) ==
    LET O == build_newview(m.view, m.vcs) IN
    /\ is_valid_newview_message(r, m)
    /\ \E first \in FirstViewchange(m) :
          /\ cp' = [cp EXCEPT ![r] = handle_checkpoint_messages(@, first.seq, first.cps, Peers)]
          /\ nextIssued' = [nextIssued EXCEPT ![r] = first.seq + 1]
    /\ primary' = [primary EXCEPT ![r] = m.sender]
    /\ view' = [view EXCEPT ![r] = m.view]
    /\ viewValid' = [viewValid EXCEPT ![r] = TRUE]
    /\ handle_preprepares(r, O)
    /\ savedNewview' = [savedNewview EXCEPT ![r] = [view |-> m.view, sender |-> m.sender]]
    /\ UNCHANGED <<lastViewSent, recent, adopted, viewchanges, newviews, prepared, committed,
                   preprepares, commits, checkpoints, getstates, setstates, serviceVars>>

HandleNewview(r, m) ==
    LET O == build_newview(m.view, m.vcs) IN
    /\ is_valid_newview_message(r, m)
    /\ \E first \in FirstViewchange(m) :
          /\ cp' = [cp EXCEPT ![r] = handle_checkpoint_messages(@, first.seq, first.cps, Peers)]
          /\ nextIssued' = [nextIssued EXCEPT
                 ![r] = IF O = {} THEN first.seq + 1 ELSE Max({o.seq : o \in O}) + 1]
    /\ primary' = [primary EXCEPT ![r] = m.sender]
    /\ view' = [view EXCEPT ![r] = m.view]
    /\ viewValid' = [viewValid EXCEPT ![r] = TRUE]
    /\ handle_preprepares(r, O)
    /\ savedNewview' = [savedNewview EXCEPT ![r] = [view |-> m.view, sender |-> m.sender]]
    /\ UNCHANGED <<lastViewSent, recent, adopted, viewchanges, newviews, prepared, committed,
                   preprepares, commits, checkpoints, getstates, setstates, serviceVars>>

-----------------------------------------------------------------------------
(* Checkpoints and state transfer *)

HandleCheckpointMessage(r, m) ==
    /\ cp' = [cp EXCEPT ![r] = handle_checkpoint_messages(@, m.seq, {m.sender}, Peers)]
    /\ UNCHANGED <<checkpoints, getstates, setstates, voteVars, viewVars, serviceVars>>

(* The timer armed by send_delayed_state_request expires: a replica still  *)
(* behind asks a random holder of the proof for the latest stable state.   *)
CatchupTimeout(r, q) ==
    /\ cp[r].catchup # 0
    /\ q \in cp[r].proof
    /\ cp' = [cp EXCEPT ![r].catchup = 0]
    /\ getstates' = IF cp[r].local < cp[r].catchup
                    THEN getstates \cup {[sender |-> r, to |-> q, seq |-> cp[r].stable]}
                    ELSE getstates
    /\ UNCHANGED <<checkpoints, setstates, voteVars, viewVars, serviceVars>>

(* Whether the service still has its state at the checkpoint is up to its  *)
(* last_checkpoint (DatabaseService); it cannot have it before executing   *)
(* that far.                                                               *)
HandleGetState(r, m) ==
    /\ m.to = r
    /\ cp[r].stable = m.seq
    /\ executed[r] >= m.seq
    /\ ~(view[r] > 1 /\ savedNewview[r] = NoNewview)
    /\ setstates' = setstates \cup
           {[to |-> m.sender, seq |-> m.seq, proof |-> cp[r].proof, newview |-> savedNewview[r]]}
    /\ UNCHANGED <<cp, checkpoints, getstates, voteVars, viewVars, serviceVars>>

(* The state and the NEWVIEW of a SET_STATE are taken unseen.  When the    *)
(* sender of the NEWVIEW is not a peer the replica has no primary and asks *)
(* for the next view.                                                      *)
HandleSetState(r, m) ==
    LET c     == handle_checkpoint_messages(cp[r], m.seq, m.proof, Peers)
        adopt == c.stable = m.seq /\ c.local < m.seq
        next  == m.newview.view + 1
    IN
    /\ m.to = r
    /\ cp' = [cp EXCEPT ![r] = c]
    /\ executed' = [executed EXCEPT ![r] = IF adopt /\ @ < m.seq THEN m.seq ELSE @]
    /\ IF adopt /\ m.newview # NoNewview
       THEN /\ view' = [view EXCEPT ![r] = m.newview.view]
            /\ primary' = [primary EXCEPT ![r] = m.newview.sender]
            /\ adopted' = adopted \cup {r}
            /\ IF m.newview.sender \in Peers \/ next <= lastViewSent[r]
               THEN UNCHANGED <<viewValid, lastViewSent, viewchanges>>
               ELSE next \in Views /\ initiate_viewchange(r, next, c)
       ELSE UNCHANGED <<view, primary, adopted, viewValid, lastViewSent, viewchanges>>
    /\ UNCHANGED <<checkpoints, getstates, setstates, voteVars, applied, lastExecuted,
                   nextIssued, recent, savedNewview, newviews>>

-----------------------------------------------------------------------------
(* The process stops at any point between two handlers and starts again    *)
(* on the same storage.  With evidence for a checkpoint in storage the     *)
(* checkpoint manager throws (see CheckpointStore) and it stays down.      *)
Restart(r) ==
    /\ r \in Restarting /\ \A s \in Seqs : cp[r].partial[s] = {}
    /\ primary' = [primary EXCEPT ![r] = PrimaryOf(view[r])]
    /\ recent' = [recent EXCEPT ![r] = {}]
    /\ savedNewview' = [savedNewview EXCEPT ![r] = NoNewview]
    /\ lastExecuted' = [lastExecuted EXCEPT ![r] = 0]
    /\ cp' = [cp EXCEPT ![r].catchup = 0]
    /\ UNCHANGED <<view, viewValid, lastViewSent, nextIssued, adopted, viewchanges, newviews,
                   applied, executed, checkpoints, getstates, setstates, voteVars>>

-----------------------------------------------------------------------------
Init ==
    /\ view = [r \in Correct |-> 1]
    /\ viewValid = [r \in Correct |-> TRUE]
    /\ lastViewSent = [r \in Correct |-> 0]
    /\ nextIssued = [r \in Correct |-> 1]
    /\ primary = [r \in Correct |-> PrimaryOf(1)]
    /\ savedNewview = [r \in Correct |-> NoNewview]
    /\ recent = [r \in Correct |-> {}]
    /\ accepted = [r \in Correct |-> {}] /\ preprepared = [r \in Correct |-> {}]
    /\ prepared = [r \in Correct |-> {}] /\ committed = [r \in Correct |-> {}]
    /\ applied = [r \in Correct |-> {}]
    /\ executed = [r \in Correct |-> 0] /\ lastExecuted = [r \in Correct |-> 0]
    /\ cp = [r \in Correct |-> InitialManager(Seqs)] /\ adopted = {}
    /\ preprepares = {} /\ prepares = {} /\ commits = {} /\ viewchanges = {} /\ newviews = {}
    /\ checkpoints = {} /\ getstates = {} /\ setstates = {}

Next == \E r \in Correct :
    \/ \E h \in Requests : HandleRequest(r, h)
    \/ \E o \in Operations : HandlePreprepare(r, o)
    \/ \E o \in preprepared[r] : HandlePrepare(r, o)
    \/ \E o \in prepared[r] : HandleCommit(r, o)
    \/ ExecuteHandler(r)
    \/ HandleFailure(r)
    \/ \E m \in SentViewchanges : HandleViewchange(r, m)
    \/ \E v \in Views : JoinViewchange(r, v)
    \/ \E v \in Views : SendNewview(r, v)
    \/ \E m \in newviews \cup FaultyNewviews : HandleNewview(r, m)
    \/ \E m \in checkpoints \cup UnverifiedCheckpoints(r) : HandleCheckpointMessage(r, m)
    \/ \E q \in cp[r].proof : CatchupTimeout(r, q)
    \/ \E m \in getstates : HandleGetState(r, m)
    \/ \E m \in setstates \cup UnverifiedSetstates(r) : HandleSetState(r, m)
    \/ Restart(r)

Spec == Init /\ [][Next]_vars

-----------------------------------------------------------------------------
(* Properties *)

SameSlot(o, p) == o.view = p.view /\ o.seq = p.seq

(* Each variable has its type. *)
TypeOK ==
    /\ view \in [Correct -> Views] /\ viewValid \in [Correct -> BOOLEAN]
    /\ lastViewSent \in [Correct -> Views \cup {0}]
    /\ nextIssued \in [Correct -> 1 .. MaxSeq + 1]
    /\ primary \in [Correct -> Peers \cup {NoPrimary}] /\ adopted \subseteq Correct
    /\ recent \in [Correct -> SUBSET Requests]
    /\ savedNewview \in [Correct -> {NoNewview} \cup [view : Views, sender : Peers]]
    /\ accepted \in [Correct -> SUBSET Operations] /\ preprepared \in [Correct -> SUBSET Operations]
    /\ prepared \in [Correct -> SUBSET Operations] /\ committed \in [Correct -> SUBSET Operations]
    /\ applied \in [Correct -> SUBSET Operations]
    /\ executed \in [Correct -> 0 .. MaxSeq] /\ lastExecuted \in [Correct -> 0 .. MaxSeq]
    /\ cp \in [Correct -> Managers(Peers, Seqs)]
    /\ preprepares \subseteq Votes /\ prepares \subseteq Votes /\ commits \subseteq Votes
    /\ viewchanges \subseteq Viewchanges
    /\ \A m \in newviews : m.sender \in Peers /\ m.view \in Views /\ m.vcs \subseteq Viewchanges
    /\ checkpoints \subseteq [sender : Peers, seq : Seqs]

(* What two replicas have prepared, or handed to their services, for one   *)
(* view and sequence is one request, although a faulty primary may send    *)
(* each of them a different preprepare and replicas restart in between.    *)
SameViewAgreement ==
    \A r, q \in Correct :
        \A o \in prepared[r] \cup applied[r], p \in prepared[q] \cup applied[q] :
            SameSlot(o, p) => o.hash = p.hash

(* A correct primary issues one client request for a view and sequence,    *)
(* and in a view it was elected to it issues above everything carried over *)
(* by the NEWVIEW it announced, although handle_newview first sets the     *)
(* next sequence back to the checkpoint.  Excepted is a replica that took  *)
(* a view from a SET_STATE: handle_set_state sets the view and the         *)
(* primary, and not the next sequence to issue.                            *)
PrimaryNeverReissues ==
    \A m \in preprepares : m.sender \notin adopted =>
        /\ \A n \in preprepares : m.sender = n.sender /\ SameSlot(m.op, n.op) => m = n
        /\ m.op.view > 1 =>
              \E x \in newviews :
                 /\ x.sender = m.sender /\ x.view = m.op.view
                 /\ \A o \in build_newview(x.view, x.vcs) : o.seq < m.op.seq

(* How far the next two properties go: the swarm has no checkpoint yet,    *)
(* nobody has taken a view from a SET_STATE, and no correct replica asked  *)
(* for or entered a view beyond the second, whose primary is correct.      *)
(* Beyond it the code breaks them: a base without proof (pbft_stale_base), *)
(* a proof of an older view (pbft_old_proof), or VIEWCHANGEs that a faulty *)
(* primary made up, which is_valid_newview_message does not verify.        *)
FirstViewChange ==
    /\ checkpoints = {} /\ adopted = {} /\ PrimaryOf(2) \in Correct
    /\ \A m \in viewchanges : m.view = 2
    /\ \A r \in Correct : view[r] <= 2

(* Two replicas never hand their services different requests for one       *)
(* sequence, in the same view or across the first view change.             *)
ApplyAgreement ==
    FirstViewChange =>
        \A r, q \in Correct : \A o \in applied[r], p \in applied[q] :
            o.seq = p.seq => o.hash = p.hash

(* Whatever 2f+1 VIEWCHANGEs the new primary has in its tally, those of    *)
(* faulty replicas and of replicas that were told of checkpoints nobody    *)
(* reached included, an operation some replica has committed is proposed   *)
(* again by its NEWVIEW, for the same sequence.                            *)
CommittedCarriedOver ==
    FirstViewChange =>
        \A m \in newviews : \A r \in Correct : \A o \in committed[r] :
            o.view < m.view => [o EXCEPT !.view = m.view] \in build_newview(m.view, m.vcs)

(* The base of a VIEWCHANGE that a replica accepts, above which alone a    *)
(* new view proposes again, was reached by a correct replica: although a   *)
(* checkpoint manager takes its evidence unverified and make_viewchange    *)
(* passes it on.                                                           *)
BaseReached ==
    \A m \in {x \in SentViewchanges : x.seq # 0} :
        (\E r \in Correct : is_valid_viewchange_message(r, m)) =>
            \E c \in checkpoints : c.sender \in Correct /\ c.seq = m.seq

(* pbft_service_base.hpp says "If apply_operation(x, y) is called, then    *)
(* apply_operation(x2, y) will never be called with x != x2".              *)
ApplyContract ==
    \A r \in Correct : \A o, p \in applied[r] : o.seq = p.seq => o.hash = p.hash

=============================================================================
