---------------------------- MODULE Pbft_proofs ----------------------------
(***************************************************************************)
(* What holds for any number of peers, views, sequences and requests.      *)
(*                                                                         *)
(* IInv: agreement within a view.  A replica that sends PREPARE for an     *)
(* operation has it in accepted_preprepares, which holds one request per   *)
(* view and sequence for ever; an operation is prepared only on the votes  *)
(* of a quorum; two quorums share a replica that keeps to that rule.       *)
(*                                                                         *)
(* TInv: the types, and that evidence for a checkpoint, in a manager or in *)
(* a message, names senders of CHECKPOINTs for it.                         *)
(*                                                                         *)
(* IssueInv: what the primary of a view issues is above what the NEWVIEW   *)
(* it entered the view by carries over.                                    *)
(*                                                                         *)
(* FirstInv: agreement across the first view change.                       *)
(***************************************************************************)
EXTENDS Pbft, SumTheorems

USE ZenonT(60)

(* The per-replica maps keep their keys.                                   *)
Domains ==
    /\ DOMAIN accepted = Correct
    /\ DOMAIN prepared = Correct
    /\ DOMAIN applied = Correct

(* A PREPARE in the network was sent for an operation its sender still has *)
(* in accepted_preprepares.                                                *)
PreparesAccepted ==
    \A m \in prepares : m.sender \in Correct /\ m.op \in accepted[m.sender]

(* accepted_preprepares holds one request per view and sequence.           *)
AcceptedOnce ==
    \A r \in Correct : \A o, p \in accepted[r] : SameSlot(o, p) => o.hash = p.hash

(* What is prepared or handed to the service has the votes of a quorum.    *)
Certified ==
    \A r \in Correct : \A o \in prepared[r] \cup applied[r] : HasQuorum(prepares, o)

IInv == Domains /\ PreparesAccepted /\ AcceptedOnce /\ Certified

-----------------------------------------------------------------------------
(* Two sets of peers as large as honest_majority_size share a peer that is *)
(* not faulty.                                                             *)
LEMMA QuorumIntersection ==
    ASSUME NEW A \in SUBSET Peers, NEW B \in SUBSET Peers,
           Cardinality(A) >= honest_majority_size(N),
           Cardinality(B) >= honest_majority_size(N)
    PROVE  \E q \in Correct : q \in A /\ q \in B
<1>1. IsFiniteSet(Peers) /\ IsFiniteSet(A) /\ IsFiniteSet(B) /\ IsFiniteSet(Faulty)
  BY PeersAssumption, FS_Subset
<1>2. /\ IsFiniteSet(A \cap B) /\ IsFiniteSet(A \cup B)
      /\ Cardinality(A \cup B) = Cardinality(A) + Cardinality(B) - Cardinality(A \cap B)
  BY <1>1, FS_Union, FS_Intersection
<1>3. Cardinality(A \cup B) <= N
  BY <1>1, FS_Subset DEF N
<1>4. /\ N \in Nat /\ Cardinality(A) \in Nat /\ Cardinality(B) \in Nat
      /\ Cardinality(A \cap B) \in Nat /\ Cardinality(Faulty) \in Nat
  BY <1>1, <1>2, FS_CardinalityType DEF N
<1>5. honest_majority_size(N) \in Int
  BY SMTT(60), <1>4 DEF honest_majority_size, faulty_nodes_bound
<1>6. Cardinality(A \cap B) > Cardinality(Faulty)
  <2>1. N + Cardinality(Faulty) < 2 * honest_majority_size(N)
    BY FaultAssumption
  <2> HIDE DEF honest_majority_size, N
  <2> QED BY SMTT(60), <1>2, <1>3, <1>4, <1>5, <2>1
<1>7. ~(A \cap B \subseteq Faulty)
  BY SMTT(60), <1>1, <1>4, <1>6, FS_Subset
<1> QED BY <1>7 DEF Correct

(* The inductive invariant gives agreement.                                *)
LEMMA Agreement ==
    IInv => SameViewAgreement
<1> SUFFICES ASSUME IInv, NEW r \in Correct, NEW s \in Correct,
                    NEW o \in prepared[r] \cup applied[r],
                    NEW p \in prepared[s] \cup applied[s], SameSlot(o, p)
             PROVE  o.hash = p.hash
  BY DEF SameViewAgreement
<1>1. HasQuorum(prepares, o) /\ HasQuorum(prepares, p)
  BY DEF IInv, Certified
<1>2. Voters(prepares, o) \in SUBSET Peers /\ Voters(prepares, p) \in SUBSET Peers
  BY SMTT(60), PeersAssumption DEF IInv, PreparesAccepted, Voters, Correct
<1>3. PICK q \in Correct : q \in Voters(prepares, o) /\ q \in Voters(prepares, p)
  BY <1>1, <1>2, QuorumIntersection DEF HasQuorum
<1>4. o \in accepted[q] /\ p \in accepted[q]
  BY <1>3 DEF Voters, Correct, IInv, PreparesAccepted
<1> QED BY <1>4 DEF IInv, AcceptedOnce

-----------------------------------------------------------------------------
(* The inductive invariant holds of a new swarm.                           *)
LEMMA InitIInv == Init => IInv
  BY DEF Init, IInv, Domains, PreparesAccepted, AcceptedOnce, Certified

-----------------------------------------------------------------------------
(* Every handler keeps the inductive invariant.                            *)
LEMMA NextIInv == IInv /\ [Next]_vars => IInv'
(* Votes only accumulate: a quorum of PREPAREs stays one.                  *)
<1>QuorumsPersist. ASSUME NEW o, PreparesAccepted', prepares \subseteq prepares', HasQuorum(prepares, o)
                   PROVE  HasQuorum(prepares', o)
  <2> USE <1>QuorumsPersist
  <2>1. Voters(prepares, o) \subseteq Voters(prepares', o)
    BY DEF Voters
  <2>2. Voters(prepares', o) \subseteq Peers
    BY PeersAssumption DEF Voters, PreparesAccepted, Correct
  <2>3. IsFiniteSet(Voters(prepares', o))
    BY <2>2, PeersAssumption, FS_Subset
  <2>4. Cardinality(Voters(prepares, o)) <= Cardinality(Voters(prepares', o))
    BY <2>1, <2>3, FS_Subset
  <2>5. /\ Cardinality(Voters(prepares, o)) \in Nat /\ Cardinality(Voters(prepares', o)) \in Nat
        /\ honest_majority_size(N) \in Int
    BY SMTT(60), <2>1, <2>3, FS_Subset, FS_CardinalityType, PeersAssumption
       DEF honest_majority_size, faulty_nodes_bound, N
  <2> QED BY SMTT(60), <2>4, <2>5 DEF HasQuorum
(* The preprepares of a NEWVIEW name one request per sequence.             *)
<1>NewviewOnePerSequence. ASSUME NEW v, NEW V, NEW o \in build_newview(v, V), NEW p \in build_newview(v, V),
                                 SameSlot(o, p)
                          PROVE  o.hash = p.hash
  <2> USE <1>NewviewOnePerSequence
  <2>1. PICK s : o = NewPreprepare(v, V, s)
    BY DEF build_newview
  <2>2. PICK t : p = NewPreprepare(v, V, t)
    BY DEF build_newview
  <2>3. o.seq = s /\ p.seq = t
    BY <2>1, <2>2 DEF NewPreprepare
  <2> QED BY <2>1, <2>2, <2>3 DEF SameSlot
(* Accepting preprepares that name one request per sequence keeps          *)
(* accepted_preprepares single-valued, and the PREPAREs covered by it.     *)
<1>AcceptKeepsOnce. ASSUME IInv, NEW r \in Correct, NEW O, handle_preprepares(r, O),
                           \A o, p \in O : SameSlot(o, p) => o.hash = p.hash
                    PROVE  /\ DOMAIN accepted' = Correct
                           /\ PreparesAccepted' /\ AcceptedOnce'
                           /\ prepares \subseteq prepares'
  <2> USE <1>AcceptKeepsOnce
  <2> USE DEF IInv
  <2> DEFINE new == Acceptable(r, O)
  <2>1. /\ accepted' = [accepted EXCEPT ![r] = @ \cup new]
        /\ prepares' = prepares \cup {[sender |-> r, op |-> o] : o \in new}
        /\ new \subseteq O
        /\ \A o \in new, a \in accepted[r] : SameSlot(o, a) => o.hash = a.hash
    BY DEF handle_preprepares, Acceptable, SameSlot
  <2> HIDE DEF new
  <2>2. DOMAIN accepted' = Correct
    BY <2>1 DEF Domains
  <2>3. \A q \in Correct : accepted'[q] = IF q = r THEN accepted[r] \cup new ELSE accepted[q]
    BY <2>1 DEF Domains
  <2>4. PreparesAccepted'
    <3> SUFFICES ASSUME NEW m \in prepares' PROVE m.sender \in Correct /\ m.op \in accepted'[m.sender]
      BY DEF PreparesAccepted
    <3>1. CASE m \in prepares
      BY <3>1, <2>3 DEF PreparesAccepted
    <3>2. CASE \E o \in new : m = [sender |-> r, op |-> o]
      BY SMTT(60), <3>2, <2>3
    <3> QED BY <3>1, <3>2, <2>1
  <2>5. AcceptedOnce'
    <3> SUFFICES ASSUME NEW q \in Correct, NEW o \in accepted'[q], NEW p \in accepted'[q],
                        SameSlot(o, p)
                 PROVE  o.hash = p.hash
      BY DEF AcceptedOnce, SameSlot
    <3>1. CASE q # r
      BY SMTT(60), <3>1, <2>3 DEF AcceptedOnce
    <3>2. CASE q = r
      BY SMTT(60), <3>2, <2>1, <2>3 DEF AcceptedOnce, SameSlot
    <3> QED BY <3>1, <3>2
  <2> QED BY <2>1, <2>2, <2>4, <2>5
(* A step that leaves accepted_preprepares and the PREPAREs alone, and     *)
(* marks an operation prepared or applied only on a quorum, keeps IInv.    *)
<1>QuietStep. ASSUME IInv, UNCHANGED <<accepted, prepares>>,
                     DOMAIN prepared' = Correct, DOMAIN applied' = Correct,
                     \A r \in Correct : \A o \in prepared'[r] \cup applied'[r] :
                         o \in prepared[r] \cup applied[r] \/ HasQuorum(prepares, o)
              PROVE  IInv'
  <2> USE <1>QuietStep
  <2>1. Domains' /\ PreparesAccepted' /\ AcceptedOnce'
    BY DEF IInv, Domains, PreparesAccepted, AcceptedOnce, SameSlot
  <2>2. \A o : HasQuorum(prepares, o) => HasQuorum(prepares, o)'
    BY DEF HasQuorum, Voters
  <2>3. Certified'
    BY <2>2 DEF IInv, Certified
  <2> QED BY <2>1, <2>3 DEF IInv
(* A step that accepts preprepares, one request per sequence, and marks    *)
(* nothing prepared or applied, keeps IInv.                                *)
<1>AcceptStep. ASSUME IInv, NEW r \in Correct, NEW O, handle_preprepares(r, O),
                      \A o, p \in O : SameSlot(o, p) => o.hash = p.hash,
                      UNCHANGED <<prepared, applied>>
               PROVE  IInv'
  <2> USE <1>AcceptStep
  <2>1. DOMAIN accepted' = Correct /\ PreparesAccepted' /\ AcceptedOnce' /\ prepares \subseteq prepares'
    BY <1>AcceptKeepsOnce
  <2>2. Domains'
    BY <2>1 DEF IInv, Domains
  <2>3. Certified'
    <3> SUFFICES ASSUME NEW q \in Correct, NEW o \in prepared[q] \cup applied[q]
                 PROVE  HasQuorum(prepares', o)
      BY DEF Certified, HasQuorum, Voters
    <3>1. HasQuorum(prepares, o)
      BY DEF IInv, Certified
    <3> QED BY <2>1, <3>1, <1>QuorumsPersist
  <2> QED BY <2>1, <2>2, <2>3 DEF IInv
<1> SUFFICES ASSUME IInv, [Next]_vars PROVE IInv'
  OBVIOUS
<1>d. Domains
  BY DEF IInv
<1>1. CASE UNCHANGED vars
  BY <1>1, <1>QuietStep, <1>d DEF vars, voteVars, serviceVars, Domains
<1>2. CASE Next
  <2> PICK r \in Correct :
      \/ \E h \in Requests : HandleRequest(r, h)
      \/ \E o \in Operations : HandlePreprepare(r, o)
      \/ \E o \in preprepared[r] : HandlePrepare(r, o)
      \/ \E o \in prepared[r] : HandleCommit(r, o)
      \/ ExecuteHandler(r)
      \/ HandleFailure(r)
      \/ \E m \in SentViewchanges : HandleViewchange(r, m)
      \/ \E v \in Views : JoinViewchange(r, v)
      \/ \E v \in Views : SendNewview(r, v)
      \/ \E m \in newviews \cup FaultyNewviews : HandleNewview(r, m)
      \/ \E m \in checkpoints \cup UnverifiedCheckpoints(r) : HandleCheckpointMessage(r, m)
      \/ \E q \in cp[r].proof : CatchupTimeout(r, q)
      \/ \E m \in getstates : HandleGetState(r, m)
      \/ \E m \in setstates \cup UnverifiedSetstates(r) : HandleSetState(r, m)
      \/ Restart(r)
    BY <1>2 DEF Next
  <2>1. CASE \E h \in Requests : HandleRequest(r, h)
    BY <2>1, <1>d, <1>QuietStep DEF HandleRequest, serviceVars, Domains
  <2>2. CASE \E o \in Operations : HandlePreprepare(r, o)
    <3> PICK o \in Operations : HandlePreprepare(r, o)
      BY <2>2
    <3> DEFINE O == {o}
    <3>1. handle_preprepares(r, O) /\ UNCHANGED <<prepared, applied>>
      BY DEF HandlePreprepare, serviceVars
    <3>2. \A x, y \in O : SameSlot(x, y) => x.hash = y.hash
      OBVIOUS
    <3> HIDE DEF O
    <3> QED BY <3>1, <3>2, <1>AcceptStep
  <2>3. CASE \E o \in preprepared[r] : HandlePrepare(r, o)
    <3> PICK o \in preprepared[r] : HandlePrepare(r, o)
      BY <2>3
    <3>1. /\ UNCHANGED <<accepted, prepares, applied>>
          /\ prepared' = [prepared EXCEPT ![r] = @ \cup {o}]
          /\ HasQuorum(prepares, o)
      BY DEF HandlePrepare, serviceVars
    <3> QED BY <3>1, <1>d, <1>QuietStep DEF Domains
  <2>4. CASE \E o \in prepared[r] : HandleCommit(r, o)
    <3> PICK o \in prepared[r] : HandleCommit(r, o)
      BY <2>4
    <3>1. /\ UNCHANGED <<accepted, prepares, prepared>>
          /\ applied' = [applied EXCEPT ![r] = @ \cup {o}]
      BY DEF HandleCommit
    <3> QED BY <3>1, <1>d, <1>QuietStep DEF Domains
  <2>5. CASE ExecuteHandler(r)
    <3>1. UNCHANGED <<accepted, prepares, applied>>
      BY <2>5 DEF ExecuteHandler
    <3>2. \/ UNCHANGED prepared
          \/ \E bound : prepared' = [prepared EXCEPT ![r] = Kept(@, bound)]
      BY <2>5 DEF ExecuteHandler
    <3>3. DOMAIN prepared' = Correct /\ \A q \in Correct : prepared'[q] \subseteq prepared[q]
      BY <3>2, <1>d DEF Domains, Kept
    <3> QED BY <3>1, <3>3, <1>d, <1>QuietStep DEF Domains
  <2>6. CASE HandleFailure(r)
    BY <2>6, <1>d, <1>QuietStep DEF HandleFailure, voteVars, serviceVars, Domains
  <2>7. CASE \E m \in SentViewchanges : HandleViewchange(r, m)
    BY <2>7, <1>d, <1>QuietStep DEF HandleViewchange, voteVars, serviceVars, Domains
  <2>8. CASE \E v \in Views : JoinViewchange(r, v)
    BY <2>8, <1>d, <1>QuietStep DEF JoinViewchange, voteVars, serviceVars, Domains
  <2>9. CASE \E v \in Views : SendNewview(r, v)
    BY <2>9, <1>d, <1>QuietStep DEF SendNewview, voteVars, serviceVars, Domains
  <2>10. CASE \E m \in newviews \cup FaultyNewviews : HandleNewview(r, m)
    <3> PICK m \in newviews \cup FaultyNewviews : HandleNewview(r, m)
      BY <2>10
    <3>1. handle_preprepares(r, build_newview(m.view, m.vcs)) /\ UNCHANGED <<prepared, applied>>
      BY DEF HandleNewview, serviceVars
    <3>2. \A o, p \in build_newview(m.view, m.vcs) : SameSlot(o, p) => o.hash = p.hash
      BY <1>NewviewOnePerSequence
    <3> QED BY <3>1, <3>2, <1>AcceptStep
  <2>11. CASE \E m \in checkpoints \cup UnverifiedCheckpoints(r) : HandleCheckpointMessage(r, m)
    BY <2>11, <1>d, <1>QuietStep DEF HandleCheckpointMessage, voteVars, serviceVars, Domains
  <2>12. CASE \E q \in cp[r].proof : CatchupTimeout(r, q)
    BY <2>12, <1>d, <1>QuietStep DEF CatchupTimeout, voteVars, serviceVars, Domains
  <2>13. CASE \E m \in getstates : HandleGetState(r, m)
    BY <2>13, <1>d, <1>QuietStep DEF HandleGetState, voteVars, serviceVars, Domains
  <2>14. CASE \E m \in setstates \cup UnverifiedSetstates(r) : HandleSetState(r, m)
    BY <2>14, <1>d, <1>QuietStep DEF HandleSetState, voteVars, Domains
  <2>15. CASE Restart(r)
    BY <2>15, <1>d, <1>QuietStep DEF Restart, voteVars, Domains
  <2> QED BY <2>1, <2>2, <2>3, <2>4, <2>5, <2>6, <2>7, <2>8, <2>9, <2>10, <2>11, <2>12,
             <2>13, <2>14, <2>15
<1> QED BY <1>1, <1>2

-----------------------------------------------------------------------------
(* Checkpoint evidence.  What a manager or a SET_STATE has for evidence of *)
(* a checkpoint names peers, and no more than that is certain of it.  What *)
(* still counts as evidence in a VIEWCHANGE, once its signatures have been *)
(* verified, names replicas that sent a CHECKPOINT for it.                 *)
Reached(s) == \E m \in checkpoints : m.sender \in Correct /\ m.seq = s
Evidence(s, senders) ==
    IF s = 0 THEN senders = {} ELSE s \in Seqs /\ senders \subseteq Peers
GoodManagers == {c \in Managers(Peers, Seqs) : Evidence(c.stable, c.proof)}
GoodVc(m) ==
    m \in Viewchanges /\ Evidence(m.seq, m.cps) /\ m.cps \subseteq CheckpointSenders(m.seq)
SavedViews == {NoNewview} \cup [view : Views, sender : Peers]
SentViews == {NoNewview} \cup [view : Views, sender : Peers \cup {NoPrimary}]

EvidenceInv ==
    /\ checkpoints \subseteq [sender : Correct, seq : Seqs]
    /\ cp \in [Correct -> GoodManagers]
    /\ \A m \in viewchanges : GoodVc(m)
    /\ \A m \in newviews : \A x \in m.vcs : GoodVc(x)
    /\ \A m \in setstates : Evidence(m.seq, m.proof) /\ m.newview \in SentViews

(* The types of the other variables, group by group.                       *)
VotesOK ==
    /\ accepted \in [Correct -> SUBSET Operations] /\ preprepared \in [Correct -> SUBSET Operations]
    /\ prepared \in [Correct -> SUBSET Operations] /\ committed \in [Correct -> SUBSET Operations]
    /\ preprepares \subseteq Votes /\ prepares \subseteq Votes /\ commits \subseteq Votes
ViewsOK ==
    /\ view \in [Correct -> Views] /\ viewValid \in [Correct -> BOOLEAN]
    /\ lastViewSent \in [Correct -> Views \cup {0}]
    /\ nextIssued \in [Correct -> 1 .. MaxSeq + 1]
    /\ primary \in [Correct -> Peers \cup {NoPrimary}] /\ adopted \subseteq Correct
    /\ recent \in [Correct -> SUBSET Requests]
    /\ savedNewview \in [Correct -> SavedViews]
    /\ \A m \in newviews : m.sender \in Peers /\ m.view \in Views
ServiceOK ==
    /\ applied \in [Correct -> SUBSET Operations]
    /\ executed \in [Correct -> 0 .. MaxSeq] /\ lastExecuted \in [Correct -> 0 .. MaxSeq]
TInv == VotesOK /\ ViewsOK /\ ServiceOK /\ EvidenceInv

(* f+1 replicas are not all faulty.                                        *)
LEMMA Sizes ==
    /\ N \in Nat /\ N > 0 /\ Cardinality(Faulty) \in Nat
    /\ max_faulty_nodes \in Nat /\ quorum_size \in Nat /\ quorum_size >= 1
    /\ quorum_size = honest_majority_size(N)
    /\ Cardinality(Faulty) < honest_member_size(N) /\ honest_member_size(N) = max_faulty_nodes + 1
<1>1. IsFiniteSet(Peers) /\ IsFiniteSet(Faulty) BY PeersAssumption, FS_Subset
<1>2. N \in Nat /\ Cardinality(Faulty) \in Nat BY <1>1, FS_CardinalityType DEF N
<1>3. N # 0 BY <1>1, PeersAssumption, FS_EmptySet DEF N
<1> HIDE DEF N
<1> QED BY SMTT(60), <1>2, <1>3, FaultAssumption
        DEF max_faulty_nodes, quorum_size, honest_majority_size, honest_member_size, faulty_nodes_bound

(* Messages from different senders are as many as their senders.           *)
LEMMA TallyFinite ==
    ASSUME NEW V, \A m \in V : m.sender \in Peers, \A x, y \in V : x.sender = y.sender => x = y
    PROVE  IsFiniteSet(V)
<1> DEFINE f == [m \in V |-> m.sender]
<1>1. f \in Injection(V, Peers) BY DEF Injection, IsInjective
<1> HIDE DEF f
<1> QED BY <1>1, PeersAssumption, FS_Injection

(* Every peer is in the uuid order, so some message of a set has the       *)
(* lowest sender.                                                          *)
LEMMA LowestIn ==
    ASSUME NEW V, V # {}, \A m \in V : m.sender \in Peers
    PROVE  Lowest(V) \in V
<1>1. Ordered \in Injection(1 .. N, Peers) BY PeersAssumption DEF Injection, IsInjective
<1>2. Cardinality(1 .. N) = N BY SMTT(60), Sizes, FS_Interval
<1>3. Ordered \in Surjection(1 .. N, Peers)
  BY <1>1, <1>2, PeersAssumption, FS_Injection DEF N
<1>4. \A p \in Peers : \E i \in 1 .. N : Ordered[i] = p BY <1>3 DEF Surjection
<1> DEFINE I == {i \in 1 .. N : \E m \in V : Ordered[i] = m.sender}
<1>5. I \subseteq Nat BY SMTT(60), Sizes
<1>6. I # {} BY SMTT(60), <1>4
<1>7. \A m \in V : \E i \in I : Ordered[i] = m.sender BY <1>4
<1>8. \A i \in I : i \in 1 .. N /\ \E m \in V : Ordered[i] = m.sender OBVIOUS
<1> HIDE DEF I
<1>9. PICK i \in I : \A j \in I : i <= j BY <1>5, <1>6, LeastNumber
<1>10. PICK m \in V : Ordered[i] = m.sender BY <1>8
<1>11. \A x \in V : \E k, j \in 1 .. N : k <= j /\ Ordered[k] = m.sender /\ Ordered[j] = x.sender
  BY <1>7, <1>8, <1>9, <1>10
<1> QED BY <1>10, <1>11 DEF Lowest

LEMMA MaxIn ==
    ASSUME NEW S, NEW n \in Nat, S \subseteq 0 .. n, S # {}
    PROVE  Max(S) \in S /\ \A x \in S : Max(S) >= x
<1>1. \E m \in S : \A y \in S : m >= y BY GreatestNumber
<1> QED BY <1>1 DEF Max

-----------------------------------------------------------------------------
(* The checkpoint manager.                                                 *)
LEMMA EnoughAttestants ==
    ASSUME NEW s, NEW A \in SUBSET Peers, A \subseteq CheckpointSenders(s),
           Cardinality(A) >= honest_member_size(N)
    PROVE  Reached(s)
<1>1. ASSUME A \subseteq Faulty PROVE FALSE
  <2>1. Cardinality(A) <= Cardinality(Faulty) /\ IsFiniteSet(A)
    BY <1>1, PeersAssumption, FS_Subset
  <2>2. Cardinality(A) \in Nat BY <2>1, FS_CardinalityType
  <2>3. honest_member_size(N) \in Int BY SMTT(60), Sizes
  <2> QED BY SMTT(60), <2>1, <2>2, <2>3, Sizes
<1>2. PICK q \in A : q \notin Faulty BY <1>1
<1>3. PICK x \in checkpoints : x.seq = s /\ x.sender = q BY <1>2 DEF CheckpointSenders
<1> QED BY <1>2, <1>3 DEF Reached, Correct

LEMMA BaseSigned ==
    ASSUME NEW m, GoodVc(m), NEW r, is_valid_viewchange_message(r, m), m.seq # 0
    PROVE  Reached(m.seq)
<1>1. Cardinality(m.cps) >= honest_member_size(N) BY DEF is_valid_viewchange_message
<1>2. m.cps \in SUBSET Peers /\ m.cps \subseteq CheckpointSenders(m.seq) BY DEF GoodVc, Viewchanges
<1> QED BY <1>1, <1>2, EnoughAttestants

LEMMA ManagerFields ==
    ASSUME NEW c \in GoodManagers
    PROVE  /\ c.local \in Seqs \cup {0} /\ c.stable \in Seqs \cup {0} /\ c.proof \in SUBSET Peers
           /\ c.partial \in [Seqs -> SUBSET Peers] /\ c.catchup \in Seqs \cup {0}
           /\ Evidence(c.stable, c.proof)
           /\ c = [local |-> c.local, stable |-> c.stable, proof |-> c.proof,
                   partial |-> c.partial, catchup |-> c.catchup]
BY DEF GoodManagers, Managers

LEMMA SendersPeers ==
    ASSUME EvidenceInv, NEW s PROVE CheckpointSenders(s) \in SUBSET Peers
BY SMTT(60), PeersAssumption DEF EvidenceInv, CheckpointSenders, Correct

LEMMA MessagesKeep ==
    ASSUME NEW c \in GoodManagers, NEW s, NEW senders, Evidence(s, senders)
    PROVE  handle_checkpoint_messages(c, s, senders, Peers) \in GoodManagers
<1> DEFINE h == handle_checkpoint_messages(c, s, senders, Peers)
<1>1. CASE senders = {} \/ s < c.local BY <1>1 DEF handle_checkpoint_messages
<1>2. CASE ~(senders = {} \/ s < c.local) /\ s = c.stable
  <2>1. h = [c EXCEPT !.proof = @ \cup senders] BY <1>2 DEF handle_checkpoint_messages
  <2>2. s \in Seqs /\ s # 0 /\ senders \in SUBSET Peers BY <1>2 DEF Evidence
  <2> QED BY SMTT(60), <1>2, <2>1, <2>2, ManagerFields DEF GoodManagers, Managers, Evidence
<1>3. CASE ~(senders = {} \/ s < c.local) /\ s # c.stable
  <2> DEFINE c1 == [c EXCEPT !.partial[s] = @ \cup senders]
             A == c1.partial[s]
  <2>1. h = maybe_stabilize_checkpoint(c1, s, Peers) BY <1>3 DEF handle_checkpoint_messages
  <2>2. s \in Seqs /\ s # 0 /\ senders \in SUBSET Peers BY <1>3 DEF Evidence
  <2>3. c1 \in GoodManagers /\ c1.local = c.local
    BY <2>2, ManagerFields DEF GoodManagers, Managers
  <2> HIDE DEF c1
  <2>4. A \in SUBSET Peers BY <2>2, <2>3, ManagerFields
  <2>5. CASE ~(Cardinality(A \cap Peers) >= honest_member_size(N))
    BY <2>1, <2>3, <2>5 DEF maybe_stabilize_checkpoint, N
  <2>6. CASE Cardinality(A \cap Peers) >= honest_member_size(N)
    <3> DEFINE d == stabilize_checkpoint(c1, s, A)
    <3>3. h = IF c1.local < s THEN [d EXCEPT !.catchup = s] ELSE d
      BY <2>1, <2>6 DEF maybe_stabilize_checkpoint, N, send_delayed_state_request
    <3> HIDE DEF A
    <3>4. d \in GoodManagers
      <4> DEFINE q == [t \in Seqs |-> IF t > s THEN c1.partial[t] ELSE {}]
      <4>1. DOMAIN c1.partial = Seqs BY <2>3, ManagerFields
      <4>2. q \in [Seqs -> SUBSET Peers] BY <2>3, ManagerFields
      <4>3. Evidence(s, A) BY <2>2, <2>4 DEF Evidence
      <4>4. d = [c1 EXCEPT !.stable = s, !.proof = A, !.partial = q] BY <4>1 DEF stabilize_checkpoint
      <4> HIDE DEF q, d
      <4>5. c1 \in Managers(Peers, Seqs) BY <2>3 DEF GoodManagers
      <4>6. d \in Managers(Peers, Seqs) /\ d.stable = s /\ d.proof = A /\ d.partial = q
        <5> DEFINE d1 == [c1 EXCEPT !.stable = s]
                   d2 == [d1 EXCEPT !.proof = A]
        <5>1. d = [d2 EXCEPT !.partial = q] BY <4>4
        <5>2. d1 \in Managers(Peers, Seqs) /\ d1.stable = s BY <2>2, <4>5 DEF Managers
        <5> HIDE DEF d1
        <5>3. d2 \in Managers(Peers, Seqs) /\ d2.stable = s /\ d2.proof = A
          BY <2>4, <5>2 DEF Managers
        <5> HIDE DEF d2
        <5> QED BY <4>2, <5>1, <5>3 DEF Managers
      <4> QED BY <4>3, <4>6 DEF GoodManagers
    <3> HIDE DEF d
    <3>5. [d EXCEPT !.catchup = s] \in GoodManagers
      BY <2>2, <3>4, ManagerFields DEF GoodManagers, Managers
    <3> QED BY <3>3, <3>4, <3>5
  <2> QED BY <2>5, <2>6
<1> QED BY <1>1, <1>2, <1>3

(* save_checkpoints takes the messages one by one, so a set of managers    *)
(* that no message leads out of is not left by all of them.                *)
Saved(c, g, s) ==
    IF s = {} THEN c
    ELSE handle_checkpoint_messages(g[s \ {Pick(s)}], Pick(s).seq, Pick(s).cps, Peers)
IsSave(c, V, g) == g = [s \in SUBSET V |-> Saved(c, g, s)]
SaveIter(c, V) == CHOOSE g : IsSave(c, V, g)

LEMMA SaveUnfold == ASSUME NEW c, NEW V PROVE save_checkpoints(c, V) = SaveIter(c, V)[V]
BY DEF save_checkpoints, FoldSet, MapThenFoldSet, SaveIter, IsSave, Saved, Pick

LEMMA SaveIterExists ==
    ASSUME NEW c, NEW V, IsFiniteSet(V)
    PROVE  IsSave(c, V, SaveIter(c, V))
<1> DEFINE Small(n) == {s \in SUBSET V : Cardinality(s) <= n}
           T == {n \in Nat : \E g : g = [s \in Small(n) |-> Saved(c, g, s)]}
<1>1. \A s \in SUBSET V : IsFiniteSet(s) /\ Cardinality(s) \in Nat
  BY FS_Subset, FS_CardinalityType
<1>2. \A s \in SUBSET V : s # {} =>
         s \ {Pick(s)} \in SUBSET V /\ Cardinality(s \ {Pick(s)}) = Cardinality(s) - 1
  BY <1>1, PickIn, FS_RemoveElement
<1>3. 0 \in T
  <2> DEFINE g == [s \in Small(0) |-> c]
  <2>1. \A s \in Small(0) : s = {} BY SMTT(60), <1>1, FS_EmptySet
  <2>2. g = [s \in Small(0) |-> Saved(c, g, s)] BY <2>1 DEF Saved
  <2>3. \E x : x = [s \in Small(0) |-> Saved(c, x, s)] BY <2>2
  <2> QED BY <2>3
<1>4. ASSUME NEW n \in T PROVE n + 1 \in T
  <2>1. PICK g : g = [s \in Small(n) |-> Saved(c, g, s)] BY <1>4
  <2> DEFINE h == [s \in Small(n + 1) |-> Saved(c, g, s)]
  <2>2. ASSUME NEW s \in Small(n + 1) PROVE Saved(c, g, s) = Saved(c, h, s)
    <3>1. CASE s = {} BY <3>1 DEF Saved
    <3>2. CASE s # {}
      <4> DEFINE r == s \ {Pick(s)}
      <4>1. r \in Small(n) /\ r \in Small(n + 1) BY SMTT(60), <1>1, <1>2, <3>2
      <4>2. g[r] = Saved(c, g, r) BY <2>1, <4>1
      <4>3. h[r] = Saved(c, g, r) BY <4>1
      <4> QED BY <3>2, <4>2, <4>3 DEF Saved
    <3> QED BY <3>1, <3>2
  <2>3. h = [s \in Small(n + 1) |-> Saved(c, h, s)] BY <2>2
  <2>4. \E x : x = [s \in Small(n + 1) |-> Saved(c, x, s)] BY <2>3
  <2>5. n + 1 \in Nat BY SMTT(60)
  <2> QED BY <2>4, <2>5
<1>5. T = Nat
  <2>1. T \in SUBSET Nat OBVIOUS
  <2> HIDE DEF T
  <2> QED BY <1>3, <1>4, <2>1, NatSetInduction
<1>6. Cardinality(V) \in T BY <1>1, <1>5
<1>7. Small(Cardinality(V)) = SUBSET V BY FS_Subset
<1>8. \E g : IsSave(c, V, g) BY <1>6, <1>7 DEF IsSave
<1> QED BY <1>8 DEF SaveIter

Closed(X, V) == \A d \in X, m \in V : handle_checkpoint_messages(d, m.seq, m.cps, Peers) \in X

LEMMA SaveKeeps ==
    ASSUME NEW X, NEW c \in X, NEW V, IsFiniteSet(V), Closed(X, V)
    PROVE  save_checkpoints(c, V) \in X
<1> DEFINE F == SaveIter(c, V)
           C == {s \in SUBSET V : F[s] \notin X}
<1>1. IsSave(c, V, F) BY SaveIterExists
<1>2. save_checkpoints(c, V) = F[V] BY SaveUnfold
<1> HIDE DEF F
<1>3. \A s \in SUBSET V : F[s] = Saved(c, F, s) BY <1>1 DEF IsSave
<1>4. ASSUME C # {} PROVE FALSE
  <2>1. C \subseteq SUBSET V OBVIOUS
  <2> HIDE DEF C
  <2>2. PICK m : Minimal(m, C) BY <1>4, <2>1, MinimalSubset
  <2>3. m \in SUBSET V /\ F[m] \notin X BY <2>2 DEF C, Minimal
  <2>4. F[m] = Saved(c, F, m) BY <1>3, <2>3
  <2>5. m # {} BY <2>3, <2>4 DEF Saved
  <2>6. Pick(m) \in m BY <2>5, PickIn
  <2>7. m \ {Pick(m)} \notin C BY <2>2, <2>6 DEF Minimal
  <2>8. F[m \ {Pick(m)}] \in X BY <2>3, <2>7 DEF C
  <2>9. Saved(c, F, m) \in X BY <2>3, <2>5, <2>6, <2>8 DEF Saved, Closed
  <2> QED BY <2>3, <2>4, <2>9
<1>5. V \notin C BY <1>4
<1> QED BY <1>2, <1>5

-----------------------------------------------------------------------------
(* The messages of a view change, from correct and from faulty replicas.   *)
LEMMA FaultyGood ==
    ASSUME TInv, NEW p \in Peers, NEW m \in FaultyViewchanges(p)
    PROVE  GoodVc(m) /\ m.sender = p /\ \A o \in m.proofs : HasQuorum(prepares, o)
<1>1. PICK v \in Views \ {1}, b \in {<<0, {}>>} \cup {<<s, CheckpointSenders(s)>> : s \in Seqs},
           P \in {Q \in SUBSET {o \in Operations : HasQuorum(prepares, o)} :
                     \A x, y \in Q : x.seq = y.seq => x = y} :
           m = [sender |-> p, view |-> v, seq |-> b[1], cps |-> b[2], proofs |-> P]
  BY SMTT(60) DEF FaultyViewchanges
<1>2. /\ Evidence(b[1], b[2]) /\ b[2] \subseteq CheckpointSenders(b[1])
      /\ b[1] \in Seqs \cup {0} /\ b[2] \in SUBSET Peers
  <2>1. CASE b = <<0, {}>> BY <2>1 DEF Evidence
  <2>2. CASE \E s \in Seqs : b = <<s, CheckpointSenders(s)>>
    <3>1. PICK s \in Seqs : b = <<s, CheckpointSenders(s)>> BY <2>2
    <3>2. s # 0 BY SMTT(60) DEF Seqs
    <3> QED BY <3>1, <3>2, SendersPeers DEF Evidence, TInv
  <2> QED BY <1>1, <2>1, <2>2
<1>3. v \in Views /\ P \in SUBSET Operations /\ \A o \in P : HasQuorum(prepares, o) OBVIOUS
<1> QED BY <1>1, <1>2, <1>3 DEF GoodVc, Viewchanges

LEMMA SentGood ==
    ASSUME TInv, NEW m \in SentViewchanges
    PROVE  GoodVc(m) /\ (m \in viewchanges \/ (m.sender \in Faulty /\ \A o \in m.proofs : HasQuorum(prepares, o)))
<1>1. CASE m \in viewchanges BY <1>1 DEF TInv, EvidenceInv
<1>2. CASE \E p \in Faulty : m \in FaultyViewchanges(p)
  <2>1. PICK p \in Faulty : m \in FaultyViewchanges(p) BY <1>2
  <2>2. p \in Peers BY PeersAssumption
  <2> QED BY <2>1, <2>2, FaultyGood
<1> QED BY <1>1, <1>2 DEF SentViewchanges

LEMMA TallyGood ==
    ASSUME TInv, NEW r, NEW v, NEW k, NEW V \in Tallies(r, v, k)
    PROVE  /\ IsFiniteSet(V) /\ \A m \in V : GoodVc(m) /\ is_valid_viewchange_message(r, m) /\ m.view = v
           /\ V \subseteq VcsFor(SentViewchanges, v)
           /\ Cardinality(V) = k /\ \A x, y \in V : x.sender = y.sender => x = y
<1>1. /\ V \subseteq {m \in VcsFor(SentViewchanges, v) : is_valid_viewchange_message(r, m)}
      /\ Cardinality(V) = k /\ \A x, y \in V : x.sender = y.sender => x = y
  BY DEF Tallies, kSubset
<1>2. \A m \in V : /\ m \in SentViewchanges /\ m.view = v
                   /\ is_valid_viewchange_message(r, m)
  BY <1>1 DEF VcsFor
<1>3. \A m \in V : GoodVc(m) BY <1>2, SentGood
<1>4. \A m \in V : m.sender \in Peers BY <1>3 DEF GoodVc, Viewchanges
<1>5. IsFiniteSet(V) BY <1>1, <1>4, TallyFinite
<1> QED BY <1>1, <1>2, <1>3, <1>5

LEMMA SaveGood ==
    ASSUME NEW c \in GoodManagers, NEW V, IsFiniteSet(V), \A m \in V : GoodVc(m)
    PROVE  save_checkpoints(c, V) \in GoodManagers
<1>1. Closed(GoodManagers, V) BY MessagesKeep DEF Closed, GoodVc
<1> QED BY <1>1, SaveKeeps

LEMMA NewviewGood ==
    ASSUME TInv, NEW m \in newviews \cup FaultyNewviews
    PROVE  m.sender \in Peers /\ m.view \in Views /\ \A x \in m.vcs : GoodVc(x)
<1>1. CASE m \in newviews BY <1>1 DEF TInv, ViewsOK, EvidenceInv
<1>2. CASE m \in FaultyNewviews
  <2> DEFINE All == viewchanges \cup UNION {FaultyViewchanges(p) : p \in Peers}
  <2>1. \A x \in All : GoodVc(x) BY FaultyGood DEF TInv, EvidenceInv
  <2> HIDE DEF All
  <2>2. PICK v \in {w \in Views : w > 1 /\ PrimaryOf(w) \in Faulty} :
             m \in {[sender |-> PrimaryOf(v), view |-> v, vcs |-> V] :
                     V \in {W \in SUBSET VcsFor(All, v) : Cardinality(W) >= quorum_size}}
    BY <1>2 DEF FaultyNewviews, All
  <2>3. PICK V \in SUBSET VcsFor(All, v) : m = [sender |-> PrimaryOf(v), view |-> v, vcs |-> V]
    BY <2>2
  <2>4. \A x \in V : x \in All BY DEF VcsFor
  <2> QED BY <2>1, <2>2, <2>3, <2>4, PeersAssumption
<1> QED BY <1>1, <1>2

(* The operations of a NEWVIEW are operations, of its view.                *)
GoodVcs(V) == V # {} /\ \A m \in V : m \in Viewchanges

LEMMA NewviewOperations ==
    ASSUME NEW v \in Views, NEW V, GoodVcs(V)
    PROVE  /\ build_newview(v, V) \in SUBSET Operations
           /\ \A o \in build_newview(v, V) : o.view = v
           /\ build_newview(v, V) # {} =>
                 LET m == Max({o.seq : o \in build_newview(v, V)})
                 IN  m \in Seqs /\ \A o \in build_newview(v, V) : o.seq <= m
<1> DEFINE seqs == {m.seq : m \in V}
           low == max_checkpoint_sequence(V)
           all == ProvenSeqs(V) \cup {low}
           O == build_newview(v, V)
<1>0. MaxSeq \in Nat /\ \A m \in V : m.sender \in Peers /\ m.seq \in 0 .. MaxSeq /\ m.proofs \in SUBSET Operations
  BY SMTT(60), BoundsAssumption DEF GoodVcs, Viewchanges, Seqs
<1>1. low \in 0 .. MaxSeq
  <2>1. seqs \subseteq 0 .. MaxSeq /\ seqs # {} BY <1>0 DEF GoodVcs
  <2> HIDE DEF seqs
  <2>2. Max(seqs) \in seqs BY <1>0, <2>1, MaxIn
  <2> QED BY <2>1, <2>2 DEF max_checkpoint_sequence, seqs
<1>2. ProvenSeqs(V) \subseteq Seqs BY SMTT(60), <1>0 DEF ProvenSeqs, Operations
<1>3. Max(all) \in 0 .. MaxSeq
  <2>1. all \subseteq 0 .. MaxSeq /\ all # {} BY SMTT(60), <1>1, <1>2 DEF Seqs
  <2> HIDE DEF all
  <2>2. Max(all) \in all BY <1>0, <2>1, MaxIn
  <2> QED BY <2>1, <2>2
<1>4. ASSUME NEW s \in ProvenSeqs(V) PROVE FirstProof(V, s) \in Operations
  <2> DEFINE W == {x \in V : \E o \in x.proofs : o.seq = s}
             m == Lowest(W)
  <2>1. W # {} BY <1>4 DEF ProvenSeqs
  <2>2. \A x \in W : x.sender \in Peers BY <1>0
  <2>3. W \subseteq V /\ \A x \in W : \E o \in x.proofs : o.seq = s OBVIOUS
  <2> HIDE DEF W
  <2>4. m \in W BY <2>1, <2>2, LowestIn
  <2>5. FirstProof(V, s) = CHOOSE o \in m.proofs : o.seq = s BY DEF FirstProof, W
  <2> HIDE DEF m
  <2>6. FirstProof(V, s) \in m.proofs BY <2>3, <2>4, <2>5
  <2> QED BY <1>0, <2>3, <2>4, <2>6
<1>5. ASSUME NEW s \in low + 1 .. Max(all)
      PROVE  NewPreprepare(v, V, s) \in Operations /\ NewPreprepare(v, V, s).view = v
  <2>1. s \in Seqs BY SMTT(60), <1>0, <1>1, <1>3 DEF Seqs
  <2> DEFINE h == IF s \in ProvenSeqs(V) THEN FirstProof(V, s).hash ELSE NullRequest
  <2>2. h \in Hashes BY <1>4 DEF Operations, Hashes
  <2>3. NewPreprepare(v, V, s) = [view |-> v, seq |-> s, hash |-> h] BY DEF NewPreprepare
  <2> HIDE DEF h
  <2> QED BY SMTT(60), <2>1, <2>2, <2>3 DEF Operations
<1>6. \A o \in O : o \in Operations /\ o.view = v BY <1>5 DEF build_newview
<1> HIDE DEF O
<1>7. ASSUME O # {} PROVE LET m == Max({o.seq : o \in O}) IN m \in Seqs /\ \A o \in O : o.seq <= m
  <2> DEFINE S == {o.seq : o \in O}
  <2>1. S \subseteq Seqs /\ S # {} BY <1>6, <1>7 DEF Operations
  <2>2. S \subseteq 0 .. MaxSeq BY SMTT(60), <2>1 DEF Seqs
  <2>3. \A o \in O : o.seq \in S OBVIOUS
  <2> HIDE DEF S
  <2>4. Max(S) \in S /\ \A x \in S : Max(S) >= x BY <1>0, <2>1, <2>2, MaxIn
  <2> DEFINE m == Max(S)
  <2>5. m \in S /\ \A x \in S : m >= x BY <2>4
  <2> HIDE DEF m
  <2>6. m \in Seqs BY <2>1, <2>5
  <2>7. ASSUME NEW o \in O PROVE o.seq <= m
    <3>1. o.seq \in S BY <2>3
    <3>2. m >= o.seq /\ o.seq \in Seqs BY <2>1, <2>5, <3>1
    <3> QED BY <2>6, <3>2, BoundsAssumption DEF Seqs
  <2> QED BY <2>6, <2>7 DEF S, m
<1> QED BY <1>6, <1>7 DEF O

-----------------------------------------------------------------------------
(* Every handler keeps the types and the evidence.                         *)
LEMMA TypesFollow == TInv => TypeOK
<1> SUFFICES ASSUME TInv PROVE TypeOK OBVIOUS
<1>1. GoodManagers \subseteq Managers(Peers, Seqs) BY DEF GoodManagers
<1>2. cp \in [Correct -> Managers(Peers, Seqs)] BY <1>1 DEF TInv, EvidenceInv
<1>3. /\ checkpoints \subseteq [sender : Peers, seq : Seqs] /\ viewchanges \subseteq Viewchanges
      /\ \A m \in newviews : m.sender \in Peers /\ m.view \in Views /\ m.vcs \subseteq Viewchanges
  BY DEF TInv, EvidenceInv, ViewsOK, GoodVc, Correct
<1> QED BY <1>2, <1>3 DEF TInv, VotesOK, ViewsOK, ServiceOK, TypeOK, SavedViews

LEMMA InitTInv == Init => TInv
<1> SUFFICES ASSUME Init PROVE TInv OBVIOUS
<1>1. 1 \in Views /\ 0 \in 0 .. MaxSeq /\ 1 \in 1 .. MaxSeq + 1 BY SMTT(60), BoundsAssumption DEF Views
<1>2. InitialManager(Seqs) \in GoodManagers
  BY DEF InitialManager, GoodManagers, Managers, Evidence
<1>3. PrimaryOf(1) \in Peers BY SMTT(60), Sizes, PeersAssumption DEF PrimaryOf
<1>4. VotesOK /\ ServiceOK BY <1>1 DEF Init, VotesOK, ServiceOK
<1>5. ViewsOK BY <1>1, <1>3 DEF Init, ViewsOK, SavedViews
<1>6. EvidenceInv BY <1>2 DEF Init, EvidenceInv
<1> QED BY <1>4, <1>5, <1>6 DEF TInv

(* What a VIEWCHANGE has stays signed, as CHECKPOINTs are not taken back.  *)
LEMMA EvidenceGrows ==
    ASSUME checkpoints \subseteq checkpoints' PROVE \A m : GoodVc(m) => GoodVc(m)'
<1>1. \A q : CheckpointSenders(q) \subseteq CheckpointSenders(q)' BY DEF CheckpointSenders
<1> QED BY <1>1 DEF GoodVc, Evidence

(* A NEWVIEW that is made up is for a view with a faulty primary.          *)
LEMMA FaultyAnnounce ==
    ASSUME NEW x \in FaultyNewviews PROVE x.sender \in Faulty /\ x.sender = PrimaryOf(x.view)
<1> DEFINE All == viewchanges \cup UNION {FaultyViewchanges(p) : p \in Peers}
<1> HIDE DEF All
<1>1. PICK v \in {w \in Views : w > 1 /\ PrimaryOf(w) \in Faulty} :
           x \in {[sender |-> PrimaryOf(v), view |-> v, vcs |-> V] :
                   V \in {W \in SUBSET VcsFor(All, v) : Cardinality(W) >= quorum_size}}
  BY DEF FaultyNewviews, All
<1> QED BY SMTT(60), <1>1

(* What a valid NEWVIEW says: it has a VIEWCHANGE, and each is good.       *)
LEMMA ValidNewview ==
    ASSUME TInv, NEW r \in Correct, NEW m \in newviews \cup FaultyNewviews, is_valid_newview_message(r, m)
    PROVE  /\ m.sender \in Peers /\ m.view \in Views /\ GoodVcs(m.vcs) /\ IsFiniteSet(m.vcs)
           /\ \A x \in m.vcs : GoodVc(x)
           /\ \A first \in FirstViewchange(m) : first \in m.vcs
           /\ m.view > view[r] /\ m.sender = PrimaryOf(m.view)
<1>1. m.sender \in Peers /\ m.view \in Views /\ \A x \in m.vcs : GoodVc(x) BY NewviewGood
<1>2. /\ m.sender = predict_primary(r, m.view) /\ Cardinality(m.vcs) >= quorum_size
      /\ \A x \in m.vcs : x.view = m.view /\ x.view > view[r]
      /\ \A x, y \in m.vcs : x.sender = y.sender => x = y
  BY DEF is_valid_newview_message, is_valid_viewchange_message
<1>3. m.vcs # {}
  <2>1. quorum_size \in Nat /\ quorum_size >= 1 BY Sizes
  <2>2. Cardinality({}) = 0 BY FS_EmptySet
  <2>3. ~(0 >= quorum_size) BY SMTT(60), <2>1
  <2> QED BY <1>2, <2>2, <2>3
<1>4. \A x \in m.vcs : x \in Viewchanges /\ x.sender \in Peers BY <1>1 DEF GoodVc, Viewchanges
<1>5. Lowest(m.vcs) \in m.vcs
  <2> DEFINE V == m.vcs
  <2>1. V # {} /\ \A x \in V : x.sender \in Peers BY <1>3, <1>4
  <2> HIDE DEF V
  <2>2. Lowest(V) \in V BY <2>1, LowestIn
  <2> QED BY <2>2 DEF V
<1>6. IsFiniteSet(m.vcs)
  <2> DEFINE V == m.vcs
  <2>1. (\A x \in V : x.sender \in Peers) /\ \A x, y \in V : x.sender = y.sender => x = y BY <1>2, <1>4
  <2> HIDE DEF V
  <2>2. IsFiniteSet(V) BY <2>1, TallyFinite
  <2> QED BY <2>2 DEF V
<1>7. m.view > view[r] BY <1>2, <1>3
<1>8. view[r] \in Int /\ m.view \in Int BY SMTT(60), <1>1, BoundsAssumption DEF TInv, ViewsOK, Views
<1>9. m.sender = PrimaryOf(m.view) BY SMTT(60), <1>2, <1>7, <1>8 DEF predict_primary
<1> QED BY <1>1, <1>3, <1>4, <1>5, <1>6, <1>7, <1>9 DEF GoodVcs, FirstViewchange

LEMMA NextTInv == TInv /\ [Next]_vars => TInv'
<1>QuietTypes. ASSUME TInv
               PROVE  /\ UNCHANGED voteVars => VotesOK'
                      /\ UNCHANGED viewVars => ViewsOK'
                      /\ UNCHANGED serviceVars => ServiceOK'
                      /\ UNCHANGED <<viewVars, checkpointVars>> => EvidenceInv'
  <2> USE <1>QuietTypes
  <2>1. UNCHANGED voteVars => VotesOK' BY DEF TInv, VotesOK, voteVars
  <2>2. UNCHANGED viewVars => ViewsOK' BY DEF TInv, ViewsOK, viewVars
  <2>3. UNCHANGED serviceVars => ServiceOK' BY DEF TInv, ServiceOK, serviceVars
  <2>4. UNCHANGED <<viewVars, checkpointVars>> => EvidenceInv'
    BY SMTT(60) DEF TInv, EvidenceInv, viewVars, checkpointVars, GoodManagers, GoodVc, Evidence, CheckpointSenders
  <2> QED BY <2>1, <2>2, <2>3, <2>4
(* What a step adds to the evidence has to be evidence before it.          *)
<1>EvidenceStep. ASSUME TInv, UNCHANGED checkpoints, cp' \in [Correct -> GoodManagers],
                        \A m \in viewchanges' : m \in viewchanges \/ GoodVc(m),
                        \A m \in newviews' : m \in newviews \/ \A x \in m.vcs : GoodVc(x),
                        \A m \in setstates' : m \in setstates \/ (Evidence(m.seq, m.proof) /\ m.newview \in SentViews)
                 PROVE  EvidenceInv'
  <2> USE <1>EvidenceStep
  <2>1. \A m : GoodVc(m) => GoodVc(m)' BY EvidenceGrows
  <2>3. \A m \in viewchanges' : GoodVc(m)' BY <2>1 DEF TInv, EvidenceInv
  <2>4. \A m \in newviews' : \A x \in m.vcs : GoodVc(x)' BY <2>1 DEF TInv, EvidenceInv
  <2>5. \A m \in setstates' : Evidence(m.seq, m.proof) /\ m.newview \in SentViews
    BY DEF TInv, EvidenceInv
  <2>6. checkpoints' \subseteq [sender : Correct, seq : Seqs] BY DEF TInv, EvidenceInv
  <2> QED BY <2>3, <2>4, <2>5, <2>6 DEF EvidenceInv
<1>PrimaryPeer. ASSUME NEW v \in Views PROVE PrimaryOf(v) \in Peers
  <2> USE <1>PrimaryPeer
  <2>1. (v % N) + 1 \in 1 .. N BY SMTT(60), Sizes, BoundsAssumption DEF Views
  <2> QED BY <2>1, PeersAssumption DEF PrimaryOf
<1>ViewchangeGood. ASSUME TInv, NEW r \in Correct, NEW v \in Views, NEW c \in GoodManagers, NEW C \in Signed(c)
                   PROVE  GoodVc(make_viewchange(r, v, c, C))
  <2> USE <1>ViewchangeGood
  <2>1. prepared_operations_since(r, c.stable) \in SUBSET Operations
    BY DEF prepared_operations_since, TInv, VotesOK
  <2>2. C \subseteq c.proof /\ C \subseteq CheckpointSenders(c.stable) BY DEF Signed
  <2>3. Evidence(c.stable, C) /\ C \in SUBSET Peers BY <2>2, ManagerFields DEF Evidence
  <2> QED BY <2>1, <2>2, <2>3, ManagerFields, PeersAssumption DEF make_viewchange, GoodVc, Viewchanges, Correct
<1>AskForView. ASSUME TInv, NEW r \in Correct, NEW v \in Views, NEW c \in GoodManagers, initiate_viewchange(r, v, c)
               PROVE  /\ viewValid' \in [Correct -> BOOLEAN] /\ lastViewSent' \in [Correct -> Views \cup {0}]
                      /\ \A m \in viewchanges' : m \in viewchanges \/ GoodVc(m)
  <2> USE <1>AskForView
  <2>1. PICK C \in Signed(c) : viewchanges' = viewchanges \cup {make_viewchange(r, v, c, C)}
    BY DEF initiate_viewchange
  <2>2. /\ viewValid' = [viewValid EXCEPT ![r] = FALSE]
        /\ lastViewSent' = [lastViewSent EXCEPT ![r] = v]
    BY DEF initiate_viewchange
  <2>3. viewValid' \in [Correct -> BOOLEAN] /\ lastViewSent' \in [Correct -> Views \cup {0}]
    BY <2>2 DEF TInv, ViewsOK
  <2> QED BY <2>1, <2>3, <1>ViewchangeGood
<1>AcceptTypes. ASSUME TInv, NEW r \in Correct, NEW O \in SUBSET Operations, handle_preprepares(r, O),
                       UNCHANGED <<prepared, committed, preprepares, commits>>
                PROVE  VotesOK'
  <2> USE <1>AcceptTypes
  <2> DEFINE new == Acceptable(r, O)
             sent == {[sender |-> r, op |-> o] : o \in new}
  <2>1. new \in SUBSET Operations BY DEF Acceptable
  <2>2. /\ accepted' = [accepted EXCEPT ![r] = @ \cup new]
        /\ preprepared' = [preprepared EXCEPT ![r] = @ \cup new]
        /\ prepares' = prepares \cup sent
    BY DEF handle_preprepares
  <2>3. sent \subseteq Votes BY SMTT(60), <2>1, PeersAssumption DEF Votes, Correct
  <2> HIDE DEF new, sent
  <2> QED BY <2>1, <2>2, <2>3 DEF TInv, VotesOK
<1>RequestTypes. ASSUME TInv, NEW r \in Correct, NEW h \in Requests, HandleRequest(r, h) PROVE TInv'
  <2> USE <1>RequestTypes
  <2> DEFINE m == [sender |-> r, op |-> [view |-> view[r], seq |-> nextIssued[r], hash |-> h]]
  <2>1. /\ nextIssued[r] \in Seqs
        /\ recent' = [recent EXCEPT ![r] = @ \cup {h}]
        /\ nextIssued' = [nextIssued EXCEPT ![r] = @ + 1]
        /\ preprepares' = preprepares \cup {m}
        /\ UNCHANGED <<view, viewValid, lastViewSent, primary, savedNewview, adopted, viewchanges, newviews,
                       accepted, preprepared, prepared, committed, prepares, commits>>
        /\ UNCHANGED serviceVars /\ UNCHANGED checkpointVars
    BY DEF HandleRequest
  <2>2. m \in Votes
    BY <2>1, PeersAssumption DEF Votes, Operations, Hashes, Correct, TInv, ViewsOK
  <2> HIDE DEF m
  <2>3. VotesOK' BY <2>1, <2>2 DEF TInv, VotesOK
  <2>4. ViewsOK' BY SMTT(60), <2>1, BoundsAssumption DEF TInv, ViewsOK, Seqs
  <2>5. ServiceOK' BY <2>1, <1>QuietTypes
  <2>6. EvidenceInv' BY <2>1, <1>EvidenceStep DEF checkpointVars, TInv, EvidenceInv
  <2> QED BY <2>3, <2>4, <2>5, <2>6 DEF TInv
<1>VoteTypes. ASSUME TInv, NEW r \in Correct, NEW o \in Operations,
                     HandlePreprepare(r, o) \/ HandlePrepare(r, o) \/ HandleCommit(r, o)
              PROVE  TInv'
  <2> USE <1>VoteTypes
  <2>1. UNCHANGED viewVars /\ UNCHANGED checkpointVars
    BY DEF HandlePreprepare, HandlePrepare, HandleCommit
  <2>2. ViewsOK' /\ EvidenceInv' BY <2>1, <1>QuietTypes
  <2>3. CASE HandlePreprepare(r, o)
    <3>1. handle_preprepares(r, {o}) /\ UNCHANGED <<prepared, committed, preprepares, commits>>
      BY <2>3 DEF HandlePreprepare
    <3>2. UNCHANGED serviceVars BY <2>3 DEF HandlePreprepare
    <3>3. VotesOK' BY <3>1, <1>AcceptTypes
    <3>4. ServiceOK' BY <3>2, <1>QuietTypes
    <3> QED BY <2>2, <3>3, <3>4 DEF TInv
  <2>4. CASE HandlePrepare(r, o)
    <3>1. /\ prepared' = [prepared EXCEPT ![r] = @ \cup {o}]
          /\ commits' = commits \cup {[sender |-> r, op |-> o]}
          /\ UNCHANGED <<accepted, preprepared, committed, preprepares, prepares>>
      BY <2>4 DEF HandlePrepare
    <3>2. UNCHANGED serviceVars BY <2>4 DEF HandlePrepare
    <3>3. VotesOK' BY SMTT(60), <3>1, PeersAssumption DEF TInv, VotesOK, Votes, Correct
    <3>4. ServiceOK' BY <3>2, <1>QuietTypes
    <3> QED BY <2>2, <3>3, <3>4 DEF TInv
  <2>5. CASE HandleCommit(r, o)
    <3>1. /\ committed' = [committed EXCEPT ![r] = @ \cup {o}]
          /\ applied' = [applied EXCEPT ![r] = @ \cup {o}]
          /\ UNCHANGED <<accepted, preprepared, prepared, preprepares, prepares, commits,
                         executed, lastExecuted>>
      BY <2>5 DEF HandleCommit
    <3>2. VotesOK' BY <3>1 DEF TInv, VotesOK
    <3>3. ServiceOK' BY <3>1 DEF TInv, ServiceOK
    <3> QED BY <2>2, <3>2, <3>3 DEF TInv
  <2> QED BY <2>3, <2>4, <2>5
<1>ExecuteTypes. ASSUME TInv, NEW r \in Correct, ExecuteHandler(r) PROVE TInv'
  <2> USE <1>ExecuteTypes
  <2> DEFINE s == executed[r] + 1
             bound == IF cp[r].stable < s THEN cp[r].stable ELSE s
  <2>1. /\ \E o \in applied[r] : o.seq = s
        /\ executed' = [executed EXCEPT ![r] = s] /\ lastExecuted' = [lastExecuted EXCEPT ![r] = s]
        /\ UNCHANGED <<applied, accepted, preprepares, prepares, commits, getstates, setstates>>
        /\ UNCHANGED viewVars
    BY DEF ExecuteHandler
  <2>2. \/ /\ cp' = [cp EXCEPT ![r] = local_checkpoint_reached(@, s)]
           /\ checkpoints' = checkpoints \cup {[sender |-> r, seq |-> s]}
           /\ preprepared' = [preprepared EXCEPT ![r] = Kept(@, bound)]
           /\ prepared' = [prepared EXCEPT ![r] = Kept(@, bound)]
           /\ committed' = [committed EXCEPT ![r] = Kept(@, bound)]
        \/ UNCHANGED <<cp, checkpoints, preprepared, prepared, committed>>
    BY DEF ExecuteHandler
  <2>3. s \in Seqs
    <3>1. PICK o \in applied[r] : o.seq = s BY <2>1
    <3>2. o \in Operations BY DEF TInv, ServiceOK
    <3> QED BY <3>1, <3>2 DEF Operations
  <2> HIDE DEF s, bound
  <2>4. ServiceOK' BY SMTT(60), <2>1, <2>3 DEF TInv, ServiceOK, Seqs
  <2>5. ViewsOK' BY <2>1, <1>QuietTypes
  <2>6. VotesOK' BY SMTT(60), <2>1, <2>2 DEF TInv, VotesOK, Kept
  <2>7. EvidenceInv'
    <3>1. CASE UNCHANGED <<cp, checkpoints, preprepared, prepared, committed>>
      BY <2>1, <3>1, <1>QuietTypes DEF checkpointVars
    <3>2. CASE /\ cp' = [cp EXCEPT ![r] = local_checkpoint_reached(@, s)]
               /\ checkpoints' = checkpoints \cup {[sender |-> r, seq |-> s]}
      <4>1. \A m : GoodVc(m) => GoodVc(m)' BY <3>2, EvidenceGrows
      <4>2. cp[r] \in GoodManagers BY DEF TInv, EvidenceInv
      <4>3. local_checkpoint_reached(cp[r], s) \in GoodManagers
        <5> DEFINE c == cp[r]
        <5>1. c \in GoodManagers BY <4>2
        <5> HIDE DEF c
        <5>2. [c EXCEPT !.local = s] \in GoodManagers BY <2>3, <5>1 DEF GoodManagers, Managers
        <5> QED BY <5>2 DEF c, local_checkpoint_reached
      <4>4. cp' \in [Correct -> GoodManagers] BY <3>2, <4>3 DEF TInv, EvidenceInv
      <4>5. checkpoints' \subseteq [sender : Correct, seq : Seqs] BY SMTT(60), <2>3, <3>2 DEF TInv, EvidenceInv
      <4>6. UNCHANGED <<viewchanges, newviews, setstates>> BY <2>1 DEF viewVars
      <4>7. \A m \in viewchanges' : GoodVc(m)' BY <4>1, <4>6 DEF TInv, EvidenceInv
      <4>8. \A m \in newviews' : \A x \in m.vcs : GoodVc(x)' BY <4>1, <4>6 DEF TInv, EvidenceInv
      <4>9. \A m \in setstates' : Evidence(m.seq, m.proof) /\ m.newview \in SentViews
        BY <4>6 DEF TInv, EvidenceInv
      <4> QED BY <4>4, <4>5, <4>7, <4>8, <4>9 DEF EvidenceInv
    <3> QED BY <2>2, <3>1, <3>2
  <2> QED BY <2>4, <2>5, <2>6, <2>7 DEF TInv
(* The handlers of view changes.                                           *)
<1>ViewchangeTypes. ASSUME TInv, NEW r \in Correct,
                           \/ HandleFailure(r)
                           \/ \E m \in SentViewchanges : HandleViewchange(r, m)
                           \/ \E v \in Views : JoinViewchange(r, v) \/ SendNewview(r, v)
                    PROVE  TInv'
  <2> USE <1>ViewchangeTypes
  <2>0. UNCHANGED voteVars /\ UNCHANGED serviceVars /\ UNCHANGED <<checkpoints, getstates, setstates>>
    BY DEF HandleFailure, HandleViewchange, JoinViewchange, SendNewview, checkpointVars
  <2>1. VotesOK' /\ ServiceOK' BY <2>0, <1>QuietTypes
  <2>2. cp[r] \in GoodManagers BY DEF TInv, EvidenceInv
  <2>3. CASE HandleFailure(r)
    <3>1. /\ view[r] + 1 \in Views /\ initiate_viewchange(r, view[r] + 1, cp[r])
          /\ UNCHANGED <<view, nextIssued, primary, recent, savedNewview, adopted, newviews, cp>>
      BY <2>3 DEF HandleFailure, checkpointVars
    <3>2. ViewsOK' /\ \A m \in viewchanges' : m \in viewchanges \/ GoodVc(m)
      BY <2>2, <3>1, <1>AskForView DEF TInv, ViewsOK
    <3>3. EvidenceInv' BY <2>0, <3>1, <3>2, <1>EvidenceStep DEF TInv, EvidenceInv
    <3> QED BY <2>1, <3>2, <3>3 DEF TInv
  <2>4. ASSUME NEW m \in SentViewchanges, HandleViewchange(r, m) PROVE TInv'
    <3>1. cp' = [cp EXCEPT ![r] = save_checkpoints(@, {m})] /\ UNCHANGED viewVars
      BY <2>4 DEF HandleViewchange
    <3>2. GoodVc(m) BY SentGood
    <3> DEFINE V == {m}
    <3>3. IsFiniteSet(V) /\ \A x \in V : GoodVc(x) BY <3>2, FS_Singleton
    <3> HIDE DEF V
    <3>4. save_checkpoints(cp[r], V) \in GoodManagers BY <2>2, <3>3, SaveGood
    <3>5. cp' \in [Correct -> GoodManagers] BY <3>1, <3>4 DEF V, TInv, EvidenceInv
    <3>6. UNCHANGED <<viewchanges, newviews>> BY <3>1 DEF viewVars
    <3>7. EvidenceInv' BY <2>0, <3>5, <3>6, <1>EvidenceStep
    <3>8. ViewsOK' BY <3>1, <1>QuietTypes
    <3> QED BY <2>1, <3>7, <3>8 DEF TInv
  <2>5. ASSUME NEW v \in Views, JoinViewchange(r, v) PROVE TInv'
    <3>1. PICK V \in Tallies(r, v, max_faulty_nodes + 1) :
               /\ cp' = [cp EXCEPT ![r] = save_checkpoints(cp[r], V)]
               /\ initiate_viewchange(r, v, save_checkpoints(cp[r], V))
      BY <2>5 DEF JoinViewchange
    <3>2. UNCHANGED <<view, nextIssued, primary, recent, savedNewview, adopted, newviews>>
      BY <2>5 DEF JoinViewchange
    <3> DEFINE c == save_checkpoints(cp[r], V)
    <3>3. IsFiniteSet(V) /\ \A m \in V : GoodVc(m) BY TallyGood
    <3>4. c \in GoodManagers BY <2>2, <3>3, SaveGood
    <3>5. initiate_viewchange(r, v, c) /\ cp' = [cp EXCEPT ![r] = c] BY <3>1
    <3> HIDE DEF c
    <3>6. ViewsOK' /\ \A m \in viewchanges' : m \in viewchanges \/ GoodVc(m)
      BY <3>2, <3>4, <3>5, <1>AskForView DEF TInv, ViewsOK
    <3>7. cp' \in [Correct -> GoodManagers] BY <3>4, <3>5 DEF TInv, EvidenceInv
    <3>8. EvidenceInv' BY <2>0, <3>2, <3>6, <3>7, <1>EvidenceStep
    <3> QED BY <2>1, <3>6, <3>8 DEF TInv
  <2>6. ASSUME NEW v \in Views, SendNewview(r, v) PROVE TInv'
    <3>1. PICK V \in Tallies(r, v, 2 * max_faulty_nodes + 1) :
               /\ cp' = [cp EXCEPT ![r] = save_checkpoints(@, V)]
               /\ newviews' = newviews \cup {[sender |-> r, view |-> v, vcs |-> V]}
      BY <2>6 DEF SendNewview
    <3>2. UNCHANGED <<view, viewValid, lastViewSent, nextIssued, primary, recent, savedNewview, adopted, viewchanges>>
      BY <2>6 DEF SendNewview
    <3>3. IsFiniteSet(V) /\ \A m \in V : GoodVc(m) BY SMTT(60), TallyGood
    <3>4. save_checkpoints(cp[r], V) \in GoodManagers BY <2>2, <3>3, SaveGood
    <3>5. cp' \in [Correct -> GoodManagers] BY <3>1, <3>4 DEF TInv, EvidenceInv
    <3>6. r \in Peers BY DEF Correct
    <3>7. ViewsOK' BY SMTT(60), <3>1, <3>2, <3>6 DEF TInv, ViewsOK
    <3>8. \A m \in newviews' : m \in newviews \/ \A x \in m.vcs : GoodVc(x) BY SMTT(60), <3>1, <3>3
    <3>9. EvidenceInv'
      <4>1. UNCHANGED <<checkpoints, viewchanges, setstates>> BY <2>0, <3>2
      <4> QED BY <3>5, <3>8, <4>1, <1>EvidenceStep
    <3> QED BY <2>1, <3>7, <3>9 DEF TInv
  <2> QED BY <2>3, <2>4, <2>5, <2>6
<1>NewviewTypes. ASSUME TInv, NEW r \in Correct, NEW m \in newviews \cup FaultyNewviews, HandleNewview(r, m)
                 PROVE  TInv'
  <2> USE <1>NewviewTypes
  <2> DEFINE O == build_newview(m.view, m.vcs)
             top == Max({o.seq : o \in O})
  <2>1. is_valid_newview_message(r, m) /\ handle_preprepares(r, O) BY DEF HandleNewview
  <2>2. PICK first \in FirstViewchange(m) :
            /\ cp' = [cp EXCEPT ![r] = handle_checkpoint_messages(@, first.seq, first.cps, Peers)]
            /\ nextIssued' = [nextIssued EXCEPT ![r] = IF O = {} THEN first.seq + 1 ELSE top + 1]
    BY DEF HandleNewview
  <2>3. /\ primary' = [primary EXCEPT ![r] = m.sender]
        /\ view' = [view EXCEPT ![r] = m.view]
        /\ viewValid' = [viewValid EXCEPT ![r] = TRUE]
        /\ savedNewview' = [savedNewview EXCEPT ![r] = [view |-> m.view, sender |-> m.sender]]
        /\ UNCHANGED <<lastViewSent, recent, adopted, viewchanges, newviews, prepared, committed,
                       preprepares, commits, checkpoints, getstates, setstates>>
        /\ UNCHANGED serviceVars
    BY DEF HandleNewview
  <2>4. /\ m.sender \in Peers /\ m.view \in Views /\ GoodVcs(m.vcs) /\ first \in m.vcs /\ GoodVc(first)
    BY <2>1, ValidNewview
  <2> DEFINE v == m.view
             V == m.vcs
  <2>5. O \in SUBSET Operations /\ (O # {} => top \in Seqs)
    <3>1. v \in Views /\ GoodVcs(V) BY <2>4
    <3> HIDE DEF v, V
    <3>2. build_newview(v, V) \in SUBSET Operations
      BY <3>1, NewviewOperations
    <3>3. build_newview(v, V) # {} => Max({o.seq : o \in build_newview(v, V)}) \in Seqs
      BY <3>1, NewviewOperations
    <3> QED BY <3>2, <3>3 DEF v, V
  <2> HIDE DEF O, top
  <2>6. VotesOK' BY <2>1, <2>3, <2>5, <1>AcceptTypes
  <2>7. ServiceOK' BY <2>3, <1>QuietTypes
  <2>8. first.seq \in 0 .. MaxSeq BY SMTT(60), <2>4, BoundsAssumption DEF GoodVc, Viewchanges, Seqs
  <2>9. (IF O = {} THEN first.seq + 1 ELSE top + 1) \in 1 .. MaxSeq + 1
    BY SMTT(60), <2>5, <2>8, BoundsAssumption DEF Seqs
  <2>10. ViewsOK' BY <2>2, <2>3, <2>4, <2>9 DEF TInv, ViewsOK, SavedViews
  <2>11. cp' \in [Correct -> GoodManagers]
    <3>1. handle_checkpoint_messages(cp[r], first.seq, first.cps, Peers) \in GoodManagers
      BY <2>4, MessagesKeep DEF TInv, EvidenceInv, GoodVc
    <3> QED BY <2>2, <3>1 DEF TInv, EvidenceInv
  <2>12. EvidenceInv' BY <2>3, <2>11, <1>EvidenceStep
  <2> QED BY <2>6, <2>7, <2>10, <2>12 DEF TInv
<1>ResetCatchup. ASSUME NEW c \in GoodManagers PROVE [c EXCEPT !.catchup = 0] \in GoodManagers
  BY <1>ResetCatchup DEF GoodManagers, Managers
<1>CheckpointTypes. ASSUME TInv, NEW r \in Correct,
                           \/ \E m \in checkpoints \cup UnverifiedCheckpoints(r) : HandleCheckpointMessage(r, m)
                           \/ \E q \in cp[r].proof : CatchupTimeout(r, q)
                           \/ \E m \in getstates : HandleGetState(r, m)
                    PROVE  TInv'
  <2> USE <1>CheckpointTypes
  <2>0. UNCHANGED voteVars /\ UNCHANGED viewVars /\ UNCHANGED serviceVars /\ UNCHANGED checkpoints
    BY DEF HandleCheckpointMessage, CatchupTimeout, HandleGetState
  <2>1. VotesOK' /\ ViewsOK' /\ ServiceOK' BY <2>0, <1>QuietTypes
  <2>2. UNCHANGED <<viewchanges, newviews>> BY <2>0 DEF viewVars
  <2>3. cp \in [Correct -> GoodManagers] /\ cp[r] \in GoodManagers BY DEF TInv, EvidenceInv
  <2>4. ASSUME NEW m \in checkpoints \cup UnverifiedCheckpoints(r), HandleCheckpointMessage(r, m) PROVE EvidenceInv'
    <3>1. /\ cp' = [cp EXCEPT ![r] = handle_checkpoint_messages(@, m.seq, {m.sender}, Peers)]
          /\ UNCHANGED setstates
      BY <2>4 DEF HandleCheckpointMessage
    <3>2. Evidence(m.seq, {m.sender})
      <4>1. m.seq \in Seqs /\ m.sender \in Peers BY DEF TInv, EvidenceInv, UnverifiedCheckpoints, Correct
      <4>2. m.seq # 0 BY SMTT(60), <4>1 DEF Seqs
      <4> QED BY <4>1, <4>2 DEF Evidence
    <3>3. handle_checkpoint_messages(cp[r], m.seq, {m.sender}, Peers) \in GoodManagers
      BY <2>3, <3>2, MessagesKeep
    <3>4. cp' \in [Correct -> GoodManagers] BY <2>3, <3>1, <3>3
    <3> QED BY <2>0, <2>2, <3>1, <3>4, <1>EvidenceStep
  <2>5. ASSUME NEW q \in cp[r].proof, CatchupTimeout(r, q) PROVE EvidenceInv'
    <3>1. cp' = [cp EXCEPT ![r].catchup = 0] /\ UNCHANGED setstates BY <2>5 DEF CatchupTimeout
    <3>2. cp' = [cp EXCEPT ![r] = [cp[r] EXCEPT !.catchup = 0]] BY <3>1
    <3>3. cp' \in [Correct -> GoodManagers] BY <2>3, <3>2, <1>ResetCatchup
    <3> QED BY <2>0, <2>2, <3>1, <3>3, <1>EvidenceStep
  <2>6. ASSUME NEW m \in getstates, HandleGetState(r, m) PROVE EvidenceInv'
    <3> DEFINE x == [to |-> m.sender, seq |-> m.seq, proof |-> cp[r].proof, newview |-> savedNewview[r]]
    <3>1. cp[r].stable = m.seq /\ setstates' = setstates \cup {x} /\ UNCHANGED cp BY <2>6 DEF HandleGetState
    <3>2. x.seq = cp[r].stable /\ x.proof = cp[r].proof /\ x.newview \in SentViews
      BY <3>1 DEF TInv, ViewsOK, SavedViews, SentViews
    <3>3. Evidence(x.seq, x.proof)
      <4>1. Evidence(cp[r].stable, cp[r].proof) BY <2>3, ManagerFields
      <4> QED BY <3>2, <4>1
    <3> HIDE DEF x
    <3>4. \A y \in setstates' : y \in setstates \/ (Evidence(y.seq, y.proof) /\ y.newview \in SentViews)
      BY <3>1, <3>2, <3>3
    <3>5. cp' \in [Correct -> GoodManagers] BY <2>3, <3>1
    <3> QED BY <2>0, <2>2, <3>4, <3>5, <1>EvidenceStep
  <2> QED BY <2>1, <2>4, <2>5, <2>6 DEF TInv
<1>SetStateTypes. ASSUME TInv, NEW r \in Correct, NEW m \in setstates \cup UnverifiedSetstates(r), HandleSetState(r, m)
                  PROVE  TInv'
  <2> USE <1>SetStateTypes
  <2> DEFINE c == handle_checkpoint_messages(cp[r], m.seq, m.proof, Peers)
             adopt == c.stable = m.seq /\ c.local < m.seq
             next == m.newview.view + 1
  <2>1. /\ cp' = [cp EXCEPT ![r] = c]
        /\ executed' = [executed EXCEPT ![r] = IF adopt /\ @ < m.seq THEN m.seq ELSE @]
        /\ \/ /\ m.newview # NoNewview
              /\ view' = [view EXCEPT ![r] = m.newview.view]
              /\ primary' = [primary EXCEPT ![r] = m.newview.sender]
              /\ adopted' = adopted \cup {r}
           \/ UNCHANGED <<view, primary, adopted>>
        /\ \/ UNCHANGED <<viewValid, lastViewSent, viewchanges>>
           \/ next \in Views /\ initiate_viewchange(r, next, c)
        /\ UNCHANGED <<checkpoints, getstates, setstates, applied, lastExecuted,
                       nextIssued, recent, savedNewview, newviews>>
        /\ UNCHANGED voteVars
    BY DEF HandleSetState
  <2>2. Evidence(m.seq, m.proof) /\ m.newview \in SentViews
    <3>1. CASE m \in setstates BY <3>1 DEF TInv, EvidenceInv
    <3>2. CASE m \in UnverifiedSetstates(r)
      <4>1. m.seq \in {cp[r].stable} \ {0} /\ m.proof = {} /\ m.newview \in SentViews
        BY <3>2 DEF UnverifiedSetstates, SentViews
      <4>2. cp[r].stable \in Seqs \cup {0} BY ManagerFields DEF TInv, EvidenceInv
      <4> QED BY <4>1, <4>2 DEF Evidence
    <3> QED BY <3>1, <3>2
  <2>3. c \in GoodManagers BY <2>2, MessagesKeep DEF TInv, EvidenceInv
  <2>4. m.seq \in 0 .. MaxSeq BY SMTT(60), <2>2, BoundsAssumption DEF Evidence, Seqs
  <2> HIDE DEF c, adopt, next
  <2>5. VotesOK' BY <2>1, <1>QuietTypes
  <2>6. ServiceOK' BY <2>1, <2>4 DEF TInv, ServiceOK
  <2>7. /\ viewValid' \in [Correct -> BOOLEAN] /\ lastViewSent' \in [Correct -> Views \cup {0}]
        /\ \A x \in viewchanges' : x \in viewchanges \/ GoodVc(x)
    <3>1. CASE UNCHANGED <<viewValid, lastViewSent, viewchanges>> BY <3>1 DEF TInv, ViewsOK
    <3>2. CASE next \in Views /\ initiate_viewchange(r, next, c) BY <2>3, <3>2, <1>AskForView
    <3> QED BY <2>1, <3>1, <3>2
  <2>8. ViewsOK'
    <3>1. view' \in [Correct -> Views] /\ primary' \in [Correct -> Peers \cup {NoPrimary}] /\ adopted' \subseteq Correct
      BY <2>1, <2>2 DEF TInv, ViewsOK, SentViews
    <3> QED BY <2>1, <2>7, <3>1 DEF TInv, ViewsOK
  <2>9. cp' \in [Correct -> GoodManagers] BY <2>1, <2>3 DEF TInv, EvidenceInv
  <2>10. EvidenceInv' BY <2>1, <2>7, <2>9, <1>EvidenceStep
  <2> QED BY <2>5, <2>6, <2>8, <2>10 DEF TInv
<1>RestartTypes. ASSUME TInv, NEW r \in Correct, Restart(r) PROVE TInv'
  <2> USE <1>RestartTypes
  <2>1. /\ primary' = [primary EXCEPT ![r] = PrimaryOf(view[r])]
        /\ recent' = [recent EXCEPT ![r] = {}]
        /\ savedNewview' = [savedNewview EXCEPT ![r] = NoNewview]
        /\ lastExecuted' = [lastExecuted EXCEPT ![r] = 0]
        /\ cp' = [cp EXCEPT ![r].catchup = 0]
        /\ UNCHANGED <<view, viewValid, lastViewSent, nextIssued, adopted, viewchanges, newviews,
                       applied, executed, checkpoints, getstates, setstates>>
        /\ UNCHANGED voteVars
    BY DEF Restart
  <2>2. cp \in [Correct -> GoodManagers] /\ cp[r] \in GoodManagers BY DEF TInv, EvidenceInv
  <2>3. cp' = [cp EXCEPT ![r] = [cp[r] EXCEPT !.catchup = 0]] BY <2>1
  <2>4. cp' \in [Correct -> GoodManagers] BY <2>2, <2>3, <1>ResetCatchup
  <2>5. VotesOK' BY <2>1, <1>QuietTypes
  <2>6. ServiceOK' BY SMTT(60), <2>1, BoundsAssumption DEF TInv, ServiceOK
  <2>7. PrimaryOf(view[r]) \in Peers BY <1>PrimaryPeer DEF TInv, ViewsOK
  <2>8. ViewsOK' BY <2>1, <2>7 DEF TInv, ViewsOK, SavedViews
  <2>9. EvidenceInv' BY <2>1, <2>4, <1>EvidenceStep
  <2> QED BY <2>5, <2>6, <2>8, <2>9 DEF TInv
<1> SUFFICES ASSUME TInv, [Next]_vars PROVE TInv' OBVIOUS
<1>1. CASE UNCHANGED vars
  <2>1. UNCHANGED voteVars /\ UNCHANGED viewVars /\ UNCHANGED serviceVars /\ UNCHANGED checkpointVars
    BY <1>1 DEF vars
  <2> QED BY <2>1, <1>QuietTypes DEF TInv
<1>2. ASSUME NEW r \in Correct, NEW o, o \in preprepared[r] \/ o \in prepared[r] PROVE o \in Operations
  BY <1>2 DEF TInv, VotesOK
<1>3. CASE Next
  BY ZenonT(60), <1>2, <1>3, <1>RequestTypes, <1>VoteTypes, <1>ExecuteTypes, <1>ViewchangeTypes, <1>NewviewTypes,
     <1>CheckpointTypes, <1>SetStateTypes, <1>RestartTypes DEF Next
<1> QED BY <1>1, <1>3

-----------------------------------------------------------------------------
(* What a primary issues.  A replica that took no view from a SET_STATE    *)
(* entered its view by a NEWVIEW of the view's primary: when that is the   *)
(* replica itself, one that it announced, and what it issues next is above *)
(* what that NEWVIEW carried over and what it has issued in the view.      *)
Above(x, r, v, s) ==
    /\ x.sender = r /\ x.view = v
    /\ \A o \in build_newview(x.view, x.vcs) : o.seq \in Nat /\ o.seq < s
Entered(r) ==
    /\ primary[r] = PrimaryOf(view[r])
    /\ view[r] > 1 /\ PrimaryOf(view[r]) = r => \E x \in newviews : Above(x, r, view[r], nextIssued[r])
    /\ \A m \in preprepares : m.sender = r =>
           m.op.view < view[r] \/ (m.op.view = view[r] /\ m.op.seq < nextIssued[r])
Reissues ==
    \E m \in preprepares :
        /\ m.sender \notin adopted
        /\ \/ \E n \in preprepares : m.sender = n.sender /\ SameSlot(m.op, n.op) /\ m # n
           \/ m.op.view > 1 /\ ~\E x \in newviews : Above(x, m.sender, m.op.view, m.op.seq)
IssueInv ==
    /\ \A m \in preprepares : m.sender \in Correct
    /\ \A r \in Correct : r \notin adopted => Entered(r)
    /\ ~Reissues

LEMMA InitIssue == Init => IssueInv
<1> SUFFICES ASSUME Init PROVE IssueInv OBVIOUS
<1>1. preprepares = {} /\ \A r \in Correct : view[r] = 1 /\ primary[r] = PrimaryOf(1) BY DEF Init
<1> QED BY SMTT(60), <1>1 DEF IssueInv, Entered, Reissues

LEMMA NextIssue == TInv /\ IssueInv /\ [Next]_vars => IssueInv'
<1>QuietIssue. ASSUME TInv, IssueInv, UNCHANGED <<view, nextIssued, preprepares>>,
                      newviews \subseteq newviews', adopted \subseteq adopted',
                      \A r \in Correct : primary'[r] = primary[r] \/ primary'[r] = PrimaryOf(view[r])
               PROVE  IssueInv'
  <2> USE <1>QuietIssue
  <2>2. ASSUME NEW r \in Correct, r \notin adopted' PROVE Entered(r)'
    <3>1. Entered(r) BY <2>2 DEF IssueInv
    <3>2. primary'[r] = PrimaryOf(view'[r]) BY <3>1 DEF Entered
    <3>3. view'[r] > 1 /\ PrimaryOf(view'[r]) = r => \E x \in newviews' : Above(x, r, view'[r], nextIssued'[r])
      BY <3>1 DEF Entered
    <3> QED BY <3>1, <3>2, <3>3 DEF Entered
  <2>3. ~Reissues'
    <3> SUFFICES ASSUME NEW m \in preprepares, m.sender \notin adopted'
                 PROVE  /\ \A n \in preprepares : m.sender = n.sender /\ SameSlot(m.op, n.op) => m = n
                        /\ m.op.view > 1 => \E x \in newviews' : Above(x, m.sender, m.op.view, m.op.seq)
      BY DEF Reissues
    <3>1. m.sender \notin adopted OBVIOUS
    <3> QED BY <3>1 DEF IssueInv, Reissues
  <2> QED BY <2>2, <2>3 DEF IssueInv
<1>RequestIssue. ASSUME TInv, IssueInv, NEW r \in Correct, NEW h \in Requests, HandleRequest(r, h) PROVE IssueInv'
  <2> USE <1>RequestIssue
  <2> DEFINE new == [sender |-> r, op |-> [view |-> view[r], seq |-> nextIssued[r], hash |-> h]]
  <2>1. /\ primary[r] = r /\ preprepares' = preprepares \cup {new}
        /\ nextIssued' = [nextIssued EXCEPT ![r] = @ + 1]
        /\ UNCHANGED <<view, primary, newviews, adopted>>
    BY DEF HandleRequest, is_primary
  <2>2. new.sender = r /\ new.op.view = view[r] /\ new.op.seq = nextIssued[r] OBVIOUS
  <2> HIDE DEF new
  <2>3. \A q \in Correct : nextIssued'[q] = IF q = r THEN nextIssued[r] + 1 ELSE nextIssued[q]
    BY <2>1 DEF TInv, ViewsOK
  <2>4. \A q \in Correct : nextIssued[q] \in Nat /\ view[q] \in Nat
    BY SMTT(60), BoundsAssumption DEF TInv, ViewsOK, Views
  <2>7. ASSUME NEW q \in Correct, q \notin adopted PROVE Entered(q)'
    <3>1. Entered(q) BY <2>7 DEF IssueInv
    <3>2. CASE q # r BY <2>1, <2>2, <2>3, <3>1, <3>2 DEF Entered, Above
    <3>3. CASE q = r
      <4>1. primary'[r] = PrimaryOf(view'[r]) BY <2>1, <3>1, <3>3 DEF Entered
      <4>2. ASSUME view[r] > 1, PrimaryOf(view[r]) = r
            PROVE  \E x \in newviews' : Above(x, r, view'[r], nextIssued'[r])
        <5>1. PICK x \in newviews : Above(x, r, view[r], nextIssued[r]) BY <3>1, <3>3, <4>2 DEF Entered
        <5>2. \A o \in build_newview(x.view, x.vcs) : o.seq < nextIssued[r] + 1
          BY SMTT(60), <2>4, <5>1 DEF Above
        <5> QED BY <2>1, <2>3, <5>1, <5>2 DEF Above
      <4>3. ASSUME NEW m \in preprepares', m.sender = r
            PROVE  m.op.view < view'[r] \/ (m.op.view = view'[r] /\ m.op.seq < nextIssued'[r])
        <5>1. CASE m = new BY SMTT(60), <2>1, <2>2, <2>3, <2>4, <5>1
        <5>2. CASE m \in preprepares
          <6>1. m.op.seq \in Nat BY SMTT(60), <5>2, BoundsAssumption DEF TInv, VotesOK, Votes, Operations, Seqs
          <6> QED BY SMTT(60), <2>1, <2>3, <2>4, <3>1, <3>3, <4>3, <5>2, <6>1 DEF Entered
        <5> QED BY <2>1, <5>1, <5>2
      <4> QED BY <2>1, <3>3, <4>1, <4>2, <4>3 DEF Entered
    <3> QED BY <3>2, <3>3
  <2>8. \A m \in preprepares' : m.sender \in Correct BY <2>1, <2>2 DEF IssueInv
  <2>9. ~Reissues'
    <3> SUFFICES ASSUME NEW m \in preprepares', m.sender \notin adopted
                 PROVE  /\ \A n \in preprepares' : m.sender = n.sender /\ SameSlot(m.op, n.op) => m = n
                        /\ m.op.view > 1 => \E x \in newviews : Above(x, m.sender, m.op.view, m.op.seq)
      BY <2>1 DEF Reissues
    <3>1. ASSUME NEW n \in preprepares, n.sender = r, r \notin adopted PROVE ~SameSlot(n.op, new.op)
      <4>1. n.op.view < view[r] \/ (n.op.view = view[r] /\ n.op.seq < nextIssued[r])
        BY <3>1 DEF IssueInv, Entered
      <4>2. n.op.seq \in Nat /\ n.op.view \in Nat
        BY SMTT(60), BoundsAssumption DEF TInv, VotesOK, Votes, Operations, Seqs, Views
      <4> QED BY SMTT(60), <2>2, <2>4, <4>1, <4>2 DEF SameSlot
    <3>2. CASE m = new
      <4>1. Entered(r) BY <2>2, <3>2 DEF IssueInv
      <4>2. \A n \in preprepares' : m.sender = n.sender /\ SameSlot(m.op, n.op) => m = n
        BY <2>1, <2>2, <3>1, <3>2 DEF SameSlot
      <4>3. m.op.view > 1 => \E x \in newviews : Above(x, m.sender, m.op.view, m.op.seq)
        BY <2>1, <2>2, <3>2, <4>1 DEF Entered
      <4> QED BY <4>2, <4>3
    <3>3. CASE m \in preprepares
      <4>1. \A n \in preprepares' : m.sender = n.sender /\ SameSlot(m.op, n.op) => m = n
        BY <2>1, <2>2, <3>1, <3>3 DEF IssueInv, Reissues
      <4>2. m.op.view > 1 => \E x \in newviews : Above(x, m.sender, m.op.view, m.op.seq)
        BY <3>3 DEF IssueInv, Reissues
      <4> QED BY <4>1, <4>2
    <3> QED BY <2>1, <3>2, <3>3
  <2> QED BY <2>1, <2>7, <2>8, <2>9 DEF IssueInv
<1>NewviewIssue. ASSUME TInv, IssueInv, NEW r \in Correct, NEW m \in newviews \cup FaultyNewviews, HandleNewview(r, m)
                 PROVE  IssueInv'
  <2> USE <1>NewviewIssue
  <2> DEFINE O == build_newview(m.view, m.vcs)
             top == Max({o.seq : o \in O})
  <2>1. is_valid_newview_message(r, m) BY DEF HandleNewview
  <2>2. PICK first \in FirstViewchange(m) :
            nextIssued' = [nextIssued EXCEPT ![r] = IF O = {} THEN first.seq + 1 ELSE top + 1]
    BY DEF HandleNewview
  <2>3. /\ primary' = [primary EXCEPT ![r] = m.sender] /\ view' = [view EXCEPT ![r] = m.view]
        /\ UNCHANGED <<newviews, preprepares, adopted>>
    BY DEF HandleNewview
  <2>4. m.view \in Views /\ GoodVcs(m.vcs) /\ m.view > view[r] /\ m.sender = PrimaryOf(m.view)
    BY <2>1, ValidNewview
  <2>5. O \subseteq Operations /\ (O # {} => top \in Seqs /\ \A o \in O : o.seq <= top)
    BY <2>4, NewviewOperations
  <2> HIDE DEF O, top
  <2>6. \A o \in O : o.seq \in Nat /\ o.seq < nextIssued'[r]
    <3> SUFFICES ASSUME NEW o \in O PROVE o.seq \in Nat /\ o.seq < nextIssued'[r] OBVIOUS
    <3>1. o.seq \in Nat /\ top \in Nat /\ o.seq <= top BY SMTT(60), <2>5, BoundsAssumption DEF Operations, Seqs
    <3>2. nextIssued'[r] = top + 1 BY <2>2 DEF TInv, ViewsOK
    <3> QED BY SMTT(60), <3>1, <3>2
  <2>7. ASSUME m.sender = r PROVE m \in newviews BY <2>7, FaultyAnnounce DEF Correct
  <2>8. \A q \in Correct : /\ q # r => view'[q] = view[q] /\ primary'[q] = primary[q] /\ nextIssued'[q] = nextIssued[q]
                           /\ view'[r] = m.view /\ primary'[r] = m.sender
                           /\ view[q] \in Nat /\ m.view \in Nat
    BY SMTT(60), <2>2, <2>3, <2>4, BoundsAssumption DEF TInv, ViewsOK, Views
  <2>10. ASSUME NEW q \in Correct, q \notin adopted PROVE Entered(q)'
    <3>1. Entered(q) BY <2>10 DEF IssueInv
    <3>2. CASE q # r BY <2>3, <2>8, <3>1, <3>2 DEF Entered, Above
    <3>3. CASE q = r
      <4>1. primary'[r] = PrimaryOf(view'[r]) BY <2>4, <2>8
      <4>2. PrimaryOf(view'[r]) = r => \E x \in newviews' : Above(x, r, view'[r], nextIssued'[r])
        BY SMTT(60), <2>3, <2>4, <2>6, <2>7, <2>8 DEF Above, O
      <4>3. ASSUME NEW x \in preprepares, x.sender = r PROVE x.op.view < view'[r]
        <5>1. x.op.view <= view[r] /\ x.op.view \in Nat
          BY SMTT(60), <2>8, <3>1, <3>3, <4>3, BoundsAssumption DEF Entered, TInv, VotesOK, Votes, Operations, Views
        <5> QED BY SMTT(60), <2>4, <2>8, <5>1
      <4> QED BY <2>3, <3>3, <4>1, <4>2, <4>3 DEF Entered
    <3> QED BY <3>2, <3>3
  <2>11. ~Reissues' BY <2>3 DEF IssueInv, Reissues, Above
  <2> QED BY <2>3, <2>10, <2>11 DEF IssueInv
<1>SetStateIssue. ASSUME TInv, IssueInv, NEW r \in Correct, NEW m \in setstates \cup UnverifiedSetstates(r), HandleSetState(r, m) PROVE IssueInv'
  <2> USE <1>SetStateIssue
  <2>1. /\ UNCHANGED <<newviews, preprepares, nextIssued>>
        /\ \/ /\ view' = [view EXCEPT ![r] = m.newview.view]
              /\ primary' = [primary EXCEPT ![r] = m.newview.sender]
              /\ adopted' = adopted \cup {r}
           \/ UNCHANGED <<view, primary, adopted>>
    BY DEF HandleSetState, voteVars
  <2>2. CASE UNCHANGED <<view, primary, adopted>> BY <2>1, <2>2, <1>QuietIssue
  <2>3. CASE ~UNCHANGED <<view, primary, adopted>>
    <3>1. \A q \in Correct : q \notin adopted' =>
             q \notin adopted /\ view'[q] = view[q] /\ primary'[q] = primary[q]
      BY <2>1, <2>3 DEF TInv, ViewsOK
    <3>2. \A q \in Correct : q \notin adopted' => Entered(q)'
      BY SMTT(60), <2>1, <3>1 DEF IssueInv, Entered, Above
    <3>3. ~Reissues' BY <2>1, <2>3 DEF IssueInv, Reissues, Above
    <3> QED BY <2>1, <3>2, <3>3 DEF IssueInv
  <2> QED BY <2>2, <2>3
<1> SUFFICES ASSUME TInv, IssueInv, [Next]_vars PROVE IssueInv' OBVIOUS
<1>1. CASE UNCHANGED vars
  <2>1. UNCHANGED voteVars /\ UNCHANGED viewVars /\ UNCHANGED checkpointVars BY <1>1 DEF vars
  <2> QED BY <2>1, <1>QuietIssue DEF voteVars, viewVars
<1>2. CASE Next
  <2> DEFINE Quiet == /\ UNCHANGED <<view, nextIssued, preprepares>>
                      /\ newviews \subseteq newviews' /\ adopted \subseteq adopted'
                      /\ \A q \in Correct : primary'[q] = primary[q] \/ primary'[q] = PrimaryOf(view[q])
  <2>1. Quiet => IssueInv' BY <1>QuietIssue
  <2>2. PICK r \in Correct :
          \/ \E h \in Requests : HandleRequest(r, h)
          \/ \E m \in newviews \cup FaultyNewviews : HandleNewview(r, m)
          \/ \E m \in setstates \cup UnverifiedSetstates(r) : HandleSetState(r, m)
          \/ \E o \in Operations : HandlePreprepare(r, o)
          \/ \E o \in preprepared[r] : HandlePrepare(r, o)
          \/ \E o \in prepared[r] : HandleCommit(r, o)
          \/ ExecuteHandler(r)
          \/ HandleFailure(r)
          \/ \E m \in SentViewchanges : HandleViewchange(r, m)
          \/ \E v \in Views : JoinViewchange(r, v)
          \/ \E v \in Views : SendNewview(r, v)
          \/ \E m \in checkpoints \cup UnverifiedCheckpoints(r) : HandleCheckpointMessage(r, m)
          \/ \E q \in cp[r].proof : CatchupTimeout(r, q)
          \/ \E m \in getstates : HandleGetState(r, m)
          \/ Restart(r)
    BY <1>2 DEF Next
  <2>3. ASSUME NEW h \in Requests, HandleRequest(r, h) PROVE IssueInv' BY <2>3, <1>RequestIssue
  <2>4. ASSUME NEW m \in newviews \cup FaultyNewviews, HandleNewview(r, m) PROVE IssueInv'
    BY <2>4, <1>NewviewIssue
  <2>5. ASSUME NEW m \in setstates \cup UnverifiedSetstates(r), HandleSetState(r, m) PROVE IssueInv' BY <2>5, <1>SetStateIssue
  <2>6. ASSUME NEW o, HandlePreprepare(r, o) \/ HandlePrepare(r, o) \/ HandleCommit(r, o) PROVE Quiet
    BY <2>6 DEF HandlePreprepare, HandlePrepare, HandleCommit, viewVars, checkpointVars
  <2>7. ExecuteHandler(r) => Quiet BY DEF ExecuteHandler, viewVars
  <2>8. HandleFailure(r) => Quiet BY DEF HandleFailure, voteVars, checkpointVars
  <2>9. ASSUME NEW m, HandleViewchange(r, m) \/ HandleCheckpointMessage(r, m) PROVE Quiet
    BY <2>9 DEF HandleViewchange, HandleCheckpointMessage, voteVars, viewVars
  <2>10. ASSUME NEW v, JoinViewchange(r, v) PROVE Quiet
    <3>1. UNCHANGED <<view, nextIssued, primary, newviews, adopted, voteVars>>
      BY <2>10 DEF JoinViewchange
    <3> QED BY <3>1 DEF voteVars
  <2>11. ASSUME NEW v, SendNewview(r, v) PROVE Quiet BY <2>11 DEF SendNewview, voteVars
  <2>12. ASSUME NEW q, CatchupTimeout(r, q) PROVE Quiet BY <2>12 DEF CatchupTimeout, voteVars, viewVars
  <2>13. ASSUME NEW m, HandleGetState(r, m) PROVE Quiet BY <2>13 DEF HandleGetState, voteVars, viewVars
  <2>14. Restart(r) => Quiet BY SMTT(60) DEF Restart, voteVars, TInv, ViewsOK
  <2> HIDE DEF Quiet
  <2> QED BY <2>1, <2>2, <2>3, <2>4, <2>5, <2>6, <2>7, <2>8, <2>9, <2>10, <2>11, <2>12, <2>13, <2>14
<1> QED BY <1>1, <1>2

-----------------------------------------------------------------------------
(* Every variable has its type, whatever the size of the swarm and however *)
(* many views and sequences there are.                                     *)
THEOREM TypeTheorem == Spec => []TypeOK
<1>1. Spec => []TInv BY InitTInv, NextTInv, PTL DEF Spec
<1> QED BY <1>1, TypesFollow, PTL

(* The base of every VIEWCHANGE that a replica accepts was reached by a    *)
(* correct replica, whatever evidence the checkpoint managers were handed: *)
(* is_valid_viewchange_message asks for f+1 CHECKPOINTs whose signatures   *)
(* hold, and f+1 signers are not all faulty.                               *)
THEOREM BaseReachedTheorem == Spec => []BaseReached
<1>1. Spec => []TInv BY InitTInv, NextTInv, PTL DEF Spec
<1>2. ASSUME TInv, NEW m \in SentViewchanges, m.seq # 0, NEW r \in Correct, is_valid_viewchange_message(r, m)
      PROVE  Reached(m.seq)
  BY <1>2, SentGood, BaseSigned
<1>3. TInv => BaseReached BY <1>2 DEF BaseReached, Reached
<1> QED BY <1>1, <1>3, PTL

(* handle_request of a primary never issues a sequence of a view twice,    *)
(* nor one that the NEWVIEW it entered the view by carries over, except at *)
(* a replica that took a view from a SET_STATE: handle_newview sets        *)
(* next_issued_sequence_number above all of O, and every later view has a  *)
(* NEWVIEW of its own.                                                     *)
THEOREM PrimaryNeverReissuesTheorem == Spec => []PrimaryNeverReissues
<1>1. Init => TInv /\ IssueInv BY InitTInv, InitIssue
<1>2. TInv /\ IssueInv /\ [Next]_vars => (TInv /\ IssueInv)' BY NextTInv, NextIssue
<1>3. IssueInv => PrimaryNeverReissues BY DEF IssueInv, Reissues, Above, PrimaryNeverReissues
<1> QED BY <1>1, <1>2, <1>3, PTL DEF Spec

(* pbft.cpp never lets two replicas prepare, or hand to their services,    *)
(* different requests for one view and sequence, however messages are      *)
(* lost, repeated or reordered, whichever replicas restart, and whatever   *)
(* up to f faulty replicas send.                                           *)
THEOREM SameViewAgreementTheorem == Spec => []SameViewAgreement
<1>1. Spec => []IInv
  BY InitIInv, NextIInv, PTL DEF Spec
<1> QED BY <1>1, Agreement, PTL

-----------------------------------------------------------------------------
(* The first view change.  A replica that has asked for view 2 prepares    *)
(* nothing more in view 1, and what it has prepared is in its VIEWCHANGE.  *)
(* So a request of view 1 that may still gather a quorum of COMMITs, as    *)
(* every member of the quorum prepared it or has yet to ask for view 2,    *)
(* is in one of the VIEWCHANGEs of any NEWVIEW, and each replica accepts   *)
(* it for its sequence as it enters view 2.                                *)
Asked(r) == \E m \in viewchanges : m.sender = r
MayCommit(o) == {r \in Correct : Asked(r) => o \in prepared[r]} \cup Faulty
Possible(o) == Cardinality(MayCommit(o)) >= honest_majority_size(N)
InSecond(o) == [view |-> 2, seq |-> o.seq, hash |-> o.hash]
Credible(x) ==
    x \in viewchanges \/ (x.sender \in Faulty /\ \A o \in x.proofs : HasQuorum(prepares, o))
CredibleTally(V, v) ==
    /\ \A x \in V : Credible(x) /\ GoodVc(x) /\ x.view = v /\ x.seq = 0
    /\ \A x, y \in V : x.sender = y.sender => x = y
    /\ Cardinality(V) >= quorum_size

TwoViews == \A r \in Correct : view[r] \in {1, 2}
NothingAhead == \A r \in Correct : \A o \in accepted[r] \cup prepared[r] : o.view <= view[r]
AskedWithAll ==
    \A m \in viewchanges :
        /\ m.sender \in Correct
        /\ \A o \in m.proofs : HasQuorum(prepares, o)
        /\ view[m.sender] = 1 => ~viewValid[m.sender]
        /\ m.seq = 0 => \A o \in prepared[m.sender] : o.view = 1 => o \in m.proofs
Announced == \A m \in newviews : CredibleTally(m.vcs, m.view)
CommitsPrepared == \A m \in commits : m.sender \in Correct /\ m.op \in prepared[m.sender]
Committed == \A r \in Correct : \A o \in committed[r] \cup applied[r] : HasQuorum(commits, o)
Covered ==
    \A r \in Correct : view[r] = 2 =>
        \A o \in Operations : o.view = 1 /\ Possible(o) => InSecond(o) \in accepted[r]
FirstInv ==
    TwoViews /\ NothingAhead /\ AskedWithAll /\ Announced /\ CommitsPrepared /\ Committed /\ Covered

LEMMA QuorumsGrow ==
    ASSUME NEW A, NEW B, A \subseteq B, \A m \in B : m.sender \in Peers, NEW o, HasQuorum(A, o)
    PROVE  HasQuorum(B, o)
<1>1. Voters(A, o) \subseteq Voters(B, o) /\ Voters(B, o) \subseteq Peers
  BY PeersAssumption DEF Voters
<1>2. IsFiniteSet(Voters(B, o)) /\ IsFiniteSet(Voters(A, o)) BY <1>1, PeersAssumption, FS_Subset
<1>3. Cardinality(Voters(A, o)) <= Cardinality(Voters(B, o)) BY <1>1, <1>2, FS_Subset
<1>4. Cardinality(Voters(A, o)) \in Nat /\ Cardinality(Voters(B, o)) \in Nat /\ honest_majority_size(N) \in Int
  BY SMTT(60), <1>2, FS_CardinalityType, Sizes
<1> QED BY SMTT(60), <1>3, <1>4 DEF HasQuorum

(* Two quorums of PREPAREs for one slot are for one request, and one of    *)
(* the replicas they have in common has accepted it.                       *)
LEMMA PrepareQuorums ==
    ASSUME IInv, NEW o, NEW p, HasQuorum(prepares, o), HasQuorum(prepares, p)
    PROVE  \E q \in Correct : o \in accepted[q] /\ p \in accepted[q]
<1>1. Voters(prepares, o) \in SUBSET Peers /\ Voters(prepares, p) \in SUBSET Peers
  BY PeersAssumption DEF IInv, PreparesAccepted, Voters, Correct
<1>2. PICK q \in Correct : q \in Voters(prepares, o) /\ q \in Voters(prepares, p)
  BY <1>1, QuorumIntersection DEF HasQuorum
<1> QED BY <1>2 DEF Voters, Correct, IInv, PreparesAccepted

(* Without a CHECKPOINT no base but the beginning can be vouched for, so   *)
(* the VIEWCHANGE of a replica that was led to take another is not valid.  *)
LEMMA AnyTally ==
    ASSUME TInv, checkpoints = {}, NEW r, NEW v, NEW k, NEW V \in Tallies(r, v, k), k = quorum_size
    PROVE  CredibleTally(V, v)
<1>1. /\ \A m \in V : GoodVc(m) /\ is_valid_viewchange_message(r, m) /\ m.view = v
      /\ V \subseteq VcsFor(SentViewchanges, v)
      /\ Cardinality(V) = k /\ \A x, y \in V : x.sender = y.sender => x = y
  BY SMTT(60), TallyGood
<1>2. \A m \in V : m.seq = 0 BY <1>1, BaseSigned DEF Reached
<1>3. \A m \in V : Credible(m) BY <1>1, SentGood DEF VcsFor, Credible
<1>4. Cardinality(V) >= quorum_size BY SMTT(60), <1>1, Sizes
<1> QED BY <1>1, <1>2, <1>3, <1>4 DEF CredibleTally

(* A tally and a quorum have a correct replica in common.                  *)
LEMMA TallyMeetsQuorum ==
    ASSUME NEW V, NEW v, CredibleTally(V, v), NEW A \in SUBSET Peers,
           Cardinality(A) >= honest_majority_size(N)
    PROVE  \E x \in V : x \in viewchanges /\ x.sender \in Correct /\ x.sender \in A
<1> DEFINE S == {x.sender : x \in V}
           f == [x \in V |-> x.sender]
<1>1. \A x \in V : x.sender \in Peers BY DEF CredibleTally, GoodVc, Viewchanges
<1>2. S \in SUBSET Peers /\ IsFiniteSet(S) BY SMTT(60), <1>1, PeersAssumption, FS_Subset
<1>3. f \in Injection(V, S) BY DEF Injection, IsInjective, CredibleTally
<1>4. \A q \in S : \E x \in V : x.sender = q OBVIOUS
<1> HIDE DEF f, S
<1>5. IsFiniteSet(V) /\ Cardinality(V) <= Cardinality(S) BY <1>2, <1>3, FS_Injection
<1>6. Cardinality(V) >= quorum_size BY DEF CredibleTally
<1>7. Cardinality(V) \in Nat /\ Cardinality(S) \in Nat BY <1>2, <1>5, FS_CardinalityType
<1>8. Cardinality(S) >= honest_majority_size(N) BY SMTT(60), <1>5, <1>6, <1>7, Sizes
<1>9. PICK q \in Correct : q \in A /\ q \in S BY <1>2, <1>8, QuorumIntersection
<1>10. PICK x \in V : x.sender = q BY <1>4, <1>9
<1>11. x \in viewchanges BY <1>9, <1>10 DEF CredibleTally, Credible, Correct
<1> QED BY <1>9, <1>10, <1>11

LEMMA MayCommitPeers == ASSUME NEW o PROVE MayCommit(o) \in SUBSET Peers
BY PeersAssumption DEF MayCommit, Correct

LEMMA FirstProofIn ==
    ASSUME NEW V, \A x \in V : x.sender \in Peers, NEW s \in ProvenSeqs(V)
    PROVE  \E x \in V : FirstProof(V, s) \in x.proofs /\ FirstProof(V, s).seq = s
<1> DEFINE W == {x \in V : \E o \in x.proofs : o.seq = s}
           m == Lowest(W)
<1>1. W # {} BY DEF ProvenSeqs
<1>2. W \subseteq V /\ \A x \in W : x.sender \in Peers /\ \E o \in x.proofs : o.seq = s OBVIOUS
<1> HIDE DEF W
<1>3. m \in W BY <1>1, <1>2, LowestIn
<1>4. FirstProof(V, s) = CHOOSE o \in m.proofs : o.seq = s BY DEF FirstProof, W
<1> HIDE DEF m
<1>5. FirstProof(V, s) \in m.proofs /\ FirstProof(V, s).seq = s BY <1>2, <1>3, <1>4
<1> QED BY <1>2, <1>3, <1>5

(* A NEWVIEW for view 2 proposes again every request that may still be     *)
(* committed in view 1.                                                    *)
LEMMA CarriedOver ==
    ASSUME TInv, IInv, FirstViewChange, FirstInv, NEW V, NEW v, CredibleTally(V, v)
    PROVE  /\ v = 2 /\ max_checkpoint_sequence(V) = 0
           /\ \A o \in Operations : o.view = 1 /\ Possible(o) => InSecond(o) \in build_newview(2, V)
<1>1. \A x \in V : GoodVc(x) /\ x.sender \in Peers /\ x.proofs \subseteq Operations
  BY DEF CredibleTally, GoodVc, Viewchanges
<1>2. v = 2 /\ V # {}
  <2>1. Cardinality(Peers) >= honest_majority_size(N)
    BY SMTT(60), Sizes DEF honest_majority_size, faulty_nodes_bound, N
  <2>2. PICK x \in V : x \in viewchanges BY <2>1, TallyMeetsQuorum
  <2> QED BY <2>2 DEF FirstViewChange, CredibleTally
<1>3. max_checkpoint_sequence(V) = 0
  <2>1. \A x \in V : x.seq = 0 BY DEF CredibleTally
  <2>2. {x.seq : x \in V} = {0} BY <1>2, <2>1
  <2>3. Max({0}) = 0
    <3>1. Max({0}) \in {0} BY SMTT(60), MaxIn
    <3> QED BY <3>1
  <2> QED BY <2>2, <2>3 DEF max_checkpoint_sequence
<1>4. ASSUME NEW o \in Operations, o.view = 1, Possible(o)
      PROVE  InSecond(o) \in build_newview(2, V)
  <2> DEFINE s == o.seq
             all == ProvenSeqs(V) \cup {0}
             p == FirstProof(V, s)
  <2>1. MayCommit(o) \in SUBSET Peers /\ Cardinality(MayCommit(o)) >= honest_majority_size(N)
    BY <1>4, MayCommitPeers DEF Possible
  <2>2. PICK x \in V : x \in viewchanges /\ x.sender \in Correct /\ x.sender \in MayCommit(o)
    BY <2>1, TallyMeetsQuorum
  <2>3. o \in prepared[x.sender] BY <2>2 DEF MayCommit, Asked, Correct
  <2>4. o \in x.proofs /\ HasQuorum(prepares, o)
    BY <1>4, <2>2, <2>3 DEF FirstInv, AskedWithAll, IInv, Certified, CredibleTally
  <2>5. s \in ProvenSeqs(V) BY <2>4 DEF ProvenSeqs
  <2>6. s \in 1 .. Max(all)
    <3>1. ProvenSeqs(V) \subseteq Seqs BY SMTT(60), <1>1 DEF ProvenSeqs, Operations
    <3>2. MaxSeq \in Nat /\ all \subseteq 0 .. MaxSeq /\ all # {} /\ s \in all
      BY SMTT(60), <2>5, <3>1, BoundsAssumption DEF Seqs
    <3> HIDE DEF all
    <3>3. Max(all) \in all /\ \A y \in all : Max(all) >= y BY <3>2, MaxIn
    <3> DEFINE top == Max(all)
    <3>4. top \in all /\ top >= s BY <3>2, <3>3
    <3> HIDE DEF top
    <3>5. s \in 1 .. top BY SMTT(60), <3>2, <3>4 DEF Operations, Seqs
    <3> QED BY <3>5 DEF top
  <2>7. PICK y \in V : p \in y.proofs /\ p.seq = s BY <1>1, <2>5, FirstProofIn
  <2>8. p \in Operations /\ HasQuorum(prepares, p)
    BY <1>1, <2>7 DEF CredibleTally, Credible, FirstInv, AskedWithAll
  <2> HIDE DEF p
  <2>9. p.hash = o.hash
    <3>1. PICK q \in Correct : o \in accepted[q] /\ p \in accepted[q] BY <2>4, <2>8, PrepareQuorums
    <3>2. p.view <= view[q] /\ view[q] \in {1, 2} /\ p.view \in Nat /\ p.view >= 1
      BY SMTT(60), <2>8, <3>1, BoundsAssumption DEF FirstInv, NothingAhead, TwoViews, Operations, Views
    <3>3. CASE p.view = 1 BY <1>4, <2>7, <3>1, <3>3 DEF SameSlot, IInv, AcceptedOnce
    <3>4. CASE p.view = 2
      <4>1. InSecond(o) \in accepted[q] BY SMTT(60), <1>4, <3>2, <3>4 DEF FirstInv, Covered
      <4>2. SameSlot(InSecond(o), p) /\ InSecond(o).hash = o.hash BY <2>7, <3>4 DEF SameSlot, InSecond
      <4> QED BY <3>1, <4>1, <4>2 DEF IInv, AcceptedOnce
    <3> QED BY SMTT(60), <3>2, <3>3, <3>4
  <2>10. NewPreprepare(2, V, s) = InSecond(o) BY <2>5, <2>9 DEF NewPreprepare, InSecond, p
  <2>11. NewPreprepare(2, V, s) \in build_newview(2, V)
    <3> DEFINE R == 1 .. Max(all)
    <3>1. build_newview(2, V) = {NewPreprepare(2, V, t) : t \in R}
      BY SMTT(60), <1>3 DEF build_newview
    <3>2. s \in R BY <2>6
    <3> HIDE DEF R, s
    <3> QED BY <3>1, <3>2
  <2> QED BY <2>10, <2>11
<1> QED BY <1>2, <1>3, <1>4

-----------------------------------------------------------------------------
(* A request that has gathered a quorum of COMMITs was one that may.       *)
LEMMA CommittedPossible ==
    ASSUME FirstInv, NEW o, HasQuorum(commits, o)
    PROVE  Possible(o)
<1>1. Voters(commits, o) \subseteq MayCommit(o)
  BY DEF Voters, MayCommit, FirstInv, CommitsPrepared
<1>2. IsFiniteSet(MayCommit(o)) BY MayCommitPeers, PeersAssumption, FS_Subset
<1>3. Cardinality(Voters(commits, o)) <= Cardinality(MayCommit(o)) /\ IsFiniteSet(Voters(commits, o))
  BY <1>1, <1>2, FS_Subset
<1>4. Cardinality(Voters(commits, o)) \in Nat /\ Cardinality(MayCommit(o)) \in Nat
      /\ honest_majority_size(N) \in Int
  BY SMTT(60), <1>2, <1>3, FS_CardinalityType, Sizes
<1> QED BY SMTT(60), <1>3, <1>4 DEF HasQuorum, Possible

(* It was prepared by a correct replica, on a quorum of PREPAREs.          *)
LEMMA CommittedPrepared ==
    ASSUME IInv, TInv, FirstInv, NEW o, HasQuorum(commits, o)
    PROVE  HasQuorum(prepares, o)
<1>1. Voters(commits, o) \in SUBSET Peers BY SMTT(60), PeersAssumption DEF Voters, TInv, VotesOK, Votes
<1>2. PICK q \in Correct : q \in Voters(commits, o) BY <1>1, QuorumIntersection DEF HasQuorum
<1>3. o \in prepared[q] BY <1>2 DEF Voters, Correct, FirstInv, CommitsPrepared
<1> QED BY <1>3 DEF IInv, Certified

(* The two properties follow.                                              *)
LEMMA FirstCarriedOver ==
    ASSUME TInv, IInv, FirstViewChange, FirstInv PROVE CommittedCarriedOver
<1> SUFFICES ASSUME NEW m \in newviews, NEW r \in Correct, NEW o \in committed[r], o.view < m.view
             PROVE  [o EXCEPT !.view = m.view] \in build_newview(m.view, m.vcs)
  BY DEF CommittedCarriedOver
<1>1. CredibleTally(m.vcs, m.view) BY DEF FirstInv, Announced
<1>2. /\ m.view = 2
      /\ \A p \in Operations : p.view = 1 /\ Possible(p) => InSecond(p) \in build_newview(2, m.vcs)
  BY <1>1, CarriedOver
<1>3. o \in Operations /\ o.view = 1
  BY SMTT(60), <1>2, BoundsAssumption DEF TInv, VotesOK, Operations, Views
<1>4. Possible(o) BY CommittedPossible DEF FirstInv, Committed
<1>5. [o EXCEPT !.view = m.view] = InSecond(o) BY SMTT(60), <1>2, <1>3 DEF InSecond, Operations
<1> QED BY <1>2, <1>3, <1>4, <1>5

LEMMA FirstApplyAgreement ==
    ASSUME TInv, IInv, FirstInv PROVE ApplyAgreement
<1>1. ASSUME NEW r \in Correct, NEW q \in Correct, NEW o \in applied[r], NEW p \in applied[q],
             o.seq = p.seq, o.view <= p.view
      PROVE  o.hash = p.hash
  <2>1. HasQuorum(commits, o) /\ HasQuorum(commits, p) BY DEF FirstInv, Committed
  <2>2. PICK t \in Correct : o \in accepted[t] /\ p \in accepted[t]
    BY <2>1, CommittedPrepared, PrepareQuorums
  <2>3. /\ o \in Operations /\ o.view \in Nat /\ p.view \in Nat /\ o.view >= 1
        /\ p.view <= view[t] /\ view[t] \in {1, 2}
    BY SMTT(60), <2>2, BoundsAssumption
       DEF TInv, ServiceOK, Operations, Views, FirstInv, NothingAhead, TwoViews
  <2>4. CASE o.view = p.view BY <1>1, <2>2, <2>4 DEF SameSlot, IInv, AcceptedOnce
  <2>5. CASE o.view # p.view
    <3>1. o.view = 1 /\ p.view = 2 /\ view[t] = 2 BY SMTT(60), <1>1, <2>3, <2>5
    <3>2. Possible(o) BY <2>1, CommittedPossible
    <3>3. InSecond(o) \in accepted[t] BY <2>3, <3>1, <3>2 DEF FirstInv, Covered
    <3>4. SameSlot(InSecond(o), p) /\ InSecond(o).hash = o.hash BY <1>1, <3>1 DEF SameSlot, InSecond
    <3> QED BY <2>2, <3>3, <3>4 DEF IInv, AcceptedOnce
  <2> QED BY <2>4, <2>5
<1>2. \A r \in Correct : \A o \in applied[r] : o.view \in Nat
  BY SMTT(60), BoundsAssumption DEF TInv, ServiceOK, Operations, Views
<1> SUFFICES ASSUME NEW r \in Correct, NEW q \in Correct, NEW o \in applied[r], NEW p \in applied[q],
                    o.seq = p.seq
             PROVE  o.hash = p.hash
  BY DEF ApplyAgreement
<1>3. o.view <= p.view \/ p.view <= o.view BY SMTT(60), <1>2
<1> QED BY SMTT(60), <1>1, <1>3

-----------------------------------------------------------------------------
LEMMA InitFirst == Init => FirstInv
<1> SUFFICES ASSUME Init PROVE FirstInv OBVIOUS
<1>1. viewchanges = {} /\ newviews = {} /\ commits = {} BY DEF Init
<1>2. \A r \in Correct : view[r] = 1 /\ accepted[r] = {} /\ prepared[r] = {} /\ committed[r] = {} /\ applied[r] = {}
  BY DEF Init
<1> QED BY SMTT(60), <1>1, <1>2
        DEF FirstInv, TwoViews, NothingAhead, AskedWithAll, Announced, CommitsPrepared, Committed, Covered

(* What the messages sent so far establish is not undone by more of them.  *)
LEMMA MessagesGrow ==
    ASSUME TInv', prepares \subseteq prepares', commits \subseteq commits',
           viewchanges \subseteq viewchanges', checkpoints \subseteq checkpoints'
    PROVE  /\ \A o : HasQuorum(prepares, o) => HasQuorum(prepares, o)'
           /\ \A o : HasQuorum(commits, o) => HasQuorum(commits, o)'
           /\ \A V, v : CredibleTally(V, v) => CredibleTally(V, v)'
<1>1. (\A m \in prepares' : m.sender \in Peers) /\ (\A m \in commits' : m.sender \in Peers)
  BY DEF TInv, VotesOK, Votes
<1>2. ASSUME NEW o, HasQuorum(prepares, o) PROVE HasQuorum(prepares, o)'
  BY <1>1, <1>2, QuorumsGrow
<1>3. ASSUME NEW o, HasQuorum(commits, o) PROVE HasQuorum(commits, o)'
  BY <1>1, <1>3, QuorumsGrow
<1>4. \A x : Credible(x) => Credible(x)' BY <1>2 DEF Credible
<1>5. \A x : GoodVc(x) => GoodVc(x)' BY EvidenceGrows
<1>6. \A V, v : CredibleTally(V, v) => CredibleTally(V, v)' BY <1>4, <1>5 DEF CredibleTally
<1> QED BY <1>2, <1>3, <1>6

(* No request becomes possible again.                                      *)
LEMMA PossibleShrinks ==
    ASSUME viewchanges \subseteq viewchanges', NEW o,
           \A r \in Correct : o \in prepared'[r] => o \in prepared[r] \/ ~Asked(r),
           Possible(o)'
    PROVE  Possible(o)
<1>1. MayCommit(o)' \subseteq MayCommit(o) BY DEF MayCommit, Asked
<1>2. IsFiniteSet(MayCommit(o)) BY MayCommitPeers, PeersAssumption, FS_Subset
<1>3. Cardinality(MayCommit(o)') <= Cardinality(MayCommit(o)) /\ IsFiniteSet(MayCommit(o)')
  BY <1>1, <1>2, FS_Subset
<1>4. Cardinality(MayCommit(o)) \in Nat /\ Cardinality(MayCommit(o)') \in Nat /\ honest_majority_size(N) \in Int
  BY SMTT(60), <1>2, <1>3, FS_CardinalityType, Sizes
<1>5. Cardinality(MayCommit(o)') >= honest_majority_size(N) BY DEF Possible
<1> QED BY SMTT(60), <1>3, <1>4, <1>5 DEF Possible

(* A step that marks at most an operation as committed.                    *)
LEMMA QuietFirst ==
    ASSUME TInv', FirstInv, UNCHANGED <<view, viewValid, viewchanges, newviews>>,
           UNCHANGED <<accepted, prepared, prepares, commits>>, checkpoints \subseteq checkpoints',
           \A r \in Correct : \A o \in committed'[r] \cup applied'[r] : HasQuorum(commits, o)
    PROVE  FirstInv'
<1>1. /\ \A o : HasQuorum(prepares, o) => HasQuorum(prepares, o)'
      /\ \A o : HasQuorum(commits, o) => HasQuorum(commits, o)'
      /\ \A V, v : CredibleTally(V, v) => CredibleTally(V, v)'
  BY MessagesGrow
<1>2. ASSUME NEW o, Possible(o)' PROVE Possible(o) BY <1>2, PossibleShrinks
<1>3. TwoViews' /\ NothingAhead' BY DEF FirstInv, TwoViews, NothingAhead
<1>4. AskedWithAll' BY <1>1 DEF FirstInv, AskedWithAll
<1>5. Announced' BY <1>1 DEF FirstInv, Announced
<1>6. CommitsPrepared' BY DEF FirstInv, CommitsPrepared
<1>7. Committed' BY <1>1 DEF Committed
<1>8. Covered' BY <1>2 DEF FirstInv, Covered, InSecond
<1> QED BY <1>3, <1>4, <1>5, <1>6, <1>7, <1>8 DEF FirstInv

LEMMA PreprepareFirst ==
    ASSUME TInv, TInv', FirstInv, NEW r \in Correct, NEW o \in Operations, HandlePreprepare(r, o)
    PROVE  FirstInv'
<1> DEFINE new == Acceptable(r, {o})
<1>1. /\ accepted' = [accepted EXCEPT ![r] = @ \cup new]
      /\ prepares' = prepares \cup {[sender |-> r, op |-> p] : p \in new}
      /\ new \subseteq {o} /\ o.view = view[r]
      /\ UNCHANGED <<view, viewValid, viewchanges, newviews, checkpoints>>
      /\ UNCHANGED <<prepared, committed, commits, applied>>
  BY DEF HandlePreprepare, handle_preprepares, Acceptable, InView, viewVars, serviceVars, checkpointVars
<1> HIDE DEF new
<1>2. /\ \A p : HasQuorum(prepares, p) => HasQuorum(prepares, p)'
      /\ \A p : HasQuorum(commits, p) => HasQuorum(commits, p)'
      /\ \A V, v : CredibleTally(V, v) => CredibleTally(V, v)'
  BY <1>1, MessagesGrow
<1>3. ASSUME NEW p, Possible(p)' PROVE Possible(p) BY <1>1, <1>3, PossibleShrinks
<1>4. \A q \in Correct : accepted'[q] = IF q = r THEN accepted[r] \cup new ELSE accepted[q]
  BY <1>1 DEF TInv, VotesOK
<1>5. view[r] \in Nat BY SMTT(60), BoundsAssumption DEF TInv, ViewsOK, Views
<1>6. TwoViews' BY <1>1 DEF FirstInv, TwoViews
<1>7. NothingAhead' BY SMTT(60), <1>1, <1>4, <1>5 DEF FirstInv, NothingAhead
<1>8. AskedWithAll' BY <1>1, <1>2 DEF FirstInv, AskedWithAll
<1>9. Announced' BY <1>1, <1>2 DEF FirstInv, Announced
<1>10. CommitsPrepared' /\ Committed' BY <1>1, <1>2 DEF FirstInv, CommitsPrepared, Committed
<1>11. Covered' BY SMTT(60), <1>1, <1>3, <1>4 DEF FirstInv, Covered, InSecond
<1> QED BY <1>6, <1>7, <1>8, <1>9, <1>10, <1>11 DEF FirstInv

LEMMA PrepareFirst ==
    ASSUME TInv, TInv', FirstInv, NEW r \in Correct, NEW o \in Operations, HandlePrepare(r, o)
    PROVE  FirstInv'
<1>1. /\ prepared' = [prepared EXCEPT ![r] = @ \cup {o}]
      /\ commits' = commits \cup {[sender |-> r, op |-> o]}
      /\ viewValid[r] /\ o.view = view[r]
      /\ UNCHANGED <<view, viewValid, viewchanges, newviews, checkpoints>>
      /\ UNCHANGED <<accepted, prepares, committed, applied>>
  BY DEF HandlePrepare, InView, viewVars, serviceVars, checkpointVars
<1>2. /\ \A p : HasQuorum(prepares, p) => HasQuorum(prepares, p)'
      /\ \A p : HasQuorum(commits, p) => HasQuorum(commits, p)'
      /\ \A V, v : CredibleTally(V, v) => CredibleTally(V, v)'
  BY <1>1, MessagesGrow
<1>3. \A q \in Correct : prepared'[q] = IF q = r THEN prepared[r] \cup {o} ELSE prepared[q]
  BY <1>1 DEF TInv, VotesOK
<1>4. o.view = 1 => ~Asked(r) BY <1>1 DEF Asked, FirstInv, AskedWithAll
<1>5. ASSUME NEW p, p.view = 1, Possible(p)' PROVE Possible(p)
  <2>1. \A q \in Correct : p \in prepared'[q] => p \in prepared[q] \/ ~Asked(q) BY <1>3, <1>4, <1>5
  <2> QED BY <1>1, <1>5, <2>1, PossibleShrinks
<1>6. view[r] \in Nat BY SMTT(60), BoundsAssumption DEF TInv, ViewsOK, Views
<1>7. TwoViews' BY <1>1 DEF FirstInv, TwoViews
<1>8. NothingAhead' BY SMTT(60), <1>1, <1>3, <1>6 DEF FirstInv, NothingAhead
<1>9. AskedWithAll' BY SMTT(60), <1>1, <1>2, <1>3, <1>4 DEF FirstInv, AskedWithAll, Asked
<1>10. Announced' BY <1>1, <1>2 DEF FirstInv, Announced
<1>11. CommitsPrepared'
  <2> SUFFICES ASSUME NEW m \in commits' PROVE m.sender \in Correct /\ m.op \in prepared'[m.sender]
    BY DEF CommitsPrepared
  <2>1. CASE m \in commits BY <1>3, <2>1 DEF FirstInv, CommitsPrepared
  <2>2. CASE m = [sender |-> r, op |-> o] BY <1>3, <2>2
  <2> QED BY <1>1, <2>1, <2>2
<1>12. Committed'
  <2> SUFFICES ASSUME NEW q \in Correct, NEW p \in committed[q] \cup applied[q] PROVE HasQuorum(commits, p)'
    BY <1>1 DEF Committed
  <2>1. HasQuorum(commits, p) BY DEF FirstInv, Committed
  <2> QED BY <1>2, <2>1
<1>13. Covered' BY <1>1, <1>5 DEF FirstInv, Covered, InSecond
<1> QED BY <1>7, <1>8, <1>9, <1>10, <1>11, <1>12, <1>13 DEF FirstInv

(* A replica that asks for view 2 stops preparing, and its VIEWCHANGE has  *)
(* all it has prepared.                                                    *)
LEMMA AskFirst ==
    ASSUME TInv, TInv', IInv, FirstInv, FirstViewChange', NEW r \in Correct, NEW v \in Views, NEW c,
           initiate_viewchange(r, v, c), view[r] < v,
           UNCHANGED <<view, newviews, checkpoints>>,
           UNCHANGED <<accepted, prepared, committed, applied, prepares, commits>>
    PROVE  FirstInv'
<1>0. PICK C \in Signed(c) : viewchanges' = viewchanges \cup {make_viewchange(r, v, c, C)}
  BY DEF initiate_viewchange
<1> DEFINE new == make_viewchange(r, v, c, C)
<1>1. viewValid' = [viewValid EXCEPT ![r] = FALSE] /\ viewchanges' = viewchanges \cup {new}
  BY <1>0 DEF initiate_viewchange
<1>2. /\ new.sender = r /\ new.view = v /\ new.proofs \subseteq prepared[r]
      /\ new.seq = 0 => new.proofs = prepared_operations_since(r, 0)
  BY DEF make_viewchange, prepared_operations_since
<1> HIDE DEF new
<1>3. view[r] = 1 BY SMTT(60), <1>1, <1>2 DEF FirstViewChange, FirstInv, TwoViews
<1>4. prepared_operations_since(r, 0) = prepared[r]
  <2>1. \A o \in prepared[r] : o.seq \in Nat /\ o.seq > 0 /\ o.view \in Nat /\ o.view >= 1 /\ o.view <= 1
    BY SMTT(60), <1>3, BoundsAssumption DEF TInv, VotesOK, Operations, Seqs, Views, FirstInv, NothingAhead
  <2>2. \A o, p \in prepared[r] : p.view <= o.view BY SMTT(60), <2>1
  <2> QED BY <2>1, <2>2 DEF prepared_operations_since
<1>5. /\ \A p : HasQuorum(prepares, p) => HasQuorum(prepares, p)'
      /\ \A p : HasQuorum(commits, p) => HasQuorum(commits, p)'
      /\ \A V, w : CredibleTally(V, w) => CredibleTally(V, w)'
  BY <1>1, MessagesGrow
<1>6. ASSUME NEW p, Possible(p)' PROVE Possible(p) BY <1>1, <1>6, PossibleShrinks
<1>7. TwoViews' /\ NothingAhead' BY DEF FirstInv, TwoViews, NothingAhead
<1>8. AskedWithAll'
  <2>1. ~viewValid'[r] BY <1>1 DEF TInv, ViewsOK
  <2>a. \A q \in Correct \ {r} : viewValid'[q] = viewValid[q] BY <1>1 DEF TInv, ViewsOK
  <2> SUFFICES ASSUME NEW m \in viewchanges'
               PROVE  /\ m.sender \in Correct
                      /\ \A o \in m.proofs : HasQuorum(prepares, o)'
                      /\ view'[m.sender] = 1 => ~viewValid'[m.sender]
                      /\ m.seq = 0 => \A o \in prepared'[m.sender] : o.view = 1 => o \in m.proofs
    BY DEF AskedWithAll
  <2>2. CASE m \in viewchanges
    <3>1. /\ m.sender \in Correct /\ \A o \in m.proofs : HasQuorum(prepares, o)
          /\ m.seq = 0 => \A o \in prepared[m.sender] : o.view = 1 => o \in m.proofs
          /\ view[m.sender] = 1 => ~viewValid[m.sender]
      BY <2>2 DEF FirstInv, AskedWithAll
    <3>2. view'[m.sender] = 1 => ~viewValid'[m.sender]
      <4>1. CASE m.sender = r BY <2>1, <4>1
      <4>2. CASE m.sender # r
        <5>1. viewValid'[m.sender] = viewValid[m.sender] BY <2>a, <3>1, <4>2
        <5> QED BY <3>1, <5>1
      <4> QED BY <4>1, <4>2
    <3> QED BY <1>5, <3>1, <3>2
  <2>3. CASE m = new
    <3>1. \A o \in prepared[r] : HasQuorum(prepares, o) BY DEF IInv, Certified
    <3>2. m.sender = r /\ m.proofs \subseteq prepared[r] /\ (m.seq = 0 => m.proofs = prepared[r])
      BY <1>2, <1>4, <2>3
    <3> QED BY <1>5, <2>1, <3>1, <3>2
  <2> QED BY <1>1, <2>2, <2>3
<1>9. Announced' BY <1>5 DEF FirstInv, Announced
<1>10. CommitsPrepared' BY DEF FirstInv, CommitsPrepared
<1>11. Committed' BY <1>5 DEF FirstInv, Committed
<1>12. Covered' BY <1>6 DEF FirstInv, Covered, InSecond
<1> QED BY <1>7, <1>8, <1>9, <1>10, <1>11, <1>12 DEF FirstInv

LEMMA FailureFirst ==
    ASSUME TInv, TInv', IInv, FirstInv, FirstViewChange', NEW r \in Correct, HandleFailure(r)
    PROVE  FirstInv'
<1>1. /\ view[r] + 1 \in Views /\ initiate_viewchange(r, view[r] + 1, cp[r])
      /\ UNCHANGED <<view, newviews, checkpoints, cp>>
      /\ UNCHANGED <<accepted, prepared, committed, applied, prepares, commits>>
  BY DEF HandleFailure, voteVars, serviceVars, checkpointVars
<1>2. view[r] < view[r] + 1 BY SMTT(60), BoundsAssumption DEF TInv, ViewsOK, Views
<1> QED BY <1>1, <1>2, AskFirst

LEMMA JoinFirst ==
    ASSUME TInv, TInv', IInv, FirstInv, FirstViewChange', NEW r \in Correct, NEW v \in Views,
           JoinViewchange(r, v)
    PROVE  FirstInv'
<1>1. PICK V \in Tallies(r, v, max_faulty_nodes + 1) :
          /\ cp' = [cp EXCEPT ![r] = save_checkpoints(cp[r], V)]
          /\ initiate_viewchange(r, v, save_checkpoints(cp[r], V))
  BY DEF JoinViewchange
<1> DEFINE c == save_checkpoints(cp[r], V)
<1>2. /\ UNCHANGED <<view, newviews, checkpoints>>
      /\ UNCHANGED <<accepted, prepared, committed, applied, prepares, commits>>
  <2>1. UNCHANGED <<view, newviews, checkpoints, voteVars, serviceVars>> BY DEF JoinViewchange
  <2> QED BY <2>1 DEF voteVars, serviceVars
<1>3. initiate_viewchange(r, v, c) /\ cp' = [cp EXCEPT ![r] = c] BY <1>1
<1> HIDE DEF c
<1>4. view[r] < v
  <2>1. /\ Cardinality(V) = max_faulty_nodes + 1
        /\ \A m \in V : is_valid_viewchange_message(r, m) /\ m.view = v
    BY SMTT(60), TallyGood
  <2>2. V # {} BY SMTT(60), <2>1, Sizes, FS_EmptySet
  <2>3. \A m \in V : v > view[r] BY <2>1 DEF is_valid_viewchange_message
  <2> QED BY <2>2, <2>3, BoundsAssumption DEF TInv, ViewsOK, Views
<1> QED BY <1>2, <1>3, <1>4, AskFirst

LEMMA SendNewviewFirst ==
    ASSUME TInv, TInv', FirstInv, FirstViewChange', NEW r \in Correct, NEW v \in Views, SendNewview(r, v)
    PROVE  FirstInv'
<1>1. PICK V \in Tallies(r, v, 2 * max_faulty_nodes + 1) :
          newviews' = newviews \cup {[sender |-> r, view |-> v, vcs |-> V]}
  BY DEF SendNewview
<1>2. /\ UNCHANGED <<view, viewValid, viewchanges, checkpoints>>
      /\ UNCHANGED <<accepted, prepared, committed, applied, prepares, commits>>
  <2>1. UNCHANGED <<view, viewValid, viewchanges, checkpoints, voteVars, serviceVars>> BY DEF SendNewview
  <2> QED BY <2>1 DEF voteVars, serviceVars
<1>3. /\ \A p : HasQuorum(prepares, p) => HasQuorum(prepares, p)'
      /\ \A p : HasQuorum(commits, p) => HasQuorum(commits, p)'
      /\ \A W, w : CredibleTally(W, w) => CredibleTally(W, w)'
  BY <1>2, MessagesGrow
<1>4. ASSUME NEW p, Possible(p)' PROVE Possible(p) BY <1>2, <1>4, PossibleShrinks
<1>5. CredibleTally(V, v)
  <2> DEFINE k == 2 * max_faulty_nodes + 1
  <2>1. V \in Tallies(r, v, k) /\ k = quorum_size BY SMTT(60), <1>1, Sizes DEF quorum_size
  <2>2. checkpoints = {} BY <1>2 DEF FirstViewChange
  <2> HIDE DEF k
  <2> QED BY <2>1, <2>2, AnyTally
<1>6. TwoViews' /\ NothingAhead' BY <1>2 DEF FirstInv, TwoViews, NothingAhead
<1>7. AskedWithAll' BY <1>2, <1>3 DEF FirstInv, AskedWithAll
<1>8. Announced' BY SMTT(60), <1>1, <1>3, <1>5 DEF FirstInv, Announced
<1>9. CommitsPrepared' /\ Committed' BY <1>2, <1>3 DEF FirstInv, CommitsPrepared, Committed
<1>10. Covered' BY <1>2, <1>4 DEF FirstInv, Covered, InSecond
<1> QED BY <1>6, <1>7, <1>8, <1>9, <1>10 DEF FirstInv

LEMMA NewviewFirst ==
    ASSUME TInv, TInv', IInv, FirstInv, FirstViewChange, FirstViewChange', NEW r \in Correct,
           NEW m \in newviews \cup FaultyNewviews, HandleNewview(r, m)
    PROVE  FirstInv'
<1> DEFINE O == build_newview(m.view, m.vcs)
           new == Acceptable(r, O)
<1>1. is_valid_newview_message(r, m) BY DEF HandleNewview
<1>2. /\ accepted' = [accepted EXCEPT ![r] = @ \cup new]
      /\ prepares' = prepares \cup {[sender |-> r, op |-> p] : p \in new}
      /\ view' = [view EXCEPT ![r] = m.view] /\ viewValid' = [viewValid EXCEPT ![r] = TRUE]
      /\ UNCHANGED <<viewchanges, newviews, checkpoints, prepared, committed, commits, serviceVars>>
  BY DEF HandleNewview, handle_preprepares
<1>3. UNCHANGED applied BY <1>2 DEF serviceVars
<1>4. m \in newviews
  <2>1. m.view = 2
    <3>1. view'[r] = m.view /\ view[r] \in {1, 2} BY <1>2 DEF TInv, ViewsOK, FirstInv, TwoViews
    <3>2. m.view <= 2 BY <3>1 DEF FirstViewChange
    <3>3. m.view > view[r] /\ m.view \in Int BY SMTT(60), <1>1, ValidNewview, BoundsAssumption DEF Views
    <3> QED BY SMTT(60), <3>1, <3>2, <3>3
  <2> QED BY <2>1, FaultyAnnounce DEF FirstViewChange, Correct
<1>5. CredibleTally(m.vcs, m.view) BY <1>4 DEF FirstInv, Announced
<1>6. /\ m.view = 2
      /\ \A o \in Operations : o.view = 1 /\ Possible(o) => InSecond(o) \in build_newview(2, m.vcs)
  BY <1>5, CarriedOver
<1>7. GoodVcs(m.vcs) /\ m.view \in Views /\ m.view > view[r] BY <1>1, ValidNewview
<1>8. O \subseteq Operations /\ \A o \in O : o.view = 2 BY <1>6, <1>7, NewviewOperations
<1>9. \A o \in Operations : o.view = 1 /\ Possible(o) => InSecond(o) \in O BY <1>6
<1> HIDE DEF O
<1>10. new = O
  <2>1. \A a \in accepted[r] : a.view <= view[r] /\ a.view \in Int /\ view[r] = 1
    <3>1. accepted[r] \subseteq Operations BY DEF TInv, VotesOK
    <3>2. \A a \in Operations : a.view \in Int BY SMTT(60), BoundsAssumption DEF Operations, Views
    <3>3. view[r] \in {1, 2} /\ \A a \in accepted[r] : a.view <= view[r] BY DEF FirstInv, TwoViews, NothingAhead
    <3>4. view[r] = 1 BY SMTT(60), <1>6, <1>7, <3>3
    <3> QED BY <3>1, <3>2, <3>3, <3>4
  <2>2. ASSUME NEW a \in accepted[r], NEW o \in O PROVE a.view # o.view BY SMTT(60), <1>8, <2>1, <2>2
  <2> QED BY <2>2 DEF Acceptable
<1> HIDE DEF new
<1>11. /\ \A p : HasQuorum(prepares, p) => HasQuorum(prepares, p)'
       /\ \A p : HasQuorum(commits, p) => HasQuorum(commits, p)'
       /\ \A V, v : CredibleTally(V, v) => CredibleTally(V, v)'
  BY <1>2, MessagesGrow
<1>12. ASSUME NEW p, Possible(p)' PROVE Possible(p) BY <1>2, <1>12, PossibleShrinks
<1>13. \A q \in Correct :
          /\ accepted'[q] = IF q = r THEN accepted[r] \cup O ELSE accepted[q]
          /\ view'[q] = IF q = r THEN 2 ELSE view[q]
          /\ q # r => viewValid'[q] = viewValid[q]
  <2>1. \A q \in Correct : accepted'[q] = IF q = r THEN accepted[r] \cup O ELSE accepted[q]
    BY <1>2, <1>10 DEF TInv, VotesOK
  <2>2. \A q \in Correct : view'[q] = IF q = r THEN 2 ELSE view[q]
    BY <1>2, <1>6 DEF TInv, ViewsOK
  <2>3. \A q \in Correct : q # r => viewValid'[q] = viewValid[q]
    BY <1>2 DEF TInv, ViewsOK
  <2> QED BY <2>1, <2>2, <2>3
<1>14. TwoViews' BY <1>13 DEF FirstInv, TwoViews
<1>15. NothingAhead'
  <2> SUFFICES ASSUME NEW q \in Correct, NEW o \in accepted'[q] \cup prepared'[q] PROVE o.view <= view'[q]
    BY DEF NothingAhead
  <2>1. CASE o \in accepted[q] \cup prepared[q]
    <3>1. o.view <= view[q] /\ view[q] \in {1, 2} BY <2>1 DEF FirstInv, NothingAhead, TwoViews
    <3>2. o.view \in Int BY SMTT(60), <2>1, BoundsAssumption DEF TInv, VotesOK, Operations, Views
    <3>3. view'[q] = 2 \/ view'[q] = view[q] BY <1>13
    <3> QED BY SMTT(60), <3>1, <3>2, <3>3
  <2>2. CASE q = r /\ o \in O
    <3>1. view'[q] = 2 BY <1>13, <2>2
    <3> QED BY SMTT(60), <1>8, <2>2, <3>1
  <2>3. prepared' = prepared BY <1>2
  <2> QED BY <1>13, <2>1, <2>2, <2>3
<1>16. AskedWithAll'
  <2> SUFFICES ASSUME NEW x \in viewchanges
               PROVE  /\ x.sender \in Correct
                      /\ \A o \in x.proofs : HasQuorum(prepares, o)'
                      /\ view'[x.sender] = 1 => ~viewValid'[x.sender]
                      /\ x.seq = 0 => \A o \in prepared[x.sender] : o.view = 1 => o \in x.proofs
    BY <1>2 DEF AskedWithAll
  <2>1. /\ x.sender \in Correct /\ \A o \in x.proofs : HasQuorum(prepares, o)
        /\ x.seq = 0 => \A o \in prepared[x.sender] : o.view = 1 => o \in x.proofs
        /\ view[x.sender] = 1 => ~viewValid[x.sender]
    BY DEF FirstInv, AskedWithAll
  <2>2. view'[x.sender] = 1 => ~viewValid'[x.sender]
    <3>1. x.sender = r => view'[x.sender] = 2 BY <1>13
    <3>2. x.sender # r => view'[x.sender] = view[x.sender] /\ viewValid'[x.sender] = viewValid[x.sender]
      BY <1>13, <2>1
    <3>3. 1 # 2 BY SMTT(60)
    <3> QED BY <2>1, <3>1, <3>2, <3>3
  <2> QED BY <1>11, <2>1, <2>2
<1>17. Announced' BY <1>2, <1>11 DEF FirstInv, Announced
<1>18. CommitsPrepared' BY <1>2 DEF FirstInv, CommitsPrepared
<1>19. Committed' BY <1>2, <1>3, <1>11 DEF FirstInv, Committed
<1>20. Covered'
  <2> SUFFICES ASSUME NEW q \in Correct, view'[q] = 2, NEW o \in Operations, o.view = 1, Possible(o)'
               PROVE  InSecond(o) \in accepted'[q]
    BY DEF Covered, InSecond
  <2>1. Possible(o) BY <1>12
  <2>2. CASE q = r BY <1>9, <1>13, <2>1, <2>2
  <2>3. CASE q # r BY <1>13, <2>1, <2>3 DEF FirstInv, Covered
  <2> QED BY <2>2, <2>3
<1> QED BY <1>14, <1>15, <1>16, <1>17, <1>18, <1>19, <1>20 DEF FirstInv

(* A SET_STATE that no view is taken from changes nothing but evidence.    *)
LEMMA SetStateFirst ==
    ASSUME TInv', FirstInv, adopted' = {}, NEW r, NEW m, HandleSetState(r, m)
    PROVE  FirstInv'
<1>1. /\ UNCHANGED <<checkpoints, newviews, voteVars, applied>>
      /\ r \in adopted' \/ UNCHANGED <<view, viewValid, viewchanges>>
  BY DEF HandleSetState
<1>2. UNCHANGED <<accepted, prepared, committed, prepares, commits>> BY <1>1 DEF voteVars
<1>3. \A q \in Correct : \A o \in committed'[q] \cup applied'[q] : HasQuorum(commits, o)
  BY <1>1, <1>2 DEF FirstInv, Committed
<1> QED BY <1>1, <1>2, <1>3, QuietFirst

LEMMA CommitFirst ==
    ASSUME TInv, TInv', FirstInv, NEW r \in Correct, NEW o, HandleCommit(r, o)
    PROVE  FirstInv'
<1>1. /\ HasQuorum(commits, o)
      /\ committed' = [committed EXCEPT ![r] = @ \cup {o}] /\ applied' = [applied EXCEPT ![r] = @ \cup {o}]
      /\ UNCHANGED <<view, viewValid, viewchanges, newviews, checkpoints>>
      /\ UNCHANGED <<accepted, prepared, prepares, commits>>
  BY DEF HandleCommit, viewVars, checkpointVars
<1>2. \A q \in Correct : \A p \in committed'[q] \cup applied'[q] : p \in committed[q] \cup applied[q] \/ p = o
  BY <1>1 DEF TInv, VotesOK, ServiceOK
<1>3. \A q \in Correct : \A p \in committed'[q] \cup applied'[q] : HasQuorum(commits, p)
  BY <1>1, <1>2 DEF FirstInv, Committed
<1> QED BY <1>1, <1>3, QuietFirst

LEMMA MonotoneFirst ==
    ASSUME TInv, TInv', [Next]_vars, FirstViewChange' PROVE FirstViewChange
<1> DEFINE Grow == /\ checkpoints \subseteq checkpoints' /\ viewchanges \subseteq viewchanges'
                   /\ adopted \subseteq adopted'
                   /\ adopted' = {} => \A q \in Correct : view'[q] = view[q] \/ view'[q] > view[q]
<1>1. ASSUME UNCHANGED vars PROVE Grow BY <1>1 DEF vars, checkpointVars, viewVars
<1>2. ASSUME Next PROVE Grow
  <2>1. \A r, v, c : initiate_viewchange(r, v, c) => viewchanges \subseteq viewchanges'
    BY DEF initiate_viewchange
  <2>2. \A r, h : HandleRequest(r, h) => Grow BY DEF HandleRequest, checkpointVars, viewVars
  <2>3. \A r, o : HandlePreprepare(r, o) => Grow BY DEF HandlePreprepare, checkpointVars, viewVars
  <2>4. \A r, o : HandlePrepare(r, o) => Grow BY DEF HandlePrepare, checkpointVars, viewVars
  <2>5. \A r, o : HandleCommit(r, o) => Grow BY DEF HandleCommit, checkpointVars, viewVars
  <2>6. \A r : ExecuteHandler(r) => Grow BY DEF ExecuteHandler, checkpointVars, viewVars
  <2>7. \A r : HandleFailure(r) => Grow BY <2>1 DEF HandleFailure, checkpointVars, viewVars
  <2>8. \A r, m : HandleViewchange(r, m) => Grow BY DEF HandleViewchange, checkpointVars, viewVars
  <2>9. \A r, v : JoinViewchange(r, v) => Grow BY <2>1 DEF JoinViewchange, checkpointVars, viewVars
  <2>10. \A r, v : SendNewview(r, v) => Grow BY DEF SendNewview, checkpointVars, viewVars
  <2>11. ASSUME NEW r \in Correct, NEW m \in newviews \cup FaultyNewviews, HandleNewview(r, m) PROVE Grow
    <3>1. /\ view' = [view EXCEPT ![r] = m.view] /\ is_valid_newview_message(r, m)
          /\ UNCHANGED <<checkpoints, viewchanges, adopted>>
      BY <2>11 DEF HandleNewview
    <3>2. m.view > view[r] BY <3>1, ValidNewview
    <3> QED BY <3>1, <3>2 DEF TInv, ViewsOK
  <2>12. \A r, m : HandleCheckpointMessage(r, m) => Grow BY DEF HandleCheckpointMessage, checkpointVars, viewVars
  <2>13. \A r, q : CatchupTimeout(r, q) => Grow BY DEF CatchupTimeout, checkpointVars, viewVars
  <2>14. \A r, m : HandleGetState(r, m) => Grow BY DEF HandleGetState, checkpointVars, viewVars
  <2>15. \A r, m : HandleSetState(r, m) => Grow BY <2>1 DEF HandleSetState
  <2>16. \A r : Restart(r) => Grow BY DEF Restart, checkpointVars, viewVars
  <2> HIDE DEF Grow
  <2> QED BY <1>2, <2>2, <2>3, <2>4, <2>5, <2>6, <2>7, <2>8, <2>9, <2>10, <2>11, <2>12, <2>13, <2>14, <2>15, <2>16
          DEF Next
<1>3. Grow BY <1>1, <1>2
<1>4. \A q \in Correct : view[q] \in Int /\ view'[q] \in Int /\ view'[q] <= 2
  BY SMTT(60), BoundsAssumption DEF TInv, ViewsOK, Views, FirstViewChange
<1>5. \A q \in Correct : view[q] <= 2
  <2>1. adopted' = {} BY DEF FirstViewChange
  <2> QED BY SMTT(60), <1>3, <1>4, <2>1
<1> QED BY <1>3, <1>5 DEF FirstViewChange

LEMMA NextFirst ==
    ASSUME TInv, TInv', IInv, FirstInv, [Next]_vars, FirstViewChange' PROVE FirstInv'
<1> DEFINE Quiet == /\ UNCHANGED <<view, viewValid, viewchanges, newviews>>
                    /\ UNCHANGED <<accepted, prepared, prepares, commits>>
                    /\ UNCHANGED <<committed, applied>> /\ checkpoints \subseteq checkpoints'
<1>1. ASSUME Quiet PROVE FirstInv'
  <2>1. \A q \in Correct : \A p \in committed'[q] \cup applied'[q] : HasQuorum(commits, p)
    BY <1>1 DEF FirstInv, Committed
  <2> QED BY <1>1, <2>1, QuietFirst
<1>2. CASE UNCHANGED vars BY <1>1, <1>2 DEF vars, voteVars, viewVars, serviceVars, checkpointVars
<1>3. CASE Next
  <2>1. FirstViewChange BY MonotoneFirst
  <2>2. PICK r \in Correct :
          \/ \E o \in Operations : HandlePreprepare(r, o)
          \/ \E o \in preprepared[r] : HandlePrepare(r, o)
          \/ \E o \in prepared[r] : HandleCommit(r, o)
          \/ HandleFailure(r)
          \/ \E v \in Views : JoinViewchange(r, v)
          \/ \E v \in Views : SendNewview(r, v)
          \/ \E m \in newviews \cup FaultyNewviews : HandleNewview(r, m)
          \/ \E m \in setstates \cup UnverifiedSetstates(r) : HandleSetState(r, m)
          \/ \E h \in Requests : HandleRequest(r, h)
          \/ ExecuteHandler(r)
          \/ \E m \in SentViewchanges : HandleViewchange(r, m)
          \/ \E m \in checkpoints \cup UnverifiedCheckpoints(r) : HandleCheckpointMessage(r, m)
          \/ \E q \in cp[r].proof : CatchupTimeout(r, q)
          \/ \E m \in getstates : HandleGetState(r, m)
          \/ Restart(r)
    BY <1>3 DEF Next
  <2>3. \A o \in preprepared[r] : o \in Operations BY DEF TInv, VotesOK
  <2>4. ASSUME NEW o \in Operations, HandlePreprepare(r, o) PROVE FirstInv' BY <2>4, PreprepareFirst
  <2>5. ASSUME NEW o \in preprepared[r], HandlePrepare(r, o) PROVE FirstInv' BY <2>3, <2>5, PrepareFirst
  <2>6. ASSUME NEW o, HandleCommit(r, o) PROVE FirstInv' BY <2>6, CommitFirst
  <2>7. HandleFailure(r) => FirstInv' BY FailureFirst
  <2>8. ASSUME NEW v \in Views, JoinViewchange(r, v) PROVE FirstInv' BY <2>8, JoinFirst
  <2>9. ASSUME NEW v \in Views, SendNewview(r, v) PROVE FirstInv' BY <2>9, SendNewviewFirst
  <2>10. ASSUME NEW m \in newviews \cup FaultyNewviews, HandleNewview(r, m) PROVE FirstInv'
    BY <2>1, <2>10, NewviewFirst
  <2>11. ASSUME NEW m \in setstates \cup UnverifiedSetstates(r), HandleSetState(r, m) PROVE FirstInv'
    BY <2>11, SetStateFirst DEF FirstViewChange
  <2>12. ASSUME NEW h, HandleRequest(r, h) PROVE Quiet
    BY <2>12 DEF HandleRequest, serviceVars, checkpointVars
  <2>13. ASSUME ExecuteHandler(r) PROVE Quiet
    <3>1. UNCHANGED <<cp, checkpoints, preprepared, prepared, committed>>
      <4>1. CASE (executed[r] + 1) % CheckpointInterval = 0
        <5>1. checkpoints' = checkpoints \cup {[sender |-> r, seq |-> executed[r] + 1]}
          BY <2>13, <4>1 DEF ExecuteHandler
        <5>2. checkpoints' = {} BY DEF FirstViewChange
        <5>3. [sender |-> r, seq |-> executed[r] + 1] \in checkpoints' BY <5>1
        <5> QED BY <5>2, <5>3
      <4>2. CASE ~((executed[r] + 1) % CheckpointInterval = 0)
        BY <2>13, <4>2 DEF ExecuteHandler
      <4> QED BY <4>1, <4>2
    <3> QED BY <2>13, <3>1 DEF ExecuteHandler, viewVars
  <2>14. ASSUME NEW m, HandleViewchange(r, m) \/ HandleCheckpointMessage(r, m) PROVE Quiet
    BY <2>14 DEF HandleViewchange, HandleCheckpointMessage, voteVars, viewVars, serviceVars
  <2>15. ASSUME NEW q, CatchupTimeout(r, q) PROVE Quiet
    BY <2>15 DEF CatchupTimeout, voteVars, viewVars, serviceVars
  <2>16. ASSUME NEW m, HandleGetState(r, m) PROVE Quiet
    BY <2>16 DEF HandleGetState, voteVars, viewVars, serviceVars
  <2>17. Restart(r) => Quiet BY DEF Restart, voteVars
  <2> HIDE DEF Quiet
  <2> QED BY <1>1, <2>2, <2>4, <2>5, <2>6, <2>7, <2>8, <2>9, <2>10, <2>11, <2>12, <2>13, <2>14,
             <2>15, <2>16, <2>17
<1> QED BY <1>2, <1>3

LEMMA FirstAlways == Spec => [](TInv /\ IInv /\ (FirstViewChange => FirstInv))
<1> DEFINE F == FirstViewChange => FirstInv
<1>1. Init => TInv /\ IInv /\ F BY InitTInv, InitIInv, InitFirst
<1>2. TInv /\ IInv /\ F /\ [Next]_vars => (TInv /\ IInv /\ F)'
  BY NextTInv, NextIInv, NextFirst, MonotoneFirst
<1> HIDE DEF F
<1>3. Spec => [](TInv /\ IInv /\ F) BY <1>1, <1>2, PTL DEF Spec
<1> QED BY <1>3 DEF F

(* Through the first view change, before the first checkpoint, a request   *)
(* that some replica has committed is in the O of every NEWVIEW that a     *)
(* correct primary announces, whichever VIEWCHANGEs it counts and whatever *)
(* checkpoint evidence their senders were handed.                          *)
THEOREM CommittedCarriedOverTheorem == Spec => []CommittedCarriedOver
<1>1. TInv /\ IInv /\ (FirstViewChange => FirstInv) => CommittedCarriedOver
  BY FirstCarriedOver DEF CommittedCarriedOver
<1> QED BY <1>1, FirstAlways, PTL

(* As long as that lasts, do_committed never posts two requests for one    *)
(* sequence to the services, of one replica or of two, in the first view   *)
(* or across the view change.                                              *)
THEOREM ApplyAgreementTheorem == Spec => []ApplyAgreement
<1>1. TInv /\ IInv /\ (FirstViewChange => FirstInv) => ApplyAgreement
  BY FirstApplyAgreement DEF ApplyAgreement
<1> QED BY <1>1, FirstAlways, PTL

=============================================================================
