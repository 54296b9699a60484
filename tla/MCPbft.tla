------------------------------- MODULE MCPbft -------------------------------
(***************************************************************************)
(* Four replicas and two requests.  The primary of view 1 is p2, that of   *)
(* view 2 is p3 and that of view 3 is p4.                                  *)
(***************************************************************************)
EXTENDS Pbft, TLC
CONSTANTS p1, p2, p3, p4, a, b

MCOrdered == <<p1, p2, p3, p4>>

RequestSymmetry == Permutations(Requests)

(* With one view the order of the peers only picks p2 as its primary, so   *)
(* p3 and p4 are interchangeable.                                          *)
BackupSymmetry == Permutations({p3, p4})

(* Bounds on the search *)
OneStateRequest == Cardinality(getstates) <= 1
SmallProofs == \A r \in Correct : Cardinality(cp[r].proof) <= 2
NothingExecuted == \A r \in Correct : executed[r] = 0
ExecutedFirst == \A r \in Correct : executed[r] = 1 => r = p1 /\ viewchanges = {}
NoNullProposed == \A r \in Correct : \A o \in accepted[r] : o.hash # NullRequest

(* An exposed replica hears of a checkpoint, reached or not, once it has    *)
(* committed something, from p3 and p4; what a SET_STATE makes of it is     *)
(* not followed.                                                            *)
LateEvidence ==
    /\ adopted = {} /\ getstates = {}
    /\ \A r \in Correct : cp[r] # InitialManager(Seqs) =>
          committed[r] # {} /\ cp[r].partial[1] \subseteq {p3} /\ cp[r].proof \subseteq {p3, p4}

(* handle_preprepare takes a preprepare from any peer, so what the primary  *)
(* of view 1 could propose a faulty replica proposes as well.               *)
FaultyProposesFirst == \A m \in preprepares : m.op.view > 1

(* Directs the search at one schedule: a is prepared by p1 alone in view 1; *)
(* p1 misses view 2, in which p2 commits b; p1, p2 and p3 ask for view 3.   *)
OldProofSchedule ==
    /\ NothingExecuted
    /\ view[p1] # 2
    /\ \A r \in Correct : \A o \in accepted[r] :
          (o.view = 1 => o.hash = a) /\ (o.view = 2 => o.hash = b)
    /\ \A r \in Correct : \A o \in prepared[r] : o.view = 1 => r = p1
    /\ \A r \in Correct : applied[r] # {} => r = p2
    /\ \A m \in viewchanges : m.sender # (IF m.view = 2 THEN p1 ELSE p4)

(* Directs the search at one schedule: p4 is slow; p2 and p3 execute a and  *)
(* stabilise its checkpoint before they, and p1, ask for view 2.            *)
StaleBaseSchedule ==
    /\ accepted[p4] = {}
    /\ \A r \in Correct : \A o \in accepted[r] : o.hash = IF o.view = 1 THEN a ELSE b
    /\ \A r \in Correct : executed[r] = 1 => r \in {p2, p3}
    /\ \A r \in Correct : cp[r] # InitialManager(Seqs) => r \in {p2, p3}
    /\ \A m \in viewchanges : m.seq = IF m.sender = p1 THEN 0 ELSE 1
=============================================================================
