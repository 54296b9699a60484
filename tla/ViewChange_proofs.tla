------------------------- MODULE ViewChange_proofs -------------------------
(***************************************************************************)
(* The safety of ViewChange for any swarm and any number of views.  What   *)
(* handle_newview counts is what a NEWVIEW carries, which is what its      *)
(* sender had in a tally, which holds only replicas that asked; replicas   *)
(* that asked stay in the set of askers, so the count survives every step. *)
(***************************************************************************)
EXTENDS ViewChange, FiniteSetTheorems, TLAPS

USE ZenonT(60)

(* A sender in a tally has asked for that view.                            *)
TalliesReal == \A r \in Peers, v \in Views : tally[r][v] \subseteq Askers(v)

(* So have the senders of the VIEWCHANGEs in a NEWVIEW.                    *)
NewviewsReal == \A m \in newviews : m.senders \subseteq Askers(m.vcView)

(* A view whose NEWVIEW some replica has saved was asked for by 2f+1.      *)
SavedAskedFor == \A v \in saved : Cardinality(Askers(v)) >= honest_majority_size(N)

IInv ==
    /\ TypeOK /\ TalliesReal /\ NewviewsReal /\ SavedAskedFor
    /\ ViewsAreAskedFor /\ InvalidViewAsked

(* The thresholds are numbers.                                             *)
LEMMA Numbers == N \in Nat /\ max_faulty_nodes \in Int
  BY SMTT(60), PeersAssumption, FS_CardinalityType DEF N, max_faulty_nodes, faulty_nodes_bound

(* The voting quorum is the threshold that handle_newview tests.           *)
LEMMA Majority == honest_majority_size(N) = 2 * max_faulty_nodes + 1
<1>1. faulty_nodes_bound(N) \in Int
  BY Numbers DEF max_faulty_nodes
<1> QED BY SMTT(60), <1>1 DEF honest_majority_size, max_faulty_nodes

(* Of two sets of peers the larger has the larger cardinality.             *)
LEMMA Cardinalities ==
    ASSUME NEW A, NEW B \in SUBSET Peers, A \subseteq B
    PROVE  Cardinality(A) <= Cardinality(B) /\ Cardinality(A) \in Nat /\ Cardinality(B) \in Nat
  BY PeersAssumption, FS_Subset, FS_CardinalityType

(* Askers are peers.                                                       *)
LEMMA AskersArePeers == TypeOK => \A v : Askers(v) \subseteq Peers
  BY SMTT(60) DEF TypeOK, Askers, Viewchanges

(* The invariant holds of a new swarm.                                     *)
LEMMA InitIInv == Init => IInv
  BY SMTT(60), PeersAssumption DEF Init, IInv, TypeOK, TalliesReal, NewviewsReal, SavedAskedFor,
     ViewsAreAskedFor, InvalidViewAsked, Views

(* What both callers of initiate_viewchange get from it.                   *)
LEMMA AskedStep ==
    ASSUME TypeOK, InvalidViewAsked, NEW r \in Peers, NEW v \in Views, v > view[r],
           initiate_viewchange(r, v), UNCHANGED <<view, states>>
    PROVE  /\ viewchanges' = viewchanges \cup {[sender |-> r, view |-> v]}
           /\ viewValid' \in [Peers -> BOOLEAN] /\ lastViewSent' \in [Peers -> Views \cup {0}]
           /\ viewchanges' \subseteq Viewchanges
           /\ InvalidViewAsked'
<1>1. /\ viewchanges' = viewchanges \cup {[sender |-> r, view |-> v]}
      /\ viewchanges' \subseteq Viewchanges
  BY SMTT(60) DEF initiate_viewchange, TypeOK, Viewchanges
<1>2. viewValid' \in [Peers -> BOOLEAN] /\ lastViewSent' \in [Peers -> Views \cup {0}]
  BY DEF initiate_viewchange, TypeOK
<1>5. InvalidViewAsked'
  <2> SUFFICES ASSUME NEW q \in Peers, ~viewValid'[q], states[q] = 0
               PROVE  /\ lastViewSent'[q] > view[q]
                      /\ [sender |-> q, view |-> lastViewSent'[q]] \in viewchanges'
    BY DEF InvalidViewAsked
  <2>1. CASE q = r
    <3>1. lastViewSent'[q] = v
      BY <2>1 DEF initiate_viewchange, TypeOK
    <3> QED BY <2>1, <3>1, <1>1
  <2>2. CASE q # r
    <3>1. lastViewSent'[q] = lastViewSent[q] /\ viewValid'[q] = viewValid[q]
      BY <2>2 DEF initiate_viewchange, TypeOK
    <3> QED BY <2>2, <3>1, <1>1 DEF InvalidViewAsked
  <2> QED BY <2>1, <2>2
<1> QED BY <1>1, <1>2, <1>5

(* Askers only accumulate, so a view that was asked for stays so.          *)
LEMMA AskedForPersists ==
    ASSUME TypeOK', ViewsAreAskedFor, SavedAskedFor, UNCHANGED <<view, saved>>,
           viewchanges \subseteq viewchanges'
    PROVE  ViewsAreAskedFor' /\ SavedAskedFor'
<1>1. ASSUME NEW v, Cardinality(Askers(v)) >= 2 * max_faulty_nodes + 1
      PROVE  Cardinality(Askers(v)') >= 2 * max_faulty_nodes + 1
  <2>1. Askers(v) \subseteq Askers(v)'
    BY DEF Askers
  <2>2. Askers(v)' \in SUBSET Peers
    BY SMTT(60) DEF TypeOK, Askers, Viewchanges
  <2> HIDE DEF max_faulty_nodes
  <2> QED BY SMTT(60), <1>1, <2>1, <2>2, Cardinalities, Numbers
<1>2. ViewsAreAskedFor'
  <2> SUFFICES ASSUME NEW r \in Peers, view'[r] > 1
               PROVE  Cardinality(Askers(view[r])') >= 2 * max_faulty_nodes + 1
    BY Majority DEF ViewsAreAskedFor, Askers
  <2> QED BY <1>1, Majority DEF ViewsAreAskedFor
<1>3. SavedAskedFor'
  <2> SUFFICES ASSUME NEW v \in saved
               PROVE  Cardinality(Askers(v)') >= 2 * max_faulty_nodes + 1
    BY Majority DEF SavedAskedFor, Askers
  <2> QED BY <1>1, Majority DEF SavedAskedFor
<1> QED BY <1>2, <1>3

(* Nor does a step that adds VIEWCHANGEs and leaves tallies and NEWVIEWs   *)
(* alone make either of them name a replica that has not asked.            *)
LEMMA RealPersists ==
    ASSUME TalliesReal, NewviewsReal, UNCHANGED <<tally, newviews>>,
           viewchanges \subseteq viewchanges'
    PROVE  TalliesReal' /\ NewviewsReal'
  BY SMTT(60) DEF TalliesReal, NewviewsReal, Askers

(* handle_failure keeps the invariant.                                     *)
LEMMA FailureStep ==
    ASSUME IInv, NEW r \in Peers, HandleFailure(r)
    PROVE  IInv'
<1>1. /\ initiate_viewchange(r, view[r] + 1) /\ view[r] + 1 \in Views
      /\ UNCHANGED <<view, tally, newviews, saved, states>>
  BY DEF HandleFailure
<1>2. view[r] \in Int
  BY SMTT(60) DEF IInv, TypeOK, Views
<1>3. view[r] + 1 > view[r]
  BY SMTT(60), <1>2
<1>4. /\ viewchanges \subseteq viewchanges' /\ viewchanges' \subseteq Viewchanges
      /\ viewValid' \in [Peers -> BOOLEAN] /\ lastViewSent' \in [Peers -> Views \cup {0}]
      /\ InvalidViewAsked'
  BY <1>1, <1>3, AskedStep DEF IInv
<1>5. TypeOK'
  BY <1>1, <1>4 DEF IInv, TypeOK
<1>6. TalliesReal' /\ NewviewsReal'
  BY <1>1, <1>4, RealPersists DEF IInv
<1>7. ViewsAreAskedFor' /\ SavedAskedFor'
  BY <1>1, <1>4, <1>5, AskedForPersists DEF IInv
<1> QED BY <1>4, <1>5, <1>6, <1>7 DEF IInv

(* handle_viewchange keeps it, whether or not it joins or announces.       *)
LEMMA ViewchangeStep ==
    ASSUME IInv, NEW r \in Peers, NEW m \in viewchanges, HandleViewchange(r, m)
    PROVE  IInv'
<1> DEFINE t == [tally[r] EXCEPT ![m.view] = @ \cup {m.sender}]
<1>1. m.view \in Views /\ m.sender \in Peers /\ m.sender \in Askers(m.view)
  BY DEF IInv, TypeOK, Viewchanges, Askers
<1>2. /\ m.view > view[r] /\ UNCHANGED <<view, saved, states>> /\ tally' = [tally EXCEPT ![r] = t]
      /\ announce(r, m.view, t)
      /\ \/ initiate_viewchange(r, m.view)
         \/ UNCHANGED <<viewValid, lastViewSent, viewchanges>>
  BY DEF HandleViewchange
<1>3. t \in [Views -> SUBSET Peers] /\ \A v \in Views : t[v] \subseteq Askers(v)
  BY SMTT(60), <1>1 DEF IInv, TypeOK, TalliesReal
<1> HIDE DEF t
<1>4. /\ viewchanges \subseteq viewchanges' /\ viewchanges' \subseteq Viewchanges
      /\ viewValid' \in [Peers -> BOOLEAN] /\ lastViewSent' \in [Peers -> Views \cup {0}]
      /\ InvalidViewAsked'
  <2>1. CASE initiate_viewchange(r, m.view)
    BY <2>1, <1>1, <1>2, AskedStep DEF IInv
  <2>2. CASE UNCHANGED <<viewValid, lastViewSent, viewchanges>>
    BY <2>2, <1>2 DEF IInv, TypeOK, InvalidViewAsked
  <2> QED BY <2>1, <2>2, <1>2
<1>5. \A v : Askers(v) \subseteq Askers(v)'
  BY <1>4 DEF Askers
<1>6. tally' \in [Peers -> [Views -> SUBSET Peers]] /\ TalliesReal'
  BY <1>2, <1>3, <1>5 DEF IInv, TypeOK, TalliesReal
<1>7. \A x \in newviews' : x \in newviews \/ \E p \in Views :
          x = [sender |-> r, view |-> p, vcView |-> m.view, senders |-> t[m.view]]
  BY <1>2 DEF announce, FirstDue, Due
<1>8. newviews' \subseteq Newviews /\ NewviewsReal'
  <2> SUFFICES ASSUME NEW x \in newviews'
               PROVE  x \in Newviews /\ x.senders \subseteq Askers(x.vcView)'
    BY DEF NewviewsReal, Askers
  <2>1. CASE x \in newviews
    BY <2>1, <1>5 DEF IInv, TypeOK, NewviewsReal
  <2>2. CASE x \notin newviews
    <3>1. PICK p \in Views :
            x = [sender |-> r, view |-> p, vcView |-> m.view, senders |-> t[m.view]]
      BY <2>2, <1>7
    <3>2. x.senders \subseteq Askers(x.vcView)
      BY <3>1, <1>1, <1>3
    <3> QED BY <3>1, <3>2, <1>1, <1>3, <1>5 DEF Newviews
  <2> QED BY <2>1, <2>2
<1>9. TypeOK'
  BY <1>2, <1>4, <1>6, <1>8 DEF IInv, TypeOK
<1>10. ViewsAreAskedFor' /\ SavedAskedFor'
  BY <1>2, <1>4, <1>9, AskedForPersists DEF IInv
<1> QED BY <1>4, <1>6, <1>8, <1>9, <1>10 DEF IInv

(* handle_newview keeps it: the 2f+1 senders it counted have asked.        *)
LEMMA NewviewStep ==
    ASSUME IInv, NEW r \in Peers, NEW m \in newviews, HandleNewview(r, m)
    PROVE  IInv'
<1>1. /\ view' = [view EXCEPT ![r] = m.view] /\ viewValid' = [viewValid EXCEPT ![r] = TRUE]
      /\ UNCHANGED <<lastViewSent, tally, viewchanges, newviews, states>>
      /\ saved' = saved \cup {m.view}
      /\ Cardinality(m.senders) >= 2 * max_faulty_nodes + 1 /\ m.vcView = m.view
  BY DEF HandleNewview, is_valid_newview_message
<1>2. m.view \in Views
  BY DEF IInv, TypeOK, Newviews
<1>3. TypeOK' /\ TalliesReal' /\ NewviewsReal'
  BY <1>1, <1>2 DEF IInv, TypeOK, TalliesReal, NewviewsReal, Askers
<1>4. Cardinality(Askers(m.view)) >= 2 * max_faulty_nodes + 1
  <2>1. m.senders \subseteq Askers(m.view) /\ Askers(m.view) \in SUBSET Peers
    BY <1>1, AskersArePeers DEF IInv, NewviewsReal
  <2> HIDE DEF max_faulty_nodes
  <2> QED BY SMTT(60), <1>1, <2>1, Cardinalities, Numbers
<1>5. ViewsAreAskedFor'
  <2> SUFFICES ASSUME NEW q \in Peers, view'[q] > 1
               PROVE  Cardinality(Askers(view'[q])) >= 2 * max_faulty_nodes + 1
    BY <1>1, Majority DEF ViewsAreAskedFor, Askers
  <2> QED BY <1>1, <1>4, Majority DEF IInv, TypeOK, ViewsAreAskedFor
<1>6. SavedAskedFor'
  <2> SUFFICES ASSUME NEW v \in saved'
               PROVE  Cardinality(Askers(v)) >= 2 * max_faulty_nodes + 1
    BY <1>1, Majority DEF SavedAskedFor, Askers
  <2> QED BY <1>1, <1>4, Majority DEF IInv, SavedAskedFor
<1>7. InvalidViewAsked'
  <2> SUFFICES ASSUME NEW q \in Peers, ~viewValid'[q], states[q] = 0
               PROVE  /\ lastViewSent[q] > view'[q]
                      /\ [sender |-> q, view |-> lastViewSent[q]] \in viewchanges
    BY <1>1 DEF InvalidViewAsked
  <2>1. q # r /\ view'[q] = view[q] /\ ~viewValid[q]
    BY <1>1 DEF IInv, TypeOK
  <2> QED BY <2>1 DEF IInv, InvalidViewAsked
<1> QED BY <1>3, <1>5, <1>6, <1>7 DEF IInv

(* handle_set_state keeps it: the view comes from a saved NEWVIEW, and     *)
(* with it the replica is excepted from InvalidViewAsked.                  *)
LEMMA SetStateStep ==
    ASSUME IInv, NEW r \in Peers, HandleSetState(r)
    PROVE  IInv'
<1>1. PICK v \in saved : view' = [view EXCEPT ![r] = v]
  BY DEF HandleSetState
<1>2. /\ states' = [states EXCEPT ![r] = @ + 1]
      /\ UNCHANGED <<viewValid, lastViewSent, tally, viewchanges, newviews, saved>>
  BY DEF HandleSetState
<1>3. v \in Views
  BY DEF IInv, TypeOK
<1>4. states' \in [Peers -> Nat] /\ states'[r] # 0 /\ \A q \in Peers : q # r => states'[q] = states[q]
  BY SMTT(60), <1>2 DEF IInv, TypeOK
<1>5. TypeOK' /\ TalliesReal' /\ NewviewsReal' /\ SavedAskedFor'
  BY <1>1, <1>2, <1>3, <1>4 DEF IInv, TypeOK, TalliesReal, NewviewsReal, SavedAskedFor, Askers
<1>6. ViewsAreAskedFor'
  <2> SUFFICES ASSUME NEW q \in Peers, view'[q] > 1
               PROVE  Cardinality(Askers(view'[q])) >= honest_majority_size(N)
    BY <1>2 DEF ViewsAreAskedFor, Askers
  <2>1. CASE q = r
    <3>1. view'[q] = v
      BY <1>1, <2>1 DEF IInv, TypeOK
    <3> QED BY <3>1 DEF IInv, SavedAskedFor
  <2>2. CASE q # r
    <3>1. view'[q] = view[q]
      BY <1>1, <2>2 DEF IInv, TypeOK
    <3> QED BY <3>1 DEF IInv, ViewsAreAskedFor
  <2> QED BY <2>1, <2>2
<1>7. InvalidViewAsked'
  <2> SUFFICES ASSUME NEW q \in Peers, ~viewValid[q], states'[q] = 0
               PROVE  /\ lastViewSent[q] > view'[q]
                      /\ [sender |-> q, view |-> lastViewSent[q]] \in viewchanges
    BY <1>2 DEF InvalidViewAsked
  <2>1. q # r /\ view'[q] = view[q] /\ states[q] = 0
    BY <1>1, <1>4 DEF IInv, TypeOK
  <2> QED BY <2>1 DEF IInv, InvalidViewAsked
<1> QED BY <1>5, <1>6, <1>7 DEF IInv

(* So does every step.                                                     *)
LEMMA NextIInv == IInv /\ [Next]_vars => IInv'
<1> SUFFICES ASSUME IInv, [Next]_vars PROVE IInv'
  OBVIOUS
<1>1. CASE Next
  BY <1>1, FailureStep, ViewchangeStep, NewviewStep, SetStateStep DEF Next
<1>2. CASE UNCHANGED vars
  BY <1>2 DEF vars, IInv, TypeOK, TalliesReal, NewviewsReal, SavedAskedFor,
     ViewsAreAskedFor, InvalidViewAsked, Askers
<1> QED BY <1>1, <1>2

(* Each variable of ViewChange keeps its type.                             *)
THEOREM TypeTheorem == Spec => []TypeOK
<1>1. IInv => TypeOK
  BY DEF IInv
<1> QED BY <1>1, InitIInv, NextIInv, PTL DEF Spec

(* A replica enters a view, by a NEWVIEW or with a state, only after 2f+1  *)
(* replicas asked for it, however messages are ordered and whichever       *)
(* replicas stop.                                                          *)
THEOREM ViewsAreAskedForTheorem == Spec => []ViewsAreAskedFor
<1>1. IInv => ViewsAreAskedFor
  BY DEF IInv
<1> QED BY <1>1, InitIInv, NextIInv, PTL DEF Spec

(* A replica that drops messages because its view is invalid, and has      *)
(* taken no state from another, has asked for a later view.                *)
THEOREM InvalidViewAskedTheorem == Spec => []InvalidViewAsked
<1>1. IInv => InvalidViewAsked
  BY DEF IInv
<1> QED BY <1>1, InitIInv, NextIInv, PTL DEF Spec

=============================================================================
