----------------------------- MODULE ViewChange -----------------------------
(***************************************************************************)
(* handle_failure, handle_viewchange, handle_newview and handle_set_state  *)
(* one message at a time: when a replica asks for a view, joins the        *)
(* replicas that ask, and moves.  What the messages carry about requests   *)
(* and checkpoints is left to Pbft, which in turn folds the deliveries of  *)
(* VIEWCHANGEs that precede a threshold into the one that reaches it.      *)
(*                                                                         *)
(* The thresholds are tested for equality with the size of a tally that    *)
(* counts one message per sender, so a test that fails on the delivery     *)
(* reaching the size is not repeated by a later one: the order in which    *)
(* messages arrive decides whether a replica takes part.                   *)
(*                                                                         *)
(* No replica lies here; some stop and do not return.                      *)
(***************************************************************************)
EXTENDS PbftQuorum

CONSTANTS
    Peers,      \* uuids of the swarm
    Ordered,    \* peers_beacon->ordered()
    Stopped,    \* the replicas that take no step
    Live,       \* the replicas that do not stop; any other may do so at any time
    Behind,     \* the replicas that may take a state from another
    MaxView,    \* bound on views
    MaxStates   \* bound on the states each of them takes

N == Cardinality(Peers)
Views == 1 .. MaxView

ASSUME PeersAssumption ==
    /\ IsFiniteSet(Peers) /\ Peers # {}
    /\ Stopped \subseteq Peers /\ Live \subseteq Peers \ Stopped /\ Behind \subseteq Peers
    /\ Ordered \in [1 .. N -> Peers]
    /\ MaxView \in Nat \ {0} /\ MaxStates \in Nat

VARIABLES
    view, viewValid, lastViewSent,  \* of each replica
    tally,        \* valid_viewchange_messages_for_view: view -> senders
    viewchanges,  \* VIEWCHANGEs sent
    newviews,     \* NEWVIEWs sent: vcView is the view of the VIEWCHANGEs in V
    saved,        \* the views whose NEWVIEW some replica has had as saved_newview
    states        \* the number of SET_STATEs that gave each replica its view

vars == <<view, viewValid, lastViewSent, tally, viewchanges, newviews, saved, states>>

Viewchanges == [sender : Peers, view : Views]
Newviews == [sender : Peers, view : Views, vcView : Views, senders : SUBSET Peers]

(* Mutant of max_faulty_nodes: this replica is not counted *)
max_faulty_nodes_others == faulty_nodes_bound(N - 1)

max_faulty_nodes == faulty_nodes_bound(N)
predict_primary(v) == Ordered[(v % N) + 1]

-----------------------------------------------------------------------------
(* Mutant of initiate_viewchange: last_view_sent is not set *)
initiate_viewchange_forgotten(r, v) ==
    /\ viewValid' = [viewValid EXCEPT ![r] = FALSE]
    /\ viewchanges' = viewchanges \cup {[sender |-> r, view |-> v]}
    /\ UNCHANGED lastViewSent

(* initiate_viewchange(v), past the test of last_view_sent *)
initiate_viewchange(r, v) ==
    /\ viewValid' = [viewValid EXCEPT ![r] = FALSE]
    /\ lastViewSent' = [lastViewSent EXCEPT ![r] = v]
    /\ viewchanges' = viewchanges \cup {[sender |-> r, view |-> v]}

(* Mutant of HandleFailure: asks for the view after the last one asked for *)
HandleFailureEscalating(r) ==
    /\ view[r] + 1 \in Views
    /\ initiate_viewchange(r, lastViewSent[r] + 1)
    /\ UNCHANGED <<view, tally, newviews, saved, states>>

(* handle_failure, called by the error handler that pbft::start registered *)
(* with the node: a send to the primary failed.                            *)
HandleFailure(r) ==
    /\ view[r] + 1 \in Views
    /\ view[r] + 1 > lastViewSent[r]
    /\ initiate_viewchange(r, view[r] + 1)
    /\ UNCHANGED <<view, tally, newviews, saved, states>>

(* The test in handle_viewchange for joining the replicas that ask for v,  *)
(* on the tally t that holds the new message.                              *)
Joins(r, v, t) ==
    /\ viewValid[r]
    /\ Cardinality(t[v]) = max_faulty_nodes + 1
    /\ v > lastViewSent[r]

(* Mutant of Due: more than 2f+1 *)
DueLate(r, t) ==
    {p \in Views : /\ predict_primary(p) = r
                   /\ p > view[r]
                   /\ Cardinality(t[p]) > 2 * max_faulty_nodes + 1}

(* The views whose NEWVIEW is due, and the one find_if stops at *)
Due(r, t) ==
    {p \in Views : /\ predict_primary(p) = r
                   /\ p > view[r]
                   /\ Cardinality(t[p]) = 2 * max_faulty_nodes + 1}
FirstDue(r, t) == {p \in Due(r, t) : \A q \in Due(r, t) : p <= q}

(* The NEWVIEW announces the view found in the tallies, and carries the    *)
(* VIEWCHANGEs recorded for the view v of the message being handled.       *)
announce(r, v, t) ==
    newviews' = newviews \cup
        {[sender |-> r, view |-> p, vcView |-> v, senders |-> t[v]] : p \in FirstDue(r, t)}

HandleViewchange(r, m) ==
    LET t == [tally[r] EXCEPT ![m.view] = @ \cup {m.sender}] IN
    /\ m.view > view[r]
    /\ tally' = [tally EXCEPT ![r] = t]
    /\ IF Joins(r, m.view, t)
       THEN initiate_viewchange(r, m.view)
       ELSE UNCHANGED <<viewValid, lastViewSent, viewchanges>>
    /\ announce(r, m.view, t)
    /\ UNCHANGED <<view, saved, states>>

is_valid_newview_message(r, m) ==
    /\ m.sender = predict_primary(m.view)
    /\ Cardinality(m.senders) >= 2 * max_faulty_nodes + 1
    /\ m.vcView > view[r]
    /\ m.vcView = m.view

HandleNewview(r, m) ==
    /\ is_valid_newview_message(r, m)
    /\ view' = [view EXCEPT ![r] = m.view]
    /\ viewValid' = [viewValid EXCEPT ![r] = TRUE]
    /\ saved' = saved \cup {m.view}
    /\ UNCHANGED <<lastViewSent, tally, viewchanges, newviews, states>>

(* handle_set_state, when the replica takes the state: its view becomes    *)
(* that of the NEWVIEW its sender had saved, later or earlier than its     *)
(* own; view_is_valid and last_view_sent stay as they are.  The SET_STATE  *)
(* may have been sent at any time since the NEWVIEW was saved.             *)
HandleSetState(r) ==
    /\ r \in Behind /\ states[r] < MaxStates
    /\ \E v \in saved \ {view[r]} : view' = [view EXCEPT ![r] = v]
    /\ states' = [states EXCEPT ![r] = @ + 1]
    /\ UNCHANGED <<viewValid, lastViewSent, tally, viewchanges, newviews, saved>>

-----------------------------------------------------------------------------
Init ==
    /\ view = [r \in Peers |-> 1]
    /\ viewValid = [r \in Peers |-> TRUE]
    /\ lastViewSent = [r \in Peers |-> 0]
    /\ tally = [r \in Peers |-> [v \in Views |-> {}]]
    /\ viewchanges = {} /\ newviews = {} /\ saved = {}
    /\ states = [r \in Peers |-> 0]

Next == \E r \in Peers \ Stopped :
    \/ HandleFailure(r)
    \/ \E m \in viewchanges : HandleViewchange(r, m)
    \/ \E m \in newviews : HandleNewview(r, m)
    \/ HandleSetState(r)

Spec == Init /\ [][Next]_vars

(* A message sent reaches every replica that stays up: the node keeps a    *)
(* websocket session to each peer and reconnects to send.  What was queued *)
(* on a session that dies is lost with it and not sent again, so this      *)
(* assumes sessions between replicas that stay up.  Of the deliveries due  *)
(* one is made: each adds to a tally or raises a view, so none is for ever *)
(* passed over.                                                            *)
Receive(r) == \E m \in viewchanges : m.sender \notin tally[r][m.view] /\ HandleViewchange(r, m)
Enter(r) == \E m \in newviews : HandleNewview(r, m)
Fairness == WF_vars(\E r \in Live : Receive(r) \/ Enter(r))
FairSpec == Spec /\ Fairness

-----------------------------------------------------------------------------
(* Each variable has its type. *)
TypeOK ==
    /\ view \in [Peers -> Views] /\ viewValid \in [Peers -> BOOLEAN]
    /\ lastViewSent \in [Peers -> Views \cup {0}]
    /\ tally \in [Peers -> [Views -> SUBSET Peers]]
    /\ viewchanges \subseteq Viewchanges /\ newviews \subseteq Newviews
    /\ saved \subseteq Views /\ states \in [Peers -> Nat]

Askers(v) == {m.sender : m \in {x \in viewchanges : x.view = v}}

(* A replica moves to a view, by a NEWVIEW or with a state, only after     *)
(* 2f+1 replicas have asked for it, although what handle_newview counts    *)
(* are the VIEWCHANGEs that handle_viewchange put in the NEWVIEW, for a    *)
(* view that find_if chose independently of them.                          *)
ViewsAreAskedFor ==
    \A r \in Peers : view[r] > 1 => Cardinality(Askers(view[r])) >= honest_majority_size(N)

(* A replica whose view is invalid, and so drops every PREPREPARE, PREPARE *)
(* and COMMIT, has a VIEWCHANGE for a later view out, unless it has taken  *)
(* a state: handle_set_state may raise the view to the one asked for, or   *)
(* past it, and leave it invalid.                                          *)
InvalidViewAsked ==
    \A r \in Peers : ~viewValid[r] /\ states[r] = 0 =>
        /\ lastViewSent[r] > view[r]
        /\ [sender |-> r, view |-> lastViewSent[r]] \in viewchanges

(* Once 2f+1 replicas that stay up have asked for a view whose primary     *)
(* stays up, every replica that stays up gets to that view or beyond it.   *)
(* Excepted are a replica, and a primary, that take a state, which may     *)
(* take them back to a view that they do not leave again.                  *)
ViewChangeCompletes ==
    \A v \in Views \ {1} : predict_primary(v) \in Live =>
        (Cardinality(Askers(v) \cap Live) >= 2 * max_faulty_nodes + 1
            ~> \/ states[predict_primary(v)] > 0
               \/ \A r \in Live : view[r] >= v \/ states[r] > 0)

(* Once f+1 replicas have asked for a view, every replica that stays up    *)
(* asks for it too or gets there without asking.                           *)
EveryoneJoins ==
    \A v \in Views \ {1} :
        Cardinality(Askers(v)) >= max_faulty_nodes + 1
            ~> \A r \in Live : view[r] >= v \/ lastViewSent[r] >= v

=============================================================================
