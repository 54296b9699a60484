------------------------------ MODULE Gateway ------------------------------
(***************************************************************************)
(* Where client requests enter a node: sessions accepted from clients, the *)
(* checks pbft::handle_request makes before it issues or forwards a        *)
(* request, and the way of the answer back to the session that asked.      *)
(*                                                                         *)
(* The view is fixed (Pbft models its changes); recent_requests is the     *)
(* set of timestamps and hashes, and issued the history of the requests    *)
(* given a sequence number, with the time this was done.                   *)
(***************************************************************************)
EXTENDS Node, Monitor, FiniteSetsExt

CONSTANTS
    Primary,            \* the primary's endpoint
    MaxAge,             \* MAX_REQUEST_AGE_MS
    AdmissionWindow

ASSUME GatewayAssumption ==
    /\ MaxAge \in Nat /\ AdmissionWindow \in Nat
    /\ \A w \in Works : w.part \in {"peer", "primary", "backup"}
    /\ Primary \in Endpoints /\ "client" \notin Endpoints
    /\ \A w \in Works : \A m \in w.incoming : m.kind = "request" => m.ts \in Nat

VARIABLES
    now,
    waiting,        \* sessions_waiting_on_forwarded_requests
    recent,         \* recent_requests
    timers,         \* the monitor's
    issued,
    executed        \* last_executed_sequence_number

pbftVars == <<waiting, recent, timers, issued, executed>>
vars == <<nodeVars, pbftVars, now>>

is_primary == work.part = "primary"

Init ==
    /\ NodeInit
    /\ now = MaxAge
    /\ waiting = [h \in {} |-> 0] /\ recent = {} /\ timers = NoTimers
    /\ issued = <<>> /\ executed = 0

(* The envelope's hash covers its timestamp. *)
Hash(req, ts) == <<req.name, ts>>

WaitHandler(hash, i) == [kind |-> "wait", hash |-> hash, sid |-> i, holds |-> TRUE]

send_error_response(ss, p, i) == sends' = sends + 1 /\ Deliver(ss, p, i, sends + 1)

(* Mutant of saw_request: everything that is not newer than the clock is   *)
(* forgotten                                                               *)
saw_request_eager(hash, ts) == {r \in recent \cup {<<ts, hash>>} : r[1] > now}

saw_request(hash, ts) == {r \in recent \cup {<<ts, hash>>} : r[1] > now - MaxAge}

(* Mutant of add_session_to_sessions_waiting: no shutdown handler is added *)
add_session_unhandled(hash, i) == sess

(* The sessions once session i waits for the answer to hash *)
add_session_to_sessions_waiting(hash, i) ==
    IF hash \in DOMAIN waiting
    THEN sess
    ELSE [sess EXCEPT ![i] = add_shutdown_handler(@, WaitHandler(hash, i))]

(* handle_request, of a request that session i brought; the posted handler *)
(* that carried it is done.                                                *)
handle_request(req, ts, i, p) ==
    LET hash == Hash(req, ts)
        ss == add_session_to_sessions_waiting(hash, i)
    IN  IF ts < now - MaxAge \/ ts > now + MaxAge \/ req.large
        THEN send_error_response(sess, p, i) /\ UNCHANGED <<pbftVars, sessions>>
        ELSE /\ waiting' = [h \in DOMAIN waiting \cup {hash} |->
                              IF h \in DOMAIN waiting THEN waiting[h] ELSE i]
             /\ timers' = start_timer(timers, hash)
             /\ UNCHANGED executed
             /\ IF ~is_primary
                THEN SendTo(ss, p, Primary) /\ UNCHANGED <<recent, issued>>
                ELSE IF Len(issued) + 1 - executed > AdmissionWindow \/ <<ts, hash>> \in recent
                THEN send_error_response(ss, p, i) /\ UNCHANGED <<recent, issued, sessions>>
                ELSE /\ sess' = ss /\ posted' = p /\ UNCHANGED <<sends, sessions>>
                     /\ recent' = IF req.genuine THEN saw_request(hash, ts) ELSE recent
                     /\ issued' = IF req.genuine
                                  THEN Append(issued, [hash |-> hash, ts |-> ts, at |-> now])
                                  ELSE issued

(* priv_protobuf_handler calls handle_database_message, which gives a      *)
(* request without a timestamp the current time.  A quick read, a          *)
(* subscription or its end is a message of kind "now": apply_operation_now *)
(* has crud answer the session that brought it, and pbft never sees it.    *)
(* Messages of another swarm or without a handler are dropped.             *)
HandleMessage(h) ==
    /\ h.kind = "proto"
    /\ CASE h.msg.kind = "request" ->
              handle_request(h.msg, IF h.msg.ts = 0 THEN now ELSE h.msg.ts, h.sid, posted \ {h})
         [] h.msg.kind = "now" ->
              sends' = sends + 1 /\ Deliver(sess, posted \ {h}, h.sid, sends + 1) /\ UNCHANGED <<sessions, pbftVars>>
         [] OTHER ->
              posted' = posted \ {h} /\ UNCHANGED <<sess, sessions, sends, pbftVars>>
    /\ UNCHANGED <<reads, work, now>>

(* handle_database_response_message and handle_swarm_error_response_message: *)
(* the session goes on waiting, further answers will be sent to it.  An    *)
(* answer nobody waits for is dropped.                                     *)
HandleResponse(hash) ==
    /\ sends < work.sends
    /\ Deliver(sess, posted, waiting[hash], sends + 1)
    /\ sends' = sends + 1
    /\ timers' = finish_timer(timers, hash)
    /\ UNCHANGED <<sessions, reads, waiting, recent, issued, executed, work, now>>

(* The shutdown handler that add_session_to_sessions_waiting registered *)
StopWaiting(h) ==
    /\ h.kind = "wait" /\ posted' = posted \ {h}
    /\ waiting' = IF h.hash \in DOMAIN waiting /\ waiting[h.hash] = h.sid
                  THEN [k \in DOMAIN waiting \ {h.hash} |-> waiting[k]]
                  ELSE waiting
    /\ UNCHANGED <<sess, sessions, sends, reads, recent, timers, issued, executed, work, now>>

(* The execute handler; the checkpoints it takes are in Checkpoint. *)
Execute ==
    /\ executed < Len(issued) /\ executed' = executed + 1
    /\ UNCHANGED <<nodeVars, waiting, recent, timers, issued, now>>

Tick == is_primary /\ now < work.time /\ now' = now + 1 /\ UNCHANGED <<nodeVars, pbftVars>>

NodeWork == NodeStep /\ UNCHANGED <<pbftVars, now>>
PeerSend == work.part = "peer" /\ \E ep \in Endpoints : Send(ep) /\ UNCHANGED <<pbftVars, now>>
ClientAccept == work.part # "peer" /\ Accept("client") /\ UNCHANGED <<pbftVars, now>>

Next ==
    \/ NodeWork \/ PeerSend \/ ClientAccept
    \/ \E h \in posted : HandleMessage(h) \/ StopWaiting(h)
    \/ \E hash \in DOMAIN waiting : HandleResponse(hash)
    \/ Execute \/ Tick

SessionIds == 1..Max({w.sessions : w \in Works})
Messages == 1..Max({w.sends : w \in Works})
Hashes ==
    UNION {UNION {{Hash(msg, t) : t \in IF msg.ts = 0 THEN MaxAge..w.time ELSE {msg.ts}} :
                    msg \in {m \in w.incoming : m.kind = "request" /\ ~m.large}} : w \in Works}

(* The io_context runs what is posted to it or to a strand, the idle timer *)
(* expires and a connection is made or refused.  What needs the peer, a    *)
(* handshake, a read, the end of a write or of a close, may never come.    *)
Fairness ==
    /\ \A i \in SessionIds :
          WF_vars(i \in DOMAIN sess /\ SessionWork(i) /\ UNCHANGED <<pbftVars, now>>)
    /\ WF_vars(\E h \in posted :
                 \/ priv_session_shutdown_handler(h) /\ UNCHANGED <<pbftVars, now>>
                 \/ StopWaiting(h))

Spec == Init /\ [][Next]_vars /\ Fairness

-----------------------------------------------------------------------------
(* Types of what node, session, pbft and the monitor keep, and: the map of *)
(* sessions holds sessions that were opened to the endpoint, a session     *)
(* that waits for an answer is one that a client opened.                   *)
TypeOK ==
    /\ \A i \in DOMAIN sess :
          /\ sess[i].phase \in {"new", "connecting", "handshaking", "open", "shut", "failed"}
          /\ sess[i].rd => sess[i].reading
          /\ sess[i].inflight # <<>> => sess[i].writing
    /\ \A e \in DOMAIN sessions : sessions[e] \in DOMAIN sess /\ sess[sessions[e]].ep = e
    /\ \A h \in DOMAIN waiting : waiting[h] \in DOMAIN sess /\ sess[waiting[h]].ep \notin Endpoints
    /\ executed <= Len(issued)

(* A session has at most one write outstanding: write_buffer is a member,  *)
(* and the websocket allows no second async_write.                         *)
OneWrite == \A i \in DOMAIN sess : Len(sess[i].inflight) <= 1

(* Messages leave a session in the order in which they were queued, none   *)
(* is skipped and none is written twice: what is written, being written    *)
(* and still queued is what was queued, also after writes that failed.     *)
WrittenInOrder ==
    \A i \in DOMAIN sess : sess[i].written \o sess[i].inflight \o sess[i].queue = sess[i].pushed

(* The primary gives a request one sequence number ("only send preprepares *)
(* once"), with one exception: in the very millisecond in which a          *)
(* request's timestamp reaches MAX_REQUEST_AGE_MS it is still accepted,    *)
(* but saw_request has forgotten it already.                               *)
IssuedOnce ==
    \A j, k \in DOMAIN issued :
        j < k /\ issued[j].hash = issued[k].hash => issued[k].at = issued[k].ts + MaxAge

(* The monitor's memory is bounded although most timers are never          *)
(* finished: every running timer is in ordered_timers, which is limited.   *)
TimersBounded ==
    /\ Len(timers.ordered) <= MaxTimers
    /\ \A id \in timers.started : \E k \in DOMAIN timers.ordered : timers.ordered[k] = id

(* A message that reaches a session's queue is written, or its session     *)
(* never opened or is closed: no message waits for ever in a session that  *)
(* looks alive, in particular not after the peer went away silently.  The  *)
(* exception is a peer that accepts the connection and never finishes the  *)
(* handshake: the idle timer is started only after it.  A peer that sends  *)
(* without end, and so keeps the timer from closing the session, is not    *)
(* covered: reads are bounded.                                             *)
Queued(i, m) == i \in DOMAIN sess /\ \E k \in DOMAIN sess[i].queue : sess[i].queue[k] = m
Resolved(i, m) ==
    /\ i \in DOMAIN sess
    /\ \/ sess[i].closing \/ sess[i].phase = "failed"
       \/ \E k \in DOMAIN sess[i].written : sess[i].written[k] = m
QueuedResolved ==
    \A i \in SessionIds : \A m \in Messages :
        [](Queued(i, m) => \/ <>Resolved(i, m)
                           \/ <>[](i \in DOMAIN sess /\ sess[i].phase = "handshaking"))

(* A closed session does not stay in the node's map, where it would be     *)
(* found closing at every send.                                            *)
ClosedForgotten ==
    \A e \in Endpoints : \A i \in SessionIds :
        (e \in DOMAIN sessions /\ sessions[e] = i /\ sess[i].closing)
            ~> ~(e \in DOMAIN sessions /\ sessions[e] = i)

(* A session that waits for an answer, and had its shutdown handler        *)
(* registered before it closed, is released once it closes.                *)
HandlerPending(h, i) ==
    \E k \in DOMAIN sess[i].strand : sess[i].strand[k] = [do |-> "handler", handler |-> WaitHandler(h, i)]
Waits(h, i) == h \in DOMAIN waiting /\ waiting[h] = i
WaitingReleased ==
    \A i \in SessionIds : \A h \in Hashes :
        [](Waits(h, i) /\ ~HandlerPending(h, i) /\ ~sess[i].closing
             => ([](i \in DOMAIN sess /\ ~sess[i].closing) \/ <>~Waits(h, i)))
=============================================================================
