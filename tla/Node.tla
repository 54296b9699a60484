-------------------------------- MODULE Node --------------------------------
(***************************************************************************)
(* node: the sessions it opens to its peers' endpoints, the map that finds *)
(* them again, and what is posted to the io_context.                       *)
(*                                                                         *)
(* The map holds weak pointers: a session is gone when nothing holds it    *)
(* any more, and its number is not used again.                             *)
(***************************************************************************)
EXTENDS Session

CONSTANTS
    Endpoints,      \* of the peers
    Works           \* what a behaviour may be about, see work

ASSUME WorksAssumption ==
    \A w \in Works : {w.chaos, w.faults} \subseteq BOOLEAN /\ {w.sessions, w.sends, w.reads, w.time} \subseteq Nat

VARIABLES
    work,           \* chosen at the start: the node's part, what clients send
                    \* (incoming), whether connections fail (faults)
                    \* and the chaos options are on (chaos), and
                    \* bounds on the sessions, the messages sent and read
                    \* and the clock
    sess,           \* every session created, by its number
    sessions,       \* the map from endpoints to numbers
    posted,         \* handlers waiting for a thread of the io_context
    sends,          \* how many messages have been sent
    reads           \* how many messages have been read

nodeVars == <<work, sess, sessions, posted, sends, reads>>

NodeInit ==
    /\ work \in Works
    /\ sess = <<>> /\ sessions = [e \in {} |-> 0] /\ posted = {} /\ sends = 0 /\ reads = 0

Other == [kind |-> "other"]     \* a message of no interest here

(* A posted handler is a record; holds tells whether it captured its       *)
(* session, sid.  A shutdown handler that captured the session is part of  *)
(* it: such a session is never gone.                                       *)
Alive(i) ==
    \/ Busy(sess[i])
    \/ \E h \in sess[i].handlers : h.holds
    \/ \E h \in posted : h.holds /\ h.sid = i

MapHandler(ep, i) == [kind |-> "map", ep |-> ep, sid |-> i, holds |-> FALSE]

Found(ep) ==
    ep \in DOMAIN sessions /\ Alive(sessions[ep]) /\ ~is_closing(sess[sessions[ep]])

(* The number of the session find_session returns; the sessions ss and the *)
(* map after the call.                                                     *)
find_session(ep) == IF Found(ep) THEN sessions[ep] ELSE Len(sess) + 1
WithSession(ss, ep) ==
    IF Found(ep)
    THEN ss
    ELSE Append(ss, NewSession(ep, [do |-> "open"], {MapHandler(ep, Len(ss) + 1)}))
Remembered(ep) ==
    [e \in DOMAIN sessions \cup {ep} |-> IF e = ep THEN find_session(ep) ELSE sessions[e]]

(* session::send_message, on session i of ss, while the handlers p are     *)
(* posted.  Chaos may drop the message, or post it for later.              *)
Deliver(ss, p, i, m) ==
    \/ sess' = [ss EXCEPT ![i] = send_message(@, m)] /\ posted' = p
    \/ /\ work.chaos
       /\ sess' = ss
       /\ posted' \in {p, p \cup {[kind |-> "send", msg |-> m, sid |-> i, holds |-> TRUE]}}

(* send_message_str, send_signed_message and send_maybe_signed_message to  *)
(* an endpoint, from sessions ss                                           *)
SendTo(ss, p, ep) ==
    /\ Len(WithSession(ss, ep)) <= work.sessions
    /\ sends' = sends + 1
    /\ sessions' = Remembered(ep)
    /\ Deliver(WithSession(ss, ep), p, find_session(ep), sends + 1)

Send(ep) == sends < work.sends /\ SendTo(sess, posted, ep) /\ UNCHANGED <<work, reads>>

(* do_accept *)
Accept(ep) ==
    /\ Len(sess) < work.sessions
    /\ sess' = Append(sess, NewSession(ep, [do |-> "accept"], {}))
    /\ UNCHANGED <<work, sessions, posted, sends, reads>>

Step(i, s) == sess' = [sess EXCEPT ![i] = s] /\ UNCHANGED <<work, sessions, sends>>

(* Mutant of StrandRun: the handlers are posted only if the websocket is   *)
(* still open                                                              *)
StrandRun_quiet(i) ==
    LET s == RunJob(sess[i])
    IN  /\ sess[i].strand # <<>>
        /\ Step(i, s) /\ UNCHANGED <<work, reads>>
        /\ posted' = IF s.closing /\ ~sess[i].closing /\ s.closer THEN posted \cup s.handlers ELSE posted

(* The strand runs a job; private_close posts the shutdown handlers. *)
StrandRun(i) ==
    LET s == RunJob(sess[i])
    IN  /\ sess[i].strand # <<>>
        /\ Step(i, s) /\ UNCHANGED <<work, reads>>
        /\ posted' = IF s.closing /\ ~sess[i].closing THEN posted \cup s.handlers ELSE posted

Connect(i) ==
    /\ sess[i].phase = "connecting"
    /\ \E ok \in {TRUE, ~work.faults} : Step(i, Connected(sess[i], ok))
    /\ UNCHANGED <<work, posted, reads>>

Handshake(i) ==
    /\ sess[i].phase = "handshaking"
    /\ \E ok \in {TRUE, ~work.faults} : Step(i, Handshaken(sess[i], ok))
    /\ UNCHANGED <<work, posted, reads>>

(* A read that brings a message has it posted to priv_protobuf_handler. *)
Read(i) ==
    /\ sess[i].rd
    /\ \/ /\ sess[i].phase = "open" /\ reads < work.reads
          /\ \E msg \in IF sess[i].ep \in Endpoints THEN {Other} ELSE work.incoming :
                posted' = posted \cup {[kind |-> "proto", msg |-> msg, sid |-> i, holds |-> TRUE]}
          /\ Step(i, ReadDone(sess[i], "ok"))
          /\ reads' = reads + 1
       \/ /\ work.faults \/ sess[i].phase # "open"
          /\ \E result \in {"closed", "error"} : Step(i, ReadDone(sess[i], result))
          /\ UNCHANGED <<work, posted, reads>>

Written(i) ==
    /\ sess[i].inflight # <<>>
    /\ \/ sess[i].phase = "open" /\ Step(i, WriteDone(sess[i], "ok"))
       \/ /\ work.faults \/ sess[i].phase # "open"
          /\ \E result \in {"closed", "error"} : Step(i, WriteDone(sess[i], result))
    /\ UNCHANGED <<work, posted, reads>>

IdleTimeout(i) == sess[i].timer /\ Step(i, TimerFired(sess[i])) /\ UNCHANGED <<work, posted, reads>>

Closed(i) == sess[i].closer /\ Step(i, CloseDone(sess[i])) /\ UNCHANGED <<work, posted, reads>>

(* priv_session_shutdown_handler: an open session, which has replaced the  *)
(* one that closed, is kept in the map; one that is still connecting is    *)
(* removed like the closed one.                                            *)
priv_session_shutdown_handler(h) ==
    /\ h.kind = "map" /\ posted' = posted \ {h}
    /\ sessions' = IF \E e \in DOMAIN sessions : e = h.ep /\ Alive(sessions[e]) /\ is_open(sess[sessions[e]])
                   THEN sessions
                   ELSE [e \in DOMAIN sessions \ {h.ep} |-> sessions[e]]
    /\ UNCHANGED <<work, sess, sends, reads>>

(* The delayed message is tried again *)
Retry(h) ==
    /\ h.kind = "send"
    /\ Deliver(sess, posted \ {h}, h.sid, h.msg)
    /\ UNCHANGED <<work, sessions, sends, reads>>

(* What happens to a session whatever its peer does, and what waits for it *)
SessionWork(i) == StrandRun(i) \/ Connect(i) \/ IdleTimeout(i)
PeerWork(i) == Handshake(i) \/ Read(i) \/ Written(i) \/ Closed(i)

NodeStep ==
    \/ \E i \in DOMAIN sess : SessionWork(i) \/ PeerWork(i)
    \/ \E h \in posted : priv_session_shutdown_handler(h) \/ Retry(h)
=============================================================================
