------------------------------ MODULE Session ------------------------------
(***************************************************************************)
(* session: one websocket connection, as a value, and what its strand does *)
(* to it.  Calls are posted to the strand and run in order; completion     *)
(* handlers run on the strand too, when their operation completes.         *)
(*                                                                         *)
(* phase is the websocket's: new, connecting, handshaking, open, shut (by  *)
(* the peer, an error or a close) or failed (never opened).  rd, inflight, *)
(* timer and closer are the asynchronous operations outstanding, and       *)
(* inflight the messages given to async_write.  pushed and written are the *)
(* history of the messages queued and of those written.                    *)
(***************************************************************************)
EXTENDS Naturals, Sequences

NewSession(ep, job, handlers) ==
    [ep |-> ep, strand |-> <<job>>, handlers |-> handlers, phase |-> "new",
     closing |-> FALSE, reading |-> FALSE, writing |-> FALSE, activity |-> FALSE,
     queue |-> <<>>, rd |-> FALSE, inflight |-> <<>>, timer |-> FALSE, closer |-> FALSE,
     pushed |-> <<>>, written |-> <<>>]

is_open(s) == s.phase = "open" /\ ~s.closing
is_closing(s) == s.closing

Post(s, job) == [s EXCEPT !.strand = Append(@, job)]

close(s) == Post(s, [do |-> "close"])
send_message(s, m) == Post(s, [do |-> "push", msg |-> m])
add_shutdown_handler(s, h) == Post(s, [do |-> "handler", handler |-> h])

start_idle_timeout(s) == [s EXCEPT !.activity = FALSE, !.timer = TRUE]

(* Mutant of do_read: the read is not marked                               *)
do_read_unmarked(s) == IF s.reading \/ ~is_open(s) THEN s ELSE [s EXCEPT !.rd = TRUE]

do_read(s) ==
    IF s.reading \/ ~is_open(s) THEN s ELSE [s EXCEPT !.reading = TRUE, !.rd = TRUE]

(* Mutant of do_write: a write is started while another is outstanding     *)
do_write_again(s) ==
    IF ~is_open(s) \/ s.queue = <<>>
    THEN s
    ELSE [s EXCEPT !.writing = TRUE, !.inflight = Append(@, Head(s.queue)), !.queue = Tail(@)]

do_write(s) ==
    IF s.writing \/ ~is_open(s) \/ s.queue = <<>>
    THEN s
    ELSE [s EXCEPT !.writing = TRUE, !.inflight = Append(@, Head(s.queue)), !.queue = Tail(@)]

(* The handlers themselves are posted by the node, which sees that the     *)
(* session has begun to close.                                             *)
private_close(s) ==
    IF s.closing
    THEN s
    ELSE [s EXCEPT !.closing = TRUE, !.closer = (s.phase = "open")]

(* The job at the head of the strand *)
RunJob(s) ==
    LET job == Head(s.strand)
        t == [s EXCEPT !.strand = Tail(@)]
    IN  CASE job.do = "open" -> [t EXCEPT !.phase = "connecting"]
          [] job.do = "accept" -> [t EXCEPT !.phase = "handshaking"]
          [] job.do = "push" -> do_write([t EXCEPT !.queue = Append(@, job.msg),
                                                   !.pushed = Append(@, job.msg)])
          [] job.do = "handler" -> [t EXCEPT !.handlers = @ \cup {job.handler}]
          [] job.do = "close" -> private_close(t)

(* async_connect, and the handshake or accept after it, complete *)
Connected(s, ok) ==
    [s EXCEPT !.activity = TRUE, !.phase = IF ok THEN "handshaking" ELSE "failed"]
Handshaken(s, ok) ==
    IF ok
    THEN do_write(do_read(start_idle_timeout([s EXCEPT !.phase = "open"])))
    ELSE [s EXCEPT !.activity = TRUE, !.phase = "failed"]

(* async_read completes with a message, or without one.  When the peer     *)
(* closed the websocket the session is not closed, only left.              *)
ReadDone(s, result) ==
    LET t == [s EXCEPT !.activity = TRUE, !.rd = FALSE]
    IN  CASE result = "ok" -> do_read([t EXCEPT !.reading = FALSE])
          [] result = "closed" -> [t EXCEPT !.phase = "shut"]
          [] result = "error" -> close([t EXCEPT !.phase = "shut"])

(* Mutant of WriteDone: the message that failed goes to the back           *)
WriteDone_requeue(s, result) ==
    LET msg == Head(s.inflight)
        t == [s EXCEPT !.activity = TRUE, !.inflight = Tail(@)]
    IN  IF result = "ok"
        THEN do_write([t EXCEPT !.writing = FALSE, !.written = Append(@, msg)])
        ELSE [t EXCEPT !.phase = "shut", !.queue = Append(@, msg)]

(* async_write completes; a message that failed goes back to the front *)
WriteDone(s, result) ==
    LET msg == Head(s.inflight)
        t == [s EXCEPT !.activity = TRUE, !.inflight = Tail(@)]
        failed == [t EXCEPT !.phase = "shut", !.queue = <<msg>> \o @]
    IN  CASE result = "ok" -> do_write([t EXCEPT !.writing = FALSE, !.written = Append(@, msg)])
          [] result = "closed" -> failed
          [] result = "error" -> close(failed)

(* Mutant of TimerFired: after activity the timer is not armed again       *)
TimerFired_once(s) ==
    IF ~s.activity THEN close([s EXCEPT !.timer = FALSE]) ELSE [s EXCEPT !.timer = FALSE]

(* The idle timer expires, or private_close cancels it *)
TimerFired(s) ==
    LET t == [s EXCEPT !.timer = FALSE]
    IN  IF ~s.activity THEN close(t) ELSE IF s.closing THEN t ELSE start_idle_timeout(t)

CloseDone(s) == [s EXCEPT !.closer = FALSE, !.phase = "shut"]

(* Some handler of the session holds it: each captures self, a shared      *)
(* pointer to the session.                                                 *)
Busy(s) ==
    \/ s.strand # <<>> \/ s.phase \in {"connecting", "handshaking"}
    \/ s.rd \/ s.inflight # <<>> \/ s.timer \/ s.closer
=============================================================================
