-------------------------- MODULE Gateway_proofs --------------------------
(***************************************************************************)
(* The safety of Gateway for any endpoints, any number of sessions,        *)
(* messages and timers, and any clients.                                   *)
(*                                                                         *)
(* The first part is about one session: every call and every completion    *)
(* handler preserves one write at a time and the order of the messages.    *)
(* Len(inflight) <= 1 and the order are inductive only together with the   *)
(* link between writing and the outstanding operation, which do_write's    *)
(* guard relies on.                                                        *)
(*                                                                         *)
(* The second part is about the node: a step changes one session, by an    *)
(* operation that keeps SessInv, or adds one; no session ever changes its  *)
(* endpoint, so what the node's map, the waiting sessions and the posted   *)
(* handlers say of a session stays true.  That a request is issued once    *)
(* needs one more fact: what was issued is in recent_requests until its    *)
(* timestamp is MaxAge old.                                                *)
(***************************************************************************)
EXTENDS Gateway, SequenceTheorems, TLAPS

USE ZenonT(60)

Fields ==
    {"ep", "strand", "handlers", "phase", "closing", "reading", "writing", "activity",
     "queue", "rd", "inflight", "timer", "closer", "pushed", "written"}

(* What is posted to a strand, with shutdown handlers of H *)
Jobs(H) ==
    [do : {"open", "accept", "close"}] \cup [do : {"push"}, msg : Nat]
        \cup [do : {"handler"}, handler : H]

Phases == {"new", "connecting", "handshaking", "open", "shut", "failed"}

Shape(s, H) ==
    /\ DOMAIN s = Fields
    /\ s.strand \in Seq(Jobs(H)) /\ s.handlers \subseteq H
    /\ s.queue \in Seq(Nat) /\ s.inflight \in Seq(Nat)
    /\ s.pushed \in Seq(Nat) /\ s.written \in Seq(Nat)
    /\ s.phase \in Phases

Marked(s) ==
    /\ s.rd => s.reading
    /\ ~s.writing => s.inflight = <<>>
    /\ Len(s.inflight) <= 1

(* Written, being written and queued: what was pushed, in this order *)
Cat(a, b) == a \o b
Ordered(w, i, q, p) == Cat(Cat(w, i), q) = p
InOrder(s) == Ordered(s.written, s.inflight, s.queue, s.pushed)

SessInv(s, H) == Shape(s, H) /\ Marked(s) /\ InOrder(s)

(* A step of the session from s to t *)
Keeps(s, t, H) == SessInv(t, H) /\ t.ep = s.ep

(* A sequence that is not empty is its head and its tail.                  *)
LEMMA HeadTail ==
    ASSUME NEW S, NEW q \in Seq(S), q # <<>>
    PROVE  /\ q = <<Head(q)>> \o Tail(q)
           /\ Head(q) \in S /\ Tail(q) \in Seq(S)
           /\ Len(q) <= 1 => Tail(q) = <<>> /\ q = <<Head(q)>>
<1>1. Head(q) \in S /\ Tail(q) \in Seq(S) /\ Len(Tail(q)) = Len(q) - 1 /\ Len(q) \in Nat \ {0}
  BY HeadTailProperties, EmptySeq, LenProperties
<1>2. q = <<Head(q)>> \o Tail(q)
  <2>1. /\ SubSeq(q, 1, Len(q)) = <<q[1]>> \o SubSeq(q, 1 + 1, Len(q))
        /\ SubSeq(q, 1, Len(q)) = q /\ Tail(q) = SubSeq(q, 2, Len(q))
    BY SMTT(60), <1>1, SubSeqRecursiveFirst, SubSeqFull, TailIsSubSeq
  <2>2. Head(q) = q[1] BY SMTT(60)
  <2> QED BY SMTT(60), <2>1, <2>2
<1>3. ASSUME Len(q) <= 1 PROVE Tail(q) = <<>> /\ q = <<Head(q)>>
  <2>1. Tail(q) = <<>> BY SMTT(60), <1>1, <1>3, EmptySeq
  <2>2. <<Head(q)>> \in Seq(S) BY SMTT(60), <1>1
  <2> QED BY <1>2, <2>1, <2>2, ConcatEmptySeq
<1> QED BY <1>1, <1>2, <1>3

(* Concatenation, as the next lemmas use it.                               *)
LEMMA Concatenation ==
    /\ \A a, b, c \in Seq(Nat) : Cat(Cat(a, b), c) = Cat(a, Cat(b, c))
    /\ \A a \in Seq(Nat) : Cat(a, <<>>) = a
    /\ \A a, b \in Seq(Nat) : Cat(a, b) \in Seq(Nat)
    /\ \A a \in Seq(Nat), m \in Nat : /\ Append(a, m) = Cat(a, <<m>>)
                                     /\ Append(a, m) \in Seq(Nat) /\ <<m>> \in Seq(Nat)
    /\ \A q \in Seq(Nat) : q # <<>> => /\ q = Cat(<<Head(q)>>, Tail(q))
                                      /\ Head(q) \in Nat /\ Tail(q) \in Seq(Nat)
<1>1. ASSUME NEW a \in Seq(Nat), NEW b \in Seq(Nat), NEW c \in Seq(Nat)
      PROVE  Cat(Cat(a, b), c) = Cat(a, Cat(b, c))
  <2>1. (a \o b) \o c = a \o (b \o c) BY SMTT(60)
  <2> QED BY <2>1 DEF Cat
<1>2. ASSUME NEW a \in Seq(Nat) PROVE Cat(a, <<>>) = a
  BY ConcatEmptySeq DEF Cat
<1>3. ASSUME NEW a \in Seq(Nat), NEW b \in Seq(Nat) PROVE Cat(a, b) \in Seq(Nat)
  BY ConcatProperties DEF Cat
<1>4. ASSUME NEW a \in Seq(Nat), NEW m \in Nat
      PROVE  Append(a, m) = Cat(a, <<m>>) /\ Append(a, m) \in Seq(Nat) /\ <<m>> \in Seq(Nat)
  BY SMTT(60), AppendProperties, AppendIsConcat DEF Cat
<1>5. ASSUME NEW q \in Seq(Nat), q # <<>>
      PROVE  q = Cat(<<Head(q)>>, Tail(q)) /\ Head(q) \in Nat /\ Tail(q) \in Seq(Nat)
  BY <1>5, HeadTail DEF Cat
<1> QED BY <1>1, <1>2, <1>3, <1>4, <1>5

(* The order is kept when the head of the queue is taken, when what was    *)
(* being written is written, when it goes back to the front, and when a    *)
(* message is queued.                                                      *)
LEMMA OrderKept ==
    ASSUME NEW w \in Seq(Nat), NEW q \in Seq(Nat), NEW p \in Seq(Nat), NEW m \in Nat
    PROVE  /\ q # <<>> /\ Ordered(w, <<>>, q, p) => Ordered(w, <<Head(q)>>, Tail(q), p)
           /\ Ordered(w, <<m>>, q, p) => /\ Ordered(Append(w, m), <<>>, q, p)
                                         /\ Ordered(w, <<>>, Cat(<<m>>, q), p)
           /\ \A i \in Seq(Nat) : Ordered(w, i, q, p) => Ordered(w, i, Append(q, m), Append(p, m))
<1>1. ASSUME q # <<>>, Ordered(w, <<>>, q, p) PROVE Ordered(w, <<Head(q)>>, Tail(q), p)
  <2>1. /\ Head(q) \in Nat /\ <<Head(q)>> \in Seq(Nat) /\ Tail(q) \in Seq(Nat)
        /\ q = Cat(<<Head(q)>>, Tail(q)) /\ Cat(w, <<>>) = w
    BY <1>1, Concatenation
  <2> DEFINE h == <<Head(q)>>
             r == Tail(q)
  <2> HIDE DEF h, r
  <2>2. Cat(Cat(w, h), r) = Cat(w, Cat(h, r))
    <3>1. h \in Seq(Nat) /\ r \in Seq(Nat) BY <2>1 DEF h, r
    <3> QED BY SMTT(60), <3>1, Concatenation
  <2> USE DEF h, r
  <2> QED BY <1>1, <2>1, <2>2 DEF Ordered
<1>2. ASSUME Ordered(w, <<m>>, q, p)
      PROVE  Ordered(Append(w, m), <<>>, q, p) /\ Ordered(w, <<>>, Cat(<<m>>, q), p)
  <2>1. /\ Append(w, m) = Cat(w, <<m>>) /\ Append(w, m) \in Seq(Nat) /\ <<m>> \in Seq(Nat)
        /\ Cat(Append(w, m), <<>>) = Append(w, m) /\ Cat(w, <<>>) = w
    BY Concatenation
  <2> DEFINE one == <<m>>
  <2> HIDE DEF one
  <2>2. Cat(Cat(w, one), q) = Cat(w, Cat(one, q))
    <3>1. one \in Seq(Nat) BY <2>1 DEF one
    <3> QED BY SMTT(60), <3>1, Concatenation
  <2> USE DEF one
  <2> QED BY <1>2, <2>1, <2>2 DEF Ordered
<1>3. ASSUME NEW i \in Seq(Nat), Ordered(w, i, q, p)
      PROVE  Ordered(w, i, Append(q, m), Append(p, m))
  <2>1. /\ Append(q, m) = Cat(q, <<m>>) /\ Append(p, m) = Cat(p, <<m>>)
        /\ <<m>> \in Seq(Nat) /\ Cat(w, i) \in Seq(Nat)
    BY Concatenation
  <2> DEFINE one == <<m>>
             wi == Cat(w, i)
  <2> HIDE DEF one, wi
  <2>2. Cat(Cat(wi, q), one) = Cat(wi, Cat(q, one))
    <3>1. one \in Seq(Nat) /\ wi \in Seq(Nat) BY <2>1 DEF one, wi
    <3> QED BY SMTT(60), <3>1, Concatenation
  <2> USE DEF one, wi
  <2> QED BY <1>3, <2>1, <2>2 DEF Ordered
<1> QED BY <1>1, <1>2, <1>3

(* A session that was just created.                                        *)
LEMMA NewSessInv ==
    ASSUME NEW H, NEW ep, NEW job \in Jobs(H), NEW hs \in SUBSET H
    PROVE  SessInv(NewSession(ep, job, hs), H)
<1>1. <<job>> \in Seq(Jobs(H)) /\ <<>> \in Seq(Nat) BY SMTT(60)
<1>2. Shape(NewSession(ep, job, hs), H)
  BY <1>1 DEF Shape, NewSession, Fields, Phases
<1>3. Marked(NewSession(ep, job, hs)) BY SMTT(60), <1>1, EmptySeq DEF Marked, NewSession
<1>4. InOrder(NewSession(ep, job, hs))
  BY <1>1, Concatenation DEF InOrder, Ordered, NewSession
<1> QED BY <1>2, <1>3, <1>4 DEF SessInv

(* Posting to the strand.                                                  *)
LEMMA PostSessInv ==
    ASSUME NEW H, NEW s, SessInv(s, H), NEW job \in Jobs(H)
    PROVE  Keeps(s, Post(s, job), H)
  BY AppendProperties DEF Keeps, SessInv, Shape, Marked, InOrder, Post, Fields

(* do_read starts no second read.                                          *)
LEMMA ReadSessInv ==
    ASSUME NEW H, NEW s, SessInv(s, H)
    PROVE  Keeps(s, do_read(s), H)
  BY DEF SessInv, Shape, Marked, InOrder, do_read, Fields, Keeps

(* do_write takes the head of the queue when nothing is being written.     *)
LEMMA WriteSessInv ==
    ASSUME NEW H, NEW s, SessInv(s, H)
    PROVE  Keeps(s, do_write(s), H)
<1>1. CASE s.writing \/ ~is_open(s) \/ s.queue = <<>>
  BY <1>1 DEF do_write, Keeps
<1>2. CASE ~(s.writing \/ ~is_open(s) \/ s.queue = <<>>)
  <2> DEFINE t == do_write(s)
             h == Head(s.queue)
  <2>1. t = [s EXCEPT !.writing = TRUE, !.inflight = Append(@, h), !.queue = Tail(@)]
    BY <1>2 DEF do_write
  <2>2. /\ h \in Nat /\ Tail(s.queue) \in Seq(Nat) /\ s.queue = <<h>> \o Tail(s.queue)
        /\ s.written \in Seq(Nat) /\ s.inflight = <<>>
    BY <1>2, HeadTail DEF SessInv, Shape, Marked
  <2>3. Append(s.inflight, h) = <<h>> /\ <<h>> \in Seq(Nat) /\ Len(<<h>>) = 1
    BY SMTT(60), <2>2
  <2>4. /\ t.inflight = <<h>> /\ t.queue = Tail(s.queue) /\ t.writing = TRUE
        /\ t.written = s.written /\ t.pushed = s.pushed
        /\ t.rd = s.rd /\ t.reading = s.reading /\ t.ep = s.ep
    BY <2>1, <2>3 DEF SessInv, Shape, Fields
  <2>5. Shape(t, H)
    BY <2>1, <2>2, <2>3 DEF SessInv, Shape, Fields
  <2>6. Marked(t)
    BY SMTT(60), <2>3, <2>4 DEF SessInv, Marked
  <2>7. InOrder(t)
    BY <1>2, <2>2, <2>4, OrderKept DEF SessInv, Shape, InOrder
  <2> QED BY <2>4, <2>5, <2>6, <2>7 DEF SessInv, Keeps
<1> QED BY <1>1, <1>2

(* private_close touches neither queue nor flags.                          *)
LEMMA CloseSessInv ==
    ASSUME NEW H, NEW s, SessInv(s, H)
    PROVE  Keeps(s, private_close(s), H)
  BY DEF SessInv, Shape, Marked, InOrder, private_close, Fields, Keeps

(* A message is queued behind the others.                                  *)
LEMMA PushSessInv ==
    ASSUME NEW H, NEW s, SessInv(s, H), NEW m \in Nat
    PROVE  Keeps(s, [s EXCEPT !.queue = Append(@, m), !.pushed = Append(@, m)], H)
<1> DEFINE t == [s EXCEPT !.queue = Append(@, m), !.pushed = Append(@, m)]
<1>1. Append(s.queue, m) \in Seq(Nat) /\ Append(s.pushed, m) \in Seq(Nat)
  BY AppendProperties DEF SessInv, Shape
<1>2. /\ t.queue = Append(s.queue, m) /\ t.pushed = Append(s.pushed, m)
      /\ t.written = s.written /\ t.inflight = s.inflight
      /\ t.rd = s.rd /\ t.reading = s.reading /\ t.writing = s.writing /\ t.ep = s.ep
  BY DEF SessInv, Shape, Fields
<1>3. Shape(t, H) BY <1>1 DEF SessInv, Shape, Fields
<1>4. Marked(t) BY <1>2 DEF SessInv, Marked
<1>5. InOrder(t) BY <1>2, OrderKept DEF SessInv, Shape, InOrder
<1> QED BY <1>2, <1>3, <1>4, <1>5 DEF SessInv, Keeps

(* The strand runs the job at its head.                                    *)
LEMMA RunJobSessInv ==
    ASSUME NEW H, NEW s, SessInv(s, H), s.strand # <<>>
    PROVE  Keeps(s, RunJob(s), H)
<1> DEFINE job == Head(s.strand)
           t == [s EXCEPT !.strand = Tail(@)]
<1>1. job \in Jobs(H) /\ Tail(s.strand) \in Seq(Jobs(H))
  BY HeadTail DEF SessInv, Shape
<1>2. Keeps(s, t, H)
  BY <1>1 DEF Keeps, SessInv, Shape, Marked, InOrder, Fields
<1>3. /\ job.do \in {"open", "accept", "close", "push", "handler"}
      /\ job.do = "push" => job.msg \in Nat
      /\ job.do = "handler" => job.handler \in H
  BY <1>1 DEF Jobs
<1>4. CASE job.do = "open"
  <2>1. RunJob(s) = [t EXCEPT !.phase = "connecting"] BY <1>4 DEF RunJob
  <2> HIDE DEF t
  <2> QED BY <1>2, <2>1 DEF Keeps, SessInv, Shape, Marked, InOrder, Fields, Phases
<1>5. CASE job.do = "accept"
  <2>1. RunJob(s) = [t EXCEPT !.phase = "handshaking"] BY <1>5 DEF RunJob
  <2> HIDE DEF t
  <2> QED BY <1>2, <2>1 DEF Keeps, SessInv, Shape, Marked, InOrder, Fields, Phases
<1>6. CASE job.do = "push"
  <2> DEFINE u == [t EXCEPT !.queue = Append(@, job.msg), !.pushed = Append(@, job.msg)]
  <2>1. RunJob(s) = do_write(u) BY <1>6 DEF RunJob
  <2>2. Keeps(t, u, H)
    <3> HIDE DEF t, job
    <3> QED BY <1>2, <1>3, <1>6, PushSessInv DEF Keeps
  <2> HIDE DEF t, u
  <2>3. Keeps(u, do_write(u), H) BY <2>2, WriteSessInv DEF Keeps
  <2> QED BY <1>2, <2>1, <2>2, <2>3 DEF Keeps
<1>7. CASE job.do = "handler"
  <2>1. RunJob(s) = [t EXCEPT !.handlers = t.handlers \cup {job.handler}]
    BY <1>7 DEF RunJob
  <2>2. t.handlers \cup {job.handler} \in SUBSET H
    BY <1>2, <1>3, <1>7 DEF Keeps, SessInv, Shape
  <2> HIDE DEF t, job
  <2> QED BY <1>2, <2>1, <2>2 DEF Keeps, SessInv, Shape, Marked, InOrder, Fields
<1>8. CASE job.do = "close"
  <2>1. RunJob(s) = private_close(t) BY <1>8 DEF RunJob
  <2> HIDE DEF t
  <2> QED BY <1>2, <2>1, CloseSessInv DEF Keeps
<1> QED BY <1>3, <1>4, <1>5, <1>6, <1>7, <1>8

(* async_connect, the handshake and the close complete, the timer fires.   *)
LEMMA CompletionSessInv ==
    ASSUME NEW H, NEW s, SessInv(s, H), NEW ok \in BOOLEAN
    PROVE  /\ Keeps(s, Connected(s, ok), H)
           /\ Keeps(s, Handshaken(s, ok), H)
           /\ Keeps(s, TimerFired(s), H)
           /\ Keeps(s, CloseDone(s), H)
<1>0. [do |-> "close"] \in Jobs(H) BY DEF Jobs
<1>1. Keeps(s, Connected(s, ok), H)
  BY DEF Keeps, SessInv, Shape, Marked, InOrder, Fields, Connected, Phases
<1>2. Keeps(s, Handshaken(s, ok), H)
  <2>1. CASE ok
    <3> DEFINE t == start_idle_timeout([s EXCEPT !.phase = "open"])
    <3>1. Handshaken(s, ok) = do_write(do_read(t)) BY <2>1 DEF Handshaken
    <3>2. Keeps(s, t, H)
      BY DEF Keeps, SessInv, Shape, Marked, InOrder, Fields, start_idle_timeout, Phases
    <3> HIDE DEF t
    <3>3. Keeps(t, do_read(t), H) BY <3>2, ReadSessInv DEF Keeps
    <3>4. Keeps(do_read(t), do_write(do_read(t)), H) BY <3>3, WriteSessInv DEF Keeps
    <3> QED BY <3>1, <3>2, <3>3, <3>4 DEF Keeps
  <2>2. CASE ~ok
    BY <2>2 DEF Keeps, SessInv, Shape, Marked, InOrder, Fields, Handshaken, Phases
  <2> QED BY <2>1, <2>2
<1>3. Keeps(s, TimerFired(s), H)
  <2> DEFINE t == [s EXCEPT !.timer = FALSE]
  <2>1. Keeps(s, t, H) BY DEF Keeps, SessInv, Shape, Marked, InOrder, Fields
  <2>2. TimerFired(s) \in {Post(t, [do |-> "close"]), t, start_idle_timeout(t)}
    BY DEF TimerFired, close
  <2> HIDE DEF t
  <2>3. Keeps(t, Post(t, [do |-> "close"]), H) BY <1>0, <2>1, PostSessInv DEF Keeps
  <2>4. Keeps(t, start_idle_timeout(t), H)
    BY <2>1 DEF Keeps, SessInv, Shape, Marked, InOrder, Fields, start_idle_timeout
  <2> QED BY <2>1, <2>2, <2>3, <2>4 DEF Keeps
<1>4. Keeps(s, CloseDone(s), H)
  BY DEF Keeps, SessInv, Shape, Marked, InOrder, Fields, CloseDone, Phases
<1> QED BY <1>1, <1>2, <1>3, <1>4

(* A read completes.                                                       *)
LEMMA ReadDoneSessInv ==
    ASSUME NEW H, NEW s, SessInv(s, H), NEW result \in {"ok", "closed", "error"}
    PROVE  Keeps(s, ReadDone(s, result), H)
<1>0. [do |-> "close"] \in Jobs(H) BY DEF Jobs
<1> DEFINE t == [s EXCEPT !.activity = TRUE, !.rd = FALSE]
           u == [t EXCEPT !.reading = FALSE]
           v == [t EXCEPT !.phase = "shut"]
<1>1. Keeps(s, u, H) BY DEF Keeps, SessInv, Shape, Marked, InOrder, Fields
<1>2. Keeps(s, v, H) BY DEF Keeps, SessInv, Shape, Marked, InOrder, Fields, Phases
<1>3. ReadDone(s, result) \in {do_read(u), v, Post(v, [do |-> "close"])}
  BY DEF ReadDone, close
<1> HIDE DEF t, u, v
<1>4. Keeps(u, do_read(u), H) BY <1>1, ReadSessInv DEF Keeps
<1>5. Keeps(v, Post(v, [do |-> "close"]), H) BY <1>0, <1>2, PostSessInv DEF Keeps
<1> QED BY <1>1, <1>2, <1>3, <1>4, <1>5 DEF Keeps

(* A write completes: its message is written, or goes back to the front.   *)
LEMMA WriteDoneSessInv ==
    ASSUME NEW H, NEW s, SessInv(s, H), s.inflight # <<>>, NEW result \in {"ok", "closed", "error"}
    PROVE  Keeps(s, WriteDone(s, result), H)
<1>0. [do |-> "close"] \in Jobs(H) BY DEF Jobs
<1> DEFINE msg == Head(s.inflight)
           t == [s EXCEPT !.activity = TRUE, !.inflight = Tail(@)]
           u == [t EXCEPT !.writing = FALSE, !.written = Append(@, msg)]
           v == [t EXCEPT !.phase = "shut", !.queue = <<msg>> \o @]
<1>1. msg \in Nat /\ s.inflight = <<msg>> /\ Tail(s.inflight) = <<>>
  BY HeadTail DEF SessInv, Shape, Marked
<1>2. /\ Append(s.written, msg) \in Seq(Nat) /\ Cat(<<msg>>, s.queue) \in Seq(Nat)
      /\ Cat(<<msg>>, s.queue) = <<msg>> \o s.queue /\ <<>> \in Seq(Nat) /\ Len(<<>>) = 0
  <2>1. <<msg>> \in Seq(Nat) BY SMTT(60), <1>1
  <2> DEFINE one == <<msg>>
  <2> HIDE DEF one
  <2>2. Cat(one, s.queue) \in Seq(Nat) BY <2>1, Concatenation DEF SessInv, Shape, one
  <2> QED BY <1>1, <2>2, Concatenation DEF SessInv, Shape, Cat, one
<1>3. /\ Ordered(Append(s.written, msg), <<>>, s.queue, s.pushed)
      /\ Ordered(s.written, <<>>, Cat(<<msg>>, s.queue), s.pushed)
  BY <1>1, OrderKept DEF SessInv, Shape, InOrder
<1> HIDE DEF msg
<1>4. /\ u.inflight = <<>> /\ u.written = Append(s.written, msg) /\ u.queue = s.queue
      /\ u.pushed = s.pushed /\ u.rd = s.rd /\ u.reading = s.reading /\ u.ep = s.ep
  BY <1>1 DEF SessInv, Shape, Fields
<1>5. Shape(u, H) BY <1>1, <1>2 DEF SessInv, Shape, Fields
<1>6. Keeps(s, u, H)
  <2> HIDE DEF t, u, v
  <2> QED BY SMTT(60), <1>2, <1>3, <1>4, <1>5 DEF Keeps, SessInv, Marked, InOrder
<1>7. /\ v.inflight = <<>> /\ v.written = s.written /\ v.queue = Cat(<<msg>>, s.queue)
      /\ v.pushed = s.pushed /\ v.rd = s.rd /\ v.reading = s.reading /\ v.ep = s.ep
  BY <1>1, <1>2 DEF SessInv, Shape, Fields
<1>8. Shape(v, H) BY <1>1, <1>2 DEF SessInv, Shape, Fields, Phases
<1>9. Keeps(s, v, H)
  <2> HIDE DEF t, u, v
  <2> QED BY SMTT(60), <1>2, <1>3, <1>7, <1>8 DEF Keeps, SessInv, Marked, InOrder
<1>10. WriteDone(s, result) \in {do_write(u), v, Post(v, [do |-> "close"])}
  BY DEF WriteDone, close, msg
<1> HIDE DEF t, u, v
<1>11. Keeps(u, do_write(u), H) BY <1>6, WriteSessInv DEF Keeps
<1>12. Keeps(v, Post(v, [do |-> "close"]), H) BY <1>0, <1>9, PostSessInv DEF Keeps
<1> QED BY <1>6, <1>9, <1>10, <1>11, <1>12 DEF Keeps

-----------------------------------------------------------------------------
(* The requests that clients may send, their hashes, shutdown handlers *)
Requests == {m \in UNION {w.incoming : w \in Works} : m.kind = "request"}
AnyHash == {Hash(m, t) : m \in Requests, t \in Nat}
Handlers ==
    [kind : {"map"}, ep : Endpoints, sid : Nat, holds : {FALSE}]
        \cup [kind : {"wait"}, hash : AnyHash, sid : Nat, holds : {TRUE}]

GoodSessions(ss) ==
    /\ \E S : ss \in Seq(S)
    /\ \A i \in 1..Len(ss) : SessInv(ss[i], Handlers)

(* The sessions of ss are still there in tt, for the same endpoints *)
Follows(ss, tt) ==
    /\ Len(ss) <= Len(tt)
    /\ \A i \in 1..Len(ss) : tt[i].ep = ss[i].ep

(* Numbers in the map and in waiting are of sessions of the right kind *)
MapOK == \A e \in DOMAIN sessions : sessions[e] \in 1..Len(sess) /\ sess[sessions[e]].ep = e
WaitOK ==
    \A h \in DOMAIN waiting : waiting[h] \in 1..Len(sess) /\ sess[waiting[h]].ep \notin Endpoints

(* p, as posted handlers of the sessions ss *)
PostedFor(p, ss) ==
    \A h \in p :
        /\ h.kind \in {"map", "wait", "send", "proto"}
        /\ h.kind = "send" => h.msg \in Nat /\ h.sid \in 1..Len(ss)
        /\ h.kind = "proto" =>
              /\ h.sid \in 1..Len(ss)
              /\ h.msg.kind = "request" => h.msg \in Requests /\ ss[h.sid].ep \notin Endpoints

NodeInv ==
    /\ work \in Works /\ sends \in Nat /\ GoodSessions(sess) /\ MapOK /\ WaitOK
    /\ PostedFor(posted, sess)

TimersInv(t) ==
    /\ t \in [started : SUBSET AnyHash, ordered : Seq(AnyHash)]
    /\ Len(t.ordered) <= MaxTimers
    /\ \A id \in t.started : \E k \in DOMAIN t.ordered : t.ordered[k] = id

(* What was issued is remembered, or too old to be accepted later *)
Remembering ==
    \A j \in DOMAIN issued :
        /\ issued[j].hash[2] = issued[j].ts
        /\ <<issued[j].ts, issued[j].hash>> \in recent \/ issued[j].ts + MaxAge <= now

RequestInv ==
    /\ now \in Nat /\ executed \in Nat /\ issued \in Seq([hash : AnyHash, ts : Nat, at : Nat])
    /\ executed <= Len(issued)
    /\ TimersInv(timers) /\ Remembering /\ IssuedOnce

IInv == NodeInv /\ RequestInv

-----------------------------------------------------------------------------
(* Following is transitive.                                                *)
LEMMA FollowsOn ==
    ASSUME NEW ss, NEW tt, NEW uu, GoodSessions(ss), GoodSessions(tt), GoodSessions(uu),
           Follows(ss, tt), Follows(tt, uu)
    PROVE  Follows(ss, uu)
<1>1. Len(ss) \in Nat /\ Len(tt) \in Nat /\ Len(uu) \in Nat
  BY LenProperties DEF GoodSessions
<1> QED BY SMTT(60), <1>1 DEF Follows

(* One session changes, by a step that keeps its invariant.                *)
LEMMA OneSession ==
    ASSUME NEW ss, GoodSessions(ss), NEW i \in 1..Len(ss), NEW t, Keeps(ss[i], t, Handlers)
    PROVE  /\ GoodSessions([ss EXCEPT ![i] = t]) /\ Follows(ss, [ss EXCEPT ![i] = t])
           /\ Len([ss EXCEPT ![i] = t]) = Len(ss)
<1>1. PICK S : ss \in Seq(S) BY DEF GoodSessions
<1>2. ss \in Seq(S \cup {t}) BY <1>1, SeqMonotonic
<1> DEFINE tt == [ss EXCEPT ![i] = t]
<1>3. /\ tt \in Seq(S \cup {t}) /\ Len(tt) = Len(ss) /\ Len(ss) \in Nat
      /\ \A j \in 1..Len(ss) : tt[j] = IF j = i THEN t ELSE ss[j]
  BY SMTT(60), <1>2, ExceptSeq, LenProperties
<1> HIDE DEF tt
<1>4. GoodSessions(tt) /\ Follows(ss, tt)
  BY SMTT(60), <1>3 DEF GoodSessions, Follows, Keeps
<1> QED BY <1>3, <1>4 DEF tt

(* A session is added.                                                     *)
LEMMA MoreSessions ==
    ASSUME NEW ss, GoodSessions(ss), NEW t, SessInv(t, Handlers)
    PROVE  /\ GoodSessions(Append(ss, t)) /\ Follows(ss, Append(ss, t))
           /\ Len(Append(ss, t)) = Len(ss) + 1 /\ Append(ss, t)[Len(ss) + 1] = t
           /\ Len(ss) \in Nat
<1>1. PICK S : ss \in Seq(S) BY DEF GoodSessions
<1>2. ss \in Seq(S \cup {t}) BY <1>1, SeqMonotonic
<1> DEFINE tt == Append(ss, t)
<1>3. /\ tt \in Seq(S \cup {t}) /\ Len(tt) = Len(ss) + 1 /\ Len(ss) \in Nat
      /\ \A j \in 1..Len(ss) : tt[j] = ss[j]
      /\ tt[Len(ss) + 1] = t
  BY SMTT(60), <1>2, AppendProperties, LenProperties
<1> HIDE DEF tt
<1>4. GoodSessions(tt) /\ Follows(ss, tt)
  BY SMTT(60), <1>3 DEF GoodSessions, Follows
<1> QED BY <1>3, <1>4 DEF tt

(* What the map, the waiting sessions and posted handlers say stays true.  *)
LEMMA StillTrue ==
    ASSUME NodeInv, GoodSessions(sess'), Follows(sess, sess')
    PROVE  /\ \A p : PostedFor(p, sess) => PostedFor(p, sess')
           /\ UNCHANGED sessions => MapOK'
           /\ UNCHANGED waiting => WaitOK'
<1>1. Len(sess) \in Nat /\ Len(sess') \in Nat
  BY LenProperties DEF NodeInv, GoodSessions
<1>2. ASSUME NEW p, PostedFor(p, sess) PROVE PostedFor(p, sess')
  BY SMTT(60), <1>1, <1>2 DEF PostedFor, Follows
<1>3. ASSUME UNCHANGED sessions PROVE MapOK'
  BY SMTT(60), <1>1, <1>3 DEF NodeInv, MapOK, Follows
<1>4. ASSUME UNCHANGED waiting PROVE WaitOK'
  BY SMTT(60), <1>1, <1>4 DEF NodeInv, WaitOK, Follows
<1> QED BY <1>2, <1>3, <1>4

(* A message is sent to session i of ss, which the posted handlers p fit.  *)
LEMMA DeliverInv ==
    ASSUME NEW ss, GoodSessions(ss), NEW p, PostedFor(p, ss), NEW i \in 1..Len(ss),
           NEW m \in Nat, Deliver(ss, p, i, m)
    PROVE  GoodSessions(sess') /\ Follows(ss, sess') /\ PostedFor(posted', sess')
<1>1. Len(ss) \in Nat BY LenProperties DEF GoodSessions
<1>2. CASE sess' = [ss EXCEPT ![i] = send_message(ss[i], m)] /\ posted' = p
  <2>1. [do |-> "push", msg |-> m] \in Jobs(Handlers) BY DEF Jobs
  <2> DEFINE t == send_message(ss[i], m)
  <2>2. Keeps(ss[i], t, Handlers)
    BY <2>1, PostSessInv DEF GoodSessions, send_message
  <2> HIDE DEF t
  <2>3. GoodSessions(sess') /\ Follows(ss, sess') /\ Len(sess') = Len(ss)
    BY <1>2, <2>2, OneSession DEF t
  <2> QED BY <1>1, <1>2, <2>3 DEF PostedFor, Follows
<1>3. CASE /\ sess' = ss
           /\ posted' \in {p, p \cup {[kind |-> "send", msg |-> m, sid |-> i, holds |-> TRUE]}}
  <2>1. Follows(ss, ss) BY SMTT(60), <1>1 DEF Follows
  <2> QED BY SMTT(60), <1>3, <2>1 DEF PostedFor
<1> QED BY <1>2, <1>3 DEF Deliver

(* A message to an endpoint, from sessions ss that follow the node's: a    *)
(* session is found or added, and remembered.                              *)
LEMMA SendToInv ==
    ASSUME NodeInv, NEW ss, GoodSessions(ss), Follows(sess, ss), Len(ss) = Len(sess),
           NEW p, PostedFor(p, ss), NEW ep \in Endpoints, SendTo(ss, p, ep)
    PROVE  /\ GoodSessions(sess') /\ Follows(sess, sess') /\ PostedFor(posted', sess')
           /\ MapOK' /\ sends' \in Nat
<1> DEFINE tt == WithSession(ss, ep)
           i == find_session(ep)
<1>1. Len(sess) \in Nat BY LenProperties DEF NodeInv, GoodSessions
<1>2. /\ GoodSessions(tt) /\ Follows(ss, tt) /\ i \in 1..Len(tt) /\ tt[i].ep = ep
  <2>1. CASE Found(ep)
    <3>1. tt = ss /\ i = sessions[ep] BY <2>1 DEF WithSession, find_session
    <3>2. i \in 1..Len(sess) /\ sess[i].ep = ep
      BY <2>1, <3>1 DEF Found, NodeInv, MapOK
    <3> QED BY <1>1, <3>1, <3>2 DEF Follows
  <2>2. CASE ~Found(ep)
    <3> DEFINE s == NewSession(ep, [do |-> "open"], {MapHandler(ep, Len(ss) + 1)})
    <3>1. tt = Append(ss, s) /\ i = Len(ss) + 1 BY <2>2 DEF WithSession, find_session
    <3>2. [do |-> "open"] \in Jobs(Handlers) /\ {MapHandler(ep, Len(ss) + 1)} \in SUBSET Handlers
      BY SMTT(60), <1>1 DEF Jobs, Handlers, MapHandler
    <3>3. SessInv(s, Handlers) BY <3>2, NewSessInv
    <3>4. s.ep = ep BY DEF NewSession
    <3> HIDE DEF s, tt
    <3> QED BY SMTT(60), <1>1, <3>1, <3>3, <3>4, MoreSessions
  <2> QED BY <2>1, <2>2
<1>3. /\ sends' = sends + 1 /\ sessions' = Remembered(ep) /\ Deliver(tt, p, i, sends + 1)
  BY DEF SendTo
<1> HIDE DEF tt
<1>4. Follows(sess, tt) /\ Len(tt) \in Nat /\ Len(ss) <= Len(tt)
  BY <1>2, FollowsOn, LenProperties DEF NodeInv, GoodSessions, Follows
<1>5. PostedFor(p, tt)
  BY SMTT(60), <1>1, <1>2, <1>4 DEF PostedFor, Follows
<1>6. sends' \in Nat /\ sends + 1 \in Nat BY SMTT(60), <1>3 DEF NodeInv
<1>7. GoodSessions(sess') /\ Follows(tt, sess') /\ PostedFor(posted', sess')
  BY <1>2, <1>3, <1>5, <1>6, DeliverInv
<1>8. Follows(sess, sess')
  BY <1>2, <1>4, <1>7, FollowsOn DEF NodeInv
<1>9. MapOK'
  <2>1. Len(sess') \in Nat BY <1>7, LenProperties DEF GoodSessions
  <2>2. i \in 1..Len(sess') /\ sess'[i].ep = ep
    BY SMTT(60), <1>2, <1>4, <1>7, <2>1 DEF Follows
  <2> HIDE DEF i
  <2>3. sessions' = [e \in DOMAIN sessions \cup {ep} |-> IF e = ep THEN i ELSE sessions[e]]
    BY <1>3 DEF Remembered, i
  <2> QED BY SMTT(60), <1>1, <1>8, <2>1, <2>2, <2>3 DEF MapOK, NodeInv, Follows
<1> QED BY <1>6, <1>7, <1>8, <1>9

(* A step of session i, after which p is posted.                           *)
LEMMA SessionStepInv ==
    ASSUME NodeInv, NEW i \in 1..Len(sess), NEW s, Keeps(sess[i], s, Handlers), Step(i, s),
           PostedFor(posted', sess), UNCHANGED waiting
    PROVE  NodeInv'
<1>1. sess' = [sess EXCEPT ![i] = s] /\ UNCHANGED <<work, sessions, sends>> BY DEF Step
<1>2. GoodSessions(sess') /\ Follows(sess, sess')
  BY <1>1, OneSession DEF NodeInv
<1>3. PostedFor(posted', sess') /\ MapOK' /\ WaitOK'
  BY <1>1, <1>2, StillTrue
<1> QED BY <1>1, <1>2, <1>3 DEF NodeInv

(* Steps of sessions, the node's shutdown handler, delayed messages.       *)
LEMMA NodeStepInv == NodeInv /\ NodeStep /\ UNCHANGED waiting => NodeInv'
<1> SUFFICES ASSUME NodeInv, NodeStep, UNCHANGED waiting PROVE NodeInv' OBVIOUS
<1>0. /\ PostedFor(posted, sess) /\ GoodSessions(sess) /\ DOMAIN sess = 1..Len(sess)
      /\ Len(sess) \in Nat
  BY LenProperties DEF NodeInv, GoodSessions
<1>1. ASSUME NEW i \in DOMAIN sess, SessionWork(i) \/ PeerWork(i), ~Read(i) PROVE NodeInv'
  <2>0. i \in 1..Len(sess) /\ SessInv(sess[i], Handlers) BY <1>0 DEF GoodSessions
  <2>1. CASE StrandRun(i)
    <3> DEFINE s == RunJob(sess[i])
    <3>1. Step(i, s) /\ sess[i].strand # <<>> /\ posted' \in {posted, posted \cup s.handlers}
      BY <2>1 DEF StrandRun
    <3>2. Keeps(sess[i], s, Handlers) BY <2>0, <3>1, RunJobSessInv
    <3>3. s.handlers \subseteq Handlers BY <3>2 DEF Keeps, SessInv, Shape
    <3>4. PostedFor(posted', sess)
      <4>1. \A h \in Handlers : h.kind \in {"map", "wait"} BY DEF Handlers
      <4> HIDE DEF s
      <4> QED BY <1>0, <3>1, <3>3, <4>1 DEF PostedFor
    <3> HIDE DEF s
    <3> QED BY <2>0, <3>1, <3>2, <3>4, SessionStepInv
  <2>2. CASE Connect(i)
    <3>1. PICK ok \in BOOLEAN : Step(i, Connected(sess[i], ok)) /\ UNCHANGED posted
      BY <2>2, WorksAssumption DEF Connect, NodeInv
    <3>2. Keeps(sess[i], Connected(sess[i], ok), Handlers) BY <2>0, CompletionSessInv
    <3> QED BY <1>0, <2>0, <3>1, <3>2, SessionStepInv
  <2>3. CASE Handshake(i)
    <3>1. PICK ok \in BOOLEAN : Step(i, Handshaken(sess[i], ok)) /\ UNCHANGED posted
      BY <2>3, WorksAssumption DEF Handshake, NodeInv
    <3>2. Keeps(sess[i], Handshaken(sess[i], ok), Handlers) BY <2>0, CompletionSessInv
    <3> QED BY <1>0, <2>0, <3>1, <3>2, SessionStepInv
  <2>4. CASE Written(i)
    <3>1. PICK r \in {"ok", "closed", "error"} : Step(i, WriteDone(sess[i], r)) /\ UNCHANGED posted
      BY <2>4 DEF Written
    <3>2. Keeps(sess[i], WriteDone(sess[i], r), Handlers)
      BY <2>0, <2>4, WriteDoneSessInv DEF Written
    <3> QED BY <1>0, <2>0, <3>1, <3>2, SessionStepInv
  <2>5. CASE IdleTimeout(i)
    <3>1. Step(i, TimerFired(sess[i])) /\ UNCHANGED posted BY <2>5 DEF IdleTimeout
    <3>2. Keeps(sess[i], TimerFired(sess[i]), Handlers) BY <2>0, CompletionSessInv
    <3> QED BY <1>0, <2>0, <3>1, <3>2, SessionStepInv
  <2>6. CASE Closed(i)
    <3>1. Step(i, CloseDone(sess[i])) /\ UNCHANGED posted BY <2>6 DEF Closed
    <3>2. Keeps(sess[i], CloseDone(sess[i]), Handlers) BY <2>0, CompletionSessInv
    <3> QED BY <1>0, <2>0, <3>1, <3>2, SessionStepInv
  <2> QED BY <1>1, <2>1, <2>2, <2>3, <2>4, <2>5, <2>6 DEF SessionWork, PeerWork
<1>2. ASSUME NEW i \in DOMAIN sess, Read(i) PROVE NodeInv'
  <2>0. i \in 1..Len(sess) /\ SessInv(sess[i], Handlers) BY <1>0 DEF GoodSessions
  <2>1. PICK r \in {"ok", "closed", "error"} : Step(i, ReadDone(sess[i], r))
    BY <1>2 DEF Read
  <2>2. Keeps(sess[i], ReadDone(sess[i], r), Handlers) BY <2>0, ReadDoneSessInv
  <2>3. PostedFor(posted', sess)
    <3>1. CASE UNCHANGED posted BY <1>0, <3>1
    <3>2. CASE \E msg \in IF sess[i].ep \in Endpoints THEN {Other} ELSE work.incoming :
                posted' = posted \cup {[kind |-> "proto", msg |-> msg, sid |-> i, holds |-> TRUE]}
      <4>1. PICK msg \in IF sess[i].ep \in Endpoints THEN {Other} ELSE work.incoming :
                posted' = posted \cup {[kind |-> "proto", msg |-> msg, sid |-> i, holds |-> TRUE]}
        BY <3>2
      <4>2. msg.kind = "request" => msg \in Requests /\ sess[i].ep \notin Endpoints
        BY SMTT(60) DEF Other, Requests, NodeInv
      <4> QED BY SMTT(60), <1>0, <2>0, <4>1, <4>2 DEF PostedFor
    <3> QED BY <1>2, <3>1, <3>2 DEF Read
  <2> QED BY <2>0, <2>1, <2>2, <2>3, SessionStepInv
<1>3. ASSUME NEW h \in posted, priv_session_shutdown_handler(h) PROVE NodeInv'
  <2>1. /\ UNCHANGED <<work, sess, sends>> /\ posted' \subseteq posted
        /\ sessions' \in {sessions, [e \in DOMAIN sessions \ {h.ep} |-> sessions[e]]}
    BY <1>3 DEF priv_session_shutdown_handler
  <2>2. MapOK' BY <2>1 DEF NodeInv, MapOK
  <2>3. WaitOK' BY <2>1 DEF NodeInv, WaitOK
  <2>4. PostedFor(posted', sess') BY <1>0, <2>1 DEF PostedFor
  <2> QED BY <2>1, <2>2, <2>3, <2>4 DEF NodeInv
<1>4. ASSUME NEW h \in posted, Retry(h) PROVE NodeInv'
  <2>1. /\ Deliver(sess, posted \ {h}, h.sid, h.msg) /\ UNCHANGED <<work, sessions, sends>>
        /\ h.sid \in 1..Len(sess) /\ h.msg \in Nat /\ PostedFor(posted \ {h}, sess)
    BY <1>0, <1>4 DEF Retry, PostedFor
  <2>2. GoodSessions(sess') /\ Follows(sess, sess') /\ PostedFor(posted', sess')
    BY <1>0, <2>1, DeliverInv
  <2>3. MapOK' /\ WaitOK' BY <2>1, <2>2, StillTrue
  <2> QED BY <2>1, <2>2, <2>3 DEF NodeInv
<1> QED BY <1>1, <1>2, <1>3, <1>4 DEF NodeStep, PeerWork

-----------------------------------------------------------------------------
(* Starting and finishing a timer keeps the monitor's bound.               *)
LEMMA TimersKept ==
    ASSUME NEW t, TimersInv(t), NEW id \in AnyHash
    PROVE  TimersInv(start_timer(t, id)) /\ TimersInv(finish_timer(t, id))
<1>1. TimersInv(finish_timer(t, id))
  BY DEF TimersInv, finish_timer
<1>2. CASE id \in t.started BY <1>1, <1>2 DEF start_timer
<1>3. CASE id \notin t.started
  <2> DEFINE more == Append(t.ordered, id)
  <2>1. /\ t.ordered \in Seq(AnyHash) /\ more \in Seq(AnyHash) /\ Len(more) = Len(t.ordered) + 1
        /\ Len(t.ordered) \in Nat /\ Len(t.ordered) <= MaxTimers /\ MaxTimers \in Nat
        /\ \A k \in 1..Len(t.ordered) : more[k] = t.ordered[k]
        /\ more[Len(t.ordered) + 1] = id
        /\ DOMAIN t.ordered = 1..Len(t.ordered)
        /\ DOMAIN more = 1..Len(more) /\ more # <<>>
    BY SMTT(60), MaxTimersAssumption, AppendProperties, LenProperties DEF TimersInv
  <2>2. \A x \in t.started \cup {id} : \E k \in 1..Len(more) : more[k] = x
    <3> HIDE DEF more
    <3> QED BY SMTT(60), <2>1 DEF TimersInv
  <2>3. CASE Len(more) > MaxTimers
    <3>1. start_timer(t, id) = [started |-> (t.started \cup {id}) \ {Head(more)}, ordered |-> Tail(more)]
      BY <1>3, <2>3 DEF start_timer
    <3>2. /\ Tail(more) \in Seq(AnyHash) /\ Len(Tail(more)) = Len(more) - 1
          /\ \A k \in 1..Len(Tail(more)) : Tail(more)[k] = more[k + 1]
          /\ DOMAIN Tail(more) = 1..Len(Tail(more))
      <4> HIDE DEF more
      <4> QED BY <2>1, HeadTailProperties, LenProperties
    <3>3. Head(more) = more[1]
      <4> HIDE DEF more
      <4> QED BY SMTT(60), <2>1
    <3> DEFINE m == Tail(more)
               u == start_timer(t, id)
    <3>4. \A x \in (t.started \cup {id}) \ {more[1]} : \E k \in 1..Len(m) : m[k] = x
      <4> HIDE DEF more
      <4> SUFFICES ASSUME NEW x \in (t.started \cup {id}) \ {more[1]}
                   PROVE  \E k \in 1..Len(m) : m[k] = x
        OBVIOUS
      <4>1. PICK k \in 1..Len(more) : more[k] = x BY <2>2
      <4>2. k - 1 \in 1..Len(m) /\ m[k - 1] = more[k] BY SMTT(60), <2>1, <3>2, <4>1
      <4> QED BY <4>1, <4>2
    <3> HIDE DEF more, m
    <3>5. u.started = (t.started \cup {id}) \ {more[1]} /\ u.ordered = m
      BY SMTT(60), <3>1, <3>3 DEF m
    <3>6. u \in [started : SUBSET AnyHash, ordered : Seq(AnyHash)]
      BY SMTT(60), <3>1, <3>2 DEF TimersInv
    <3> HIDE DEF u
    <3>7. Len(m) = Len(more) - 1 /\ DOMAIN m = 1..Len(m) BY <3>2 DEF m
    <3>8. Len(u.ordered) <= MaxTimers BY SMTT(60), <2>1, <3>5, <3>7
    <3>9. \A x \in u.started : \E k \in DOMAIN u.ordered : u.ordered[k] = x
      BY <3>4, <3>5, <3>7
    <3>10. TimersInv(u) BY <3>6, <3>8, <3>9 DEF TimersInv
    <3> QED BY <1>1, <3>10 DEF u
  <2>4. CASE ~(Len(more) > MaxTimers)
    <3>1. start_timer(t, id) = [started |-> t.started \cup {id}, ordered |-> more]
      BY <1>3, <2>4 DEF start_timer
    <3> DEFINE u == start_timer(t, id)
    <3> HIDE DEF more
    <3>2. /\ u \in [started : SUBSET AnyHash, ordered : Seq(AnyHash)]
          /\ u.started = t.started \cup {id} /\ u.ordered = more
      BY SMTT(60), <2>1, <3>1 DEF TimersInv
    <3> HIDE DEF u
    <3>3. TimersInv(u) BY SMTT(60), <2>1, <2>2, <2>4, <3>2 DEF TimersInv
    <3> QED BY <1>1, <3>3 DEF u
  <2> QED BY <2>3, <2>4
<1> QED BY <1>1, <1>2, <1>3

(* A request that is new, or only refused, forwarded or issued again: what *)
(* handle_request does to recent_requests and to the history.              *)
LEMMA IssueInv ==
    ASSUME RequestInv, NEW hash \in AnyHash, NEW ts \in Nat, hash[2] = ts,
           ts >= now - MaxAge, <<ts, hash>> \notin recent, recent' = saw_request(hash, ts),
           issued' = Append(issued, [hash |-> hash, ts |-> ts, at |-> now]),
           UNCHANGED <<now, executed>>, TimersInv(timers')
    PROVE  RequestInv'
<1> DEFINE R == [hash : AnyHash, ts : Nat, at : Nat]
           r == [hash |-> hash, ts |-> ts, at |-> now]
           n == Len(issued)
<1>1. r \in R /\ r.hash = hash /\ r.ts = ts /\ r.at = now /\ issued \in Seq(R) /\ MaxAge \in Nat
      /\ now \in Nat /\ now' = now
  BY GatewayAssumption DEF RequestInv
<1> HIDE DEF r, R
<1>2. /\ issued' \in Seq(R) /\ Len(issued') = n + 1 /\ n \in Nat
      /\ DOMAIN issued' = 1..(n + 1) /\ DOMAIN issued = 1..n
      /\ \A j \in 1..n : issued'[j] = issued[j] /\ issued[j] \in R
      /\ issued'[n + 1] = r
  <2>1. issued' = Append(issued, r) BY DEF r
  <2> QED BY SMTT(60), <1>1, <2>1, AppendProperties, LenProperties, ElementOfSeq
<1> HIDE DEF n
<1>3. Remembering'
  <2>1. ASSUME NEW j \in 1..n
        PROVE  /\ issued'[j].hash[2] = issued'[j].ts
               /\ <<issued'[j].ts, issued'[j].hash>> \in recent' \/ issued'[j].ts + MaxAge <= now'
    <3> DEFINE x == <<issued[j].ts, issued[j].hash>>
    <3>1. issued[j].ts \in Nat BY <1>2 DEF R
    <3>2. issued[j].hash[2] = issued[j].ts /\ (x \in recent \/ issued[j].ts + MaxAge <= now)
      BY <1>2 DEF RequestInv, Remembering
    <3>3. x[1] = issued[j].ts OBVIOUS
    <3> HIDE DEF x
    <3>4. x \in recent' \/ issued[j].ts + MaxAge <= now
      BY SMTT(60), <1>1, <3>1, <3>2, <3>3 DEF saw_request
    <3> QED BY <1>1, <1>2, <3>2, <3>4 DEF x
  <2>2. <<ts, hash>> \in recent' \/ ts + MaxAge <= now
    <3> DEFINE x == <<ts, hash>>
    <3>1. x[1] = ts OBVIOUS
    <3> HIDE DEF x
    <3>2. recent' = {y \in recent \cup {x} : y[1] > now - MaxAge} BY DEF saw_request, x
    <3>3. x \in recent' \/ ts + MaxAge <= now BY SMTT(60), <1>1, <3>1, <3>2
    <3> QED BY <3>3 DEF x
  <2>3. r.hash[2] = r.ts /\ (<<r.ts, r.hash>> \in recent' \/ r.ts + MaxAge <= now')
    BY <1>1, <2>2
  <2>4. \A j \in 1..(n + 1) : j \in 1..n \/ j = n + 1 BY SMTT(60), <1>2
  <2> QED BY <1>2, <2>1, <2>3, <2>4 DEF Remembering
<1>4. IssuedOnce'
  <2> SUFFICES ASSUME NEW j \in 1..(n + 1), NEW k \in 1..(n + 1), j < k,
                      issued'[j].hash = issued'[k].hash
               PROVE  issued'[k].at = issued'[k].ts + MaxAge
    BY SMTT(60), <1>2 DEF IssuedOnce
  <2>1. CASE k <= n
    <3>1. j \in 1..n /\ k \in 1..n BY SMTT(60), <1>2, <2>1
    <3> QED BY <1>2, <3>1 DEF RequestInv, IssuedOnce
  <2>2. CASE k = n + 1
    <3>1. j \in 1..n /\ issued[j].hash = hash BY SMTT(60), <1>1, <1>2, <2>2
    <3>2. /\ issued[j].ts = ts /\ issued[j].ts \in Nat
          /\ <<issued[j].ts, issued[j].hash>> \in recent \/ issued[j].ts + MaxAge <= now
      BY <1>2, <3>1 DEF RequestInv, Remembering, R
    <3>3. ts + MaxAge <= now BY <3>1, <3>2
    <3>4. r.at = r.ts + MaxAge BY SMTT(60), <1>1, <3>3
    <3> QED BY <1>2, <2>2, <3>4
  <2>3. k <= n \/ k = n + 1 BY SMTT(60), <1>2
  <2> QED BY <2>1, <2>2, <2>3
<1> QED BY SMTT(60), <1>1, <1>2, <1>3, <1>4 DEF RequestInv, R, n

(* What a step that leaves the requests' state alone, or only starts or    *)
(* finishes a timer, keeps.                                                *)
LEMMA QuietRequests ==
    ASSUME RequestInv, UNCHANGED <<now, recent, issued, executed>>, TimersInv(timers')
    PROVE  RequestInv'
  BY DEF RequestInv, Remembering, IssuedOnce

(* An error goes to session i.                                             *)
LEMMA ErrorInv ==
    ASSUME NodeInv, NEW ss, GoodSessions(ss), Follows(sess, ss), NEW p, PostedFor(p, ss),
           NEW i \in 1..Len(ss), send_error_response(ss, p, i)
    PROVE  /\ GoodSessions(sess') /\ Follows(sess, sess') /\ PostedFor(posted', sess')
           /\ sends' \in Nat
<1>1. sends' = sends + 1 /\ sends + 1 \in Nat /\ Deliver(ss, p, i, sends + 1)
  BY SMTT(60) DEF NodeInv, send_error_response
<1>2. GoodSessions(sess') /\ Follows(ss, sess') /\ PostedFor(posted', sess')
  BY <1>1, DeliverInv
<1> QED BY <1>1, <1>2, FollowsOn DEF NodeInv

(* pbft::handle_request, of a request of session i.                        *)
LEMMA HandleRequestInv ==
    ASSUME IInv, NEW req \in Requests, NEW ts \in Nat, NEW i \in 1..Len(sess),
           sess[i].ep \notin Endpoints, NEW p, PostedFor(p, sess),
           handle_request(req, ts, i, p), UNCHANGED <<work, now>>
    PROVE  IInv'
<1> DEFINE hash == Hash(req, ts)
           ss == add_session_to_sessions_waiting(hash, i)
<1>0. /\ NodeInv /\ RequestInv /\ GoodSessions(sess) /\ Len(sess) \in Nat /\ Follows(sess, sess)
      /\ now \in Nat /\ MaxAge \in Nat
  <2>1. NodeInv /\ RequestInv /\ GoodSessions(sess) BY DEF IInv, NodeInv
  <2>2. Len(sess) \in Nat BY <2>1, LenProperties DEF GoodSessions
  <2> QED BY SMTT(60), <2>1, <2>2, GatewayAssumption DEF RequestInv, Follows
<1>1. hash \in AnyHash /\ hash[2] = ts BY SMTT(60) DEF AnyHash, Hash
<1>2. CASE ts < now - MaxAge \/ ts > now + MaxAge \/ req.large
  <2>1. send_error_response(sess, p, i) /\ UNCHANGED <<pbftVars, sessions>>
    BY <1>2 DEF handle_request
  <2>2. /\ GoodSessions(sess') /\ Follows(sess, sess') /\ PostedFor(posted', sess')
        /\ sends' \in Nat
    BY <1>0, <2>1, ErrorInv
  <2>3. MapOK' /\ WaitOK' BY <1>0, <2>1, <2>2, StillTrue DEF pbftVars
  <2>4. NodeInv' BY <1>0, <2>2, <2>3 DEF NodeInv
  <2>5. RequestInv' BY <1>0, <2>1, QuietRequests DEF pbftVars, RequestInv
  <2> QED BY <2>4, <2>5 DEF IInv
<1>3. CASE ~(ts < now - MaxAge \/ ts > now + MaxAge \/ req.large)
  <2>1. /\ waiting' = [h \in DOMAIN waiting \cup {hash} |->
                          IF h \in DOMAIN waiting THEN waiting[h] ELSE i]
        /\ timers' = start_timer(timers, hash) /\ UNCHANGED executed
    BY <1>3 DEF handle_request
  <2>2. GoodSessions(ss) /\ Follows(sess, ss) /\ Len(ss) = Len(sess)
    <3>1. CASE hash \in DOMAIN waiting
      BY <1>0, <3>1 DEF add_session_to_sessions_waiting
    <3>2. CASE hash \notin DOMAIN waiting
      <4> DEFINE s == add_shutdown_handler(sess[i], WaitHandler(hash, i))
      <4>1. WaitHandler(hash, i) \in Handlers
        BY SMTT(60), <1>0, <1>1 DEF WaitHandler, Handlers
      <4>2. [do |-> "handler", handler |-> WaitHandler(hash, i)] \in Jobs(Handlers)
        BY <4>1 DEF Jobs
      <4>3. Keeps(sess[i], s, Handlers)
        BY <1>0, <4>2, PostSessInv DEF GoodSessions, add_shutdown_handler
      <4>4. ss = [sess EXCEPT ![i] = s] BY <3>2 DEF add_session_to_sessions_waiting
      <4> HIDE DEF s, ss
      <4> QED BY <1>0, <4>3, <4>4, OneSession
    <3> QED BY <3>1, <3>2
  <2> HIDE DEF ss
  <2>3. PostedFor(p, ss) /\ i \in 1..Len(ss)
    BY <1>0, <2>2 DEF PostedFor, Follows
  <2>4. TimersInv(timers') BY <1>0, <1>1, <2>1, TimersKept DEF RequestInv
  <2>5. Follows(sess, sess') /\ GoodSessions(sess') => WaitOK'
    <3> SUFFICES ASSUME Follows(sess, sess'), GoodSessions(sess') PROVE WaitOK' OBVIOUS
    <3>1. Len(sess') \in Nat BY LenProperties DEF GoodSessions
    <3> HIDE DEF hash
    <3> QED BY SMTT(60), <1>0, <2>1, <3>1 DEF WaitOK, NodeInv, Follows
  <2>6. CASE ~is_primary
    <3>1. SendTo(ss, p, Primary) /\ UNCHANGED <<recent, issued>>
      BY <1>3, <2>6 DEF handle_request, ss
    <3>2. /\ GoodSessions(sess') /\ Follows(sess, sess') /\ PostedFor(posted', sess')
          /\ MapOK' /\ sends' \in Nat
      BY <1>0, <2>2, <2>3, <3>1, SendToInv, GatewayAssumption
    <3>3. NodeInv' BY <1>0, <2>5, <3>2 DEF NodeInv
    <3>4. RequestInv' BY <1>0, <2>1, <2>4, <3>1, QuietRequests
    <3> QED BY <3>3, <3>4 DEF IInv
  <2>7. CASE is_primary /\ (Len(issued) + 1 - executed > AdmissionWindow \/ <<ts, hash>> \in recent)
    <3>1. send_error_response(ss, p, i) /\ UNCHANGED <<recent, issued, sessions>>
      BY <1>3, <2>7 DEF handle_request, ss
    <3>2. /\ GoodSessions(sess') /\ Follows(sess, sess') /\ PostedFor(posted', sess')
          /\ sends' \in Nat
      BY <1>0, <2>2, <2>3, <3>1, ErrorInv
    <3>3. MapOK' BY <1>0, <3>1, <3>2, StillTrue
    <3>4. NodeInv' BY <1>0, <2>5, <3>2, <3>3 DEF NodeInv
    <3>5. RequestInv' BY <1>0, <2>1, <2>4, <3>1, QuietRequests
    <3> QED BY <3>4, <3>5 DEF IInv
  <2>8. CASE is_primary /\ ~(Len(issued) + 1 - executed > AdmissionWindow \/ <<ts, hash>> \in recent)
    <3>1. /\ sess' = ss /\ posted' = p /\ UNCHANGED <<sends, sessions>>
          /\ recent' = IF req.genuine THEN saw_request(hash, ts) ELSE recent
          /\ issued' = IF req.genuine
                       THEN Append(issued, [hash |-> hash, ts |-> ts, at |-> now]) ELSE issued
      BY <1>3, <2>8 DEF handle_request, ss
    <3>2. MapOK' BY <1>0, <2>2, <3>1, StillTrue
    <3>3. NodeInv' BY <1>0, <2>2, <2>3, <2>5, <3>1, <3>2 DEF NodeInv
    <3>4. CASE req.genuine
      <4>1. ts >= now - MaxAge /\ <<ts, hash>> \notin recent BY SMTT(60), <1>0, <1>3, <2>8
      <4>2. /\ recent' = saw_request(hash, ts)
            /\ issued' = Append(issued, [hash |-> hash, ts |-> ts, at |-> now])
        BY <3>1, <3>4
      <4> HIDE DEF hash
      <4>3. RequestInv' BY <1>0, <1>1, <2>1, <2>4, <4>1, <4>2, IssueInv
      <4> QED BY <3>3, <4>3 DEF IInv
    <3>5. CASE ~req.genuine
      <4>1. RequestInv' BY <1>0, <2>1, <2>4, <3>1, <3>5, QuietRequests
      <4> QED BY <3>3, <4>1 DEF IInv
    <3> QED BY <3>4, <3>5
  <2> QED BY <2>6, <2>7, <2>8
<1> QED BY <1>2, <1>3

-----------------------------------------------------------------------------
(* The invariant holds of a node that just started.                        *)
LEMMA InitIInv == Init => IInv
<1> SUFFICES ASSUME Init PROVE IInv OBVIOUS
<1>1. GoodSessions(sess)
  <2>1. sess \in Seq({}) /\ Len(sess) = 0 BY EmptySeq DEF Init, NodeInit
  <2> QED BY SMTT(60), <2>1 DEF GoodSessions
<1>2. NodeInv
  BY <1>1 DEF Init, NodeInit, NodeInv, MapOK, WaitOK, PostedFor
<1>3. TimersInv(timers)
  BY SMTT(60), MaxTimersAssumption, EmptySeq DEF Init, NoTimers, TimersInv
<1>4. /\ issued = <<>> /\ executed = 0 /\ now \in Nat
      /\ issued \in Seq([hash : AnyHash, ts : Nat, at : Nat]) /\ Len(issued) = 0
  BY GatewayAssumption, EmptySeq DEF Init
<1>5. Remembering /\ IssuedOnce
  BY SMTT(60), <1>4 DEF Remembering, IssuedOnce
<1> QED BY SMTT(60), <1>2, <1>3, <1>4, <1>5 DEF IInv, RequestInv

(* Every step keeps the invariant.                                         *)
LEMMA NextIInv == IInv /\ [Next]_vars => IInv'
<1> SUFFICES ASSUME IInv, [Next]_vars PROVE IInv' OBVIOUS
<1>0. /\ NodeInv /\ RequestInv /\ GoodSessions(sess) /\ PostedFor(posted, sess)
      /\ DOMAIN sess = 1..Len(sess) /\ Len(sess) \in Nat
  <2>1. NodeInv /\ RequestInv /\ GoodSessions(sess) /\ PostedFor(posted, sess)
    BY DEF IInv, NodeInv
  <2> QED BY <2>1, LenProperties DEF GoodSessions
<1>1. ASSUME UNCHANGED <<pbftVars, now>> PROVE RequestInv'
  BY <1>0, <1>1, QuietRequests DEF pbftVars, RequestInv
<1>2. CASE NodeWork
  BY <1>0, <1>1, <1>2, NodeStepInv DEF NodeWork, IInv, pbftVars
<1>3. CASE PeerSend
  <2>1. PICK ep \in Endpoints : Send(ep) /\ UNCHANGED <<pbftVars, now>> BY <1>3 DEF PeerSend
  <2>2. SendTo(sess, posted, ep) /\ UNCHANGED work BY <2>1 DEF Send
  <2>3. Follows(sess, sess) BY SMTT(60), <1>0 DEF Follows
  <2>4. /\ GoodSessions(sess') /\ Follows(sess, sess') /\ PostedFor(posted', sess')
        /\ MapOK' /\ sends' \in Nat
    BY <1>0, <2>2, <2>3, SendToInv
  <2>5. WaitOK' BY <1>0, <2>1, <2>4, StillTrue DEF pbftVars
  <2>6. NodeInv' BY <1>0, <2>2, <2>4, <2>5 DEF NodeInv
  <2> QED BY <1>1, <2>1, <2>6 DEF IInv
<1>4. CASE ClientAccept
  <2> DEFINE s == NewSession("client", [do |-> "accept"], {})
  <2>1. /\ sess' = Append(sess, s) /\ UNCHANGED <<work, sessions, posted, sends, waiting>>
        /\ UNCHANGED <<pbftVars, now>>
    BY <1>4 DEF ClientAccept, Accept, pbftVars
  <2>2. SessInv(s, Handlers)
    <3>1. [do |-> "accept"] \in Jobs(Handlers) BY DEF Jobs
    <3> QED BY <3>1, NewSessInv
  <2> HIDE DEF s
  <2>3. GoodSessions(sess') /\ Follows(sess, sess') BY <1>0, <2>1, <2>2, MoreSessions
  <2>4. MapOK' /\ WaitOK' /\ PostedFor(posted', sess')
    BY <1>0, <2>1, <2>3, StillTrue
  <2>5. NodeInv' BY <1>0, <2>1, <2>3, <2>4 DEF NodeInv
  <2> QED BY <1>1, <2>1, <2>5 DEF IInv
<1>5. ASSUME NEW h \in posted, HandleMessage(h) PROVE IInv'
  <2>1. PostedFor(posted \ {h}, sess) BY <1>0 DEF PostedFor
  <2>2. CASE h.msg.kind = "request"
    <3> DEFINE ts == IF h.msg.ts = 0 THEN now ELSE h.msg.ts
    <3>1. handle_request(h.msg, ts, h.sid, posted \ {h}) /\ UNCHANGED <<work, now>>
      BY <1>5, <2>2 DEF HandleMessage
    <3>2. h.msg \in Requests /\ h.sid \in 1..Len(sess) /\ sess[h.sid].ep \notin Endpoints
      BY <1>0, <1>5, <2>2 DEF HandleMessage, PostedFor
    <3>3. ts \in Nat
      BY <1>0, <3>2, GatewayAssumption DEF Requests, RequestInv
    <3> HIDE DEF ts
    <3> QED BY <2>1, <3>1, <3>2, <3>3, HandleRequestInv
  <2>3. CASE h.msg.kind = "now"
    <3>1. /\ Deliver(sess, posted \ {h}, h.sid, sends + 1) /\ sends' = sends + 1
          /\ UNCHANGED <<sessions, pbftVars, work, now>>
      BY <1>5, <2>3 DEF HandleMessage
    <3>2. h.sid \in 1..Len(sess) /\ sends + 1 \in Nat
      BY SMTT(60), <1>0, <1>5 DEF HandleMessage, PostedFor, NodeInv
    <3>3. GoodSessions(sess') /\ Follows(sess, sess') /\ PostedFor(posted', sess')
      BY <1>0, <2>1, <3>1, <3>2, DeliverInv
    <3>4. MapOK' /\ WaitOK' BY <1>0, <3>1, <3>3, StillTrue DEF pbftVars
    <3>5. NodeInv' BY <1>0, <3>1, <3>2, <3>3, <3>4 DEF NodeInv
    <3> QED BY <1>1, <3>1, <3>5 DEF IInv
  <2>4. CASE h.msg.kind \notin {"request", "now"}
    <3>1. posted' = posted \ {h} /\ UNCHANGED <<sess, sessions, sends, pbftVars, work, now>>
      BY <1>5, <2>4 DEF HandleMessage
    <3>2. MapOK' /\ WaitOK' BY <1>0, <3>1 DEF NodeInv, MapOK, WaitOK, pbftVars
    <3>3. NodeInv' BY <1>0, <2>1, <3>1, <3>2 DEF NodeInv
    <3> QED BY <1>1, <3>1, <3>3 DEF IInv
  <2> QED BY <2>2, <2>3, <2>4
<1>6. ASSUME NEW h \in posted, StopWaiting(h) PROVE IInv'
  <2>1. /\ posted' \subseteq posted
        /\ waiting' \in {waiting, [k \in DOMAIN waiting \ {h.hash} |-> waiting[k]]}
        /\ UNCHANGED <<sess, sessions, sends, recent, timers, issued, executed, work, now>>
    BY <1>6 DEF StopWaiting
  <2>2. MapOK' BY <1>0, <2>1 DEF NodeInv, MapOK
  <2>3. WaitOK' BY <1>0, <2>1 DEF NodeInv, WaitOK
  <2>4. PostedFor(posted', sess') BY <1>0, <2>1 DEF PostedFor
  <2>5. NodeInv' BY <1>0, <2>1, <2>2, <2>3, <2>4 DEF NodeInv
  <2>6. RequestInv' BY <1>0, <2>1, QuietRequests DEF RequestInv
  <2> QED BY <2>5, <2>6 DEF IInv
<1>7. ASSUME NEW hash \in DOMAIN waiting, HandleResponse(hash) PROVE IInv'
  <2>1. /\ Deliver(sess, posted, waiting[hash], sends + 1) /\ sends' = sends + 1
        /\ timers' = finish_timer(timers, hash)
        /\ UNCHANGED <<sessions, waiting, recent, issued, executed, work, now>>
    BY <1>7 DEF HandleResponse
  <2>2. waiting[hash] \in 1..Len(sess) /\ sends + 1 \in Nat BY SMTT(60), <1>0 DEF NodeInv, WaitOK
  <2>3. GoodSessions(sess') /\ Follows(sess, sess') /\ PostedFor(posted', sess')
    BY <1>0, <2>1, <2>2, DeliverInv
  <2>4. MapOK' /\ WaitOK' BY <1>0, <2>1, <2>3, StillTrue
  <2>5. NodeInv' BY <1>0, <2>1, <2>2, <2>3, <2>4 DEF NodeInv
  <2>6. TimersInv(timers')
    <3>1. TimersInv(timers) BY <1>0 DEF RequestInv
    <3> QED BY <2>1, <3>1 DEF TimersInv, finish_timer
  <2>7. RequestInv' BY <1>0, <2>1, <2>6, QuietRequests
  <2> QED BY <2>5, <2>7 DEF IInv
<1>8. CASE Execute
  <2>1. /\ executed < Len(issued) /\ executed' = executed + 1
        /\ UNCHANGED <<nodeVars, waiting, recent, timers, issued, now>>
    BY <1>8 DEF Execute
  <2>2. NodeInv' BY <1>0, <2>1 DEF NodeInv, MapOK, WaitOK, nodeVars
  <2>3. RequestInv'
    <3>1. Len(issued) \in Nat BY <1>0, LenProperties DEF RequestInv
    <3> QED BY SMTT(60), <1>0, <2>1, <3>1 DEF RequestInv, Remembering, IssuedOnce
  <2> QED BY <2>2, <2>3 DEF IInv
<1>9. CASE Tick
  <2>1. now' = now + 1 /\ UNCHANGED <<nodeVars, pbftVars>> BY <1>9 DEF Tick
  <2>2. NodeInv' BY <1>0, <2>1 DEF NodeInv, MapOK, WaitOK, nodeVars, pbftVars
  <2>3. Remembering'
    <3>1. \A j \in DOMAIN issued : issued[j].ts \in Nat
      <4> DEFINE R == [hash : AnyHash, ts : Nat, at : Nat]
      <4>1. \A r \in R : r.ts \in Nat OBVIOUS
      <4> HIDE DEF R
      <4>2. issued \in Seq(R) BY <1>0 DEF RequestInv, R
      <4>3. \A j \in DOMAIN issued : issued[j] \in R BY <4>2, LenProperties, ElementOfSeq
      <4> QED BY <4>1, <4>3
    <3>2. Remembering /\ now \in Nat BY <1>0 DEF RequestInv
    <3>3. UNCHANGED <<issued, recent>> BY <2>1 DEF pbftVars
    <3>4. \A t \in Nat : t + MaxAge <= now => t + MaxAge <= now'
      BY SMTT(60), <2>1, <3>2, GatewayAssumption
    <3>5. ASSUME NEW j \in DOMAIN issued
          PROVE  /\ issued[j].hash[2] = issued[j].ts
                 /\ <<issued[j].ts, issued[j].hash>> \in recent \/ issued[j].ts + MaxAge <= now'
      BY <3>1, <3>2, <3>4 DEF Remembering
    <3> QED BY <3>3, <3>5 DEF Remembering
  <2>4. RequestInv' BY SMTT(60), <1>0, <2>1, <2>3 DEF RequestInv, IssuedOnce, pbftVars
  <2> QED BY <2>2, <2>4 DEF IInv
<1>10. CASE UNCHANGED vars
  <2>1. NodeInv' BY <1>0, <1>10 DEF vars, NodeInv, MapOK, WaitOK, nodeVars, pbftVars
  <2> QED BY <1>1, <1>10, <2>1 DEF IInv, vars
<1> QED
  BY <1>2, <1>3, <1>4, <1>5, <1>6, <1>7, <1>8, <1>9, <1>10 DEF Next

(* IInv is an invariant, and has the properties in it.                     *)
LEMMA Invariance == Spec => []IInv
<1>1. Init => IInv BY InitIInv
<1>2. IInv /\ [Next]_vars => IInv' BY NextIInv
<1> QED BY <1>1, <1>2, PTL DEF Spec

(* What node, session, pbft and the monitor keep has its type: the map and *)
(* the waiting sessions refer to sessions of the right kind, and reading   *)
(* and writing are marked while a read or a write is outstanding.          *)
THEOREM TypeTheorem == Spec => []TypeOK
<1>1. IInv => TypeOK
  <2> SUFFICES ASSUME IInv PROVE TypeOK OBVIOUS
  <2>1. GoodSessions(sess) /\ DOMAIN sess = 1..Len(sess) /\ MapOK /\ WaitOK
    BY LenProperties DEF IInv, NodeInv, GoodSessions
  <2>2. \A i \in DOMAIN sess :
           /\ sess[i].phase \in {"new", "connecting", "handshaking", "open", "shut", "failed"}
           /\ sess[i].rd => sess[i].reading
           /\ sess[i].inflight # <<>> => sess[i].writing
    BY <2>1 DEF GoodSessions, SessInv, Shape, Marked, Phases
  <2> QED BY <2>1, <2>2 DEF IInv, RequestInv, TypeOK, MapOK, WaitOK
<1> QED BY <1>1, Invariance, PTL

(* A session has at most one async_write outstanding.                      *)
THEOREM OneWriteTheorem == Spec => []OneWrite
<1>1. IInv => OneWrite
  <2> SUFFICES ASSUME IInv PROVE OneWrite OBVIOUS
  <2>1. GoodSessions(sess) /\ DOMAIN sess = 1..Len(sess)
    BY LenProperties DEF IInv, NodeInv, GoodSessions
  <2> QED BY <2>1 DEF GoodSessions, SessInv, Marked, OneWrite
<1> QED BY <1>1, Invariance, PTL

(* Messages leave a session in the order in which they were queued, none   *)
(* skipped and none twice, whatever writes fail.                           *)
THEOREM WrittenInOrderTheorem == Spec => []WrittenInOrder
<1>1. IInv => WrittenInOrder
  <2> SUFFICES ASSUME IInv PROVE WrittenInOrder OBVIOUS
  <2>1. GoodSessions(sess) /\ DOMAIN sess = 1..Len(sess)
    BY LenProperties DEF IInv, NodeInv, GoodSessions
  <2> QED BY <2>1 DEF GoodSessions, SessInv, InOrder, Ordered, Cat, WrittenInOrder
<1> QED BY <1>1, Invariance, PTL

(* pbft::handle_request gives a request one sequence number, except in the *)
(* very millisecond in which its timestamp reaches MAX_REQUEST_AGE_MS.     *)
THEOREM IssuedOnceTheorem == Spec => []IssuedOnce
<1>1. IInv => IssuedOnce BY DEF IInv, RequestInv
<1> QED BY <1>1, Invariance, PTL

(* The monitor's timers stay within MONITOR_MAX_TIMERS, and every running  *)
(* timer is in the list from which the oldest are dropped.                 *)
THEOREM TimersBoundedTheorem == Spec => []TimersBounded
<1>1. IInv => TimersBounded BY DEF IInv, RequestInv, TimersInv, TimersBounded
<1> QED BY <1>1, Invariance, PTL
=============================================================================
