----------------------------- MODULE MCGateway -----------------------------
(***************************************************************************)
(* A small instance of Gateway: one peer, which is the primary when this   *)
(* node is not, and a client that may repeat its requests.                 *)
(***************************************************************************)
EXTENDS Gateway

Request(name, ts, large, genuine) ==
    [kind |-> "request", name |-> name, ts |-> ts, large |-> large, genuine |-> genuine]

QuickRead == [kind |-> "now"]

Work(part, incoming, faults, chaos, s, m, r, t) ==
    [part |-> part, incoming |-> incoming, faults |-> faults, chaos |-> chaos,
     sessions |-> s, sends |-> m, reads |-> r, time |-> t]

Peers == Work("peer", {}, TRUE, FALSE, 2, 2, 0, 0)
Chaotic == Work("peer", {}, TRUE, TRUE, 1, 2, 1, 0)
Repeating == Work("primary", {Request("r", 1, FALSE, TRUE), Request("r", 2, FALSE, TRUE)}, FALSE, FALSE, 1, 0, 3, 2)
Refused == Work("primary", {Request("q", 3, TRUE, TRUE), Request("r", 0, FALSE, FALSE), Other}, TRUE, FALSE, 1, 0, 2, 2)
Answering == Work("primary", {Request("r", 1, FALSE, TRUE), QuickRead}, TRUE, FALSE, 1, 1, 2, 1)
Forwarding == Work("backup", {Request("r", 1, FALSE, TRUE)}, TRUE, FALSE, 2, 1, 1, 1)

AllWorks == {Peers, Chaotic, Repeating, Refused, Answering, Forwarding}
=============================================================================
