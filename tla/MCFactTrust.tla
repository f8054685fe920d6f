----------------------------- MODULE MCFactTrust -----------------------------
(* Two stale facts that contradict each other, and one request about them, *)
(* which the gateway may send twice.                                       *)
EXTENDS FactTrust, TLC

CONSTANTS c1

Extracted(trust) ==
  [source |-> "assistant", trust |-> trust, confidence |-> 240, truth |-> "active",
   status |-> "active", verified |-> 0, rejected |-> 0, contradicted |-> 0,
   by |-> 0, stale |-> TRUE]

MCGiven == (1 :> Extracted(140)) @@ (2 :> Extracted(200))
MCPairs == << <<1, 2>> >>
MCEvidence == (1 :> {"m1"}) @@ (2 :> {"m1", "m2"})

Request(kind, f) == [kind |-> kind, fact |-> f]
MCRequests ==
  c1 :> {Request("confirm", 1), Request("reject", 1), Request("correct", 2)}
=============================================================================
