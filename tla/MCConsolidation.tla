--------------------------- MODULE MCConsolidation ---------------------------
EXTENDS Consolidation

Cand(key, value, confidence, override) ==
  [key |-> key, value |-> value, confidence |-> confidence, default |-> 14,
   override |-> override, boost |-> 1]

(* The oldest memory yields no acceptable fact, so that the sweep lists it  *)
(* in every batch.  The candidates of the other two for two subjects come   *)
(* in opposite orders and agree with, contradict or replace each other.     *)
MCCandidates ==
  <<<<Cand("theme", "dark", 10, FALSE)>>,
    <<Cand("theme", "light", 15, FALSE), Cand("editor", "light", 15, FALSE)>>,
    <<Cand("editor", "light", 19, TRUE), Cand("theme", "dark", 15, FALSE)>>>>

TimeoutCandidates ==
  <<<<Cand("theme", "dark", 15, FALSE)>>, <<Cand("theme", "light", 19, TRUE)>>>>
=============================================================================
