---- MODULE MCRateLimit ----
(***************************************************************************)
(* Checks RateLimit on two addresses, of which one bucket may be evicted.  *)
(***************************************************************************)
EXTENDS RateLimit, TLC

(* Requests differ only in their address, chosen at the start.             *)
Symmetry == Permutations(Requests) \cup Permutations(Addrs)
====
