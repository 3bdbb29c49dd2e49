---------------------------- MODULE MCHerdrBridge -----------------------------
(* Symmetry for checking HerdrBridge with TLC: the SessionClient objects   *)
(* of the pool are interchangeable.                                        *)
EXTENDS HerdrBridge, TLC

SymClients == Permutations(Clients)

(* A failed client and its replacement can coexist. *)
ASSUME PoolHoldsStaleClients == Cardinality(Clients) > Cardinality(Names)
=============================================================================
