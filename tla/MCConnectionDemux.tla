------------------------- MODULE MCConnectionDemux -------------------------
(* Instances of ConnectionDemux for TLC. *)
EXTENDS ConnectionDemux, TLC

ClientSymmetry == Permutations(Client)
=============================================================================
