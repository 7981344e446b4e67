---------------------------- MODULE MCStoreOpen ----------------------------
(* Instances of StoreOpen for TLC. *)
EXTENDS StoreOpen

CONSTANTS p1, p2
=============================================================================
