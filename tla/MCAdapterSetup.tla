--------------------------- MODULE MCAdapterSetup ---------------------------
(***************************************************************************)
(* AdapterSetup for TLC: one service that conflicts and one that does not. *)
(***************************************************************************)
EXTENDS AdapterSetup, TLC

PhoneSymmetry == Permutations(Phones)
=============================================================================
