----------------------------- MODULE MCBrowser ------------------------------
(***************************************************************************)
(* A small instance of Browser.                                            *)
(***************************************************************************)
EXTENDS Browser, TLC

Symmetry == Permutations(Requests)

=============================================================================
