------------------------------ MODULE MCBridge ------------------------------
(***************************************************************************)
(* Model checking of Bridge.  The instances differ only in their constants *)
(* (see the .cfg files); goroutines are interchangeable.                   *)
(***************************************************************************)
EXTENDS Bridge, TLC

Symmetry == Permutations(Goroutines)
=============================================================================
