-------------------------- MODULE MCMediaForwarding -------------------------
(***************************************************************************)
(* Model checking of MediaForwarding.                                      *)
(***************************************************************************)
EXTENDS MediaForwarding
=============================================================================
