---------------------------- MODULE MCMediaPorts ----------------------------
(***************************************************************************)
(* Model checking of MediaPorts: both legs on one address, as in the       *)
(* default configuration, and a port range with an odd lower end.          *)
(***************************************************************************)
EXTENDS MediaPorts

CONSTANT ip

ForeignSocket == {<<ip, 8>>}
=============================================================================
