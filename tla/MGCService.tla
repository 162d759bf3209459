----------------------------- MODULE MGCService -----------------------------
(***************************************************************************)
(* What the registration promises the call bridge: at most one MGC at a    *)
(* time is let through to the bridge with more than audits, it is the same *)
(* one from the moment its registration is tried until it is given up,     *)
(* HandleH248Ready follows the try, and after HandleH248Unavailable nobody *)
(* is let through until the next try.  H248Registration implements this    *)
(* module; the bridge is modelled on top of it (RegistrationStarts,        *)
(* RegistrationFails, HandleH248Ready and HandleH248Unavailable of         *)
(* BridgeH248).                                                            *)
(***************************************************************************)
CONSTANTS MGCs, Nil

VARIABLES
  mgc,         \* the MGC whose messages reach the bridge, audits apart
  registered   \* between HandleH248Ready and HandleH248Unavailable

vars == <<mgc, registered>>

Init == mgc = Nil /\ registered = FALSE

\* registerTermination with the next candidate
Try ==
  /\ ~ registered
  /\ mgc' \in MGCs \ {mgc}
  /\ UNCHANGED registered

\* HandleH248Ready
Serve ==
  /\ mgc # Nil /\ ~ registered
  /\ registered' = TRUE
  /\ UNCHANGED mgc

\* HandleH248Unavailable
Lose ==
  /\ registered
  /\ registered' = FALSE /\ mgc' = Nil

Next == Try \/ Serve \/ Lose

Spec == Init /\ [][Next]_vars
=============================================================================
