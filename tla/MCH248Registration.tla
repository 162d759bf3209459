------------------------ MODULE MCH248Registration --------------------------
(***************************************************************************)
(* Model checking of H248Registration with a primary and a backup MGC.     *)
(***************************************************************************)
EXTENDS H248Registration

CONSTANTS primary, backup

PrimaryAndBackup == <<primary, backup>>
=============================================================================
