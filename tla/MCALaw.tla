------------------------------- MODULE MCALaw -------------------------------
(***************************************************************************)
(* Model checking of ALaw: every sample a tone can have.                   *)
(***************************************************************************)
EXTENDS ALaw

VARIABLE sample

Init == sample = 0
Next == sample' \in ToneSamples /\ sample = 0
Spec == Init /\ [][Next]_sample

\* docs/H248-SIP-INTERWORKING.md: "continuous G.711 A-law dual tones"
ToneIsALaw == ToneExact(sample)
=============================================================================
