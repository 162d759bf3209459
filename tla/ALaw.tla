------------------------------- MODULE ALaw --------------------------------
(***************************************************************************)
(* linearToALaw (src/internal/bridge/media.go), and G.711 to compare with. *)
(***************************************************************************)
EXTENDS Integers

\* The magnitude that is encoded: a negative sample is moved by 8, and large
\* ones are cut.
Magnitude(sample) ==
  LET value == IF sample < 0 THEN -sample - 8 ELSE sample
  IN IF value < 0 THEN 0 ELSE IF value > 32635 THEN 32635 ELSE value

SegmentShift(segment) == IF segment < 2 THEN 4 ELSE segment + 3

\* The number of thresholds 64, 128, ..., 4096 the magnitude reaches.
Segment(value) ==
  LET thresholds == [k \in 0..6 |-> 64 * 2^k]
  IN IF \A k \in 0..6 : value >= thresholds[k] THEN 7
     ELSE CHOOSE k \in 0..6 : /\ value < thresholds[k]
                              /\ k > 0 => value >= thresholds[k - 1]

\* linearToALaw before the bits are inverted by its mask: the sign, the
\* segment and the four bits of the mantissa.
LinearToALaw(sample) ==
  LET value == Magnitude(sample)
  IN [negative |-> sample < 0, segment |-> Segment(value),
      mantissa |-> (value \div 2^SegmentShift(Segment(value))) % 16]

\* G.711: the value an A-law octet stands for, in the middle of its interval.
Decode(octet) ==
  LET m == octet.mantissa * 16
      magnitude == IF octet.segment = 0 THEN m + 8
                   ELSE (m + 264) * 2^(octet.segment - 1)
  IN IF octet.negative THEN -magnitude ELSE magnitude

\* Half the width of the interval an octet stands for.
HalfStep(octet) == IF octet.segment < 2 THEN 8 ELSE 8 * 2^(octet.segment - 1)

\* The tones are sums of two sines of amplitude 5500.
ToneSamples == -11000 .. 11000

\* linearToALaw: the octet of a sample of a tone stands for that sample, within
\* the interval G.711 gives it; the shift of negative samples moves them by 8.
ToneExact(sample) ==
  LET octet == LinearToALaw(sample)
      error == Decode(octet) - sample
  IN -HalfStep(octet) - 8 <= error /\ error <= HalfStep(octet) + 8
=============================================================================
