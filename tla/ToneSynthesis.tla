---------------------------- MODULE ToneSynthesis ---------------------------
(***************************************************************************)
(* The tones the carrier gets for the telephone events of the PBX, in      *)
(* inband mode (src/internal/bridge/media.go: forward,                     *)
(* synthesizeTelephoneEventAsPCMA).                                        *)
(*                                                                         *)
(* toneState belongs to the one goroutine that forwards the SIP leg.  Every *)
(* packet of an event becomes one packet of tone; the network loses,       *)
(* repeats and reorders packets.  The samples themselves are in ALaw.      *)
(***************************************************************************)
EXTENDS Integers, Sequences, FiniteSets

CONSTANTS
  Modulus,          \* timestamps and sample counts are below it: 2^32
  Samples,          \* samplesPerPacket
  FirstTimestamp,   \* timestamp of the first key press
  Events,           \* event codes of the keys
  SSRCs,            \* sources of the PBX's stream
  MaxPresses,       \* bound: key presses
  MaxPackets,       \* bound: packets of one key press
  MaxTones,         \* bound: packets of tone of one key press
  MaxFlight         \* bound: packets on their way

ASSUME ToneSynthesisAssumption ==
  /\ Modulus \in Nat \ {0} /\ Samples \in Nat \ {0} /\ MaxPresses \in Nat
  /\ FirstTimestamp \in 0 .. Modulus - 1
  /\ Events \subseteq 0..255

VARIABLES
  toneState,
  \* The outside.
  presses,     \* key presses: event, source, timestamp
  sent,        \* packets sent of the last one
  flight,      \* packets on their way
  tones,       \* per key press, the timestamps its packets have left with
  latest,      \* the last key press a tone has been made for
  disturbed    \* key presses whose tone was resumed after another one or got
               \* its first packet in the middle

vars == <<toneState, presses, sent, flight, tones, latest, disturbed>>

NoTone == [active |-> FALSE, event |-> 0, ssrc |-> 0, eventTimestamp |-> 0,
           samplesGenerated |-> 0]

Init ==
  /\ toneState = NoTone
  /\ presses = <<>> /\ sent = 0 /\ flight = {}
  /\ tones = [p \in 1..MaxPresses |-> <<>>]
  /\ latest = 0 /\ disturbed = {}

\* A key is pressed: on the same stream after the time the last one took, or
\* on a stream of another source, whose timestamps have nothing to do with it.
Press ==
  /\ Len(presses) < MaxPresses
  /\ presses # <<>> => sent > 0
  /\ \E event \in Events, ssrc \in SSRCs :
       LET last == presses[Len(presses)]
           timestamp == IF presses = <<>> \/ last.ssrc # ssrc THEN FirstTimestamp
                        ELSE (last.timestamp + sent * Samples) % Modulus
       IN /\ \A p \in 1..Len(presses) :
               presses[p].ssrc # ssrc \/ presses[p].timestamp # timestamp
          /\ presses' = Append(presses, [event |-> event, ssrc |-> ssrc,
                                         timestamp |-> timestamp])
  /\ sent' = 0
  /\ UNCHANGED <<toneState, flight, tones, latest, disturbed>>

\* The first packet of an event has the marker.
SendPacket ==
  /\ presses # <<>>
  /\ sent < MaxPackets /\ Cardinality(flight) < MaxFlight
  /\ sent' = sent + 1
  /\ flight' = flight \cup
       {[press |-> Len(presses), number |-> sent', marker |-> sent = 0]}
  /\ UNCHANGED <<toneState, presses, tones, latest, disturbed>>

Lose ==
  /\ \E packet \in flight : flight' = flight \ {packet}
  /\ UNCHANGED <<toneState, presses, sent, tones, latest, disturbed>>

\* Mutant: an event is known by its code.
SameToneByCode(key, marker) == toneState.active /\ ~ marker /\ toneState.event = key.event

\* The packet continues the tone of the one before it.
SameTone(key, marker) ==
  /\ toneState.active /\ ~ marker
  /\ toneState.event = key.event /\ toneState.ssrc = key.ssrc
  /\ toneState.eventTimestamp = key.timestamp

\* dtmfFrequencies
HasTone(event) == event < 16

\* forward of a packet with the payload type of telephone events; the network
\* may deliver it again.
Synthesize ==
  \E packet \in flight :
    LET p     == packet.press
        key   == presses[p]
        state == IF SameTone(key, packet.marker) THEN toneState
                 ELSE [active |-> TRUE, event |-> key.event, ssrc |-> key.ssrc,
                       eventTimestamp |-> key.timestamp, samplesGenerated |-> 0]
    IN /\ flight' \in {flight, flight \ {packet}}
       /\ IF HasTone(key.event)
          THEN /\ Len(tones[p]) < MaxTones
               /\ toneState' = [state EXCEPT !.samplesGenerated = (@ + Samples) % Modulus]
               /\ tones' = [tones EXCEPT ![p] =
                    Append(@, (state.eventTimestamp + state.samplesGenerated) % Modulus)]
               /\ latest' = p
               /\ disturbed' = IF tones[p] # <<>> /\ (latest # p \/ packet.marker)
                               THEN disturbed \cup {p} ELSE disturbed
          ELSE UNCHANGED <<toneState, tones, latest, disturbed>>
       /\ UNCHANGED <<presses, sent>>

Next == Press \/ SendPacket \/ Lose \/ Synthesize

Spec == Init /\ [][Next]_vars

----------------------------------------------------------------------------

\* synthesizeTelephoneEventAsPCMA: the packets made for one key press join
\* without a gap and without an overlap, from the timestamp of the press and
\* over the wrap of the timestamps, whatever packets are lost, and also when
\* the same key is pressed again and the first packet, the one with the
\* marker, is lost.  A packet that comes after one of another key press has
\* been played, and a first packet that comes late or twice, are the only
\* things that start a tone over.
TonesContinuous ==
  \A p \in 1..Len(presses) \ disturbed :
    \A k \in 1..Len(tones[p]) :
      tones[p][k] = (presses[p].timestamp + (k - 1) * Samples) % Modulus
=============================================================================
