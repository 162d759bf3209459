---------------------------- MODULE CodecsProofs ----------------------------
(***************************************************************************)
(* Proofs about what MCCodecs puts side by side, as far as it is not the   *)
(* parsing of texts: about ToneSynthesis for any width of the timestamps,  *)
(* packet length, key presses and losses, that the packets of a tone join; *)
(* about Config for any range of ports, that an accepted one suffices.     *)
(***************************************************************************)
EXTENDS MCCodecs, FiniteSetTheorems, TLAPS

Key     == [event : Int, ssrc : SSRCs, timestamp : 0 .. Modulus - 1]
Packets == [press : Nat, number : Nat, marker : BOOLEAN]

Types ==
  /\ presses \in Seq(Key) /\ Len(presses) <= MaxPresses
  /\ tones \in [1..MaxPresses -> Seq(0 .. Modulus - 1)]
  /\ \A packet \in flight : packet.press \in 1..Len(presses)
  /\ latest \in 0..Len(presses) /\ sent \in Nat

\* A source does not press two keys at the same time.
Distinct ==
  \A p, q \in 1..Len(presses) :
    presses[p].ssrc = presses[q].ssrc /\ presses[p].timestamp = presses[q].timestamp => p = q

\* What toneState holds is about the key press a tone was made for last, and
\* counts all of its tone unless it was started over.
Tracks ==
  IF latest = 0 THEN ~ toneState.active /\ \A p \in 1..MaxPresses : tones[p] = <<>>
  ELSE /\ tones[latest] # <<>>
       /\ \E samples \in 0 .. Modulus - 1 :
            /\ toneState = [active |-> TRUE, event |-> presses[latest].event,
                            ssrc |-> presses[latest].ssrc,
                            eventTimestamp |-> presses[latest].timestamp,
                            samplesGenerated |-> samples]
            /\ latest \notin disturbed =>
                 samples = (Len(tones[latest]) * Samples) % Modulus

\* A key that has not been pressed has no tone.
Future == \A p \in 1..MaxPresses : p > Len(presses) => tones[p] = <<>>

IInv == Types /\ Distinct /\ Tracks /\ Future /\ TonesContinuous

----------------------------------------------------------------------------
(* Arithmetic *)

LEMMA Widths == Modulus \in Nat \ {0} /\ Samples \in Nat \ {0} /\ MaxPresses \in Nat
                /\ FirstTimestamp \in 0 .. Modulus - 1
BY ToneSynthesisAssumption

LEMMA Remainder == \A a \in Nat : (a % Modulus) \in 0 .. Modulus - 1
BY Widths

LEMMA Appended ==
  ASSUME NEW S, NEW s \in Seq(S), NEW v \in S
  PROVE  /\ Append(s, v) \in Seq(S) /\ Len(Append(s, v)) = Len(s) + 1
         /\ Append(s, v)[Len(s) + 1] = v /\ \A k \in 1..Len(s) : Append(s, v)[k] = s[k]
OBVIOUS

LEMMA Counted ==
  ASSUME NEW a, NEW e, NEW s, NEW t, NEW x, NEW v
  PROVE  [[active |-> a, event |-> e, ssrc |-> s, eventTimestamp |-> t,
           samplesGenerated |-> x] EXCEPT !.samplesGenerated = v] =
           [active |-> a, event |-> e, ssrc |-> s, eventTimestamp |-> t,
            samplesGenerated |-> v]
OBVIOUS

LEMMA Below == \A a \in 0 .. Modulus - 1 : a \in Nat
BY Widths

LEMMA Product ==
  ASSUME NEW a \in Nat
  PROVE  a * Samples \in Nat /\ (a + 1) * Samples = Samples + a * Samples
BY Widths, SMTT(20)

LEMMA SmallRemainder == \A a \in 0 .. Modulus - 1 : (a % Modulus) = a
BY Widths, SMTT(20)

LEMMA Quotient == \A a \in Nat : a \div Modulus \in Int /\ a = Modulus * (a \div Modulus) + (a % Modulus)
BY Widths, SMTT(20)

\* Numbers that differ by a multiple leave the same remainder.
LEMMA SameRemainder ==
  ASSUME NEW a \in Nat, NEW b \in Nat, NEW k \in Int, a = b + Modulus * k
  PROVE  (a % Modulus) = (b % Modulus)
<1> DEFINE q == a \div Modulus
           r == b \div Modulus
           x == a % Modulus
           y == b % Modulus
<1>1. q \in Int /\ r \in Int /\ a = Modulus * q + x /\ b = Modulus * r + y BY Quotient
<1>2. x \in 0 .. Modulus - 1 /\ y \in 0 .. Modulus - 1 BY Remainder
<1> HIDE DEF q, r, x, y
<1> DEFINE j == r + k - q
<1>3. j \in Int /\ x - y = Modulus * j
  <2>1. Modulus * (r + k - q) = Modulus * r + Modulus * k - Modulus * q
    BY <1>1, Widths, SMTT(20)
  <2> QED BY <1>1, <1>2, <2>1, Widths, SMTT(20)
<1> HIDE DEF j
<1>4. CASE j = 0 BY <1>2, <1>3, <1>4, Widths DEF x, y
<1>5. CASE j >= 1
  <2>1. Modulus * j >= Modulus BY <1>3, <1>5, Widths, SMTT(20)
  <2> QED BY <1>2, <1>3, <2>1, Widths
<1>6. CASE j <= -1
  <2>1. Modulus * j <= - Modulus BY <1>3, <1>6, Widths, SMTT(20)
  <2> QED BY <1>2, <1>3, <2>1, Widths
<1> QED BY <1>3, <1>4, <1>5, <1>6

LEMMA AddRemainder ==
  ASSUME NEW a \in Nat, NEW b \in Nat
  PROVE  ((a + (b % Modulus)) % Modulus) = ((a + b) % Modulus)
<1> DEFINE q == b \div Modulus
           y == b % Modulus
<1>1. q \in Int /\ b = Modulus * q + y BY Quotient
<1>2. y \in Nat BY Remainder, Widths
<1> HIDE DEF q, y
<1>3. a + b = (a + y) + Modulus * q
  <2>1. Modulus * q \in Int BY <1>1, Widths
  <2> QED BY <1>1, <1>2, <2>1
<1>4. ((a + b) % Modulus) = ((a + y) % Modulus) BY <1>1, <1>2, <1>3, SameRemainder
<1> QED BY <1>4 DEF y

----------------------------------------------------------------------------

LEMMA InvInit == Init => IInv
<1> SUFFICES ASSUME Init PROVE IInv OBVIOUS
<1>1. presses = <<>> /\ Len(presses) = 0 /\ presses \in Seq(Key) BY DEF Init
<1>2. tones \in [1..MaxPresses -> Seq(0 .. Modulus - 1)]
      /\ \A p \in 1..MaxPresses : tones[p] = <<>>
  BY DEF Init
<1>3. Types BY <1>1, <1>2, Widths DEF Init, Types
<1>4. Distinct /\ TonesContinuous BY <1>1 DEF Distinct, TonesContinuous
<1>5. Tracks /\ Future BY <1>2 DEF Tracks, Future, Init, NoTone
<1> QED BY <1>3, <1>4, <1>5 DEF IInv

LEMMA PressStep ==
  ASSUME IInv, Press
  PROVE  IInv'
<1> DEFINE n == Len(presses)
<1>1. /\ presses \in Seq(Key) /\ n \in Nat /\ n < MaxPresses
      /\ UNCHANGED <<toneState, flight, tones, latest, disturbed>>
  BY DEF IInv, Types, Press
<1>2. PICK event \in Events, ssrc \in SSRCs, timestamp \in 0 .. Modulus - 1 :
        /\ \A p \in 1..Len(presses) : presses[p].ssrc # ssrc \/ presses[p].timestamp # timestamp
        /\ presses' = Append(presses, [event |-> event, ssrc |-> ssrc, timestamp |-> timestamp])
  <2>1. PICK event \in Events, ssrc \in SSRCs :
          LET last == presses[Len(presses)]
              timestamp == IF presses = <<>> \/ last.ssrc # ssrc THEN FirstTimestamp
                           ELSE (last.timestamp + sent * Samples) % Modulus
          IN /\ \A p \in 1..Len(presses) :
                  presses[p].ssrc # ssrc \/ presses[p].timestamp # timestamp
             /\ presses' = Append(presses, [event |-> event, ssrc |-> ssrc, timestamp |-> timestamp])
    BY DEF Press
  <2> DEFINE timestamp == IF presses = <<>> \/ presses[Len(presses)].ssrc # ssrc THEN FirstTimestamp
                          ELSE (presses[Len(presses)].timestamp + sent * Samples) % Modulus
  <2>2. timestamp \in 0 .. Modulus - 1
    <3>1. CASE presses = <<>> BY <3>1, Widths
    <3>2. CASE presses # <<>>
      <4>1. presses[n] \in Key BY <1>1, <3>2
      <4>2. sent \in Nat BY DEF IInv, Types
      <4>3. presses[n].timestamp + sent * Samples \in Nat BY <4>1, <4>2, Widths DEF Key
      <4> QED BY <4>3, Remainder, Widths
    <3> QED BY <3>1, <3>2
  <2> QED BY <2>1, <2>2
<1> DEFINE key == [event |-> event, ssrc |-> ssrc, timestamp |-> timestamp]
<1>3. key \in Key
  <2>1. event \in 0..255 BY ToneSynthesisAssumption
  <2> QED BY <2>1 DEF Key
<1>4. /\ presses' \in Seq(Key) /\ Len(presses') = n + 1 /\ presses'[n + 1] = key
      /\ \A p \in 1..n : presses'[p] = presses[p]
  BY <1>1, <1>2, <1>3
<1> HIDE DEF n
<1>5. Types'
  <2>1. sent' \in Nat BY DEF Press
  <2>2. \A packet \in flight : packet.press \in 1..n+1
    BY <1>1 DEF IInv, Types, n
  <2>3. latest \in 0..n+1 BY <1>1 DEF IInv, Types, n
  <2>4. n + 1 <= MaxPresses BY <1>1, Widths
  <2>5. UNCHANGED <<flight, tones, latest>> BY <1>1
  <2> QED BY <1>4, <2>1, <2>2, <2>3, <2>4, <2>5 DEF IInv, Types
<1>6. Distinct'
  <2> SUFFICES ASSUME NEW p \in 1..n+1, NEW q \in 1..n+1,
                      presses'[p].ssrc = presses'[q].ssrc,
                      presses'[p].timestamp = presses'[q].timestamp
               PROVE  p = q
    BY <1>4 DEF Distinct
  <2>1. CASE p \in 1..n /\ q \in 1..n BY <1>4, <2>1 DEF IInv, Distinct, n
  <2>2. CASE p = n + 1 /\ q \in 1..n BY <1>2, <1>4, <2>2 DEF n
  <2>3. CASE p \in 1..n /\ q = n + 1 BY <1>2, <1>4, <2>3 DEF n
  <2>4. CASE p = n + 1 /\ q = n + 1 BY <2>4
  <2> QED BY <1>1, <2>1, <2>2, <2>3, <2>4
<1>7. latest = 0 \/ (latest \in 1..n /\ presses'[latest] = presses[latest])
  BY <1>1, <1>4 DEF IInv, Types, n
<1>8. Tracks' BY <1>1, <1>7 DEF IInv, Tracks
<1>9. Future' BY <1>1, <1>4 DEF IInv, Future, n
<1>10. TonesContinuous'
  <2> SUFFICES ASSUME NEW p \in 1..n+1, p \notin disturbed, NEW k \in 1..Len(tones[p])
               PROVE  tones[p][k] = (presses'[p].timestamp + (k - 1) * Samples) % Modulus
    BY <1>1, <1>4 DEF TonesContinuous
  <2>1. CASE p \in 1..n BY <1>4, <2>1 DEF IInv, TonesContinuous, n
  <2>2. CASE p = n + 1
    <3>1. p \in 1..MaxPresses /\ p > n BY <1>1, <2>2, Widths
    <3>2. tones[p] = <<>> BY <3>1 DEF IInv, Future, n
    <3> QED BY <3>2
  <2> QED BY <1>1, <2>1, <2>2
<1> QED BY <1>5, <1>6, <1>8, <1>9, <1>10 DEF IInv

LEMMA SendPacketStep ==
  ASSUME IInv, SendPacket \/ Lose \/ UNCHANGED vars
  PROVE  IInv'
<1>1. UNCHANGED <<toneState, presses, tones, latest, disturbed>>
  BY DEF SendPacket, Lose, vars
<1>2. sent' \in Nat BY DEF SendPacket, Lose, vars, IInv, Types
<1>3. \A packet \in flight' : packet.press \in 1..Len(presses)
  <2>1. Len(presses) \in Nat /\ (presses # <<>> => Len(presses) \in 1..Len(presses))
    BY DEF IInv, Types
  <2> QED BY <2>1 DEF SendPacket, Lose, vars, IInv, Types
<1> QED BY <1>1, <1>2, <1>3 DEF IInv, Types, Distinct, Tracks, Future, TonesContinuous

\* A packet of tone is made.
LEMMA ToneStep ==
  ASSUME IInv, NEW packet \in flight, NEW p \in Nat, p = packet.press,
         NEW state,
         state = IF SameTone(presses[p], packet.marker) THEN toneState
                 ELSE [active |-> TRUE, event |-> presses[p].event, ssrc |-> presses[p].ssrc,
                       eventTimestamp |-> presses[p].timestamp, samplesGenerated |-> 0],
         toneState' = [state EXCEPT !.samplesGenerated = (@ + Samples) % Modulus],
         tones' = [tones EXCEPT ![p] =
           Append(@, (state.eventTimestamp + state.samplesGenerated) % Modulus)],
         latest' = p,
         disturbed' = IF tones[p] # <<>> /\ (latest # p \/ packet.marker)
                      THEN disturbed \cup {p} ELSE disturbed,
         flight' \subseteq flight, UNCHANGED <<presses, sent>>
  PROVE  IInv'
<1> DEFINE n == Len(tones[p])
           t == presses[p].timestamp
<1>1. /\ p \in 1..Len(presses) /\ p \in 1..MaxPresses /\ presses[p] \in Key
      /\ t \in 0 .. Modulus - 1
      /\ tones[p] \in Seq(0 .. Modulus - 1) /\ n \in Nat
  <2>1. p \in 1..Len(presses) BY DEF IInv, Types
  <2>2. p \in 1..MaxPresses BY <2>1, Widths DEF IInv, Types
  <2>3. presses[p] \in Key BY <2>1 DEF IInv, Types
  <2> QED BY SMTT(30), <2>1, <2>2, <2>3 DEF IInv, Types, Key
\* The state goes on with this key press, from what has been made of it unless
\* the tone is started over.
<1>2. PICK samples \in 0 .. Modulus - 1 :
        /\ state = [active |-> TRUE, event |-> presses[p].event, ssrc |-> presses[p].ssrc,
                    eventTimestamp |-> t, samplesGenerated |-> samples]
        /\ p \notin disturbed' => samples = (n * Samples) % Modulus
  <2>0. /\ 0 \in 0 .. Modulus - 1
        /\ (0 * Samples) % Modulus = 0
    <3>1. 0 \in 0 .. Modulus - 1 BY Widths
    <3>2. 0 * Samples = 0 BY Widths
    <3> QED BY <3>1, <3>2, SmallRemainder
  <2>1. CASE SameTone(presses[p], packet.marker)
    <3>1. latest # 0 BY <2>1 DEF SameTone, IInv, Tracks
    <3>2. PICK samples \in 0 .. Modulus - 1 :
            /\ toneState = [active |-> TRUE, event |-> presses[latest].event,
                            ssrc |-> presses[latest].ssrc,
                            eventTimestamp |-> presses[latest].timestamp,
                            samplesGenerated |-> samples]
            /\ latest \notin disturbed =>
                 samples = (Len(tones[latest]) * Samples) % Modulus
      BY <3>1 DEF IInv, Tracks
    <3>3. presses[latest].ssrc = presses[p].ssrc /\ presses[latest].timestamp = presses[p].timestamp
      BY <2>1, <3>2 DEF SameTone
    <3>4. latest \in 1..Len(presses) BY <3>1 DEF IInv, Types
    <3>6. latest = p BY <1>1, <3>3, <3>4 DEF IInv, Distinct
    <3>5. p \notin disturbed' => p \notin disturbed OBVIOUS
    <3> QED BY <2>1, <3>2, <3>5, <3>6
  <2>2. CASE ~ SameTone(presses[p], packet.marker)
    <3>1. p \notin disturbed' => tones[p] = <<>>
      <4> SUFFICES ASSUME latest = p, ~ packet.marker, latest # 0 PROVE FALSE
        BY <1>1
      <4>1. SameTone(presses[p], packet.marker) BY DEF SameTone, IInv, Tracks
      <4> QED BY <2>2, <4>1
    <3>2. p \notin disturbed' => n = 0 BY <3>1
    <3> QED BY <2>0, <2>2, <3>2
  <2> QED BY <2>1, <2>2
<1>3. (t + samples) % Modulus \in 0 .. Modulus - 1 /\ (samples + Samples) % Modulus \in 0 .. Modulus - 1
  <2>1. t \in Nat /\ samples \in Nat /\ Samples \in Nat BY <1>1, Below, Widths
  <2> HIDE DEF t
  <2>2. t + samples \in Nat /\ samples + Samples \in Nat BY <2>1
  <2> QED BY <2>2, Remainder DEF t
<1>4. /\ tones'[p] = Append(tones[p], (t + samples) % Modulus)
      /\ tones'[p] \in Seq(0 .. Modulus - 1) /\ Len(tones'[p]) = n + 1
      /\ tones'[p][n + 1] = (t + samples) % Modulus
      /\ \A k \in 1..n : tones'[p][k] = tones[p][k]
      /\ \A q \in 1..MaxPresses : q # p => tones'[q] = tones[q]
  <2>1. tones'[p] = Append(tones[p], (t + samples) % Modulus)
        /\ \A q \in 1..MaxPresses : q # p => tones'[q] = tones[q]
    <3>1. state.eventTimestamp = t /\ state.samplesGenerated = samples BY <1>2
    <3> QED BY <1>1, <3>1 DEF IInv, Types
  <2> DEFINE v == (t + samples) % Modulus
  <2>2. v \in 0 .. Modulus - 1 BY <1>3
  <2>3. tones'[p] = Append(tones[p], v) BY <2>1
  <2> HIDE DEF v
  <2>4. /\ tones'[p] \in Seq(0 .. Modulus - 1) /\ Len(tones'[p]) = n + 1
        /\ tones'[p][n + 1] = v /\ \A k \in 1..n : tones'[p][k] = tones[p][k]
    <3>1. \A k \in 1..n : Append(tones[p], v)[k] = tones[p][k] BY <1>1, <2>2, Appended
    <3>2. Append(tones[p], v) \in Seq(0 .. Modulus - 1) /\ Len(Append(tones[p], v)) = n + 1
          /\ Append(tones[p], v)[n + 1] = v
      BY <1>1, <2>2, Appended
    <3> QED BY <2>3, <3>1, <3>2
  <2> QED BY <2>1, <2>4 DEF v
<1> HIDE DEF n, t
<1>5. Types'
  <2>1. tones' \in [1..MaxPresses -> Seq(0 .. Modulus - 1)]
    BY <1>4 DEF IInv, Types
  <2> QED BY <1>1, <2>1 DEF IInv, Types
<1>6. Distinct' BY DEF IInv, Distinct
<1>7. p \notin disturbed' => ((samples + Samples) % Modulus) = (((n + 1) * Samples) % Modulus)
  <2> SUFFICES ASSUME samples = (n * Samples) % Modulus
               PROVE  ((samples + Samples) % Modulus) = (((n + 1) * Samples) % Modulus)
    BY <1>2
  <2>1. n * Samples \in Nat /\ (n + 1) * Samples = Samples + n * Samples
    BY <1>1, Product
  <2>2. ((Samples + ((n * Samples) % Modulus)) % Modulus) = ((Samples + n * Samples) % Modulus)
    BY <2>1, AddRemainder, Widths
  <2>3. samples + Samples = Samples + ((n * Samples) % Modulus) BY Widths
  <2> QED BY <2>1, <2>2, <2>3
<1>8. Tracks'
  <2>1. latest' # 0 /\ tones'[p] # <<>>
    <3>1. n + 1 # 0 /\ p # 0 BY <1>1
    <3>2. Len(tones'[p]) # 0 BY <1>4, <3>1
    <3> QED BY <3>1, <3>2
  <2>2. toneState' = [active |-> TRUE, event |-> presses[p].event, ssrc |-> presses[p].ssrc,
                      eventTimestamp |-> presses[p].timestamp,
                      samplesGenerated |-> (samples + Samples) % Modulus]
    <3>1. state.samplesGenerated = samples BY <1>2
    <3>2. toneState' = [state EXCEPT !.samplesGenerated = (samples + Samples) % Modulus]
      BY <3>1
    <3> DEFINE v == (samples + Samples) % Modulus
    <3>3. toneState' = [state EXCEPT !.samplesGenerated = v] BY <3>2
    <3> HIDE DEF v
    <3>4. toneState' = [active |-> TRUE, event |-> presses[p].event, ssrc |-> presses[p].ssrc,
                        eventTimestamp |-> presses[p].timestamp, samplesGenerated |-> v]
      <4>1. toneState' = [[active |-> TRUE, event |-> presses[p].event, ssrc |-> presses[p].ssrc,
                           eventTimestamp |-> t, samplesGenerated |-> samples]
                          EXCEPT !.samplesGenerated = v]
        BY <1>2, <3>3, Zenon
      <4>2. toneState' = [active |-> TRUE, event |-> presses[p].event, ssrc |-> presses[p].ssrc,
                          eventTimestamp |-> t, samplesGenerated |-> v]
        BY <4>1, Counted, Zenon
      <4> QED BY <4>2 DEF t
    <3> QED BY <3>4 DEF v
  <2> QED BY <1>3, <1>4, <1>7, <2>1, <2>2 DEF Tracks
<1>9. Future' BY SMTT(60), <1>1, <1>4 DEF IInv, Future, Types
<1>10. TonesContinuous'
  <2> SUFFICES ASSUME NEW q \in 1..Len(presses), q \notin disturbed', NEW k \in 1..Len(tones'[q])
               PROVE  tones'[q][k] = (presses[q].timestamp + (k - 1) * Samples) % Modulus
    BY DEF TonesContinuous
  <2>1. q \notin disturbed /\ q \in 1..MaxPresses BY Widths DEF IInv, Types
  <2>2. CASE q # p BY SMTT(30), <1>4, <2>1, <2>2 DEF IInv, TonesContinuous
  <2>3. CASE q = p /\ k \in 1..n
    BY <1>4, <2>1, <2>3 DEF IInv, TonesContinuous, n
  <2>4. CASE q = p /\ k = n + 1
    <3>1. samples = (n * Samples) % Modulus BY <1>2, <2>4
    <3>2. n * Samples \in Nat /\ t \in Nat BY <1>1, Product, Below
    <3>3. ((t + ((n * Samples) % Modulus)) % Modulus) = ((t + n * Samples) % Modulus)
      BY <3>2, AddRemainder
    <3>4. k - 1 = n BY <1>1, <2>4 DEF n
    <3> QED BY <1>4, <2>4, <3>1, <3>3, <3>4 DEF t
  <2>5. q = p => k \in 1..n \/ k = n + 1 BY <1>1, <1>4 DEF n
  <2> QED BY <2>2, <2>3, <2>4, <2>5
<1> QED BY <1>5, <1>6, <1>8, <1>9, <1>10 DEF IInv

LEMMA SynthesizeStep ==
  ASSUME IInv, Synthesize
  PROVE  IInv'
<1>1. PICK packet \in flight :
        LET p     == packet.press
            key   == presses[p]
            state == IF SameTone(key, packet.marker) THEN toneState
                     ELSE [active |-> TRUE, event |-> key.event, ssrc |-> key.ssrc,
                           eventTimestamp |-> key.timestamp, samplesGenerated |-> 0]
        IN /\ flight' \in {flight, flight \ {packet}}
           /\ IF HasTone(key.event)
              THEN /\ Len(tones[p]) < MaxTones
                   /\ toneState' = [state EXCEPT !.samplesGenerated = (@ + Samples) % Modulus]
                   /\ tones' = [tones EXCEPT ![p] =
                        Append(@, (state.eventTimestamp + state.samplesGenerated) % Modulus)]
                   /\ latest' = p
                   /\ disturbed' = IF tones[p] # <<>> /\ (latest # p \/ packet.marker)
                                   THEN disturbed \cup {p} ELSE disturbed
              ELSE UNCHANGED <<toneState, tones, latest, disturbed>>
           /\ UNCHANGED <<presses, sent>>
  BY DEF Synthesize
<1>2. packet.press \in Nat /\ flight' \subseteq flight BY <1>1 DEF IInv, Types
<1>3. CASE HasTone(presses[packet.press].event) BY <1>1, <1>2, <1>3, ToneStep
<1>4. CASE ~ HasTone(presses[packet.press].event)
  BY <1>1, <1>2, <1>4 DEF IInv, Types, Distinct, Tracks, Future, TonesContinuous
<1> QED BY <1>3, <1>4

\* synthesizeTelephoneEventAsPCMA: whatever packets the network loses, repeats
\* and reorders, and however often the timestamps wrap, a tone that is not
\* started over has packets that join from the timestamp of its key press on.
THEOREM TonesAreContinuous == Spec => []TonesContinuous
<1>1. IInv /\ [Next]_vars => IInv' BY PressStep, SendPacketStep, SynthesizeStep DEF Next
<1>2. IInv => TonesContinuous BY DEF IInv
<1> QED BY InvInit, <1>1, <1>2, PTL DEF Spec

----------------------------------------------------------------------------
(* The range of RTP ports *)

LEMMA EvenPorts ==
  ASSUME NEW portMin \in Int
  PROVE  LET first == File!FirstRTPPort(portMin)
         IN first \in Int /\ first >= portMin /\ first % 2 = 0 /\ (first + 2) % 2 = 0
BY DEF File!FirstRTPPort

\* The ports allocateRTPPortLocked hands out.
Circle(cfg) == {p \in File!FirstRTPPort(cfg.portMin) .. cfg.portMax : p % 2 = 0}

\* The first two of them are two.
LEMMA RangeSuffices ==
  ASSUME NEW cfg, cfg.portMin \in Int, cfg.portMax \in Int, File!PortsValid(cfg)
  PROVE  /\ Cardinality(Circle(cfg)) >= 2
         /\ \A p \in Circle(cfg) : p >= cfg.portMin /\ p + 1 <= 65535
<1> DEFINE first  == File!FirstRTPPort(cfg.portMin)
           circle == Circle(cfg)
<1>1. /\ first \in Int /\ first >= cfg.portMin
      /\ first % 2 = 0 /\ (first + 2) % 2 = 0
  BY EvenPorts
<1>2. first + 2 <= cfg.portMax /\ cfg.portMax <= 65534 BY DEF File!PortsValid
<1>3. circle = {p \in first .. cfg.portMax : p % 2 = 0} BY DEF Circle
<1> HIDE DEF first, circle
<1>4. {first, first + 2} \subseteq circle BY <1>1, <1>2, <1>3
<1>5. IsFiniteSet(circle)
  <2>1. IsFiniteSet(first .. cfg.portMax) BY <1>1, FS_Interval
  <2> QED BY <1>3, <2>1, FS_Subset
<1>6. \A p \in circle : p >= cfg.portMin /\ p + 1 <= 65535 BY <1>1, <1>2, <1>3
<1>7. Cardinality({first, first + 2}) = 2
  <2>1. IsFiniteSet({first}) /\ Cardinality({first}) = 1 BY FS_Singleton
  <2>2. first + 2 \notin {first} BY <1>1
  <2>3. Cardinality({first} \cup {first + 2}) = 2 BY <2>1, <2>2, FS_AddElement
  <2>4. {first} \cup {first + 2} = {first, first + 2} OBVIOUS
  <2> QED BY <2>3, <2>4
<1>8. Cardinality({first, first + 2}) <= Cardinality(circle)
  BY <1>4, <1>5, FS_Subset
<1>9. Cardinality(circle) \in Nat BY <1>5, FS_CardinalityType
<1> QED BY <1>6, <1>7, <1>8, <1>9 DEF circle

\* Validate against allocateRTPPortLocked and newMediaRelay: in whatever range
\* of ports it accepts, the circle of even ports has room for the two legs of
\* a call, and every port of it and its RTCP port exist.
THEOREM AcceptedRangesSuffice ==
  ASSUME NEW cfg, cfg.portMin \in Int, cfg.portMax \in Int
  PROVE  File!ValidatedPortsSuffice(cfg)
<1>1. ASSUME File!Validate(cfg)
      PROVE  /\ File!Cardinality(Circle(cfg)) >= 2
             /\ \A p \in Circle(cfg) : p >= cfg.portMin /\ p + 1 <= 65535
  <2>1. File!PortsValid(cfg) BY SMTT(30), <1>1 DEF File!Validate
  <2>2. File!Cardinality(Circle(cfg)) = Cardinality(Circle(cfg))
    BY DEF Cardinality, File!Cardinality
  <2> QED BY <2>1, <2>2, RangeSuffices
<1> QED BY <1>1 DEF File!ValidatedPortsSuffice, Circle

\* Ports are numbers: apply refuses a value strconv.Atoi does not take.
RangeTyped ==
  input.kind = "range" => input.cfg.portMin \in Int /\ input.cfg.portMax \in Int

LEMMA NextRangeTyped == RangeTyped /\ [MCNext]_<<vars, input>> => RangeTyped'
<1> SUFFICES ASSUME RangeTyped, [MCNext]_<<vars, input>> PROVE RangeTyped' OBVIOUS
<1>1. CASE UNCHANGED input BY <1>1 DEF RangeTyped
<1>2. CASE ReadTransaction BY <1>2 DEF RangeTyped, ReadTransaction
<1>3. CASE ReadOffer BY <1>3 DEF RangeTyped, ReadOffer
<1>4. CASE ReadDescription BY <1>4 DEF RangeTyped, ReadDescription
<1>5. CASE ReadChallenge BY <1>5 DEF RangeTyped, ReadChallenge
<1>6. CASE ReadFile BY <1>6 DEF RangeTyped, ReadFile
<1>7. CASE ReadRange BY <1>7 DEF RangeTyped, ReadRange
<1> QED BY <1>1, <1>2, <1>3, <1>4, <1>5, <1>6, <1>7 DEF MCNext

\* The same as the run checks it.
THEOREM PortsAlwaysSuffice == MCSpec => []PortsSuffice
<1>1. MCInit => RangeTyped BY DEF MCInit, None, RangeTyped
<1>2. RangeTyped => PortsSuffice
  <2> SUFFICES ASSUME RangeTyped, input.kind = "range" PROVE File!ValidatedPortsSuffice(input.cfg)
    BY DEF PortsSuffice
  <2>1. input.cfg.portMin \in Int /\ input.cfg.portMax \in Int BY DEF RangeTyped
  <2> QED BY <2>1, AcceptedRangesSuffice
<1> QED BY <1>1, <1>2, NextRangeTyped, PTL DEF MCSpec
=============================================================================
