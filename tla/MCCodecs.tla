------------------------------ MODULE MCCodecs ------------------------------
(***************************************************************************)
(* Model checking of the codecs: ToneSynthesis runs by itself, and each of *)
(* the others, which keep no state, is given one input after which the     *)
(* behaviour ends.  The sets of inputs are the bounds.                     *)
(***************************************************************************)
EXTENDS ToneSynthesis

Text   == INSTANCE H248Text
Offer  == INSTANCE SDP
Auth   == INSTANCE Digest
File   == INSTANCE Config

VARIABLE input

None == [kind |-> "none"]

----------------------------------------------------------------------------
(* H.248 transactions of up to two actions with up to two items each, and  *)
(* of three actions with one item each                                     *)

Item(name, optional, value, body, remote) ==
  [name |-> name, assigned |-> TRUE, optional |-> optional, value |-> value, body |-> body, remote |-> remote]

Items ==
  { \* an Add with a RemoteDescriptor inside its MediaDescriptor
    Item("A", FALSE, <<"$">>,
         <<"{", "M", "{", "L", "{", "v", "}", ",", "R", "{", "w", "}", "}", "}">>, << <<"w">> >>),
    \* without a body, and without a termination
    Item("S", TRUE, <<"*">>, <<>>, <<>>),
    Item("N", FALSE, <<>>, <<>>, <<>>),
    \* with a quoted string that holds a brace, an escaped quote and a comma
    Item("ServiceChange", FALSE, <<"A0">>,
         <<"{", "RE", "=", "quote", "}", "escaped quote", ",", "quote", "}">>, <<>>),
    \* not a command: without =, and an assignment
    [Item("AT", FALSE, <<>>, <<"{", "A", "=", "x", ",", "R", "{", "R", "{", "}", "}", "}">>,
          << <<"R", "{", "}">> >>) EXCEPT !.assigned = FALSE],
    Item("E", FALSE, <<"1">>, <<"{", "S", "=", "x", "}">>, <<>>) }

Actions == [contextID : {<<"1">>, <<"-">>},
            items : UNION {[1..n -> Items] : n \in 0..2}]

Transactions == UNION {[1..n -> Actions] : n \in 1..2}
  \cup [1..3 -> {a \in Actions : Len(a.items) = 1}]

ReadTransaction ==
  \E actions \in Transactions, spaced \in BOOLEAN :
    input' = [kind |-> "transaction", actions |-> actions, spaced |-> spaced]

----------------------------------------------------------------------------
(* SDP: what the gateway offers, and descriptions of others                *)

ReadOffer ==
  \E codecs \in UNION {[1..n -> {"PCMA", "PCMU", "G729", "unknown"}] : n \in 0..3},
     port \in {0, 1, 65535}, dtmf \in {0, 97, 127, 128}, ptime \in {0, 20} :
    input' = [kind |-> "offer", codecs |-> codecs, port |-> port, dtmf |-> dtmf, ptime |-> ptime]

AudioLines ==
  { [type |-> "c", ip |-> "audio"],
    [type |-> "rtpmap", payload |-> 101, codec |-> "telephone-event"],
    [type |-> "rtpmap", payload |-> 96, codec |-> "PCMU"],
    [type |-> "direction", direction |-> "sendonly"] }
OtherLines ==
  { [type |-> "rtpmap", payload |-> 101, codec |-> "other"],
    [type |-> "rtpmap", payload |-> 99, codec |-> "telephone-event"],
    [type |-> "ptime", ptime |-> 30],
    [type |-> "direction", direction |-> "inactive"] }

MediaLine(media) ==
  [type |-> "m", media |-> media, port |-> 4000, payloads |-> <<96, 101, 8>>]
AudioSections == {<<MediaLine("audio")>> \o ls : ls \in [1..2 -> AudioLines]}
OtherSections == {<<MediaLine("video")>> \o ls : ls \in [1..2 -> OtherLines]}

ReadDescription ==
  \E session \in {<<>>, <<[type |-> "c", ip |-> "session"]>>},
     audio \in AudioSections, other \in OtherSections :
    \E sections \in {<<audio>>, <<audio, other>>, <<other, audio>>, <<other, audio, other>>} :
      input' = [kind |-> "description", session |-> session, sections |-> sections]

----------------------------------------------------------------------------
(* Digest challenges                                                       *)

Values == UNION {[1..n -> {"a", ",", "=", " ", "quote", "backslash"}] : n \in 0..3}

ReadChallenge ==
  \E realm \in Values, nonce \in {<<>>, <<"a">>, <<"backslash">>},
     qops \in {<<>>, <<"auth">>, <<"auth-int">>, <<"other", "auth-int">>, <<"auth-int", "auth">>,
               <<"other">>} :
    input' = [kind |-> "challenge", realm |-> realm, nonce |-> nonce, qops |-> qops]

----------------------------------------------------------------------------
(* Configuration files and port ranges                                     *)

Settings == {<<"listen", "word">>, <<"backup_mgc", "empty">>, <<"version", "1">>, <<"version", "word">>}
FileSections == [name : {"sip", "h248", "other"},
                 settings : UNION {[1..n -> Settings] : n \in 0..2}]

ReadFile ==
  \E sections \in UNION {[1..n -> FileSections] : n \in 1..2} :
    input' = [kind |-> "file", sections |-> sections]

ReadRange ==
  \E portMin \in {-1, 0, 1, 2, 3, 20000, 20001} \cup 65529 .. 65535,
     portMax \in 0 .. 6 \cup 20000 .. 20004 \cup 65530 .. 65535,
     dtmf \in {0, 127, 128}, ptime \in {0, 200} :
    input' = [kind |-> "range",
              cfg |-> [version |-> 1, retrySeconds |-> 5, maxAttempts |-> 3,
                       failureTimeout |-> 120, stabilization |-> 0, digitDelay |-> 0,
                       portMin |-> portMin, portMax |-> portMax,
                       dtmf |-> dtmf, h248DTMF |-> 101, ptime |-> ptime]]

----------------------------------------------------------------------------

MCInit == Init /\ input = None

MCNext ==
  \/ input = None /\ Next /\ UNCHANGED input
  \/ /\ input = None /\ presses = <<>>
     /\ \/ ReadTransaction \/ ReadOffer \/ ReadDescription
        \/ ReadChallenge \/ ReadFile \/ ReadRange
     /\ UNCHANGED vars

MCSpec == MCInit /\ [][MCNext]_<<vars, input>>

\* parseActions, parseAssignments, balancedEnd, skipUnknownItem and
\* descriptorBodies find the commands and descriptors of a transaction, each
\* where it belongs, and nothing else.
TransactionsRead ==
  input.kind = "transaction" =>
    /\ Text!ParsesCommands(input.actions, input.spaced)
    /\ Text!FindsDescriptors(input.actions, input.spaced)

\* simpleActionReplies and BuildActionReply answer every command of a
\* transaction, in one C= block for each Context.
RepliesByContext ==
  input.kind = "transaction" => Text!RepliesByContext(input.actions)

\* ParseSDP reads what BuildSDPWithPTime has written.
OffersRead ==
  input.kind = "offer" =>
    Offer!RoundTrip("ip", input.port, input.codecs, input.dtmf, input.ptime)

\* ParseSDP reads the audio section of a description wherever it stands.
DescriptionsRead ==
  input.kind = "description" => Offer!AudioAlone(input.session, input.sections)

\* ParseDigestChallenge and selectDigestQOP read a challenge as it was meant.
ChallengesRead ==
  input.kind = "challenge" => Auth!ChallengeRead(input.realm, input.nonce, input.qops)

\* Load and apply read a file as it was meant.
FilesLoaded == input.kind = "file" => File!LoadedAsWritten(input.sections)

\* Validate lets no port range pass in which a call has no room.
PortsSuffice == input.kind = "range" => File!ValidatedPortsSuffice(input.cfg)
=============================================================================
