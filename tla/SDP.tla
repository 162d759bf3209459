-------------------------------- MODULE SDP ---------------------------------
(***************************************************************************)
(* The SDP codec of the SIP side (src/internal/sip/sdp.go).                *)
(*                                                                         *)
(* A description is a sequence of lines, each a record whose field type    *)
(* names the kind of line; lines that ParseSDP does not look at are left   *)
(* out.  A line that has no number where one belongs is left out too.      *)
(***************************************************************************)
EXTENDS Integers, Sequences, SequencesExt

\* The static payload types; a codec is a word.
StaticPayload == [PCMA |-> 8, PCMU |-> 0, G729 |-> 18]
Known == DOMAIN StaticPayload

TelephoneEvent == "telephone-event"

\* Mutant: a payload type of 0 is one for telephone events.
OffersEventsZero(dtmf) == dtmf < 128

\* Whether there is a payload type for telephone events.
OffersEvents(dtmf) == dtmf > 0 /\ dtmf < 128

\* BuildSDPWithPTime, with the codecs in the order of the configuration
BuildSDPWithPTime(ip, port, codecs, dtmf, ptime) ==
  LET known  == SelectSeq(codecs, LAMBDA c : c \in Known)
      listed == IF known = <<>> THEN <<"PCMA", "PCMU">> ELSE known
      events == IF OffersEvents(dtmf)
                THEN <<[type |-> "rtpmap", payload |-> dtmf, codec |-> TelephoneEvent]>>
                ELSE <<>>
      maps   == [k \in DOMAIN listed |-> [type |-> "rtpmap", codec |-> listed[k],
                                          payload |-> StaticPayload[listed[k]]]] \o events
  IN <<[type |-> "c", ip |-> ip],
       [type |-> "m", media |-> "audio", port |-> port,
        payloads |-> [k \in DOMAIN maps |-> maps[k].payload]]>>
     \o maps
     \o (IF ptime > 0 THEN <<[type |-> "ptime", ptime |-> ptime]>> ELSE <<>>)
     \o <<[type |-> "direction", direction |-> "sendrecv"]>>

NothingRead ==
  [ip |-> "", sessionIP |-> "", port |-> 0, payloads |-> <<>>, rtpmap |-> {},
   telephoneEvent |-> 0, ptime |-> 0, direction |-> "sendrecv", inAudio |-> FALSE]

\* Mutant: a section that is not audio does not end the audio section.
ReadLineAudioStays(read, line) ==
  CASE line.type = "m" ->
         IF line.media # "audio" THEN read
         ELSE [read EXCEPT !.inAudio = TRUE, !.port = line.port,
                           !.payloads = @ \o line.payloads]
    [] line.type = "c" -> IF read.inAudio THEN [read EXCEPT !.ip = line.ip]
                          ELSE [read EXCEPT !.sessionIP = line.ip]
    [] line.type = "direction" -> [read EXCEPT !.direction = line.direction]
    [] line.type = "ptime" -> [read EXCEPT !.ptime = line.ptime]
    [] line.type = "rtpmap" ->
         [read EXCEPT !.rtpmap = @ \cup {<<line.payload, line.codec>>},
                      !.telephoneEvent = IF line.codec = TelephoneEvent THEN line.payload ELSE @]

\* The body of ParseSDP's loop.  Attributes count in an audio section only; a
\* c= outside of one is taken for the session's.
ReadLine(read, line) ==
  CASE line.type = "m" /\ line.media = "audio" ->
         [read EXCEPT !.inAudio = TRUE, !.port = line.port,
                      !.payloads = @ \o SelectSeq(line.payloads, LAMBDA p : p \in 0..127)]
    [] line.type = "m" /\ line.media # "audio" -> [read EXCEPT !.inAudio = FALSE]
    [] line.type = "c" -> IF read.inAudio THEN [read EXCEPT !.ip = line.ip]
                          ELSE [read EXCEPT !.sessionIP = line.ip]
    [] line.type = "direction" /\ read.inAudio -> [read EXCEPT !.direction = line.direction]
    [] line.type = "ptime" /\ read.inAudio -> [read EXCEPT !.ptime = line.ptime]
    [] line.type = "rtpmap" /\ read.inAudio ->
         [read EXCEPT !.rtpmap = {m \in @ : m[1] # line.payload}
                                   \cup {<<line.payload, line.codec>>},
                      !.telephoneEvent = IF line.codec = TelephoneEvent THEN line.payload ELSE @]
    [] OTHER -> read

\* The codec of a payload type: by its number, else by its rtpmap.
Codec(read, payload) ==
  CASE payload = 8  \/ <<payload, "PCMA">> \in read.rtpmap -> "PCMA"
    [] payload = 0  \/ <<payload, "PCMU">> \in read.rtpmap -> "PCMU"
    [] payload = 18 \/ <<payload, "G729">> \in read.rtpmap -> "G729"
    [] OTHER -> "other"

AppendUnique(values, value) ==
  IF value = "other" \/ Contains(values, value) THEN values ELSE Append(values, value)

\* ParseSDP: what it has read, or no active audio address
Error == [error |-> TRUE]

ParseSDP(lines) ==
  LET read == FoldLeft(ReadLine, NothingRead, lines)
      ip   == IF read.ip = "" THEN read.sessionIP ELSE read.ip
  IN IF ip = "" \/ read.port = 0 \/ \E k \in DOMAIN lines :
          lines[k].type = "m" /\ lines[k].media = "audio" /\ lines[k].port \notin 0..65535
     THEN Error
     ELSE [error |-> FALSE, ip |-> ip, port |-> read.port,
           codecs |-> FoldLeft(LAMBDA cs, p : AppendUnique(cs, Codec(read, p)), <<>>,
                               read.payloads),
           telephoneEvent |-> read.telephoneEvent, ptime |-> read.ptime,
           direction |-> read.direction]

----------------------------------------------------------------------------
(* Properties *)

\* BuildSDPWithPTime, ParseSDP: what the gateway offers is what a parser like
\* its own reads, each codec once, with the defaults where it has none of the
\* configured ones.
RoundTrip(ip, port, codecs, dtmf, ptime) ==
  LET known == SelectSeq(codecs, LAMBDA c : c \in Known)
      names == IF known = <<>> THEN <<"PCMA", "PCMU">> ELSE known
  IN ParseSDP(BuildSDPWithPTime(ip, port, codecs, dtmf, ptime)) =
       IF port = 0 THEN Error
       ELSE [error |-> FALSE, ip |-> ip, port |-> port,
             codecs |-> FoldLeft(AppendUnique, <<>>, names),
             telephoneEvent |-> IF dtmf \in 1..127 THEN dtmf ELSE 0,
             ptime |-> ptime, direction |-> "sendrecv"]

\* A description of others: session lines and media sections.  A section is
\* its m= line and what follows it.
Description(session, sections) == session \o FlattenSeq(sections)

\* ParseSDP: of a description with one audio section among others, the answer
\* depends on the session's c= and on that section alone, wherever it stands.
\* A c= of another section would be taken for the session's.
AudioAlone(session, sections) ==
  LET audio == SelectSeq(sections, LAMBDA s : s[1].media = "audio")
      foreignAddress == \E k \in DOMAIN sections : \E j \in DOMAIN sections[k] :
          sections[k][1].media # "audio" /\ sections[k][j].type = "c"
  IN Len(audio) = 1 /\ ~ foreignAddress =>
       ParseSDP(Description(session, sections)) = ParseSDP(Description(session, audio))
=============================================================================
