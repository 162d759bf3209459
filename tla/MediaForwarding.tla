-------------------------- MODULE MediaForwarding ---------------------------
(***************************************************************************)
(* The forwarding of one media relay (src/internal/bridge/media.go) and    *)
(* the signalling that tells it where the far ends are and how they number *)
(* telephone events (h248.go, sip.go).                                     *)
(*                                                                         *)
(* mediaRelay.mu guards the peers and the payload types, Bridge.mu the     *)
(* fields of the call; a handler changes the call in one section and the   *)
(* relay in a later one, and every datagram has its own handler.  A        *)
(* forwarding goroutine learns the source of each packet it reads, and     *)
(* writes with the values it has read in the same section: what it writes  *)
(* depends on nothing that can change in between.  An address is its port. *)
(* An SDP that is not accepted changes nothing and is left out.            *)
(***************************************************************************)
EXTENDS Integers, FiniteSets

CONSTANTS
  Ports,                 \* bound: RTP ports of the far ends
  FirstPorts,            \* bound: those in the SDP that starts the call
  EventPayloads,         \* bound: payload types they give to telephone events
  DTMFPayloadType,       \* media.dtmf_payload_type
  H248DTMFPayloadType,   \* media.h248_dtmf_payload_type
  H248DTMFModes,         \* media.h248_dtmf_mode, the values that are looked at
  MaxUpdates,            \* bound: further SDPs of the far ends
  MaxFlight,             \* bound: packets on their way to the relay
  Nil

Handlers == 1..MaxUpdates
Sides == {"h248", "sip"}
Other == [h248 |-> "sip", sip |-> "h248"]
Configured == [h248 |-> H248DTMFPayloadType, sip |-> DTMFPayloadType]

HighestPort == 65535

\* The payload type of PCMA.
PCMA == 8

ValidPayload(pt) == pt > 0 /\ pt < 128

ASSUME MediaForwardingAssumption ==
  /\ FirstPorts \subseteq Ports /\ Ports \subseteq 1..HighestPort /\ Nil \notin Int
  /\ EventPayloads \subseteq 0..127            \* 0: no telephone-event offered
  /\ DTMFPayloadType \in 1..127 /\ H248DTMFPayloadType \in 1..127
  /\ H248DTMFModes \subseteq {"rfc4733", "inband"}
  /\ MaxUpdates \in Nat /\ MaxFlight \in Nat \ {0}

VARIABLES
  mode,        \* h248DTMFMode
  relay,       \* per side: peer, RTCP peer, payload type of telephone events
  eventPT,     \* the call's H248TelephoneEventPT and SIPTelephoneEventPT
  added,       \* the call has its H.248 Context
  handlers,    \* per further SDP, how far the goroutine that handles it is
  \* The outside.
  far,         \* per far end: the port it sends from, its payload type
  offered,     \* payload types each far end has ever given
  updates,     \* further SDPs the far ends have sent
  overtaken,   \* sides on which an SDP came while an older one was in work
  flight       \* packets on their way from each far end

signalVars == <<eventPT, added, handlers>>
farVars    == <<far, offered, updates, overtaken>>
vars == <<mode, relay, signalVars, farVars, flight>>

Idle == [at |-> "idle"]

\* adjacentRTCPAddr
Adjacent(port) == IF port = Nil \/ port >= HighestPort THEN Nil ELSE port + 1

Given(pt, default) == IF pt > 0 THEN pt ELSE default

\* The call as handleIncomingCallAdd or handleNewSIPInvite leaves it: the far
\* end that called has given its address and perhaps a payload type.
Init ==
  /\ mode \in H248DTMFModes
  /\ \E caller \in Sides, port \in FirstPorts, pt \in EventPayloads :
       /\ eventPT = [Configured EXCEPT ![caller] = Given(pt, @)]
       /\ relay = [s \in Sides |->
            [peer |-> IF s = caller THEN port ELSE Nil,
             rtcp |-> IF s = caller THEN Adjacent(port) ELSE Nil,
             dtmf |-> eventPT[s]]]
       /\ added = (caller = "h248")
       /\ far = [s \in Sides |-> [port |-> IF s = caller THEN port ELSE Nil,
                                  pt |-> eventPT[s]]]
       /\ offered = [s \in Sides |-> {eventPT[s]}]
  /\ handlers = [h \in Handlers |-> Idle]
  /\ updates = 0
  /\ overtaken = {}
  /\ flight = [s \in Sides |-> {}]

----------------------------------------------------------------------------
(* An SDP of a far end *)

Busy(s) == \E h \in Handlers : handlers[h].at # "idle" /\ handlers[h].side = s

\* The PBX sends an SDP (183, 200, re-INVITE, UPDATE) or the MGC one (the Add
\* of an originated call, Modify); it may send media from another port than
\* the SDP says, and may have moved.  The Add has a LocalDescriptor and, unless
\* its port is Nil, a RemoteDescriptor.
FarUpdates(h) ==
  /\ h = updates + 1
  /\ \E s \in Sides, sdp \in Ports \cup {Nil}, src \in Ports, pt \in EventPayloads :
       /\ s = "h248" /\ ~ added => ~ Busy(s)     \* the Add has to be answered first
       /\ sdp = Nil => s = "h248" /\ ~ added
       /\ updates' = h
       /\ far' = [far EXCEPT ![s] = [port |-> src, pt |-> Given(pt, @.pt)]]
       /\ offered' = [offered EXCEPT ![s] = @ \cup ({pt} \ {0})]
       /\ overtaken' = IF Busy(s) THEN overtaken \cup {s} ELSE overtaken
       /\ handlers' = [handlers EXCEPT ![h] =
            [at |-> IF s = "h248" /\ ~ added THEN "local" ELSE "remote",
             side |-> s, port |-> sdp, pt |-> pt]]
  /\ UNCHANGED <<mode, relay, eventPT, added, flight>>

\* Mutant: a payload type of 0 is taken over.
AcceptedPayloadAny(pt, old) == pt

\* The payload type of a relay after SetH248Peer, SetSIPPeer or
\* SetH248DTMFPayloadType.
AcceptedPayload(pt, old) == IF ValidPayload(pt) THEN pt ELSE old

\* The Add is done with its LocalDescriptor.
AfterLocal(h) ==
  IF handlers[h].port = Nil THEN [handlers EXCEPT ![h] = Idle]
  ELSE [handlers EXCEPT ![h].at = "remote"]

\* handleOutboundCallAdd: the LocalDescriptor, which inband mode ignores
LocalDescriptor(h) ==
  /\ handlers[h].at = "local"
  /\ added' = TRUE
  /\ LET pt == handlers[h].pt
     IN /\ eventPT' = [eventPT EXCEPT !["h248"] =
                         IF mode = "inband" THEN 0 ELSE Given(pt, @)]
        /\ handlers' = IF mode # "inband" /\ pt > 0
                       THEN [handlers EXCEPT ![h].at = "localRelay"]
                       ELSE AfterLocal(h)
  /\ UNCHANGED <<mode, relay, farVars, flight>>

SetH248DTMFPayloadType(h) ==
  /\ handlers[h].at = "localRelay"
  /\ relay' = [relay EXCEPT !["h248"].dtmf = AcceptedPayload(handlers[h].pt, @)]
  /\ handlers' = AfterLocal(h)
  /\ UNCHANGED <<mode, eventPT, added, farVars, flight>>

\* Mutant: the payload type that goes on is the one the call had before.
RemoteMediaStale(h) ==
  /\ handlers[h].at = "remote"
  /\ LET s == handlers[h].side
     IN /\ eventPT' = [eventPT EXCEPT ![s] = Given(handlers[h].pt, @)]
        /\ handlers' = [handlers EXCEPT ![h].at = "relay", ![h].pt = eventPT[s]]
  /\ UNCHANGED <<mode, relay, added, farVars, flight>>

\* updateSIPRemoteMedia, processH248Command and handleOutboundCallAdd: the
\* section that changes the call; the payload type of the call goes on.
RemoteMedia(h) ==
  /\ handlers[h].at = "remote"
  /\ LET s == handlers[h].side
     IN /\ eventPT' = [eventPT EXCEPT ![s] = Given(handlers[h].pt, @)]
        /\ handlers' = [handlers EXCEPT ![h].at = "relay", ![h].pt = eventPT'[s]]
  /\ UNCHANGED <<mode, relay, added, farVars, flight>>

\* SetH248Peer, SetSIPPeer
SetPeer(h) ==
  /\ handlers[h].at = "relay"
  /\ LET o == handlers[h]
     IN relay' = [relay EXCEPT ![o.side] =
          [peer |-> o.port, rtcp |-> Adjacent(o.port),
           dtmf |-> AcceptedPayload(o.pt, @.dtmf)]]
  /\ handlers' = [handlers EXCEPT ![h] = Idle]
  /\ UNCHANGED <<mode, eventPT, added, farVars, flight>>

Handle(h) ==
  LocalDescriptor(h) \/ SetH248DTMFPayloadType(h) \/ RemoteMedia(h) \/ SetPeer(h)

----------------------------------------------------------------------------
(* Packets *)

\* A far end sends RTP or RTCP; packets may be overtaken by others, and by the
\* signalling.  What a packet of RTP holds is left to EventsTranslated.
FarSends(s, kind) ==
  /\ far[s].port # Nil
  /\ kind = "rtcp" => Adjacent(far[s].port) # Nil
  /\ Cardinality(UNION {flight[t] : t \in Sides}) < MaxFlight
  /\ flight' = [flight EXCEPT ![s] = @ \cup
       {[kind |-> kind,
         src |-> IF kind = "rtcp" THEN Adjacent(far[s].port) ELSE far[s].port]}]
  /\ UNCHANGED <<mode, relay, signalVars, farVars>>

\* Mutant: the peer is only what the signalling says.
LearnedNever(old, observed) == old

\* The peer after a packet from observed
Learned(old, observed) == observed

\* Mutant: events go to the carrier as events in every mode.
RewrittenAlways(s, pt) == IF pt # relay[s].dtmf THEN pt ELSE relay[Other[s]].dtmf

\* The payload type a packet leaves with: rewriteRTPPayloadType, or PCMA from
\* synthesizeTelephoneEventAsPCMA.
Rewritten(s, pt) ==
  IF pt # relay[s].dtmf THEN pt
  ELSE IF s = "sip" /\ mode = "inband" THEN PCMA
  ELSE relay[Other[s]].dtmf

\* forward with forwardingState: the packet leaves with Rewritten, or is
\* dropped when the other side has no peer.
Forward(s) ==
  /\ \E p \in flight[s] :
       /\ p.kind = "rtp"
       /\ flight' = [flight EXCEPT ![s] = @ \ {p}]
       /\ relay' = [relay EXCEPT ![s].peer = Learned(@, p.src)]
  /\ UNCHANGED <<mode, signalVars, farVars>>

\* forwardRTCP with rtcpForwardingState; what is written is not looked at.
ForwardRTCP(s) ==
  /\ \E p \in flight[s] :
       /\ p.kind = "rtcp"
       /\ flight' = [flight EXCEPT ![s] = @ \ {p}]
       /\ relay' = [relay EXCEPT ![s].rtcp = Learned(@, p.src)]
  /\ UNCHANGED <<mode, signalVars, farVars>>

----------------------------------------------------------------------------

Next ==
  \/ \E h \in Handlers : FarUpdates(h) \/ Handle(h)
  \/ \E s \in Sides : \/ \E kind \in {"rtp", "rtcp"} : FarSends(s, kind)
                      \/ Forward(s) \/ ForwardRTCP(s)

Spec == Init /\ [][Next]_vars

\* Goroutines run on, far ends keep sending RTP and RTCP, and packets that
\* are on their way arrive.
Fairness ==
  /\ \A h \in Handlers : WF_vars(Handle(h))
  /\ \A s \in Sides :
       /\ WF_vars(Forward(s)) /\ WF_vars(ForwardRTCP(s))
       /\ SF_vars(FarSends(s, "rtp")) /\ SF_vars(FarSends(s, "rtcp"))

FairSpec == Spec /\ Fairness

----------------------------------------------------------------------------
(* Properties *)

Peers == Ports \cup {Nil}
RTCPPeers == {p + 1 : p \in Ports \ {HighestPort}} \cup {Nil}

\* Type invariant.
TypeOK ==
  /\ relay \in [Sides -> [peer : Peers, rtcp : RTCPPeers, dtmf : 1..127]]
  /\ eventPT \in [Sides -> 0..127] /\ added \in BOOLEAN
  /\ \A h \in Handlers : handlers[h] = Idle \/ handlers[h] \in
       [at : {"local", "localRelay", "remote", "relay"}, side : Sides,
        port : Peers, pt : 0..127]

\* forwardingState, rtcpForwardingState: when the far ends have stopped moving,
\* the media they are sent comes to go to where they send from, for good,
\* although the SDP may have named another port, packets from the old one may
\* still arrive, and signalling and packets may be handled in any order.
PeersConverge ==
  \A s \in Sides :
    /\ <>[](far[s].port # Nil => relay[s].peer = far[s].port)
    /\ <>[](far[s].port \notin {Nil, HighestPort} => relay[s].rtcp = far[s].port + 1)

\* rewriteRTPPayloadType and the inband mode: a telephone event the relay
\* recognises never leaves with a payload type its receiver has not been
\* given, nor as an event at all where the carrier gets tones, even while
\* payload types are being renegotiated on both sides.
EventsTranslated ==
  \A s \in Sides :
    LET leaves == Rewritten(s, relay[s].dtmf)
    IN IF s = "sip" /\ mode = "inband" THEN leaves = PCMA
       ELSE leaves \in offered[Other[s]]

\* SetH248Peer, SetSIPPeer: unless an SDP was sent while an older one of the
\* same far end was in work, the relay knows the payload type the far end has
\* given last, so that its events are recognised.  A carrier that gets tones
\* has agreed on no events.
EventsRecognised ==
  \A s \in Sides :
    \/ relay[s].dtmf = far[s].pt
    \/ Busy(s) \/ s \in overtaken \/ (s = "h248" /\ mode = "inband")
=============================================================================
