------------------------ MODULE MediaForwardingProofs -----------------------
(***************************************************************************)
(* Proofs about MediaForwarding for any ports, payload types and number of *)
(* SDPs: types, and how telephone events are renumbered.                   *)
(***************************************************************************)
EXTENDS MediaForwarding, TLAPS

Leg     == [peer : Peers, rtcp : RTCPPeers, dtmf : 1..127]
Work    == [at : {"local", "localRelay", "remote", "relay"}, side : Sides,
            port : Peers, pt : 0..127]
Packets == [kind : {"rtp"}, src : Ports] \cup [kind : {"rtcp"}, src : RTCPPeers \ {Nil}]

\* The handler works on an SDP of this side.
On(h, s) == handlers[h].at # "idle" /\ handlers[h].side = s

Types ==
  /\ mode \in H248DTMFModes
  /\ relay \in [Sides -> Leg]
  /\ eventPT \in [Sides -> 0..127] /\ added \in BOOLEAN
  /\ handlers \in [Handlers -> {Idle} \cup Work]
  /\ far \in [Sides -> [port : Peers, pt : 1..127]]
  /\ offered \in [Sides -> SUBSET (1..127)]
  /\ updates \in Nat /\ overtaken \subseteq Sides
  /\ flight \in [Sides -> SUBSET Packets]

\* Only the Add has a LocalDescriptor, and handlers start in their order.
HandlersInOrder ==
  \A h \in Handlers :
    /\ handlers[h].at \in {"local", "localRelay"} => handlers[h].side = "h248"
    /\ handlers[h].at = "localRelay" => handlers[h].pt > 0
    /\ h > updates => handlers[h] = Idle

\* Whatever payload type anybody holds, the far end has given it.
Translated(s) ==
  /\ relay[s].dtmf \in offered[s]
  /\ eventPT[s] \in offered[s] \cup {0}
  /\ \A h \in Handlers : On(h, s) => handlers[h].pt \in offered[s] \cup {0}

\* The call and the relay know the payload type the far end has given last.
Settled(s) == relay[s].dtmf = far[s].pt /\ eventPT[s] = far[s].pt

\* What the handler of the last SDP brings the relay closer to.
Pending(h, s) ==
  IF handlers[h].at \in {"local", "remote"}
  THEN \/ handlers[h].pt = far[s].pt
       \/ handlers[h].pt = 0 /\ Settled(s)
  ELSE handlers[h].pt = far[s].pt /\ eventPT[s] = far[s].pt

Exempt(s) == s \in overtaken \/ (s = "h248" /\ mode = "inband")

Recognised(s) ==
  /\ \A g, h \in Handlers : On(g, s) /\ On(h, s) => g = h
  /\ Settled(s) \/ Busy(s)
  /\ \A h \in Handlers : On(h, s) => Pending(h, s)

IInv == /\ Types /\ HandlersInOrder
        /\ \A s \in Sides : Translated(s) /\ (Exempt(s) \/ Recognised(s))

----------------------------------------------------------------------------
(* Constants *)

LEMMA ConfiguredType == Configured \in [Sides -> 1..127]
<1>1. Configured["h248"] \in 1..127 BY MediaForwardingAssumption DEF Configured
<1>2. Configured["sip"] \in 1..127 BY MediaForwardingAssumption DEF Configured
<1>3. \A s \in Sides : Configured[s] \in 1..127 BY <1>1, <1>2 DEF Sides
<1>4. DOMAIN Configured = Sides BY DEF Configured, Sides
<1>5. Configured = [s \in DOMAIN Configured |-> Configured[s]] BY DEF Configured
<1> QED BY <1>3, <1>4, <1>5

LEMMA Highest == HighestPort \in Nat
BY DEF HighestPort

LEMMA Constants ==
  /\ FirstPorts \subseteq Ports /\ Ports \subseteq 1..HighestPort /\ Nil \notin Int
  /\ EventPayloads \subseteq 0..127 /\ MaxUpdates \in Nat
BY MediaForwardingAssumption

LEMMA PortType ==
  ASSUME NEW port \in Ports
  PROVE  port \in 1..HighestPort /\ port \in Int /\ port # Nil
<1>1. port \in 1..HighestPort BY Constants
<1>2. port \in Int BY <1>1, Highest
<1> QED BY <1>1, <1>2, Constants, Zenon

LEMMA PayloadType == \A pt \in EventPayloads : pt \in 0..127 /\ {pt} \ {0} \subseteq 1..127
<1> SUFFICES ASSUME NEW pt \in EventPayloads PROVE pt \in 0..127 /\ {pt} \ {0} \subseteq 1..127
  OBVIOUS
<1>1. pt \in 0..127 BY Constants
<1> QED BY <1>1

LEMMA AdjacentType ==
  /\ \A port \in Peers : Adjacent(port) \in RTCPPeers
  /\ \A port \in Ports : Adjacent(port) # Nil => Adjacent(port) \in RTCPPeers \ {Nil}
<1> SUFFICES ASSUME NEW port \in Peers PROVE Adjacent(port) \in RTCPPeers
  BY DEF Peers
<1>1. CASE port = Nil BY <1>1 DEF Adjacent, RTCPPeers
<1>2. CASE port \in Ports
  <2>1. port \in 1..HighestPort /\ port # Nil BY <1>2, PortType
  <2>2. CASE port >= HighestPort
    <3>1. Adjacent(port) = Nil BY <2>2 DEF Adjacent
    <3> QED BY <3>1 DEF RTCPPeers
  <2>3. CASE ~ (port >= HighestPort)
    <3>1. Adjacent(port) = port + 1 BY <2>1, <2>3 DEF Adjacent
    <3>2. port # HighestPort BY <2>1, <2>3
    <3> QED BY <1>2, <3>1, <3>2 DEF RTCPPeers
  <2> QED BY <2>2, <2>3
<1> QED BY <1>1, <1>2 DEF Peers

LEMMA GivenType ==
  /\ \A pt \in 0..127, default \in 1..127 : Given(pt, default) \in 1..127
  /\ \A pt \in 0..127, default \in 0..127 : Given(pt, default) \in 0..127
  /\ \A pt \in 0..127, default \in 1..127 : AcceptedPayload(pt, default) \in 1..127
<1>1. ASSUME NEW pt \in 0..127, NEW default \in 0..127
      PROVE  /\ Given(pt, default) \in 0..127
             /\ default \in 1..127 => Given(pt, default) \in 1..127
  BY DEF Given
<1>2. ASSUME NEW pt \in 0..127, NEW default \in 1..127
      PROVE  AcceptedPayload(pt, default) \in 1..127
  BY DEF AcceptedPayload, ValidPayload
<1>3. \A default \in 1..127 : default \in 0..127 OBVIOUS
<1> QED BY <1>1, <1>2, <1>3

----------------------------------------------------------------------------
(* The beginning *)

LEMMA InvInit == Init => IInv
<1> SUFFICES ASSUME Init PROVE IInv OBVIOUS
<1>1. PICK caller \in Sides, port \in FirstPorts, pt \in EventPayloads :
        /\ eventPT = [Configured EXCEPT ![caller] = Given(pt, @)]
        /\ relay = [s \in Sides |->
             [peer |-> IF s = caller THEN port ELSE Nil,
              rtcp |-> IF s = caller THEN Adjacent(port) ELSE Nil,
              dtmf |-> eventPT[s]]]
        /\ added = (caller = "h248")
        /\ far = [s \in Sides |-> [port |-> IF s = caller THEN port ELSE Nil,
                                   pt |-> eventPT[s]]]
        /\ offered = [s \in Sides |-> {eventPT[s]}]
  BY DEF Init
<1>2. eventPT \in [Sides -> 1..127]
  <2>1. Given(pt, Configured[caller]) \in 1..127 BY ConfiguredType, PayloadType, GivenType
  <2> QED BY <1>1, <2>1, ConfiguredType
<1>3. port \in Peers /\ Nil \in Peers /\ Nil \in RTCPPeers /\ Adjacent(port) \in RTCPPeers
  <2>1. port \in Ports BY Constants
  <2> QED BY <2>1, AdjacentType DEF Peers, RTCPPeers
<1>4. relay \in [Sides -> Leg] BY <1>1, <1>2, <1>3 DEF Leg
<1>5. far \in [Sides -> [port : Peers, pt : 1..127]] BY <1>1, <1>2, <1>3
<1>6. \A h \in Handlers : handlers[h] = Idle /\ handlers[h].at = "idle" BY DEF Init, Idle
<1>7. Types
  <2>1. added \in BOOLEAN BY <1>1
  <2>2. offered \in [Sides -> SUBSET (1..127)] BY <1>1, <1>2
  <2>3. eventPT \in [Sides -> 0..127] BY <1>2
  <2> QED BY <1>4, <1>5, <2>1, <2>2, <2>3 DEF Types, Init
<1>8. HandlersInOrder BY <1>6 DEF HandlersInOrder
<1>9. ASSUME NEW s \in Sides PROVE Translated(s) /\ Recognised(s)
  BY <1>1, <1>2, <1>6 DEF Translated, Recognised, On, Settled
<1> QED BY <1>7, <1>8, <1>9 DEF IInv

----------------------------------------------------------------------------
(* Types *)

LEMMA FarUpdatesTypes ==
  ASSUME Types, NEW h \in Handlers, FarUpdates(h)
  PROVE  Types'
<1>1. PICK s \in Sides, sdp \in Ports \cup {Nil}, src \in Ports, pt \in EventPayloads :
        /\ s = "h248" /\ ~ added => ~ Busy(s)
        /\ sdp = Nil => s = "h248" /\ ~ added
        /\ updates' = h
        /\ far' = [far EXCEPT ![s] = [port |-> src, pt |-> Given(pt, @.pt)]]
        /\ offered' = [offered EXCEPT ![s] = @ \cup ({pt} \ {0})]
        /\ overtaken' = IF Busy(s) THEN overtaken \cup {s} ELSE overtaken
        /\ handlers' = [handlers EXCEPT ![h] =
             [at |-> IF s = "h248" /\ ~ added THEN "local" ELSE "remote",
              side |-> s, port |-> sdp, pt |-> pt]]
  BY DEF FarUpdates
<1>2. pt \in 0..127 /\ {pt} \ {0} \subseteq 1..127 BY PayloadType
<1>3. Given(pt, far[s].pt) \in 1..127 BY <1>2, GivenType DEF Types
<1>4. far' \in [Sides -> [port : Peers, pt : 1..127]]
  BY <1>1, <1>3 DEF Types, Peers
<1>5. handlers' \in [Handlers -> {Idle} \cup Work]
  <2>1. [at |-> IF s = "h248" /\ ~ added THEN "local" ELSE "remote",
         side |-> s, port |-> sdp, pt |-> pt] \in Work
    BY <1>2 DEF Work, Peers
  <2> QED BY <1>1, <2>1 DEF Types
<1>6. offered' \in [Sides -> SUBSET (1..127)] BY <1>1, <1>2 DEF Types
<1>7. updates' \in Nat
  <2>1. h \in Nat BY Constants DEF Handlers
  <2> QED BY <1>1, <2>1
<1> QED BY <1>1, <1>4, <1>5, <1>6, <1>7 DEF Types, FarUpdates

LEMMA HandleTypes ==
  ASSUME Types, NEW h \in Handlers, Handle(h)
  PROVE  Types'
<1>1. handlers[h] \in {Idle} \cup Work BY DEF Types
<1>2. handlers[h] \in Work
  BY <1>1 DEF Handle, LocalDescriptor, SetH248DTMFPayloadType, RemoteMedia, SetPeer, Idle
<1>3. AfterLocal(h) \in [Handlers -> {Idle} \cup Work]
  BY <1>2 DEF Types, AfterLocal, Work
<1>4. CASE LocalDescriptor(h)
  <2>1. Given(handlers[h].pt, eventPT["h248"]) \in 0..127
    BY ZenonT(30), <1>2, GivenType DEF Types, Work, Sides
  <2>2. eventPT' \in [Sides -> 0..127]
    <3> DEFINE pt == IF mode = "inband" THEN 0 ELSE Given(handlers[h].pt, eventPT["h248"])
    <3>1. eventPT' = [eventPT EXCEPT !["h248"] = pt] BY <1>4 DEF LocalDescriptor
    <3>2. pt \in 0..127 BY <2>1
    <3> HIDE DEF pt
    <3> QED BY <3>1, <3>2 DEF Types
  <2>3. handlers' \in [Handlers -> {Idle} \cup Work]
    BY <1>2, <1>3, <1>4 DEF Types, LocalDescriptor, Work
  <2> QED BY <1>4, <2>2, <2>3 DEF Types, LocalDescriptor, farVars
<1>5. CASE SetH248DTMFPayloadType(h)
  <2>1. AcceptedPayload(handlers[h].pt, relay["h248"].dtmf) \in 1..127
    BY ZenonT(30), <1>2, GivenType DEF Types, Work, Sides, Leg
  <2>2. [relay["h248"] EXCEPT !.dtmf = AcceptedPayload(handlers[h].pt, relay["h248"].dtmf)] \in Leg
    BY <2>1 DEF Types, Leg, Sides
  <2>3. relay' = [relay EXCEPT !["h248"] =
          [relay["h248"] EXCEPT !.dtmf = AcceptedPayload(handlers[h].pt, relay["h248"].dtmf)]]
    BY <1>5 DEF Types, SetH248DTMFPayloadType, Sides
  <2>4. relay' \in [Sides -> Leg] BY <2>2, <2>3 DEF Types
  <2> QED BY <1>3, <1>5, <2>4 DEF Types, SetH248DTMFPayloadType, farVars
<1>6. CASE RemoteMedia(h)
  <2>1. Given(handlers[h].pt, eventPT[handlers[h].side]) \in 0..127
    BY <1>2, GivenType DEF Types, Work, RemoteMedia
  <2>2. eventPT' \in [Sides -> 0..127] BY <1>6, <2>1 DEF Types, RemoteMedia
  <2>3. eventPT'[handlers[h].side] \in 0..127 BY <1>2, <2>2 DEF Work
  <2>4. handlers' = [handlers EXCEPT ![h] = [handlers[h] EXCEPT !.at = "relay",
                                               !.pt = eventPT'[handlers[h].side]]]
    BY <1>2, <1>6 DEF RemoteMedia, Types, Work
  <2>5. [handlers[h] EXCEPT !.at = "relay", !.pt = eventPT'[handlers[h].side]] \in Work
    BY <1>2, <2>3 DEF Work
  <2>6. handlers' \in [Handlers -> {Idle} \cup Work] BY <2>4, <2>5 DEF Types
  <2> QED BY <1>6, <2>2, <2>6 DEF Types, RemoteMedia, farVars
<1>7. CASE SetPeer(h)
  <2>1. AcceptedPayload(handlers[h].pt, relay[handlers[h].side].dtmf) \in 1..127
    BY ZenonT(30), <1>2, GivenType DEF Types, Work, Leg
  <2>2. Adjacent(handlers[h].port) \in RTCPPeers BY <1>2, AdjacentType DEF Work
  <2>3. relay' \in [Sides -> Leg] BY <1>2, <1>7, <2>1, <2>2 DEF Types, SetPeer, Leg, Work
  <2>4. handlers' \in [Handlers -> {Idle} \cup Work] BY <1>7 DEF Types, SetPeer
  <2> QED BY <1>7, <2>3, <2>4 DEF Types, SetPeer, farVars
<1> QED BY <1>4, <1>5, <1>6, <1>7 DEF Handle

LEMMA PacketTypes ==
  ASSUME Types, NEW s \in Sides,
         (\E kind \in {"rtp", "rtcp"} : FarSends(s, kind)) \/ Forward(s) \/ ForwardRTCP(s)
  PROVE  Types'
<1>1. ASSUME NEW kind \in {"rtp", "rtcp"}, FarSends(s, kind) PROVE Types'
  <2>1. far[s].port \in Ports BY <1>1 DEF FarSends, Types, Peers
  <2>2. [kind |-> kind, src |-> IF kind = "rtcp" THEN Adjacent(far[s].port) ELSE far[s].port]
          \in Packets
    BY <1>1, <2>1, AdjacentType DEF FarSends, Packets
  <2>3. flight' \in [Sides -> SUBSET Packets] BY <1>1, <2>2 DEF FarSends, Types
  <2> QED BY <1>1, <2>3 DEF FarSends, Types, signalVars, farVars
<1>2. CASE Forward(s)
  <2>1. PICK p \in flight[s] : p.kind = "rtp"
          /\ flight' = [flight EXCEPT ![s] = @ \ {p}]
          /\ relay' = [relay EXCEPT ![s] = [relay[s] EXCEPT !.peer = p.src]]
    BY <1>2 DEF Forward, Learned
  <2>2. p \in Packets BY DEF Types
  <2>3. p.src \in Peers BY <2>1, <2>2 DEF Packets, Peers
  <2>4. relay' \in [Sides -> Leg]
    <3>1. [relay[s] EXCEPT !.peer = p.src] \in Leg BY <2>3 DEF Types, Leg
    <3> QED BY <2>1, <3>1 DEF Types
  <2>5. flight' \in [Sides -> SUBSET Packets] BY <2>1 DEF Types
  <2> QED BY <1>2, <2>4, <2>5 DEF Forward, Types, signalVars, farVars
<1>3. CASE ForwardRTCP(s)
  <2>1. PICK p \in flight[s] : p.kind = "rtcp"
          /\ flight' = [flight EXCEPT ![s] = @ \ {p}]
          /\ relay' = [relay EXCEPT ![s] = [relay[s] EXCEPT !.rtcp = p.src]]
    BY <1>3 DEF ForwardRTCP, Learned
  <2>2. p \in Packets BY DEF Types
  <2>3. p.src \in RTCPPeers BY <2>1, <2>2 DEF Packets
  <2>4. relay' \in [Sides -> Leg]
    <3>1. [relay[s] EXCEPT !.rtcp = p.src] \in Leg BY <2>3 DEF Types, Leg
    <3> QED BY <2>1, <3>1 DEF Types
  <2>5. flight' \in [Sides -> SUBSET Packets] BY <2>1 DEF Types
  <2> QED BY <1>3, <2>4, <2>5 DEF ForwardRTCP, Types, signalVars, farVars
<1> QED BY <1>1, <1>2, <1>3

----------------------------------------------------------------------------
(* The order of the handlers *)

LEMMA HandlersInOrderNext ==
  ASSUME Types, HandlersInOrder, [Next]_vars
  PROVE  HandlersInOrder'
<1>1. ASSUME NEW h \in Handlers, FarUpdates(h) PROVE HandlersInOrder'
  <2>1. updates' = h /\ h = updates + 1 /\ h \in Nat
    BY <1>1, Constants DEF FarUpdates, Handlers
  <2>2. \A g \in Handlers : g \in Nat BY Constants DEF Handlers
  <2>3. handlers'[h].at \in {"local", "remote"} /\ (handlers'[h].at = "local" => handlers'[h].side = "h248")
    BY <1>1 DEF FarUpdates, Types
  <2>4. \A g \in Handlers : g # h => handlers'[g] = handlers[g]
    BY <1>1 DEF FarUpdates, Types
  <2> QED BY <2>1, <2>2, <2>3, <2>4 DEF HandlersInOrder, Types
<1>2. ASSUME NEW h \in Handlers, Handle(h) PROVE HandlersInOrder'
  <2>1. handlers[h] \in Work
    BY <1>2 DEF Types, Handle, LocalDescriptor, SetH248DTMFPayloadType, RemoteMedia, SetPeer, Idle
  <2>2. UNCHANGED updates
    BY <1>2 DEF Handle, LocalDescriptor, SetH248DTMFPayloadType, RemoteMedia, SetPeer, farVars
  <2>3. \A g \in Handlers : g # h => handlers'[g] = handlers[g]
    BY <1>2 DEF Types, Handle, LocalDescriptor, SetH248DTMFPayloadType, RemoteMedia, SetPeer, AfterLocal
  <2>4. handlers[h].side = "h248" \/ handlers[h].at \in {"remote", "relay"}
    BY <2>1 DEF HandlersInOrder, Work
  <2>5. \/ handlers'[h] = Idle
        \/ /\ handlers'[h].side = handlers[h].side
           /\ \/ handlers'[h].at \in {"remote", "relay"}
              \/ handlers'[h].at = "localRelay" /\ handlers[h].at = "local" /\ handlers'[h].pt > 0
    <3>1. CASE LocalDescriptor(h)
      BY <2>1, <3>1 DEF Types, LocalDescriptor, AfterLocal, Work
    <3>2. CASE SetH248DTMFPayloadType(h)
      BY <2>1, <3>2 DEF Types, SetH248DTMFPayloadType, AfterLocal, Work
    <3>3. CASE RemoteMedia(h) BY <2>1, <3>3 DEF Types, RemoteMedia, Work
    <3>4. CASE SetPeer(h) BY <2>1, <3>4 DEF Types, SetPeer, Work
    <3> QED BY <1>2, <3>1, <3>2, <3>3, <3>4 DEF Handle
  <2>6. handlers[h].at # "idle" BY <2>1 DEF Work
  <2> QED BY <2>2, <2>3, <2>4, <2>5, <2>6 DEF HandlersInOrder, Idle
<1>3. ASSUME UNCHANGED <<handlers, updates>> PROVE HandlersInOrder'
  BY <1>3 DEF HandlersInOrder
<1> QED BY <1>1, <1>2, <1>3
     DEF Next, FarSends, Forward, ForwardRTCP, signalVars, farVars, vars

----------------------------------------------------------------------------
(* Payload types *)

\* A step that leaves the payload types of a side alone.
LEMMA SideUntouched ==
  ASSUME Types, NEW s \in Sides, Translated(s), Exempt(s) \/ Recognised(s),
         relay'[s].dtmf = relay[s].dtmf, eventPT'[s] = eventPT[s],
         far'[s].pt = far[s].pt, offered'[s] = offered[s], mode' = mode,
         overtaken \cap {s} \subseteq overtaken',
         \A h \in Handlers : (On(h, s) \/ On(h, s)') => handlers'[h] = handlers[h]
  PROVE  Translated(s)' /\ (Exempt(s) \/ Recognised(s))'
<1>1. \A h \in Handlers : On(h, s)' <=> On(h, s) BY DEF On
<1>2. Busy(s)' <=> Busy(s) BY <1>1 DEF Busy, On
<1>3. Translated(s)' BY <1>1 DEF Translated
<1>4. Settled(s)' <=> Settled(s) BY DEF Settled
<1>5. \A h \in Handlers : On(h, s) => (Pending(h, s)' <=> Pending(h, s))
  BY <1>4 DEF Pending
<1>6. Recognised(s) => Recognised(s)' BY <1>1, <1>2, <1>4, <1>5 DEF Recognised
<1> QED BY <1>3, <1>6 DEF Exempt

LEMMA FarUpdatesStep ==
  ASSUME IInv, NEW h \in Handlers, FarUpdates(h), NEW s \in Sides
  PROVE  Translated(s)' /\ (Exempt(s) \/ Recognised(s))'
<1>1. PICK t \in Sides, sdp \in Ports \cup {Nil}, src \in Ports, pt \in EventPayloads :
        /\ t = "h248" /\ ~ added => ~ Busy(t)
        /\ sdp = Nil => t = "h248" /\ ~ added
        /\ updates' = h
        /\ far' = [far EXCEPT ![t] = [port |-> src, pt |-> Given(pt, @.pt)]]
        /\ offered' = [offered EXCEPT ![t] = @ \cup ({pt} \ {0})]
        /\ overtaken' = IF Busy(t) THEN overtaken \cup {t} ELSE overtaken
        /\ handlers' = [handlers EXCEPT ![h] =
             [at |-> IF t = "h248" /\ ~ added THEN "local" ELSE "remote",
              side |-> t, port |-> sdp, pt |-> pt]]
  BY DEF FarUpdates
<1>2. Types /\ Translated(s) /\ (Exempt(s) \/ Recognised(s)) BY DEF IInv
<1>3. handlers[h] = Idle
  <2>1. h = updates + 1 /\ updates \in Nat BY DEF FarUpdates, IInv, Types
  <2>2. h > updates BY <2>1
  <2> QED BY <2>2 DEF IInv, HandlersInOrder
<1>4. UNCHANGED <<mode, relay, eventPT>> BY DEF FarUpdates
<1>5. /\ handlers'[h].at \in {"local", "remote"}
      /\ handlers'[h].side = t /\ handlers'[h].pt = pt
      /\ \A g \in Handlers : g # h => handlers'[g] = handlers[g]
  BY <1>1, <1>2 DEF Types
<1>6. CASE s # t
  <2>1. far'[s] = far[s] /\ offered'[s] = offered[s] /\ overtaken \subseteq overtaken'
    BY <1>1, <1>2, <1>6 DEF Types
  <2>2. \A g \in Handlers : (On(g, s) \/ On(g, s)') => handlers'[g] = handlers[g]
    BY <1>3, <1>5, <1>6 DEF On, Idle
  <2> QED BY <1>2, <1>4, <2>1, <2>2, SideUntouched
<1>7. CASE s = t
  <2>1. pt \in 0..127 /\ (pt # 0 => pt \in offered'[s]) /\ offered[s] \subseteq offered'[s]
    BY <1>1, <1>2, <1>7, PayloadType DEF Types
  <2>2. Translated(s)'
    BY <1>2, <1>3, <1>4, <1>5, <2>1 DEF Translated, On, Idle
  <2>3. CASE Busy(s) BY <1>1, <1>7, <2>2, <2>3 DEF Exempt
  <2>4. CASE Exempt(s) BY <1>1, <1>4, <2>2, <2>4 DEF Exempt
  <2>5. CASE ~ Busy(s) /\ Recognised(s)
    <3>1. \A g \in Handlers : ~ On(g, s) BY <2>5 DEF Busy, On
    <3>2. Settled(s) BY <2>5 DEF Recognised
    <3>3. \A g \in Handlers : On(g, s)' <=> g = h BY <1>5, <1>7, <3>1 DEF On
    <3>4. Busy(s)' BY <3>3 DEF Busy, On
    <3>5. far'[s].pt = Given(pt, far[s].pt) BY <1>1, <1>2, <1>7 DEF Types
    <3>6. Pending(h, s)'
      <4>1. CASE pt = 0
        <5>1. far'[s].pt = far[s].pt BY <3>5, <4>1 DEF Given
        <5> QED BY <1>4, <1>5, <3>2, <4>1, <5>1 DEF Pending, Settled
      <4>2. CASE pt # 0
        <5>1. far'[s].pt = pt BY <2>1, <3>5, <4>2 DEF Given
        <5> QED BY <1>5, <5>1 DEF Pending
      <4> QED BY <4>1, <4>2
    <3> QED BY <2>2, <3>3, <3>4, <3>6 DEF Recognised
  <2> QED BY <1>2, <2>3, <2>4, <2>5
<1> QED BY <1>6, <1>7

\* A step of a handler, seen from the side it works on.
LEMMA OwnSide ==
  ASSUME IInv, NEW h \in Handlers, handlers[h] \in Work, NEW s \in Sides, handlers[h].side = s,
         UNCHANGED <<far, offered, overtaken, mode>>,
         \A g \in Handlers : g # h => handlers'[g] = handlers[g],
         relay'[s].dtmf \in offered[s], eventPT'[s] \in offered[s] \cup {0},
         \/ handlers'[h] = Idle
         \/ /\ handlers'[h].at # "idle" /\ handlers'[h].side = s
            /\ handlers'[h].pt \in offered[s] \cup {0},
         Recognised(s) /\ ~ Exempt(s) =>
           IF handlers'[h] = Idle THEN Settled(s)' ELSE Pending(h, s)'
  PROVE  Translated(s)' /\ (Exempt(s) \/ Recognised(s))'
<1>1. On(h, s) BY DEF On, Work
<1>2. handlers'[h] # Idle => On(h, s)' BY DEF On
<1>3. handlers'[h] = Idle => ~ On(h, s)' BY DEF On, Idle
<1>4. \A g \in Handlers : g # h => (On(g, s)' <=> On(g, s)) BY DEF On
<1>5. Translated(s)'
  <2>1. \A g \in Handlers : g # h /\ On(g, s)' => handlers'[g].pt \in offered'[s] \cup {0}
    BY <1>4 DEF IInv, Translated
  <2>2. On(h, s)' => handlers'[h].pt \in offered'[s] \cup {0} BY <1>3
  <2> QED BY <2>1, <2>2 DEF Translated
<1>6. CASE Exempt(s) BY <1>5, <1>6 DEF Exempt
<1>7. CASE Recognised(s) /\ ~ Exempt(s)
  <2>1. \A g \in Handlers : On(g, s)' => g = h BY <1>1, <1>4, <1>7 DEF Recognised
  <2>2. Settled(s)' \/ Busy(s)' BY <1>2, <1>7 DEF Busy, On
  <2>3. \A g \in Handlers : On(g, s)' => Pending(g, s)' BY <1>3, <1>7, <2>1
  <2> QED BY <1>5, <2>1, <2>2, <2>3 DEF Recognised
<1> QED BY <1>6, <1>7 DEF IInv

LEMMA HandleStep ==
  ASSUME IInv, NEW h \in Handlers, Handle(h), NEW s \in Sides
  PROVE  Translated(s)' /\ (Exempt(s) \/ Recognised(s))'
<1>1. Types /\ Translated(s) /\ (Exempt(s) \/ Recognised(s)) BY DEF IInv
<1>2. handlers[h] \in Work
  BY <1>1 DEF Types, Handle, LocalDescriptor, SetH248DTMFPayloadType, RemoteMedia, SetPeer, Idle
<1>3. \A g \in Handlers : g # h => handlers'[g] = handlers[g]
  BY <1>1 DEF Types, Handle, LocalDescriptor, SetH248DTMFPayloadType, RemoteMedia, SetPeer, AfterLocal
<1>4. UNCHANGED <<far, offered, overtaken, mode>>
  BY DEF Handle, LocalDescriptor, SetH248DTMFPayloadType, RemoteMedia, SetPeer, farVars
<1>5. handlers[h].at \in {"local", "localRelay"} => handlers[h].side = "h248"
  BY DEF IInv, HandlersInOrder
<1>6. CASE handlers[h].side # s
  <2>1. relay'[s].dtmf = relay[s].dtmf /\ eventPT'[s] = eventPT[s]
    BY <1>1, <1>2, <1>5, <1>6
       DEF Types, Handle, LocalDescriptor, SetH248DTMFPayloadType, RemoteMedia, SetPeer, Leg, Work
  <2>2. ~ On(h, s) /\ ~ On(h, s)'
    BY <1>1, <1>2, <1>6
       DEF On, Types, Handle, LocalDescriptor, SetH248DTMFPayloadType, RemoteMedia, SetPeer,
           AfterLocal, Work, Idle
  <2>3. \A g \in Handlers : (On(g, s) \/ On(g, s)') => handlers'[g] = handlers[g]
    BY <1>3, <2>2
  <2> QED BY <1>1, <1>4, <2>1, <2>3, SideUntouched
<1>7. CASE handlers[h].side = s
  <2> DEFINE pt == handlers[h].pt
  <2>0. /\ On(h, s) /\ pt \in offered[s] \cup {0} /\ pt \in 0..127
        /\ relay[s].dtmf \in offered[s] /\ eventPT[s] \in offered[s] \cup {0}
        /\ Recognised(s) => Pending(h, s)
        /\ relay[s].dtmf \in 1..127 /\ eventPT[s] \in 0..127 /\ far[s].pt \in 1..127
    BY <1>1, <1>2, <1>7 DEF On, Work, Translated, Recognised, Types, Leg
  <2>1. CASE LocalDescriptor(h)
    <3>1. /\ handlers[h].at = "local" /\ s = "h248" /\ relay' = relay
          /\ eventPT' = [eventPT EXCEPT ![s] = IF mode = "inband" THEN 0 ELSE Given(pt, @)]
          /\ handlers' = IF mode # "inband" /\ pt > 0
                         THEN [handlers EXCEPT ![h].at = "localRelay"] ELSE AfterLocal(h)
      BY <1>5, <1>7, <2>1 DEF LocalDescriptor
    <3>2. eventPT'[s] = IF mode = "inband" THEN 0 ELSE Given(pt, eventPT[s])
      BY <1>1, <3>1 DEF Types
    <3>3. eventPT'[s] \in offered[s] \cup {0} BY <2>0, <3>2 DEF Given
    <3>4. \/ handlers'[h] = Idle
          \/ /\ handlers'[h].at \in {"localRelay", "remote"} /\ handlers'[h].side = s
             /\ handlers'[h].pt = pt
      BY <1>1, <1>2, <1>7, <3>1 DEF Types, AfterLocal, Work
    <3>5. ASSUME Recognised(s), ~ Exempt(s)
          PROVE  IF handlers'[h] = Idle THEN Settled(s)' ELSE Pending(h, s)'
      <4>1. mode # "inband" BY <3>1, <3>5 DEF Exempt
      <4>2. Pending(h, s) BY <2>0, <3>5
      <4>3. CASE pt = 0
        <5>1. Settled(s) BY <2>0, <3>1, <4>2, <4>3 DEF Pending
        <5>2. eventPT'[s] = eventPT[s] BY <3>2, <4>1, <4>3 DEF Given
        <5>3. Settled(s)' BY <1>4, <3>1, <5>1, <5>2 DEF Settled
        <5>4. handlers'[h] = Idle \/ (handlers'[h].at = "remote" /\ handlers'[h].pt = 0)
          BY <1>1, <1>2, <3>1, <4>3 DEF Types, AfterLocal, Work
        <5> QED BY <5>3, <5>4 DEF Pending
      <4>4. CASE pt # 0
        <5>1. pt > 0 /\ pt = far[s].pt BY <2>0, <3>1, <4>2, <4>4 DEF Pending
        <5>2. handlers'[h].at = "localRelay" /\ handlers'[h].pt = pt
          BY <1>1, <1>2, <3>1, <4>1, <5>1 DEF Types, Work
        <5>3. eventPT'[s] = pt BY <3>2, <4>1, <5>1 DEF Given
        <5>4. handlers'[h] # Idle BY <5>2 DEF Idle
        <5> QED BY <1>4, <5>1, <5>2, <5>3, <5>4 DEF Pending
      <4> QED BY <4>3, <4>4
    <3> QED BY <1>2, <1>3, <1>4, <1>7, <2>0, <3>1, <3>3, <3>4, <3>5, OwnSide
  <2>2. CASE SetH248DTMFPayloadType(h)
    <3>1. /\ handlers[h].at = "localRelay" /\ s = "h248" /\ eventPT' = eventPT
          /\ relay'[s].dtmf = AcceptedPayload(pt, relay[s].dtmf)
          /\ handlers' = AfterLocal(h)
      BY <1>1, <1>5, <1>7, <2>2 DEF SetH248DTMFPayloadType, Types, Leg
    <3>2. pt > 0 BY <3>1 DEF IInv, HandlersInOrder
    <3>3. relay'[s].dtmf = pt /\ pt \in offered[s]
      BY <2>0, <3>1, <3>2 DEF AcceptedPayload, ValidPayload
    <3>4. \/ handlers'[h] = Idle
          \/ handlers'[h].at = "remote" /\ handlers'[h].side = s /\ handlers'[h].pt = pt
      BY <1>1, <1>2, <1>7, <3>1 DEF Types, AfterLocal, Work
    <3>5. ASSUME Recognised(s)
          PROVE  IF handlers'[h] = Idle THEN Settled(s)' ELSE Pending(h, s)'
      <4>1. pt = far[s].pt /\ eventPT[s] = far[s].pt BY <2>0, <3>1, <3>5 DEF Pending
      <4>2. Settled(s)' BY <1>4, <3>1, <3>3, <4>1 DEF Settled
      <4> QED BY <1>4, <3>4, <4>1, <4>2 DEF Pending
    <3> QED BY <1>2, <1>3, <1>4, <1>7, <2>0, <3>1, <3>3, <3>4, <3>5, OwnSide
  <2>3. CASE RemoteMedia(h)
    <3>1. /\ handlers[h].at = "remote" /\ relay' = relay
          /\ eventPT'[s] = Given(pt, eventPT[s])
          /\ handlers'[h].at = "relay" /\ handlers'[h].side = s
          /\ handlers'[h].pt = eventPT'[s]
      BY <1>1, <1>2, <1>7, <2>3 DEF RemoteMedia, Types, Work
    <3>2. eventPT'[s] \in offered[s] \cup {0} BY <2>0, <3>1 DEF Given
    <3>3. ASSUME Recognised(s) PROVE Pending(h, s)' /\ handlers'[h] # Idle
      <4>1. eventPT'[s] = far[s].pt BY <2>0, <3>1, <3>3 DEF Pending, Settled, Given
      <4> QED BY <1>4, <3>1, <4>1 DEF Pending, Idle
    <3> QED BY <1>2, <1>3, <1>4, <1>7, <2>0, <3>1, <3>2, <3>3, OwnSide
  <2>4. CASE SetPeer(h)
    <3>1. /\ handlers[h].at = "relay" /\ eventPT' = eventPT /\ handlers'[h] = Idle
          /\ relay'[s].dtmf = AcceptedPayload(pt, relay[s].dtmf)
      BY <1>1, <1>2, <1>7, <2>4 DEF SetPeer, Types
    <3>2. relay'[s].dtmf \in offered[s] BY <2>0, <3>1 DEF AcceptedPayload, ValidPayload
    <3>3. ASSUME Recognised(s) PROVE Settled(s)'
      <4>1. pt = far[s].pt /\ eventPT[s] = far[s].pt BY <2>0, <3>1, <3>3 DEF Pending
      <4>2. relay'[s].dtmf = pt BY <2>0, <3>1, <4>1 DEF AcceptedPayload, ValidPayload
      <4> QED BY <1>4, <3>1, <4>1, <4>2 DEF Settled
    <3> QED BY <1>2, <1>3, <1>4, <1>7, <2>0, <3>1, <3>2, <3>3, OwnSide
  <2> QED BY <2>1, <2>2, <2>3, <2>4 DEF Handle
<1> QED BY <1>6, <1>7

LEMMA PacketStep ==
  ASSUME IInv, NEW t \in Sides, NEW s \in Sides,
         (\E kind \in {"rtp", "rtcp"} : FarSends(t, kind)) \/ Forward(t) \/ ForwardRTCP(t)
  PROVE  Translated(s)' /\ (Exempt(s) \/ Recognised(s))'
<1>1. Types /\ Translated(s) /\ (Exempt(s) \/ Recognised(s)) BY DEF IInv
<1>2. UNCHANGED <<mode, eventPT, handlers, far, offered, overtaken>>
  BY DEF FarSends, Forward, ForwardRTCP, signalVars, farVars
<1>3. relay'[s].dtmf = relay[s].dtmf
  <2>1. CASE \E kind \in {"rtp", "rtcp"} : FarSends(t, kind) BY <2>1 DEF FarSends
  <2>2. CASE Forward(t)
    <3>1. PICK p \in flight[t] : relay' = [relay EXCEPT ![t] = [relay[t] EXCEPT !.peer = p.src]]
      BY <2>2 DEF Forward, Learned
    <3> QED BY <1>1, <3>1 DEF Types, Leg
  <2>3. CASE ForwardRTCP(t)
    <3>1. PICK p \in flight[t] : relay' = [relay EXCEPT ![t] = [relay[t] EXCEPT !.rtcp = p.src]]
      BY <2>3 DEF ForwardRTCP, Learned
    <3> QED BY <1>1, <3>1 DEF Types, Leg
  <2> QED BY <2>1, <2>2, <2>3
<1> QED BY <1>1, <1>2, <1>3, SideUntouched

LEMMA InvNext == IInv /\ [Next]_vars => IInv'
<1> SUFFICES ASSUME IInv, [Next]_vars PROVE IInv' OBVIOUS
<1>1. Types'
  <2>1. CASE UNCHANGED vars BY <2>1 DEF IInv, Types, vars, signalVars, farVars
  <2> QED BY <2>1, FarUpdatesTypes, HandleTypes, PacketTypes DEF IInv, Next
<1>2. HandlersInOrder' BY HandlersInOrderNext DEF IInv
<1>3. ASSUME NEW s \in Sides PROVE Translated(s)' /\ (Exempt(s) \/ Recognised(s))'
  <2>1. CASE UNCHANGED vars
    BY <2>1, SideUntouched DEF IInv, vars, signalVars, farVars
  <2> QED BY <2>1, FarUpdatesStep, HandleStep, PacketStep DEF Next
<1> QED BY <1>1, <1>2, <1>3 DEF IInv

----------------------------------------------------------------------------
(* What follows *)

LEMMA InvTypes == IInv => TypeOK
BY DEF IInv, Types, TypeOK, Leg, Work

LEMMA InvTranslated == IInv => EventsTranslated
<1> SUFFICES ASSUME IInv, NEW s \in Sides
             PROVE  LET leaves == Rewritten(s, relay[s].dtmf)
                    IN IF s = "sip" /\ mode = "inband" THEN leaves = PCMA
                       ELSE leaves \in offered[Other[s]]
  BY DEF EventsTranslated
<1>1. Other[s] \in Sides BY DEF Other, Sides
<1>2. relay[Other[s]].dtmf \in offered[Other[s]] BY <1>1 DEF IInv, Translated
<1> QED BY <1>2 DEF Rewritten

LEMMA InvRecognised == IInv => EventsRecognised
BY DEF IInv, EventsRecognised, Exempt, Recognised, Settled

\* media.go, sip.go, h248.go: peers, payload types and handlers keep their
\* types; the payload type the relay looks for is always a dynamic or static
\* one, never 0.
THEOREM TypesKept == Spec => []TypeOK
BY InvInit, InvNext, InvTypes, PTL DEF Spec

\* rewriteRTPPayloadType and the inband mode: a telephone event never leaves
\* with a payload type its receiver has not given, nor as an event where the
\* carrier gets tones, however many SDPs are in work on either side.
THEOREM EventsAreTranslated == Spec => []EventsTranslated
BY InvInit, InvNext, InvTranslated, PTL DEF Spec

\* SetH248Peer, SetSIPPeer: unless SDPs of one far end overtake each other, its
\* events are recognised.
THEOREM EventsAreRecognised == Spec => []EventsRecognised
BY InvInit, InvNext, InvRecognised, PTL DEF Spec
=============================================================================
