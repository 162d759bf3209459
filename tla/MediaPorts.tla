----------------------------- MODULE MediaPorts -----------------------------
(***************************************************************************)
(* The ports and sockets of the media relays: the circle of even RTP ports *)
(* (src/internal/bridge/bridge.go) and the four UDP sockets of a relay     *)
(* with their forwarding goroutines (src/internal/bridge/media.go).        *)
(*                                                                         *)
(* Ports are handed out under Bridge.mu without a look at the sockets; the *)
(* sockets are opened and closed outside of it, one after the other, so    *)
(* the opening of one relay interleaves with the opening and the closing   *)
(* of others.  A call is a slot that is used again once its relay is gone. *)
(***************************************************************************)
EXTENDS Integers, Sequences, FiniteSets

CONSTANTS
  Calls,               \* bound: relays at the same time
  H248RTPIP, RTPIP,    \* the two local media addresses; they may be the same
  PortMin, PortMax,    \* media.port_min, media.port_max
  Foreign,             \* bound: addresses other processes may hold
  Nil

\* What Config.Validate asks of the port range, and that a port_min of 0 or
\* less never gets past it.
EvenPort(port) == IF port % 2 # 0 THEN port + 1 ELSE port

ASSUME MediaPortsAssumption ==
  /\ PortMin \in Nat \ {0} /\ PortMax \in Nat /\ PortMax <= 65534
  /\ EvenPort(PortMin) + 2 <= PortMax
  /\ Nil \notin Calls /\ "foreign" \notin Calls

Ports     == PortMin .. PortMax + 1
Addresses == {H248RTPIP, RTPIP} \X Ports

ASSUME ForeignAssumption == Foreign \subseteq Addresses

Sockets == {"h248", "h248RTCP", "sip", "sipRTCP"}

VARIABLES
  nextRTPPort,
  call,         \* per call, its two ports and how far its relay is
  owner,        \* the relay or process that has an address bound
  forwarders    \* per call, the forwarding goroutines that run

vars == <<nextRTPPort, call, owner, forwarders>>

Address(c, s) ==
  CASE s = "h248"     -> <<H248RTPIP, call[c].h248Port>>
    [] s = "h248RTCP" -> <<H248RTPIP, call[c].h248Port + 1>>
    [] s = "sip"      -> <<RTPIP, call[c].sipPort>>
    [] s = "sipRTCP"  -> <<RTPIP, call[c].sipPort + 1>>

NoCall == [at |-> "none", h248Port |-> 0, sipPort |-> 0, closing |-> <<>>]

Init ==
  /\ nextRTPPort = EvenPort(PortMin)
  /\ call = [c \in Calls |-> NoCall]
  /\ owner = [a \in Addresses |-> Nil]
  /\ forwarders = [c \in Calls |-> {}]

----------------------------------------------------------------------------
(* allocateCallIdentifiersLocked *)

\* allocateRTPPortLocked: nextRTPPort once port is handed out
PortAfter(port) ==
  IF port + 2 > PortMax THEN EvenPort(PortMin) ELSE port + 2

\* Mutant: the ports that were handed out are handed out again.
AllocateSamePorts(c) ==
  /\ call[c].at = "none"
  /\ call' = [call EXCEPT ![c].at = "h248",
                          ![c].h248Port = nextRTPPort,
                          ![c].sipPort = PortAfter(nextRTPPort)]
  /\ UNCHANGED <<nextRTPPort, owner, forwarders>>

AllocateCallIdentifiers(c) ==
  /\ call[c].at = "none"
  /\ call' = [call EXCEPT ![c].at = "h248",
                          ![c].h248Port = nextRTPPort,
                          ![c].sipPort = PortAfter(nextRTPPort)]
  /\ nextRTPPort' = PortAfter(PortAfter(nextRTPPort))
  /\ UNCHANGED <<owner, forwarders>>

----------------------------------------------------------------------------
(* newMediaRelay; before the relay is open, call.at is the socket to open *)

NextSocket == [h248 |-> "h248RTCP", h248RTCP |-> "sip", sip |-> "sipRTCP",
               sipRTCP |-> "open"]

\* Mutant: the failure of the last socket forgets one that is open.
UndoForgetsRTCP == [h248 |-> <<>>, h248RTCP |-> <<"h248">>,
                    sip |-> <<"h248", "h248RTCP">>, sipRTCP |-> <<"h248", "sip">>]

\* The sockets that are closed again when the opening of one fails.
Undo == [h248 |-> <<>>, h248RTCP |-> <<"h248">>,
         sip |-> <<"h248", "h248RTCP">>,
         sipRTCP |-> <<"h248", "h248RTCP", "sip">>]

\* The next socket is opened; the fourth one makes the relay and starts its
\* forwarding goroutines.
Listen(c) ==
  /\ call[c].at \in Sockets
  /\ LET s == call[c].at
         opened == NextSocket[s] = "open"
     IN /\ owner[Address(c, s)] = Nil
        /\ owner' = [owner EXCEPT ![Address(c, s)] = c]
        /\ call' = [call EXCEPT ![c].at = NextSocket[s]]
        /\ forwarders' = IF opened THEN [forwarders EXCEPT ![c] = Sockets]
                         ELSE forwarders
  /\ UNCHANGED nextRTPPort

\* The address is taken: the relay is refused.
ListenFails(c) ==
  /\ call[c].at \in Sockets
  /\ owner[Address(c, call[c].at)] # Nil
  /\ call' = [call EXCEPT ![c].at = "closing", ![c].closing = Undo[call[c].at]]
  /\ UNCHANGED <<nextRTPPort, owner, forwarders>>

----------------------------------------------------------------------------
(* mediaRelay.Close, from releaseCall or from Bridge.Close *)

CloseList == <<"h248", "sip", "h248RTCP", "sipRTCP">>

\* closeOnce lets one caller through.
Close(c) ==
  /\ call[c].at = "open"
  /\ call' = [call EXCEPT ![c].at = "closing", ![c].closing = CloseList]
  /\ UNCHANGED <<nextRTPPort, owner, forwarders>>

\* Bridge.Close, at the end of the process: the relays of all calls in the
\* indexes; a call may have opened its relay and not be in them yet.
BridgeClose ==
  /\ \E closed \in SUBSET {c \in Calls : call[c].at = "open"} :
       /\ closed # {}
       /\ call' = [c \in Calls |->
            IF c \in closed
            THEN [call[c] EXCEPT !.at = "closing", !.closing = CloseList] ELSE call[c]]
  /\ UNCHANGED <<nextRTPPort, owner, forwarders>>

\* The next socket is closed.
CloseSocket(c) ==
  /\ call[c].at = "closing" /\ call[c].closing # <<>>
  /\ owner' = [owner EXCEPT ![Address(c, Head(call[c].closing))] = Nil]
  /\ call' = [call EXCEPT ![c].closing = Tail(@)]
  /\ UNCHANGED <<nextRTPPort, forwarders>>

ToClose(c) == {call[c].closing[i] : i \in DOMAIN call[c].closing}

\* Mutant: the loop goes on after a failed read.
ForwardRetries(c) ==
  /\ call[c].at = "closing"
  /\ forwarders[c] \ ToClose(c) # {}
  /\ UNCHANGED vars

\* forward and forwardRTCP return when the read of their socket fails because
\* the socket is closed.
ForwardReturns(c) ==
  /\ call[c].at = "closing"
  /\ \E s \in forwarders[c] \ ToClose(c) :
       forwarders' = [forwarders EXCEPT ![c] = @ \ {s}]
  /\ UNCHANGED <<nextRTPPort, call, owner>>

\* Nothing of the relay is left; the slot is free for another call.
Gone(c) ==
  /\ call[c].at = "closing" /\ call[c].closing = <<>> /\ forwarders[c] = {}
  /\ call' = [call EXCEPT ![c] = NoCall]
  /\ UNCHANGED <<nextRTPPort, owner, forwarders>>

----------------------------------------------------------------------------
(* Other processes on the host *)

ForeignStep ==
  /\ \E a \in Foreign :
       \/ owner[a] = Nil /\ owner' = [owner EXCEPT ![a] = "foreign"]
       \/ owner[a] = "foreign" /\ owner' = [owner EXCEPT ![a] = Nil]
  /\ UNCHANGED <<nextRTPPort, call, forwarders>>

----------------------------------------------------------------------------

Open(c)    == Listen(c) \/ ListenFails(c)
Dismiss(c) == CloseSocket(c) \/ ForwardReturns(c) \/ Gone(c)

Next ==
  \/ \E c \in Calls : \/ AllocateCallIdentifiers(c)
                      \/ Open(c) \/ Close(c) \/ Dismiss(c)
  \/ BridgeClose
  \/ ForeignStep

Spec == Init /\ [][Next]_vars

\* The goroutine that opens or closes a relay runs on, and so do the
\* forwarding goroutines; nobody has to end a call.
Fairness == \A c \in Calls : WF_vars(Open(c)) /\ WF_vars(Dismiss(c))

FairSpec == Spec /\ Fairness

----------------------------------------------------------------------------
(* Properties *)

EvenPorts == {p \in EvenPort(PortMin) .. PortMax : p % 2 = 0}

\* Type invariant.
TypeOK ==
  /\ nextRTPPort \in EvenPorts
  /\ call \in [Calls -> [at : Sockets \cup {"none", "open", "closing"},
                         h248Port : EvenPorts \cup {0}, sipPort : EvenPorts \cup {0},
                         closing : Seq(Sockets)]]
  /\ owner \in [Addresses -> Calls \cup {Nil, "foreign"}]
  /\ forwarders \in [Calls -> SUBSET Sockets]

Held(c) == {a \in Addresses : owner[a] = c}

\* The sockets a relay has, from how far it is.
SocketsOf(c) ==
  CASE call[c].at = "none"    -> {}
    [] call[c].at = "open"    -> Sockets
    [] call[c].at = "closing" -> ToClose(c)
    [] call[c].at = "h248"    -> {}
    [] call[c].at = "h248RTCP" -> {"h248"}
    [] call[c].at = "sip"     -> {"h248", "h248RTCP"}
    [] call[c].at = "sipRTCP" -> Sockets \ {"sipRTCP"}

\* newMediaRelay and Close: a relay has exactly the sockets its progress says,
\* on four different addresses, whatever the other relays and processes do
\* with theirs; one that was refused or closed has none.
SocketsAccounted ==
  \A c \in Calls :
    /\ Held(c) = {Address(c, s) : s \in SocketsOf(c)}
    /\ Cardinality(Held(c)) = Cardinality(SocketsOf(c))

\* allocateRTPPortLocked hands out ports without a look at the sockets.  With
\* an even number of even ports, more pairs of them than other relays and
\* foreign sockets, the circle still comes to a free pair: calls that keep
\* coming are not refused for ever, however long the other relays stay open.
CallsServed ==
  /\ Cardinality(EvenPorts) % 2 = 0
  /\ Cardinality(EvenPorts) \div 2 > Cardinality(Calls) - 1 + Cardinality(Foreign)
  /\ []<>(\E c \in Calls : call[c].at \in Sockets)
  => []<><<\E c \in Calls : call[c].at = "sipRTCP" /\ Listen(c)>>_vars

\* Close and the undoing in newMediaRelay: a relay that ends gives back its
\* sockets and its goroutines.
RelayEnds == \A c \in Calls : call[c].at = "closing" ~> call[c].at = "none"
=============================================================================
