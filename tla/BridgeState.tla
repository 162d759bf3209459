---------------------------- MODULE BridgeState ----------------------------
(***************************************************************************)
(* The state of the call bridge (src/internal/bridge/bridge.go) and the    *)
(* operations every handler shares: line events, SIP responses, teardown   *)
(* and release.                                                            *)
(*                                                                         *)
(* Every Bridge method runs on a goroutine of its own, takes Bridge.mu for *)
(* short sections and sends datagrams between them.  A thread is therefore *)
(* the sequence of sections it still has to execute (todo); one step of    *)
(* the model is one section held under the mutex, or one send together     *)
(* with the section that undoes its effect when it fails.  Time is         *)
(* abstracted: a timer that is armed may fire at any later moment.         *)
(*                                                                         *)
(* Addresses, SDP, digits and header text are left out.  A request ID is   *)
(* represented by the MGC that issued it, a Context ID by its call (the    *)
(* counter makes them unique), a Call-ID the gateway draws at random by    *)
(* the call it is drawn for.                                               *)
(***************************************************************************)
EXTENDS Integers, Sequences, FiniteSets

CONSTANTS
  InCalls,      \* Call objects with Direction "h248-to-sip"
  OutCalls,     \* Call objects with Direction "sip-to-h248"
  CallIDs,      \* Call-IDs the PBX uses for its INVITEs
  MGCs,         \* addresses of the primary and the backup MGC
  Goroutines,   \* bound: datagram handlers running at the same time
  Faults,       \* failures a run explores, a subset of FaultKinds
  Acts,         \* commands of the MGC a run explores, a subset of CommandKinds
  Answers,      \* responses of the PBX a run explores, a subset of SIPResponses
  Nil           \* Go's nil and the empty string

\* A UDP write fails, a relay's ports are taken, an MGC stops answering, an
\* MGC rejects a transaction of the gateway.
FaultKinds == {"send", "relay", "mgc", "reject"}

\* What a command of the MGC asks for: on the line in the null Context, and
\* in a call's Context.
LineActs     == {"lineEvents", "digits"}
ContextActs  == {"events", "ring", "media", "clear", "Subtract", "audit"}
CommandKinds == LineActs \cup ContextActs

\* Responses to an INVITE: a provisional one, an answer with an SDP that
\* ParseSDP accepts or one that it does not, a refusal.
SIPResponses == {"1xx", "2xx", "2xx-bad-sdp", "failure"}

ASSUME ConstantsDisjoint ==
  /\ InCalls \cap OutCalls = {}
  /\ InCalls \cap CallIDs = {}
  /\ Nil \notin InCalls \cup OutCalls \cup CallIDs \cup MGCs
  /\ "timer" \notin Goroutines /\ "reg" \notin Goroutines
  /\ Faults \subseteq FaultKinds /\ Acts \subseteq CommandKinds
  /\ Answers \subseteq SIPResponses

Calls == InCalls \cup OutCalls

\* The keys of callsBySIP: the PBX's Call-IDs and the gateway's own.
SIPKeys == CallIDs \cup InCalls

\* time.AfterFunc callbacks run on "timer" (one at a time), the
\* registration loop of the H.248 server calls its handlers on "reg".
Threads == Goroutines \cup {"timer", "reg"}

VARIABLES
  line,          \* Bridge.line: the physical termination
  call,          \* the Call objects
  callsByH248,   \* calls found under their own Context ID
  callsBySIP,
  outboundCall,
  pendingH248,   \* transactions whose Reply from the MGC matters
  retained,      \* retainedSIPInvites, keyed by the call's own Call-ID
  todo,          \* per thread, the sections it still has to run
  timers,        \* armed AfterFunc callbacks and INVITE retransmitters
  mgc,           \* H.248 server: the MGC it registers with or serves
  registered,    \* H.248 server: that MGC is the active one
  \* What the outside sees; no section reads these.
  relay,         \* sockets of each call's media relay
  finals,        \* final responses the PBX got for each of its INVITEs
  sent,          \* messages of each call that reached the network
  hook,          \* last line event the MGC got from the line
  onhooks,       \* al/on events of each call the MGC got (0, 1, many)
  pbx            \* the final response the PBX chose for our INVITE

bridgeVars == <<line, call, callsByH248, callsBySIP, outboundCall,
                pendingH248, retained>>
indexVars  == <<callsByH248, callsBySIP, outboundCall>>
serverVars == <<mgc, registered>>
wireVars   == <<relay, finals, sent, hook, onhooks, pbx>>
vars       == <<bridgeVars, todo, timers, serverVars, wireVars>>

----------------------------------------------------------------------------
(* Types *)

Provisionals == {"100", "183"}
Failures     == {"487", "500", "503"}
Statuses     == Provisionals \cup {"200"} \cup Failures

LinePhases   == {"answer", "onhook"}

\* req: the command carries an Events descriptor with a request ID.  One
\* that carries nothing else has it, an audit never does.
Commands     == {cmd \in [req : BOOLEAN, act : Acts] :
                   /\ cmd.act \in {"events", "lineEvents"} => cmd.req
                   /\ cmd.act = "audit" => ~ cmd.req}

OptionalMGC  == MGCs \cup {Nil}

Line == [ready : BOOLEAN, eventRequestID : OptionalMGC,
         initialOnhookSent : BOOLEAN, responder : OptionalMGC]

Call == [st : {"unused", "live", "released"},
         H248ContextAllocated : BOOLEAN,
         H248EventRequestID : OptionalMGC,
         H248Responder : OptionalMGC,
         H248Answered : BOOLEAN,
         H248OnhookSent : BOOLEAN,
         H248OffhookSent : BOOLEAN,
         H248DigitsSent : BOOLEAN,
         H248DigitsScheduled : BOOLEAN,
         SIPCallID : SIPKeys \cup {Nil},
         SIPInviteProvisional : BOOLEAN,
         SIPInviteFinal : BOOLEAN,
         SIPAnswered : BOOLEAN,
         SIPRemoteReleased : BOOLEAN,
         Media : BOOLEAN]

\* pendingH248Transaction; the Reply to an on-hook is only logged, so the
\* two on-hook phases are left out.
Pending == [c : Calls, phase : {"answer"}]
           \cup [c : OutCalls, phase : {"origination-offhook", "origination-digits"}]

\* The sections a thread may have left, by what they carry.
CallSteps == {"releaseCall", "armRelease", "sendSIPTeardown"}
OriginationSteps ==
  {"newMediaRelay", "setMedia", "scheduleOriginationOffhook",
   "sendOriginationOffhook", "offhookSend", "scheduleOriginationDigits",
   "sendOriginationDigits", "digitsSend", "outboundAddReply",
   "answerSIPOriginatedCall", "markAnswered"}
InviteSteps ==
  {"incomingAddReply", "startSIPInvite", "inviteSend", "sipAnswered",
   "retainSIPInvite", "sendLateAnswerBYE", "lateByeSend"}

Op ==
  [f : CallSteps, c : Calls]
  \cup [f : OriginationSteps, c : OutCalls]
  \cup [f : InviteSteps, c : InCalls]
  \cup [f : {"sendCallLineEvent", "lineEventSend"}, c : Calls, a : LinePhases]
  \cup [f : {"failSIPOriginatedCall"}, c : OutCalls, a : Failures]
  \cup [f : {"sendSIPOriginatedResponse", "respond"}, c : OutCalls, a : Statuses]
  \cup [f : {"sendSIP"}, c : Calls, a : {"ACK", "ACK2xx", "BYE", "CANCEL"}]
  \cup [f : {"handleCarrierRelease"}, c : Calls, a : BOOLEAN]
  \cup [f : {"handleRetainedSIPInviteResponse"}, c : InCalls, a : SIPResponses]
  \cup [f : {"handleNewSIPInvite"}, c : OutCalls, id : CallIDs]
  \cup [f : {"handleIncomingCallAdd", "insertContext"}, c : InCalls,
        from : MGCs, req : BOOLEAN]
  \cup [f : {"handleOutboundCallAdd"}, c : OutCalls, from : MGCs, req : BOOLEAN]
  \cup [f : {"contextCommand"}, c : Calls, from : MGCs, cmd : Commands]
  \cup [f : {"lineCommand"}, from : MGCs, cmd : Commands]
  \cup [f : {"sendInitialOnhook", "initialOnhookSend"}]
  \cup [f : {"releaseAllCallsFromCarrier", "unavailableCalls"}, cs : SUBSET Calls]

\* Armed AfterFunc callbacks and running INVITE retransmitters.
Timer ==
  [f : {"releaseCall"}, c : Calls]
  \cup [f : {"sendOriginationOffhook", "sendOriginationDigits"}, c : OutCalls]
  \cup [f : {"retransmitInvite"}, c : InCalls]

NewCall == [st |-> "unused", H248ContextAllocated |-> FALSE,
            H248EventRequestID |-> Nil, H248Responder |-> Nil,
            H248Answered |-> FALSE, H248OnhookSent |-> FALSE,
            H248OffhookSent |-> FALSE, H248DigitsSent |-> FALSE,
            H248DigitsScheduled |-> FALSE, SIPCallID |-> Nil,
            SIPInviteProvisional |-> FALSE, SIPInviteFinal |-> FALSE,
            SIPAnswered |-> FALSE, SIPRemoteReleased |-> FALSE,
            Media |-> FALSE]

\* The line as HandleH248Unavailable leaves it, and as New creates it.
IdleLine == [ready |-> FALSE, eventRequestID |-> Nil,
             initialOnhookSent |-> FALSE, responder |-> Nil]

Init ==
  /\ line = IdleLine
  /\ call = [c \in Calls |-> NewCall]
  /\ callsByH248 = {}
  /\ callsBySIP = [k \in SIPKeys |-> Nil]
  /\ outboundCall = Nil
  /\ pendingH248 = {}
  /\ retained = [c \in InCalls |-> "none"]
  /\ todo = [t \in Threads |-> <<>>]
  /\ timers = {}
  /\ mgc = Nil
  /\ registered = FALSE
  /\ relay = [c \in Calls |-> "none"]
  /\ finals = [c \in OutCalls |-> {}]
  /\ sent = [c \in Calls |-> {}]
  /\ hook = "none"
  /\ onhooks = [c \in Calls |-> 0]
  /\ pbx = [c \in InCalls |-> "none"]

----------------------------------------------------------------------------
(* Threads *)

Idle(t)     == todo[t] = <<>>
At(t, f)    == todo[t] # <<>> /\ Head(todo[t]).f = f
Cur(t)      == Head(todo[t])

\* The thread has run its current section and has ops to run before the rest.
Then(t, ops)  == todo' = [todo EXCEPT ![t] = ops \o Tail(todo[t])]
\* A new goroutine has run its first section.
Start(t, ops) == Idle(t) /\ todo' = [todo EXCEPT ![t] = ops]

Step(f, c)      == [f |-> f, c |-> c]
StepA(f, c, a)  == [f |-> f, c |-> c, a |-> a]
LineStep(f)     == [f |-> f]
EachOf(f, cs)   == [f |-> f, cs |-> cs]

Live(c)     == call[c].st = "live"

\* A section works on the call.
Refers(o, c) == \/ "c" \in DOMAIN o /\ o.c = c
                \/ "cs" \in DOMAIN o /\ c \in o.cs

\* The call objects a thread is about to create.
Reserved(c) ==
  \E t \in Threads : \E i \in DOMAIN todo[t] :
    /\ todo[t][i].f \in {"handleNewSIPInvite", "handleIncomingCallAdd",
                         "insertContext"}
    /\ todo[t][i].c = c
Fresh(c) == call[c].st = "unused" /\ ~ Reserved(c)

\* UDP writes may return an error.
SendError == "send" \in Faults

----------------------------------------------------------------------------
(* Release *)

\* Mutant: the sockets of a released call stay open.
CloseRelayForgotten(c) == UNCHANGED relay

\* relay.Close() of the relay the call holds
CloseRelay(c) ==
  relay' = IF call[c].Media THEN [relay EXCEPT ![c] = "closed"] ELSE relay

\* releaseCall: idempotent; forgets the call in every index and closes the
\* relay the call holds at that moment.
ReleaseCall(t) ==
  /\ At(t, "releaseCall")
  /\ LET c == Cur(t).c
         k == call[c].SIPCallID
     IN IF Live(c)
        THEN /\ call' = [call EXCEPT ![c].st = "released"]
             /\ callsByH248' = callsByH248 \ {c}
             /\ callsBySIP' = IF k = Nil THEN callsBySIP
                              ELSE [callsBySIP EXCEPT ![k] = Nil]
             /\ outboundCall' = IF outboundCall = c THEN Nil ELSE outboundCall
             /\ CloseRelay(c)
        ELSE UNCHANGED <<call, indexVars, relay>>
  /\ Then(t, <<>>)
  /\ UNCHANGED <<line, pendingH248, retained, timers, serverVars,
                 finals, sent, hook, onhooks, pbx>>

\* Mutant: the 2 second release timer is not armed.
ReleaseTimerForgotten(c) == {}

\* time.AfterFunc(2*time.Second, releaseCall)
ReleaseTimer(c) == {Step("releaseCall", c)}

ArmRelease(t) ==
  /\ At(t, "armRelease")
  /\ timers' = timers \cup ReleaseTimer(Cur(t).c)
  /\ Then(t, <<>>)
  /\ UNCHANGED <<bridgeVars, serverVars, wireVars>>

\* An AfterFunc callback starts.
TimerFires ==
  /\ \E o \in timers :
       /\ o.f # "retransmitInvite"
       /\ timers' = timers \ {o}
       /\ Start("timer", <<o>>)
  /\ UNCHANGED <<bridgeVars, serverVars, wireVars>>
=============================================================================
