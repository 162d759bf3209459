---------------------------- MODULE BridgeProofs ----------------------------
(***************************************************************************)
(* Proofs about Bridge for every set of calls, Call-IDs, MGCs and          *)
(* goroutines: type correctness, and the agreement of the bridge's three   *)
(* indexes with its Call objects.                                          *)
(*                                                                         *)
(* The inductive invariant is IInv.  KeysOK says which Call-ID a call may  *)
(* be known under; without it a call of one direction could overwrite the  *)
(* index entry of a call of the other one.  Most actions leave the indexes *)
(* and the two fields the invariant reads alone (Frame); each of the six   *)
(* that do not has a lemma of its own.                                     *)
(***************************************************************************)
EXTENDS Bridge, TLAPS

IInv == TypeOK /\ KeysOK /\ IndexConsistent

\* A step that neither creates nor releases a call nor changes its Call-ID.
SameCalls == \A d \in Calls : /\ call'[d].st = call[d].st
                              /\ call'[d].SIPCallID = call[d].SIPCallID
Frame     == SameCalls /\ UNCHANGED indexVars

----------------------------------------------------------------------------
(* Threads *)

\* A section that pushes well-typed sections leaves todo well typed.
LEMMA ThenType ==
  ASSUME TypeOK, NEW t \in Threads, todo[t] # <<>>, NEW ops \in Seq(Op),
         Then(t, ops)
  PROVE  todo' \in [Threads -> Seq(Op)]
<1>1. todo[t] \in Seq(Op) BY DEF TypeOK
<1>2. Tail(todo[t]) \in Seq(Op) BY <1>1
<1>3. ops \o Tail(todo[t]) \in Seq(Op) BY <1>2
<1> QED BY <1>3 DEF Then, TypeOK

\* So does a goroutine that starts with well-typed sections.
LEMMA StartType ==
  ASSUME TypeOK, NEW t \in Threads, NEW ops \in Seq(Op), Start(t, ops)
  PROVE  todo' \in [Threads -> Seq(Op)]
BY DEF Start, TypeOK

LEMMA CurOp ==
  ASSUME TypeOK, NEW t \in Threads, NEW f, At(t, f)
  PROVE  Cur(t) \in Op /\ Cur(t).f = f /\ todo[t] # <<>>
<1>1. todo[t] \in Seq(Op) BY DEF TypeOK
<1> QED BY <1>1 DEF At, Cur

\* What a section carries, by its name.
LEMMA CurType ==
  ASSUME TypeOK, NEW t \in Threads, NEW f, At(t, f)
  PROVE
    /\ todo[t] # <<>>
    /\ f \in CallSteps \cup {"sendCallLineEvent", "lineEventSend", "sendSIP",
                             "handleCarrierRelease", "contextCommand"}
         => Cur(t).c \in Calls
    /\ f \in OriginationSteps \cup {"failSIPOriginatedCall",
            "sendSIPOriginatedResponse", "respond", "handleNewSIPInvite",
            "handleOutboundCallAdd"} => Cur(t).c \in OutCalls
    /\ f \in InviteSteps \cup {"handleRetainedSIPInviteResponse",
            "handleIncomingCallAdd", "insertContext"} => Cur(t).c \in InCalls
    /\ f \in {"sendCallLineEvent", "lineEventSend"} => Cur(t).a \in LinePhases
    /\ f = "failSIPOriginatedCall" => Cur(t).a \in Failures
    /\ f \in {"sendSIPOriginatedResponse", "respond"} => Cur(t).a \in Statuses
    /\ f = "sendSIP" => Cur(t).a \in {"ACK", "ACK2xx", "BYE", "CANCEL"}
    /\ f = "handleCarrierRelease" => Cur(t).a \in BOOLEAN
    /\ f = "handleNewSIPInvite" => Cur(t).id \in CallIDs
    /\ f \in {"handleIncomingCallAdd", "insertContext", "handleOutboundCallAdd"}
         => Cur(t).from \in MGCs /\ Cur(t).req \in BOOLEAN
    /\ f \in {"contextCommand", "lineCommand"}
         => Cur(t).from \in MGCs /\ Cur(t).cmd \in Commands
    /\ f \in {"releaseAllCallsFromCarrier", "unavailableCalls"}
         => Cur(t).cs \in SUBSET Calls
<1>1. Cur(t) \in Op /\ Cur(t).f = f /\ todo[t] # <<>> BY CurOp
<1>2. PICK o \in Op : o = Cur(t) BY <1>1
<1> QED BY <1>1, <1>2 DEF Op, CallSteps, OriginationSteps, InviteSteps

\* The sections the handlers push are well typed.
LEMMA StepType ==
  /\ \A f \in CallSteps, c \in Calls : Step(f, c) \in Op
  /\ \A f \in OriginationSteps, c \in OutCalls : Step(f, c) \in Op
  /\ \A f \in InviteSteps, c \in InCalls : Step(f, c) \in Op
  /\ \A f \in {"sendCallLineEvent", "lineEventSend"}, c \in Calls, a \in LinePhases :
       StepA(f, c, a) \in Op
  /\ \A c \in OutCalls, a \in Failures : StepA("failSIPOriginatedCall", c, a) \in Op
  /\ \A f \in {"sendSIPOriginatedResponse", "respond"}, c \in OutCalls, a \in Statuses :
       StepA(f, c, a) \in Op
  /\ \A c \in Calls, a \in {"ACK", "ACK2xx", "BYE", "CANCEL"} :
       StepA("sendSIP", c, a) \in Op
  /\ \A c \in Calls, a \in BOOLEAN : StepA("handleCarrierRelease", c, a) \in Op
  /\ \A c \in InCalls, a \in SIPResponses :
       StepA("handleRetainedSIPInviteResponse", c, a) \in Op
  /\ \A f \in {"sendInitialOnhook", "initialOnhookSend"} : LineStep(f) \in Op
  /\ \A f \in {"releaseAllCallsFromCarrier", "unavailableCalls"}, cs \in SUBSET Calls :
       EachOf(f, cs) \in Op
BY DEF Step, StepA, LineStep, EachOf, Op

LEMMA OpSeq ==
  ASSUME NEW a \in Op, NEW b \in Op, NEW d \in Op, NEW e \in Op
  PROVE  /\ <<>> \in Seq(Op)
         /\ <<a>> \in Seq(Op)
         /\ <<a, b>> \in Seq(Op)
         /\ <<a, b, d>> \in Seq(Op)
         /\ <<a, b, d, e>> \in Seq(Op)
OBVIOUS

----------------------------------------------------------------------------
(* Call objects *)

\* Replacing a call by one of the same state and Call-ID.
LEMMA CallUpdate ==
  ASSUME TypeOK, NEW c \in Calls, NEW r \in Call, call' = [call EXCEPT ![c] = r],
         r.st = call[c].st, r.SIPCallID = call[c].SIPCallID
  PROVE  call' \in [Calls -> Call] /\ SameCalls
BY DEF TypeOK, SameCalls

\* The updates of a flag that the handlers make.
LEMMA FlagUpdate ==
  ASSUME NEW r \in Call, NEW b \in BOOLEAN
  PROVE
    LET Same(s) == s \in Call /\ s.st = r.st /\ s.SIPCallID = r.SIPCallID
    IN /\ Same([r EXCEPT !.H248ContextAllocated = b])
       /\ Same([r EXCEPT !.H248Answered = b])
       /\ Same([r EXCEPT !.H248OnhookSent = b])
       /\ Same([r EXCEPT !.H248OffhookSent = b])
       /\ Same([r EXCEPT !.H248DigitsSent = b])
       /\ Same([r EXCEPT !.H248DigitsScheduled = b])
       /\ Same([r EXCEPT !.SIPAnswered = b])
       /\ Same([r EXCEPT !.SIPRemoteReleased = b])
       /\ Same([r EXCEPT !.Media = b])
       /\ Same([r EXCEPT !.SIPInviteProvisional = TRUE, !.SIPInviteFinal = b])
       /\ Same([r EXCEPT !.H248DigitsScheduled = FALSE, !.H248DigitsSent = b])
BY ZenonT(30) DEF Call

\* The updates of the MGC a call belongs to.
LEMMA ResponderUpdate ==
  ASSUME NEW r \in Call, NEW m \in OptionalMGC, NEW e \in OptionalMGC
  PROVE
    LET Same(s) == s \in Call /\ s.st = r.st /\ s.SIPCallID = r.SIPCallID
    IN /\ Same([r EXCEPT !.H248Responder = m, !.H248EventRequestID = e])
       /\ Same([r EXCEPT !.H248EventRequestID = e, !.H248Responder = m])
       /\ Same([r EXCEPT !.H248ContextAllocated = TRUE,
                         !.H248Responder = m, !.H248EventRequestID = e])
       /\ Same([r EXCEPT !.H248Responder = m, !.H248EventRequestID = e,
                         !.H248OffhookSent = TRUE])
BY DEF Call

LEMMA FrameKeeps ==
  ASSUME IInv, TypeOK', Frame
  PROVE  IInv'
<1>1. KeysOK'
  BY DEF IInv, KeysOK, Frame, SameCalls, Live, Calls
<1>2. IndexConsistent'
  <2>1. \A d \in Calls : Live(d)' <=> Live(d) BY DEF Frame, SameCalls, Live
  <2>2. \A d \in Calls : call'[d].SIPCallID = call[d].SIPCallID
    BY DEF Frame, SameCalls
  <2>3. UNCHANGED <<callsByH248, callsBySIP, outboundCall>>
    BY DEF Frame, indexVars
  <2>4. /\ callsByH248 \subseteq Calls
        /\ \A k \in SIPKeys : callsBySIP[k] # Nil => callsBySIP[k] \in Calls
        /\ outboundCall # Nil => outboundCall \in Calls
        /\ InCalls \subseteq Calls /\ OutCalls \subseteq Calls
    BY DEF IInv, TypeOK, Calls
  <2> QED BY <2>1, <2>2, <2>3, <2>4 DEF IInv, IndexConsistent
<1> QED BY <1>1, <1>2 DEF IInv

\* A step that moves no more than threads and what the outside sees.
LEMMA ThreadsOnly ==
  ASSUME TypeOK, UNCHANGED <<bridgeVars, timers, serverVars>>,
         todo' \in [Threads -> Seq(Op)],
         relay' \in [Calls -> {"none", "open", "closed"}],
         finals' \in [OutCalls -> SUBSET Statuses],
         sent' \in [Calls -> SUBSET {"INVITE", "ACK", "ACK2xx", "BYE", "CANCEL",
                                     "lateBYE", "digits"}],
         UNCHANGED <<hook, onhooks, pbx>>
  PROVE  TypeOK' /\ Frame
BY DEF TypeOK, Frame, SameCalls, bridgeVars, indexVars, serverVars

----------------------------------------------------------------------------
(* Frame actions of BridgeState and of the line events *)

LEMMA ArmReleaseStep ==
  ASSUME TypeOK, NEW t \in Threads, ArmRelease(t)
  PROVE  TypeOK' /\ Frame
<1>1. At(t, "armRelease") BY DEF ArmRelease
<1>2. Cur(t).c \in Calls /\ todo[t] # <<>> BY <1>1, CurType DEF CallSteps
<1>3. <<>> \in Seq(Op) OBVIOUS
<1>4. todo' \in [Threads -> Seq(Op)] BY <1>2, <1>3, ThenType DEF ArmRelease
<1>5. timers' \subseteq Timer
  BY <1>2 DEF ArmRelease, ReleaseTimer, Step, Timer, TypeOK
<1> QED BY <1>4, <1>5 DEF ArmRelease, TypeOK, Frame, SameCalls, bridgeVars,
             indexVars, serverVars, wireVars

LEMMA TimerFiresStep ==
  ASSUME TypeOK, TimerFires
  PROVE  TypeOK' /\ Frame
<1>1. PICK o \in timers : /\ o.f # "retransmitInvite"
                          /\ timers' = timers \ {o}
                          /\ Start("timer", <<o>>)
  BY DEF TimerFires
<1>2. o \in Timer BY DEF TypeOK
<1>3. o \in Op
  BY <1>1, <1>2 DEF Timer, Op, CallSteps, OriginationSteps
<1>4. todo' \in [Threads -> Seq(Op)]
  <2>1. <<o>> \in Seq(Op) /\ "timer" \in Threads BY <1>3 DEF Threads
  <2> QED BY <1>1, <2>1, StartType
<1> QED BY <1>1, <1>4 DEF TimerFires, TypeOK, Frame, SameCalls, bridgeVars,
             indexVars, serverVars, wireVars

LEMMA SendInitialOnhookStep ==
  ASSUME TypeOK, NEW t \in Threads, SendInitialOnhook(t) \/ InitialOnhookSend(t)
  PROVE  TypeOK' /\ Frame
<1>1. todo[t] # <<>> BY DEF SendInitialOnhook, InitialOnhookSend, At
<1>2. todo' \in [Threads -> Seq(Op)]
  <2>1. <<>> \in Seq(Op) /\ <<LineStep("initialOnhookSend")>> \in Seq(Op)
    BY StepType
  <2> QED BY <1>1, <2>1, ThenType DEF SendInitialOnhook, InitialOnhookSend
<1>3. line' \in Line
  BY DEF SendInitialOnhook, InitialOnhookSend, TypeOK, Line
<1> QED BY <1>2, <1>3 DEF SendInitialOnhook, InitialOnhookSend, HookEvent, TypeOK,
             Frame, SameCalls, indexVars, serverVars, wireVars

LEMMA SendCallLineEventStep ==
  ASSUME TypeOK, NEW t \in Threads, SendCallLineEvent(t)
  PROVE  TypeOK' /\ Frame
<1> DEFINE c == Cur(t).c
           phase == Cur(t).a
<1>1. At(t, "sendCallLineEvent") BY DEF SendCallLineEvent
<1>2. c \in Calls /\ phase \in LinePhases /\ todo[t] # <<>> BY <1>1, CurType
<1>3. todo' \in [Threads -> Seq(Op)]
  <2>1. <<>> \in Seq(Op) /\ <<StepA("lineEventSend", c, phase)>> \in Seq(Op)
    BY <1>2, StepType
  <2> QED BY <1>2, <2>1, ThenType DEF SendCallLineEvent
<1>4. pendingH248' \subseteq Pending
  <2>1. phase # "onhook" => [c |-> c, phase |-> phase] \in Pending
    BY <1>2 DEF Pending, LinePhases
  <2> QED BY <2>1 DEF SendCallLineEvent, TypeOK
<1>5. call' \in [Calls -> Call] /\ SameCalls
  <2> HIDE DEF c, phase
  <2>1. CASE UNCHANGED call BY <2>1 DEF TypeOK, SameCalls
  <2>2. CASE SetLineEventFlag(c, phase, TRUE)
    <3>1. call[c] \in Call BY <1>2 DEF TypeOK
    <3> QED BY <1>2, <2>2, <3>1, FlagUpdate, CallUpdate DEF SetLineEventFlag
  <2> QED BY <2>1, <2>2 DEF SendCallLineEvent, c, phase
<1> QED BY <1>3, <1>4, <1>5 DEF SendCallLineEvent, TypeOK,
             Frame, indexVars, serverVars, wireVars

LEMMA LineEventSendStep ==
  ASSUME TypeOK, NEW t \in Threads, LineEventSend(t)
  PROVE  TypeOK' /\ Frame
<1> DEFINE c == Cur(t).c
           phase == Cur(t).a
<1>1. At(t, "lineEventSend") BY DEF LineEventSend
<1>2. c \in Calls /\ phase \in LinePhases /\ todo[t] # <<>> BY <1>1, CurType
<1>3. todo' \in [Threads -> Seq(Op)]
  <2>1. <<>> \in Seq(Op) OBVIOUS
  <2> QED BY <1>2, <2>1, ThenType DEF LineEventSend
<1>4. call' \in [Calls -> Call] /\ SameCalls
  <2> HIDE DEF c, phase
  <2>1. CASE UNCHANGED call BY <2>1 DEF TypeOK, SameCalls
  <2>2. CASE SetLineEventFlag(c, phase, FALSE)
    <3>1. call[c] \in Call BY <1>2 DEF TypeOK
    <3> QED BY <1>2, <2>2, <3>1, FlagUpdate, CallUpdate DEF SetLineEventFlag
  <2> QED BY <2>1, <2>2 DEF LineEventSend, c, phase
<1>5. hook' \in {"none", "on", "off"} /\ pendingH248' \subseteq Pending
  BY DEF LineEventSend, HookEvent, TypeOK
<1>6. onhooks' \in [Calls -> 0..2]
  <2>1. UNCHANGED onhooks \/ CountOnhook(c) BY DEF LineEventSend
  <2> HIDE DEF c
  <2> QED BY <1>2, <2>1 DEF CountOnhook, TypeOK
<1> QED BY <1>3, <1>4, <1>5, <1>6 DEF LineEventSend, TypeOK,
             Frame, indexVars, serverVars, wireVars

----------------------------------------------------------------------------
(* Frame actions of the registration loop *)

LEMMA RegistrationStep ==
  ASSUME TypeOK, RegistrationStarts \/ RegistrationFails
  PROVE  TypeOK' /\ Frame
BY DEF RegistrationStarts, RegistrationFails, Service!Try, TypeOK, OptionalMGC, Frame,
       SameCalls, bridgeVars, indexVars, wireVars

LEMMA HandleH248ReadyStep ==
  ASSUME TypeOK, HandleH248Ready
  PROVE  TypeOK' /\ Frame
<1>1. ReadySteps \in Seq(Op) /\ "reg" \in Threads
  BY StepType DEF ReadySteps, Threads
<1>2. todo' \in [Threads -> Seq(Op)] BY <1>1, StartType DEF HandleH248Ready
<1>3. line' \in Line BY DEF HandleH248Ready, TypeOK, Line
<1> QED BY <1>2, <1>3 DEF HandleH248Ready, Service!Serve, TypeOK, Frame,
             SameCalls, indexVars, wireVars

LEMMA HandleH248UnavailableStep ==
  ASSUME TypeOK, HandleH248Unavailable
  PROVE  TypeOK' /\ Frame
<1>1. ActiveCalls \in SUBSET Calls BY DEF ActiveCalls, TypeOK, Calls
<1>2. <<EachOf("unavailableCalls", ActiveCalls)>> \in Seq(Op) /\ "reg" \in Threads
  BY <1>1, StepType DEF Threads
<1>3. todo' \in [Threads -> Seq(Op)]
  BY <1>2, StartType DEF HandleH248Unavailable
<1>4. line' \in Line
  BY DEF HandleH248Unavailable, IdleLine, Line, OptionalMGC
<1> QED BY <1>3, <1>4 DEF HandleH248Unavailable, Service!Lose, TypeOK,
             OptionalMGC, Frame, SameCalls, indexVars, wireVars

LEMMA CallLoopStep ==
  ASSUME TypeOK, NEW t \in Threads,
         UnavailableCalls(t) \/ ReleaseAllCallsFromCarrier(t)
  PROVE  TypeOK' /\ Frame
<1> DEFINE cs == Cur(t).cs
<1>1. cs \in SUBSET Calls /\ todo[t] # <<>>
  BY CurType DEF UnavailableCalls, ReleaseAllCallsFromCarrier
<1>2. \A c \in cs :
        /\ <<Step("sendSIPTeardown", c), Step("releaseCall", c),
             EachOf("unavailableCalls", cs \ {c})>> \in Seq(Op)
        /\ <<StepA("handleCarrierRelease", c, TRUE),
             EachOf("releaseAllCallsFromCarrier", cs \ {c})>> \in Seq(Op)
  <2> SUFFICES ASSUME NEW c \in cs
               PROVE  /\ <<Step("sendSIPTeardown", c), Step("releaseCall", c),
                           EachOf("unavailableCalls", cs \ {c})>> \in Seq(Op)
                      /\ <<StepA("handleCarrierRelease", c, TRUE),
                           EachOf("releaseAllCallsFromCarrier", cs \ {c})>> \in Seq(Op)
    OBVIOUS
  <2>1. c \in Calls /\ cs \ {c} \in SUBSET Calls BY <1>1
  <2>2. /\ Step("sendSIPTeardown", c) \in Op
        /\ Step("releaseCall", c) \in Op
        /\ EachOf("unavailableCalls", cs \ {c}) \in Op
        /\ StepA("handleCarrierRelease", c, TRUE) \in Op
        /\ EachOf("releaseAllCallsFromCarrier", cs \ {c}) \in Op
    BY <2>1, StepType DEF CallSteps
  <2> QED BY <2>2, OpSeq
<1>3. <<>> \in Seq(Op) OBVIOUS
<1>4. todo' \in [Threads -> Seq(Op)]
  BY <1>1, <1>2, <1>3, ThenType DEF UnavailableCalls, ReleaseAllCallsFromCarrier
<1> QED BY <1>4, ThreadsOnly
        DEF UnavailableCalls, ReleaseAllCallsFromCarrier, TypeOK, wireVars

----------------------------------------------------------------------------
(* Frame actions of HandleH248's Adds and of an origination *)

LEMMA RecvAddStep ==
  ASSUME TypeOK, NEW t \in Threads, NEW req \in BOOLEAN, RecvAdd(t, req)
  PROVE  TypeOK' /\ Frame
<1>1. mgc \in MGCs BY DEF RecvAdd, TypeOK, OptionalMGC
<1>2. todo' \in [Threads -> Seq(Op)]
  <2>1. CASE AddIsOutbound
    <3> DEFINE o == [f |-> "handleOutboundCallAdd", c |-> outboundCall,
                     from |-> mgc, req |-> req]
    <3>1. outboundCall \in OutCalls BY <2>1 DEF AddIsOutbound, TypeOK
    <3>2. o \in Op BY <1>1, <3>1 DEF Op
    <3>3. <<o>> \in Seq(Op) BY <3>2, OpSeq
    <3> QED BY <2>1, <3>3, StartType DEF RecvAdd
  <2>2. CASE ~ AddIsOutbound
    <3>1. PICK c \in InCalls :
            Start(t, <<[f |-> "handleIncomingCallAdd", c |-> c,
                        from |-> mgc, req |-> req]>>)
      BY <2>2 DEF RecvAdd
    <3> DEFINE o == [f |-> "handleIncomingCallAdd", c |-> c,
                     from |-> mgc, req |-> req]
    <3>2. o \in Op BY <1>1 DEF Op
    <3>3. <<o>> \in Seq(Op) BY <3>2, OpSeq
    <3> QED BY <3>1, <3>3, StartType
  <2> QED BY <2>1, <2>2
<1> QED BY <1>2, ThreadsOnly DEF RecvAdd, TypeOK, wireVars

LEMMA HandleIncomingCallAddStep ==
  ASSUME TypeOK, NEW t \in Threads, HandleIncomingCallAdd(t)
  PROVE  TypeOK' /\ Frame
<1> DEFINE o == [f |-> "insertContext", c |-> Cur(t).c,
                 from |-> Cur(t).from, req |-> Cur(t).req]
<1>1. At(t, "handleIncomingCallAdd") BY DEF HandleIncomingCallAdd
<1>2. /\ Cur(t).c \in InCalls /\ Cur(t).from \in MGCs /\ Cur(t).req \in BOOLEAN
      /\ todo[t] # <<>>
  BY <1>1, CurType
<1>3. o \in Op BY <1>2 DEF Op
<1>4. <<o>> \in Seq(Op) /\ <<>> \in Seq(Op) BY <1>3, OpSeq
<1>5. todo' \in [Threads -> Seq(Op)]
  BY <1>2, <1>4, ThenType DEF HandleIncomingCallAdd
<1>6. relay' \in [Calls -> {"none", "open", "closed"}]
  BY <1>2 DEF HandleIncomingCallAdd, TypeOK, Calls
<1> QED BY <1>5, <1>6, ThreadsOnly DEF HandleIncomingCallAdd, TypeOK

LEMMA AddReplyStep ==
  ASSUME TypeOK, NEW t \in Threads, IncomingAddReply(t) \/ OutboundAddReply(t)
  PROVE  TypeOK' /\ Frame
<1> DEFINE c == Cur(t).c
<1>1. CASE IncomingAddReply(t)
  <2>1. c \in Calls /\ todo[t] # <<>>
    BY <1>1, CurType DEF IncomingAddReply, InviteSteps, Calls
  <2>2. <<>> \in Seq(Op) /\ <<Step("releaseCall", c)>> \in Seq(Op)
    BY <2>1, StepType, OpSeq DEF CallSteps
  <2>3. todo' \in [Threads -> Seq(Op)]
    BY <1>1, <2>1, <2>2, ThenType DEF IncomingAddReply
  <2> QED BY <1>1, <2>3, ThreadsOnly DEF IncomingAddReply, TypeOK, wireVars
<1>2. CASE OutboundAddReply(t)
  <2>1. c \in OutCalls /\ c \in Calls /\ todo[t] # <<>>
    BY <1>2, CurType DEF OutboundAddReply, OriginationSteps, Calls
  <2>2. /\ StepA("sendSIPOriginatedResponse", c, "183") \in Op
        /\ StepA("failSIPOriginatedCall", c, "503") \in Op
        /\ Step("releaseCall", c) \in Op
    BY <2>1, StepType DEF CallSteps, Statuses, Provisionals, Failures
  <2>3. /\ <<StepA("sendSIPOriginatedResponse", c, "183")>> \in Seq(Op)
        /\ <<StepA("failSIPOriginatedCall", c, "503"),
             Step("releaseCall", c)>> \in Seq(Op)
    BY <2>2, OpSeq
  <2>4. todo' \in [Threads -> Seq(Op)]
    BY <1>2, <2>1, <2>3, ThenType DEF OutboundAddReply
  <2> QED BY <1>2, <2>4, ThreadsOnly DEF OutboundAddReply, TypeOK, wireVars
<1> QED BY <1>1, <1>2

LEMMA ScheduleOriginationOffhookStep ==
  ASSUME TypeOK, NEW t \in Threads, ScheduleOriginationOffhook(t)
  PROVE  TypeOK' /\ Frame
<1> DEFINE c == Cur(t).c
<1>1. c \in OutCalls /\ todo[t] # <<>>
  BY CurType DEF ScheduleOriginationOffhook, OriginationSteps
<1>2. <<>> \in Seq(Op) OBVIOUS
<1>3. todo' \in [Threads -> Seq(Op)]
  BY <1>1, <1>2, ThenType DEF ScheduleOriginationOffhook
<1>4. Step("sendOriginationOffhook", c) \in Timer BY <1>1 DEF Step, Timer
<1>5. timers' \subseteq Timer BY <1>4 DEF ScheduleOriginationOffhook, TypeOK
<1> QED BY <1>3, <1>5 DEF ScheduleOriginationOffhook, TypeOK, Frame, SameCalls,
             bridgeVars, indexVars, serverVars, wireVars

\* The sections that end a call being originated.
LEMMA FailStepsType ==
  ASSUME NEW c \in OutCalls, NEW a \in Failures
  PROVE  <<StepA("failSIPOriginatedCall", c, a), Step("releaseCall", c)>> \in Seq(Op)
<1>1. c \in Calls BY DEF Calls
<1>2. /\ StepA("failSIPOriginatedCall", c, a) \in Op
      /\ Step("releaseCall", c) \in Op
  BY <1>1, StepType DEF CallSteps
<1> QED BY <1>2, OpSeq

LEMMA SendOriginationOffhookStep ==
  ASSUME TypeOK, NEW t \in Threads, SendOriginationOffhook(t)
  PROVE  TypeOK' /\ Frame
<1> DEFINE c == Cur(t).c
           r == [call[c] EXCEPT !.H248Responder = line.responder,
                                !.H248EventRequestID = line.eventRequestID,
                                !.H248OffhookSent = TRUE]
<1>1. c \in OutCalls /\ c \in Calls /\ todo[t] # <<>>
  BY CurType DEF SendOriginationOffhook, OriginationSteps, Calls
<1>2. todo' \in [Threads -> Seq(Op)]
  <2>1. <<Step("offhookSend", c)>> \in Seq(Op)
    BY <1>1, StepType, OpSeq DEF OriginationSteps
  <2>2. <<StepA("failSIPOriginatedCall", c, "503"),
          Step("releaseCall", c)>> \in Seq(Op)
    BY <1>1, FailStepsType DEF Failures
  <2> QED BY <1>1, <2>1, <2>2, ThenType DEF SendOriginationOffhook
<1>3. pendingH248' \subseteq Pending
  <2>1. [c |-> c, phase |-> "origination-offhook"] \in Pending
    BY <1>1 DEF Pending
  <2> QED BY <2>1 DEF SendOriginationOffhook, TypeOK
<1>4. call' \in [Calls -> Call] /\ SameCalls
  <2>1. UNCHANGED call \/ call' = [call EXCEPT ![c] = r]
    BY DEF SendOriginationOffhook
  <2>2. call[c] \in Call BY <1>1 DEF TypeOK
  <2>3. line.responder \in OptionalMGC /\ line.eventRequestID \in OptionalMGC
    BY DEF TypeOK, Line
  <2>4. r \in Call /\ r.st = call[c].st /\ r.SIPCallID = call[c].SIPCallID
    <3> SUFFICES ASSUME NEW s \in Call, NEW m \in OptionalMGC, NEW e \in OptionalMGC
                 PROVE  LET q == [s EXCEPT !.H248Responder = m,
                                           !.H248EventRequestID = e,
                                           !.H248OffhookSent = TRUE]
                        IN  q \in Call /\ q.st = s.st /\ q.SIPCallID = s.SIPCallID
      BY ZenonT(30), <2>2, <2>3
    <3> QED BY ZenonT(30), ResponderUpdate
  <2> HIDE DEF c, r
  <2> QED BY <1>1, <2>1, <2>4, CallUpdate DEF TypeOK, SameCalls
<1> QED BY <1>2, <1>3, <1>4 DEF SendOriginationOffhook, TypeOK, Frame,
             indexVars, serverVars, wireVars

LEMMA OffhookSendStep ==
  ASSUME TypeOK, NEW t \in Threads, OffhookSend(t)
  PROVE  TypeOK' /\ Frame
<1> DEFINE c == Cur(t).c
<1>1. c \in OutCalls /\ c \in Calls /\ todo[t] # <<>>
  BY CurType DEF OffhookSend, OriginationSteps, Calls
<1>2. todo' \in [Threads -> Seq(Op)]
  <2>1. <<>> \in Seq(Op) OBVIOUS
  <2>2. <<StepA("failSIPOriginatedCall", c, "503"),
          Step("releaseCall", c)>> \in Seq(Op)
    BY <1>1, FailStepsType DEF Failures
  <2> QED BY <1>1, <2>1, <2>2, ThenType DEF OffhookSend
<1>3. call' \in [Calls -> Call] /\ SameCalls
  <2>1. UNCHANGED call \/ call' = [call EXCEPT ![c].H248OffhookSent = FALSE]
    BY DEF OffhookSend
  <2>2. call[c] \in Call BY <1>1 DEF TypeOK
  <2> HIDE DEF c
  <2>3. CASE UNCHANGED call BY <2>3 DEF TypeOK, SameCalls
  <2>4. CASE ~ UNCHANGED call
    BY ZenonT(30), <1>1, <2>1, <2>2, <2>4, FlagUpdate, CallUpdate
  <2> QED BY <2>3, <2>4
<1> QED BY <1>2, <1>3 DEF OffhookSend, HookEvent, TypeOK, Frame,
             indexVars, serverVars, wireVars

LEMMA ScheduleOriginationDigitsStep ==
  ASSUME TypeOK, NEW t \in Threads, ScheduleOriginationDigits(t)
  PROVE  TypeOK' /\ Frame
<1> DEFINE c == Cur(t).c
<1>1. c \in OutCalls /\ c \in Calls /\ todo[t] # <<>>
  BY CurType DEF ScheduleOriginationDigits, OriginationSteps, Calls
<1>2. <<>> \in Seq(Op) OBVIOUS
<1>3. todo' \in [Threads -> Seq(Op)]
  BY <1>1, <1>2, ThenType DEF ScheduleOriginationDigits
<1>4. Step("sendOriginationDigits", c) \in Timer BY <1>1 DEF Step, Timer
<1>5. timers' \subseteq Timer BY <1>4 DEF ScheduleOriginationDigits, TypeOK
<1>6. call' \in [Calls -> Call] /\ SameCalls
  <2>1. UNCHANGED call \/ call' = [call EXCEPT ![c].H248DigitsScheduled = TRUE]
    BY DEF ScheduleOriginationDigits
  <2>2. call[c] \in Call BY <1>1 DEF TypeOK
  <2> HIDE DEF c
  <2>3. CASE UNCHANGED call BY <2>3 DEF TypeOK, SameCalls
  <2>4. CASE ~ UNCHANGED call
    BY ZenonT(30), <1>1, <2>1, <2>2, <2>4, FlagUpdate, CallUpdate
  <2> QED BY <2>3, <2>4
<1> QED BY <1>3, <1>5, <1>6 DEF ScheduleOriginationDigits, TypeOK, Frame,
             indexVars, serverVars, wireVars

LEMMA SendOriginationDigitsStep ==
  ASSUME TypeOK, NEW t \in Threads, SendOriginationDigits(t)
  PROVE  TypeOK' /\ Frame
<1> DEFINE c == Cur(t).c
           due == /\ Live(c) /\ ~ call[c].H248DigitsSent
                  /\ call[c].H248Responder # Nil
                  /\ call[c].H248EventRequestID # Nil
           b == call[c].H248DigitsSent \/ due
<1>1. c \in OutCalls /\ c \in Calls /\ todo[t] # <<>>
  BY CurType DEF SendOriginationDigits, OriginationSteps, Calls
<1>2. todo' \in [Threads -> Seq(Op)]
  <2>1. <<>> \in Seq(Op) /\ <<Step("digitsSend", c)>> \in Seq(Op)
    BY <1>1, StepType, OpSeq DEF OriginationSteps
  <2> QED BY <1>1, <2>1, ThenType DEF SendOriginationDigits
<1>3. pendingH248' \subseteq Pending
  <2>1. [c |-> c, phase |-> "origination-digits"] \in Pending
    BY <1>1 DEF Pending
  <2> QED BY <2>1 DEF SendOriginationDigits, TypeOK
<1>4. call' \in [Calls -> Call] /\ SameCalls
  <2>1. call' = [call EXCEPT ![c] = [@ EXCEPT !.H248DigitsScheduled = FALSE,
                                              !.H248DigitsSent = b]]
    BY DEF SendOriginationDigits
  <2>2. call[c] \in Call /\ b \in BOOLEAN BY <1>1 DEF TypeOK
  <2> HIDE DEF c, b
  <2> QED BY <1>1, <2>1, <2>2, FlagUpdate, CallUpdate
<1> QED BY <1>2, <1>3, <1>4 DEF SendOriginationDigits, TypeOK, Frame,
             indexVars, serverVars, wireVars

LEMMA DigitsSendStep ==
  ASSUME TypeOK, NEW t \in Threads, DigitsSend(t)
  PROVE  TypeOK' /\ Frame
<1> DEFINE c == Cur(t).c
<1>1. c \in OutCalls /\ c \in Calls /\ todo[t] # <<>>
  BY CurType DEF DigitsSend, OriginationSteps, Calls
<1>2. todo' \in [Threads -> Seq(Op)]
  <2>1. <<>> \in Seq(Op) OBVIOUS
  <2>2. <<StepA("failSIPOriginatedCall", c, "503"),
          Step("releaseCall", c)>> \in Seq(Op)
    BY <1>1, FailStepsType DEF Failures
  <2> QED BY <1>1, <2>1, <2>2, ThenType DEF DigitsSend
<1>3. call' \in [Calls -> Call] /\ SameCalls
  <2>1. UNCHANGED call \/ call' = [call EXCEPT ![c].H248DigitsSent = FALSE]
    BY DEF DigitsSend
  <2>2. call[c] \in Call BY <1>1 DEF TypeOK
  <2> HIDE DEF c
  <2>3. CASE UNCHANGED call BY <2>3 DEF TypeOK, SameCalls
  <2>4. CASE ~ UNCHANGED call
    BY ZenonT(30), <1>1, <2>1, <2>2, <2>4, FlagUpdate, CallUpdate
  <2> QED BY <2>3, <2>4
<1>4. sent' \in [Calls -> SUBSET {"INVITE", "ACK", "ACK2xx", "BYE", "CANCEL",
                                  "lateBYE", "digits"}]
  BY <1>1 DEF DigitsSend, TypeOK
<1> QED BY <1>2, <1>3, <1>4 DEF DigitsSend, TypeOK, Frame,
             indexVars, serverVars, wireVars

----------------------------------------------------------------------------
(* Frame actions of processH248Command and HandleH248Response *)

LEMMA RecvLineCommandStep ==
  ASSUME TypeOK, NEW t \in Threads, NEW cmd \in Commands, RecvLineCommand(t, cmd)
  PROVE  TypeOK' /\ Frame
<1> DEFINE o == [f |-> "lineCommand", from |-> mgc, cmd |-> cmd]
           first == IF cmd.req /\ line.ready
                    THEN <<LineStep("sendInitialOnhook")>> ELSE <<>>
<1>1. mgc \in MGCs BY DEF RecvLineCommand, TypeOK, OptionalMGC
<1>2. o \in Op BY <1>1 DEF Op
<1>3. <<o>> \in Seq(Op) BY <1>2, OpSeq
<1>4. first \in Seq(Op) BY StepType
<1>5. first \o <<o>> \in Seq(Op)
  <2> HIDE DEF first, o
  <2> QED BY <1>3, <1>4
<1>6. todo' \in [Threads -> Seq(Op)] BY <1>5, StartType DEF RecvLineCommand
<1>7. line' \in Line BY <1>1 DEF RecvLineCommand, TypeOK, Line, OptionalMGC
<1> QED BY <1>6, <1>7 DEF RecvLineCommand, TypeOK, Frame, SameCalls,
             indexVars, serverVars, wireVars

LEMMA LineCommandStep ==
  ASSUME TypeOK, NEW t \in Threads, LineCommand(t)
  PROVE  TypeOK' /\ Frame
<1> DEFINE o == Cur(t)
           waiting == /\ outboundCall # Nil
                      /\ call[outboundCall].H248OffhookSent
                      /\ ~ call[outboundCall].H248DigitsSent
           ops == IF waiting /\ o.cmd.act = "digits"
                  THEN <<Step("scheduleOriginationDigits", outboundCall)>> ELSE <<>>
<1>1. o.from \in MGCs /\ o.cmd \in Commands /\ todo[t] # <<>>
  BY CurType DEF LineCommand
<1>2. waiting => outboundCall \in OutCalls /\ outboundCall \in Calls
  BY DEF TypeOK, Calls
<1>3. todo' \in [Threads -> Seq(Op)]
  <2>1. ops \in Seq(Op) BY <1>2, StepType, OpSeq DEF OriginationSteps
  <2> QED BY <1>1, <2>1, ThenType DEF LineCommand
<1>4. call' \in [Calls -> Call] /\ SameCalls
  <2>1. CASE UNCHANGED call BY <2>1 DEF TypeOK, SameCalls
  <2>2. CASE ~ UNCHANGED call
    <3> DEFINE m == o.from
               r == [call[outboundCall] EXCEPT !.H248EventRequestID = m,
                                               !.H248Responder = m]
    <3>1. waiting /\ call' = [call EXCEPT ![outboundCall] = r]
      BY <2>2 DEF LineCommand
    <3>2. outboundCall \in Calls /\ call[outboundCall] \in Call
      BY <1>2, <3>1 DEF TypeOK
    <3>3. m \in OptionalMGC BY <1>1 DEF OptionalMGC
    <3> HIDE DEF m
    <3>4. /\ r \in Call
          /\ r.st = call[outboundCall].st
          /\ r.SIPCallID = call[outboundCall].SIPCallID
      BY ZenonT(30), <3>2, <3>3, ResponderUpdate
    <3> HIDE DEF r
    <3> QED BY <3>1, <3>2, <3>4, CallUpdate
  <2> QED BY <2>1, <2>2
<1> QED BY <1>3, <1>4 DEF LineCommand, TypeOK, Frame,
             indexVars, serverVars, wireVars

LEMMA RecvContextCommandStep ==
  ASSUME TypeOK, NEW t \in Threads, NEW c \in Calls, NEW cmd \in Commands,
         RecvContextCommand(t, c, cmd)
  PROVE  TypeOK' /\ Frame
<1> PICK from \in Senders(cmd) :
      Start(t, <<[f |-> "contextCommand", c |-> c, from |-> from, cmd |-> cmd]>>)
  BY DEF RecvContextCommand
<1> DEFINE o == [f |-> "contextCommand", c |-> c, from |-> from, cmd |-> cmd]
<1>1. from \in MGCs BY DEF Senders
<1>2. o \in Op BY <1>1 DEF Op
<1>3. <<o>> \in Seq(Op) BY <1>2, OpSeq
<1>4. todo' \in [Threads -> Seq(Op)] BY <1>3, StartType
<1> QED BY <1>4, ThreadsOnly DEF RecvContextCommand, TypeOK, wireVars

LEMMA CommandStepsType ==
  ASSUME NEW c \in Calls, NEW cmd \in Commands
  PROVE  CommandSteps(c, cmd) \in Seq(Op)
<1> DEFINE a == IF c \in OutCalls /\ cmd.act = "media"
                THEN <<Step("answerSIPOriginatedCall", c)>> ELSE <<>>
           b == IF c \in InCalls /\ cmd.act = "ring"
                THEN <<Step("startSIPInvite", c)>> ELSE <<>>
           d == IF cmd.act \in {"Subtract", "clear"}
                THEN <<StepA("handleCarrierRelease", c, cmd.act = "Subtract")>>
                ELSE IF cmd.req THEN <<StepA("sendCallLineEvent", c, "answer")>>
                ELSE <<>>
<1>1. a \in Seq(Op) BY StepType, OpSeq DEF OriginationSteps
<1>2. b \in Seq(Op) BY StepType, OpSeq DEF InviteSteps
<1>3. d \in Seq(Op)
  <2>1. (cmd.act = "Subtract") \in BOOLEAN OBVIOUS
  <2>2. /\ StepA("handleCarrierRelease", c, cmd.act = "Subtract") \in Op
        /\ StepA("sendCallLineEvent", c, "answer") \in Op
    BY <2>1, StepType DEF LinePhases
  <2> QED BY <2>2, OpSeq
<1>4. CommandSteps(c, cmd) = a \o b \o d BY DEF CommandSteps
<1> HIDE DEF a, b, d
<1> QED BY <1>1, <1>2, <1>3, <1>4

LEMMA ContextCommandStep ==
  ASSUME TypeOK, NEW t \in Threads, ContextCommand(t)
  PROVE  TypeOK' /\ Frame
<1> DEFINE o == Cur(t)
           c == o.c
           m == o.from
           e == RequestID(o.c, o.from, o.cmd.req /\ o.cmd.act # "media")
           r == [call[c] EXCEPT !.H248Responder = m, !.H248EventRequestID = e]
<1>1. c \in Calls /\ m \in MGCs /\ o.cmd \in Commands /\ todo[t] # <<>>
  BY CurType DEF ContextCommand
<1>2. todo' \in [Threads -> Seq(Op)]
  <2>1. CommandSteps(o.c, o.cmd) \in Seq(Op) BY <1>1, CommandStepsType
  <2> QED BY <1>1, <2>1, ThenType DEF ContextCommand
<1>3. call' \in [Calls -> Call] /\ SameCalls
  <2>1. call' = [call EXCEPT ![c] = r] BY DEF ContextCommand
  <2>2. call[c] \in Call BY <1>1 DEF TypeOK
  <2>3. m \in OptionalMGC /\ e \in OptionalMGC
    BY <1>1, <2>2 DEF OptionalMGC, RequestID, Call
  <2> HIDE DEF c, m, e
  <2>4. r \in Call /\ r.st = call[c].st /\ r.SIPCallID = call[c].SIPCallID
    <3> SUFFICES ASSUME NEW s \in Call
                 PROVE  LET q == [s EXCEPT !.H248Responder = m,
                                           !.H248EventRequestID = e]
                        IN  q \in Call /\ q.st = s.st /\ q.SIPCallID = s.SIPCallID
      BY <2>2
    <3> QED BY ZenonT(30), <2>3, ResponderUpdate
  <2> HIDE DEF r
  <2> QED BY <1>1, <2>1, <2>4, CallUpdate
<1> QED BY <1>2, <1>3 DEF ContextCommand, TypeOK, Frame,
             indexVars, serverVars, wireVars

LEMMA RecvSubtractAllStep ==
  ASSUME TypeOK, NEW t \in Threads, RecvSubtractAll(t)
  PROVE  TypeOK' /\ Frame
<1>1. callsByH248 \in SUBSET Calls BY DEF TypeOK
<1>2. <<EachOf("releaseAllCallsFromCarrier", callsByH248)>> \in Seq(Op)
  BY <1>1, StepType
<1>3. todo' \in [Threads -> Seq(Op)] BY <1>2, StartType DEF RecvSubtractAll
<1> QED BY <1>3, ThreadsOnly DEF RecvSubtractAll, TypeOK, wireVars

LEMMA HandleCarrierReleaseStep ==
  ASSUME TypeOK, NEW t \in Threads, HandleCarrierRelease(t)
  PROVE  TypeOK' /\ Frame
<1> DEFINE c == Cur(t).c
           b == call[c].H248ContextAllocated /\ ~ Cur(t).a
           onhook == IF /\ ~ call[c].H248OnhookSent
                        /\ call[c].H248OffhookSent \/ call[c].H248Answered
                     THEN <<StepA("sendCallLineEvent", c, "onhook")>> ELSE <<>>
           rest == <<Step("sendSIPTeardown", c), Step("releaseCall", c)>>
<1>1. c \in Calls /\ Cur(t).a \in BOOLEAN /\ todo[t] # <<>>
  BY CurType DEF HandleCarrierRelease
<1>2. call[c] \in Call BY <1>1 DEF TypeOK
<1>3. todo' \in [Threads -> Seq(Op)]
  <2>1. /\ StepA("sendCallLineEvent", c, "onhook") \in Op
        /\ Step("sendSIPTeardown", c) \in Op
        /\ Step("releaseCall", c) \in Op
    BY <1>1, StepType DEF LinePhases, CallSteps
  <2>2. onhook \in Seq(Op) /\ rest \in Seq(Op) BY <2>1, OpSeq
  <2>3. Then(t, onhook \o rest) BY DEF HandleCarrierRelease
  <2> HIDE DEF onhook, rest
  <2>4. onhook \o rest \in Seq(Op) BY <2>2
  <2> QED BY <1>1, <2>3, <2>4, ThenType
<1>4. call' \in [Calls -> Call] /\ SameCalls
  <2>1. call' = [call EXCEPT ![c].H248ContextAllocated = b]
    BY DEF HandleCarrierRelease
  <2>2. b \in BOOLEAN BY <1>1, <1>2 DEF Call
  <2> HIDE DEF c, b
  <2> QED BY <1>1, <1>2, <2>1, <2>2, FlagUpdate, CallUpdate
<1>5. line' \in Line
  <2>1. /\ call[c].H248EventRequestID \in OptionalMGC
        /\ call[c].H248Responder \in OptionalMGC
    BY <1>2 DEF Call
  <2> QED BY <2>1 DEF HandleCarrierRelease, TypeOK, Line
<1> QED BY <1>3, <1>4, <1>5 DEF HandleCarrierRelease, TypeOK, Frame,
             indexVars, serverVars, wireVars

\* The Reply to an origination can only find a call of the PBX: Call-IDs of
\* the PBX are no Context of an incoming call.
LEMMA PendingOrigination ==
  ASSUME TypeOK, KeysOK, NEW p \in pendingH248, p.phase # "answer",
         NEW c \in PendingCalls(p)
  PROVE  c \in OutCalls
<1>1. p \in Pending BY DEF TypeOK
<1>2. p.c \in OutCalls BY <1>1 DEF Pending
<1>3. p.c \notin InCalls BY <1>2, ConstantsDisjoint
<1>4. CallIdent(p.c) \in CallIDs \cup {Nil}
  BY <1>2, <1>3 DEF CallIdent, KeysOK
<1>5. CallIdent(c) = CallIdent(p.c) /\ c \in Calls
  BY DEF PendingCalls, ActiveCalls, TypeOK, Calls
<1>6. CASE c \in InCalls
  <2>1. c \in CallIDs \cup {Nil} BY <1>4, <1>5, <1>6 DEF CallIdent
  <2> QED BY <1>6, <2>1, ConstantsDisjoint
<1> QED BY <1>5, <1>6 DEF Calls

LEMMA RecvReplyStep ==
  ASSUME TypeOK, KeysOK, NEW t \in Threads, NEW p \in pendingH248,
         NEW isError \in BOOLEAN, RecvReply(t, p, isError)
  PROVE  TypeOK' /\ Frame
<1>1. <<>> \in Seq(Op) OBVIOUS
<1>2. CASE UNCHANGED call /\ Start(t, <<>>)
  <2>1. todo' \in [Threads -> Seq(Op)] BY <1>1, <1>2, StartType
  <2> QED BY <1>2, <2>1 DEF RecvReply, TypeOK, Frame, SameCalls,
               indexVars, serverVars, wireVars
<1>3. CASE \E c \in PendingCalls(p) :
             /\ call' = [call EXCEPT ![c].H248Answered = FALSE]
             /\ Start(t, <<>>)
  <2>1. PICK c \in PendingCalls(p) :
             /\ call' = [call EXCEPT ![c].H248Answered = FALSE]
             /\ Start(t, <<>>)
    BY <1>3
  <2>2. c \in Calls /\ call[c] \in Call BY DEF PendingCalls, ActiveCalls, TypeOK, Calls
  <2>3. call' \in [Calls -> Call] /\ SameCalls
    BY <2>1, <2>2, FlagUpdate, CallUpdate
  <2>4. todo' \in [Threads -> Seq(Op)] BY <1>1, <2>1, StartType
  <2> QED BY <2>3, <2>4 DEF RecvReply, TypeOK, Frame,
               indexVars, serverVars, wireVars
<1>4. CASE \E c \in PendingCalls(p) :
             /\ p.phase \in {"origination-offhook", "origination-digits"}
             /\ Start(t, <<StepA("failSIPOriginatedCall", c, "503"),
                           Step("releaseCall", c)>>)
             /\ UNCHANGED call
  <2>1. PICK c \in PendingCalls(p) :
             /\ p.phase \in {"origination-offhook", "origination-digits"}
             /\ Start(t, <<StepA("failSIPOriginatedCall", c, "503"),
                           Step("releaseCall", c)>>)
             /\ UNCHANGED call
    BY <1>4
  <2>2. c \in OutCalls BY <2>1, PendingOrigination
  <2>3. <<StepA("failSIPOriginatedCall", c, "503"),
          Step("releaseCall", c)>> \in Seq(Op)
    BY <2>2, FailStepsType DEF Failures
  <2>4. todo' \in [Threads -> Seq(Op)] BY <2>1, <2>3, StartType
  <2> QED BY <2>1, <2>4 DEF RecvReply, TypeOK, Frame, SameCalls,
               indexVars, serverVars, wireVars
<1> QED BY <1>2, <1>3, <1>4 DEF RecvReply

----------------------------------------------------------------------------
(* Frame actions of a call the PBX makes *)

LEMMA RecvInviteStep ==
  ASSUME TypeOK, NEW t \in Threads, NEW id \in CallIDs, RecvInvite(t, id)
  PROVE  TypeOK' /\ Frame
<1>1. PICK c \in OutCalls :
        Start(t, <<[f |-> "handleNewSIPInvite", c |-> c, id |-> id]>>)
  BY DEF RecvInvite
<1> DEFINE o == [f |-> "handleNewSIPInvite", c |-> c, id |-> id]
<1>2. o \in Op BY DEF Op
<1>3. <<o>> \in Seq(Op) BY <1>2, OpSeq
<1>4. todo' \in [Threads -> Seq(Op)] BY <1>1, <1>3, StartType
<1> QED BY <1>4, ThreadsOnly DEF RecvInvite, TypeOK, wireVars

LEMMA NewMediaRelayStep ==
  ASSUME TypeOK, NEW t \in Threads, NewMediaRelay(t)
  PROVE  TypeOK' /\ Frame
<1> DEFINE c == Cur(t).c
<1>1. c \in OutCalls /\ c \in Calls /\ todo[t] # <<>>
  BY CurType DEF NewMediaRelay, OriginationSteps, Calls
<1>2. /\ <<Step("setMedia", c)>> \in Seq(Op)
      /\ <<StepA("failSIPOriginatedCall", c, "500"), Step("releaseCall", c)>> \in Seq(Op)
  BY <1>1, StepType, OpSeq, FailStepsType DEF OriginationSteps, Failures
<1>3. todo' \in [Threads -> Seq(Op)] BY <1>1, <1>2, ThenType DEF NewMediaRelay
<1>4. relay' \in [Calls -> {"none", "open", "closed"}]
  BY <1>1 DEF NewMediaRelay, TypeOK
<1> QED BY <1>3, <1>4, ThreadsOnly DEF NewMediaRelay, TypeOK

LEMMA SetMediaStep ==
  ASSUME TypeOK, NEW t \in Threads, SetMedia(t)
  PROVE  TypeOK' /\ Frame
<1> DEFINE c == Cur(t).c
<1>1. c \in OutCalls /\ c \in Calls /\ todo[t] # <<>>
  BY CurType DEF SetMedia, OriginationSteps, Calls
<1>2. todo' \in [Threads -> Seq(Op)]
  <2>1. /\ StepA("sendSIPOriginatedResponse", c, "100") \in Op
        /\ Step("scheduleOriginationOffhook", c) \in Op
    BY <1>1, StepType DEF OriginationSteps, Statuses, Provisionals
  <2>2. <<StepA("sendSIPOriginatedResponse", c, "100"),
          Step("scheduleOriginationOffhook", c)>> \in Seq(Op)
    BY <2>1, OpSeq
  <2> QED BY <1>1, <2>2, ThenType DEF SetMedia
<1>3. call' \in [Calls -> Call] /\ SameCalls
  <2>1. call' = [call EXCEPT ![c].Media = TRUE] BY DEF SetMedia
  <2>2. call[c] \in Call BY <1>1 DEF TypeOK
  <2> HIDE DEF c
  <2> QED BY <1>1, <2>1, <2>2, FlagUpdate, CallUpdate
<1> QED BY <1>2, <1>3 DEF SetMedia, TypeOK, Frame, indexVars, serverVars, wireVars

LEMMA SendSIPOriginatedResponseStep ==
  ASSUME TypeOK, NEW t \in Threads, SendSIPOriginatedResponse(t)
  PROVE  TypeOK' /\ Frame
<1> DEFINE c == Cur(t).c
           status == Cur(t).a
           b == call[c].SIPAnswered \/ status = "200"
<1>1. /\ c \in OutCalls /\ c \in Calls /\ status \in Statuses
      /\ todo[t] # <<>>
  BY CurType DEF SendSIPOriginatedResponse, Calls
<1>2. todo' \in [Threads -> Seq(Op)]
  <2>1. <<StepA("respond", c, status)>> \in Seq(Op) /\ <<>> \in Seq(Op)
    BY <1>1, StepType, OpSeq
  <2> QED BY <1>1, <2>1, ThenType DEF SendSIPOriginatedResponse
<1>3. call' \in [Calls -> Call] /\ SameCalls
  <2>1. UNCHANGED call \/ call' = [call EXCEPT ![c].SIPAnswered = b]
    BY DEF SendSIPOriginatedResponse
  <2>2. call[c] \in Call /\ b \in BOOLEAN BY <1>1 DEF TypeOK
  <2> HIDE DEF c, b
  <2>3. CASE UNCHANGED call BY <2>3 DEF TypeOK, SameCalls
  <2>4. CASE ~ UNCHANGED call
    BY ZenonT(30), <1>1, <2>1, <2>2, <2>4, FlagUpdate, CallUpdate
  <2> QED BY <2>3, <2>4
<1> QED BY <1>2, <1>3 DEF SendSIPOriginatedResponse, TypeOK, Frame,
             indexVars, serverVars, wireVars

LEMMA RespondStep ==
  ASSUME TypeOK, NEW t \in Threads, Respond(t)
  PROVE  TypeOK' /\ Frame
<1> DEFINE c == Cur(t).c
           status == Cur(t).a
           ops == IF status = "200" THEN <<Step("markAnswered", c)>> ELSE <<>>
<1>1. c \in OutCalls /\ status \in Statuses /\ todo[t] # <<>>
  BY CurType DEF Respond
<1>2. ops \in Seq(Op) /\ <<>> \in Seq(Op)
  BY <1>1, StepType, OpSeq DEF OriginationSteps
<1>3. todo' \in [Threads -> Seq(Op)] BY <1>1, <1>2, ThenType DEF Respond
<1>4. finals' \in [OutCalls -> SUBSET Statuses] BY <1>1 DEF Respond, TypeOK
<1> QED BY <1>3, <1>4, ThreadsOnly DEF Respond, TypeOK

LEMMA AnswerOrFailStep ==
  ASSUME TypeOK, NEW t \in Threads,
         AnswerSIPOriginatedCall(t) \/ FailSIPOriginatedCall(t)
  PROVE  TypeOK' /\ Frame
<1> DEFINE c == Cur(t).c
<1>1. todo' \in [Threads -> Seq(Op)]
  <2>1. CASE AnswerSIPOriginatedCall(t)
    <3>1. c \in OutCalls /\ todo[t] # <<>>
      BY <2>1, CurType DEF AnswerSIPOriginatedCall, OriginationSteps
    <3>2. /\ <<StepA("sendSIPOriginatedResponse", c, "200")>> \in Seq(Op)
          /\ <<>> \in Seq(Op)
      BY <3>1, StepType, OpSeq DEF Statuses
    <3> QED BY <2>1, <3>1, <3>2, ThenType DEF AnswerSIPOriginatedCall
  <2>2. CASE FailSIPOriginatedCall(t)
    <3>1. c \in OutCalls /\ Cur(t).a \in Statuses /\ todo[t] # <<>>
      BY <2>2, CurType DEF FailSIPOriginatedCall, Statuses
    <3>2. /\ <<StepA("sendSIPOriginatedResponse", c, Cur(t).a)>> \in Seq(Op)
          /\ <<>> \in Seq(Op)
      BY <3>1, StepType, OpSeq
    <3> QED BY <2>2, <3>1, <3>2, ThenType DEF FailSIPOriginatedCall
  <2> QED BY <2>1, <2>2
<1> QED BY <1>1, ThreadsOnly
        DEF AnswerSIPOriginatedCall, FailSIPOriginatedCall, TypeOK, wireVars

LEMMA MarkAnsweredStep ==
  ASSUME TypeOK, NEW t \in Threads, MarkAnswered(t)
  PROVE  TypeOK' /\ Frame
<1> DEFINE c == Cur(t).c
<1>1. c \in Calls /\ todo[t] # <<>>
  BY CurType DEF MarkAnswered, OriginationSteps, Calls
<1>2. <<>> \in Seq(Op) OBVIOUS
<1>3. todo' \in [Threads -> Seq(Op)] BY <1>1, <1>2, ThenType DEF MarkAnswered
<1>4. call' \in [Calls -> Call] /\ SameCalls
  <2>1. call' = [call EXCEPT ![c].H248Answered = TRUE] BY DEF MarkAnswered
  <2>2. call[c] \in Call BY <1>1 DEF TypeOK
  <2> HIDE DEF c
  <2> QED BY <1>1, <2>1, <2>2, FlagUpdate, CallUpdate
<1> QED BY <1>3, <1>4 DEF MarkAnswered, TypeOK, Frame, indexVars, serverVars, wireVars

\* CANCEL and BYE of the PBX
LEMMA RemoteReleaseStep ==
  ASSUME TypeOK, NEW t \in Threads, NEW c \in Calls,
         (c \in OutCalls /\ RecvCancel(t, c)) \/ RecvBye(t, c)
  PROVE  TypeOK' /\ Frame
<1>1. /\ StepA("sendCallLineEvent", c, "onhook") \in Op
      /\ Step("armRelease", c) \in Op
      /\ c \in OutCalls => StepA("failSIPOriginatedCall", c, "487") \in Op
  BY StepType DEF LinePhases, CallSteps, Failures
<1>2. todo' \in [Threads -> Seq(Op)]
  <2>1. CASE c \in OutCalls /\ RecvCancel(t, c)
    <3>1. <<StepA("failSIPOriginatedCall", c, "487"),
            StepA("sendCallLineEvent", c, "onhook"),
            Step("armRelease", c)>> \in Seq(Op)
      BY <1>1, <2>1, OpSeq
    <3> QED BY <2>1, <3>1, StartType DEF RecvCancel
  <2>2. CASE RecvBye(t, c)
    <3>1. <<StepA("sendCallLineEvent", c, "onhook"),
            Step("armRelease", c)>> \in Seq(Op)
      BY <1>1, OpSeq
    <3> QED BY <2>2, <3>1, StartType DEF RecvBye
  <2> QED BY <2>1, <2>2
<1>3. call' \in [Calls -> Call] /\ SameCalls
  <2>1. call' = [call EXCEPT ![c].SIPRemoteReleased = TRUE]
    BY DEF RecvCancel, RecvBye
  <2>2. call[c] \in Call BY DEF TypeOK
  <2> QED BY <2>1, <2>2, FlagUpdate, CallUpdate
<1> QED BY <1>2, <1>3 DEF RecvCancel, RecvBye, TypeOK, Frame,
             indexVars, serverVars, wireVars

----------------------------------------------------------------------------
(* Frame actions of a call the carrier makes *)

LEMMA RetransmitStep ==
  ASSUME TypeOK, RetransmitTick \/ RetransmitDeadline
  PROVE  TypeOK' /\ Frame
<1>1. timers' \subseteq Timer BY DEF RetransmitTick, RetransmitDeadline, TypeOK
<1>2. todo' \in [Threads -> Seq(Op)]
  <2>1. CASE RetransmitTick BY <2>1 DEF RetransmitTick, TypeOK
  <2>2. CASE RetransmitDeadline
    <3>1. PICK c \in InCalls : Start("timer", DeadlineSteps(c))
      BY <2>2 DEF RetransmitDeadline
    <3>2. /\ StepA("sendCallLineEvent", c, "onhook") \in Op
          /\ Step("releaseCall", c) \in Op
      BY StepType DEF LinePhases, CallSteps, Calls
    <3>3. DeadlineSteps(c) \in Seq(Op) /\ "timer" \in Threads
      BY <3>2, OpSeq DEF DeadlineSteps, Threads
    <3> QED BY <3>1, <3>3, StartType
  <2> QED BY <2>1, <2>2
<1> QED BY <1>1, <1>2 DEF RetransmitTick, RetransmitDeadline, TypeOK, Frame,
             SameCalls, bridgeVars, indexVars, serverVars, wireVars

LEMMA ResponseStepsType ==
  ASSUME NEW c \in InCalls, NEW kind \in SIPResponses
  PROVE  ResponseSteps(c, kind) \in Seq(Op)
<1>1. c \in Calls BY DEF Calls
<1>2. /\ StepA("sendSIP", c, "ACK") \in Op
      /\ StepA("sendSIP", c, "ACK2xx") \in Op
      /\ Step("sipAnswered", c) \in Op
      /\ Step("retainSIPInvite", c) \in Op
  BY <1>1, StepType DEF InviteSteps
<1>3. /\ Step("sendSIPTeardown", c) \in Op
      /\ StepA("sendCallLineEvent", c, "onhook") \in Op
      /\ Step("releaseCall", c) \in Op
      /\ Step("armRelease", c) \in Op
  BY <1>1, StepType DEF CallSteps, LinePhases
<1>4. CASE kind = "1xx" BY <1>4 DEF ResponseSteps
<1>5. CASE kind = "2xx" BY <1>2, <1>5, OpSeq DEF ResponseSteps
<1>6. CASE kind = "2xx-bad-sdp" BY <1>2, <1>3, <1>6, OpSeq DEF ResponseSteps
<1>7. CASE kind = "failure" BY <1>2, <1>3, <1>7, OpSeq DEF ResponseSteps
<1> QED BY <1>4, <1>5, <1>6, <1>7 DEF SIPResponses

LEMMA RecvResponseStep ==
  ASSUME TypeOK, NEW t \in Threads, NEW c \in InCalls, NEW kind \in Answers,
         RecvResponse(t, c, kind)
  PROVE  TypeOK' /\ Frame
<1> DEFINE b == call[c].SIPInviteFinal \/ kind # "1xx"
           late == IF retained[c] = "none" THEN <<>>
                   ELSE <<StepA("handleRetainedSIPInviteResponse", c, kind)>>
<1>1. kind \in SIPResponses /\ c \in Calls BY ConstantsDisjoint DEF Calls
<1>2. pbx' \in [InCalls -> {"none"} \cup SIPResponses]
  BY <1>1 DEF RecvResponse, TypeOK
<1>3. ResponseSteps(c, kind) \in Seq(Op) BY <1>1, ResponseStepsType
<1>4. late \in Seq(Op) BY <1>1, StepType, OpSeq
<1>5. todo' \in [Threads -> Seq(Op)] BY <1>3, <1>4, StartType DEF RecvResponse
<1>6. call' \in [Calls -> Call] /\ SameCalls
  <2>1. \/ UNCHANGED call
        \/ call' = [call EXCEPT ![c] = [@ EXCEPT !.SIPInviteProvisional = TRUE,
                                                 !.SIPInviteFinal = b]]
    BY DEF RecvResponse
  <2>2. call[c] \in Call /\ b \in BOOLEAN BY <1>1 DEF TypeOK
  <2> HIDE DEF b
  <2>3. CASE UNCHANGED call BY <2>3 DEF TypeOK, SameCalls
  <2>4. CASE ~ UNCHANGED call
    BY <1>1, <2>1, <2>2, <2>4, FlagUpdate, CallUpdate
  <2> QED BY <2>3, <2>4
<1> QED BY <1>2, <1>5, <1>6 DEF RecvResponse, TypeOK, Frame, indexVars, serverVars

LEMMA SIPAnsweredStep ==
  ASSUME TypeOK, NEW t \in Threads, SIPAnswered(t)
  PROVE  TypeOK' /\ Frame
<1> DEFINE c == Cur(t).c
<1>1. c \in Calls /\ todo[t] # <<>>
  BY CurType DEF SIPAnswered, InviteSteps, Calls
<1>2. <<StepA("sendCallLineEvent", c, "answer")>> \in Seq(Op)
  BY <1>1, StepType, OpSeq DEF LinePhases
<1>3. todo' \in [Threads -> Seq(Op)] BY <1>1, <1>2, ThenType DEF SIPAnswered
<1>4. call' \in [Calls -> Call] /\ SameCalls
  <2>1. call' = [call EXCEPT ![c].SIPAnswered = TRUE] BY DEF SIPAnswered
  <2>2. call[c] \in Call BY <1>1 DEF TypeOK
  <2> HIDE DEF c
  <2> QED BY <1>1, <2>1, <2>2, FlagUpdate, CallUpdate
<1> QED BY <1>3, <1>4 DEF SIPAnswered, TypeOK, Frame, indexVars, serverVars, wireVars

LEMMA SendSIPTeardownStep ==
  ASSUME TypeOK, NEW t \in Threads, SendSIPTeardown(t)
  PROVE  TypeOK' /\ Frame
<1> DEFINE c == Cur(t).c
<1>1. c \in Calls /\ todo[t] # <<>>
  BY CurType DEF SendSIPTeardown, CallSteps
<1>2. /\ StepA("sendSIP", c, "BYE") \in Op
      /\ StepA("sendSIP", c, "CANCEL") \in Op
      /\ c \in OutCalls => StepA("failSIPOriginatedCall", c, "503") \in Op
      /\ c \notin OutCalls => Step("retainSIPInvite", c) \in Op
  BY <1>1, StepType DEF Calls, InviteSteps, Failures
<1>3. TeardownSteps(c) \in Seq(Op) BY <1>2, OpSeq DEF TeardownSteps
<1>4. todo' \in [Threads -> Seq(Op)] BY <1>1, <1>3, ThenType DEF SendSIPTeardown
<1> QED BY <1>4, ThreadsOnly DEF SendSIPTeardown, TypeOK, wireVars

LEMMA SendSIPStep ==
  ASSUME TypeOK, NEW t \in Threads, SendSIP(t)
  PROVE  TypeOK' /\ Frame
<1>1. /\ Cur(t).c \in Calls /\ Cur(t).a \in {"ACK", "ACK2xx", "BYE", "CANCEL"}
      /\ todo[t] # <<>>
  BY CurType DEF SendSIP
<1>2. <<>> \in Seq(Op) OBVIOUS
<1>3. todo' \in [Threads -> Seq(Op)] BY <1>1, <1>2, ThenType DEF SendSIP
<1>4. sent' \in [Calls -> SUBSET {"INVITE", "ACK", "ACK2xx", "BYE", "CANCEL",
                                  "lateBYE", "digits"}]
  BY <1>1 DEF SendSIP, Put, TypeOK
<1> QED BY <1>3, <1>4, ThreadsOnly DEF SendSIP, TypeOK

LEMMA RetainedStep ==
  ASSUME TypeOK, NEW t \in Threads,
         RetainSIPInvite(t) \/ RetainedExpires \/ SendLateAnswerBYE(t)
           \/ LateByeSend(t)
  PROVE  TypeOK' /\ Frame
<1> DEFINE c == Cur(t).c
           Sent == SUBSET {"INVITE", "ACK", "ACK2xx", "BYE", "CANCEL",
                           "lateBYE", "digits"}
<1>1. CASE RetainedExpires
  BY <1>1 DEF RetainedExpires, TypeOK, Frame, SameCalls, indexVars,
       serverVars, wireVars
<1>2. CASE RetainSIPInvite(t) \/ SendLateAnswerBYE(t) \/ LateByeSend(t)
  <2>1. c \in InCalls /\ c \in Calls /\ todo[t] # <<>>
    BY <1>2, CurType DEF RetainSIPInvite, SendLateAnswerBYE, LateByeSend,
         InviteSteps, Calls
  <2>2. <<>> \in Seq(Op) /\ <<Step("lateByeSend", c)>> \in Seq(Op)
    BY <2>1, StepType, OpSeq DEF InviteSteps
  <2>3. todo' \in [Threads -> Seq(Op)]
    BY <1>2, <2>1, <2>2, ThenType DEF RetainSIPInvite, SendLateAnswerBYE, LateByeSend
  <2>4. retained' \in [InCalls -> {"none", "kept", "byeSent"}]
    BY <1>2, <2>1 DEF RetainSIPInvite, SendLateAnswerBYE, LateByeSend, TypeOK
  <2>5. sent' \in [Calls -> Sent]
    BY <1>2, <2>1 DEF RetainSIPInvite, SendLateAnswerBYE, LateByeSend, Put,
         TypeOK, wireVars
  <2> QED BY <1>2, <2>3, <2>4, <2>5 DEF RetainSIPInvite, SendLateAnswerBYE,
               LateByeSend, TypeOK, Frame, SameCalls, indexVars, serverVars, wireVars
<1> QED BY <1>1, <1>2

LEMMA HandleRetainedSIPInviteResponseStep ==
  ASSUME TypeOK, NEW t \in Threads, HandleRetainedSIPInviteResponse(t)
  PROVE  TypeOK' /\ Frame
<1> DEFINE c == Cur(t).c
           kind == Cur(t).a
           ops == IF retained[c] = "none" \/ kind = "1xx" THEN <<>>
                  ELSE IF kind = "failure" THEN <<StepA("sendSIP", c, "ACK")>>
                  ELSE <<StepA("sendSIP", c, "ACK2xx"), Step("sendLateAnswerBYE", c)>>
<1>1. c \in InCalls /\ c \in Calls /\ todo[t] # <<>>
  BY CurType DEF HandleRetainedSIPInviteResponse, Calls
<1>2. /\ StepA("sendSIP", c, "ACK") \in Op
      /\ StepA("sendSIP", c, "ACK2xx") \in Op
      /\ Step("sendLateAnswerBYE", c) \in Op
  BY <1>1, StepType DEF InviteSteps
<1>3. ops \in Seq(Op) BY <1>2, OpSeq
<1>4. todo' \in [Threads -> Seq(Op)]
  BY <1>1, <1>3, ThenType DEF HandleRetainedSIPInviteResponse
<1> QED BY <1>4, ThreadsOnly DEF HandleRetainedSIPInviteResponse, TypeOK, wireVars

----------------------------------------------------------------------------
(* The actions that create a call, release it or change its Call-ID *)

\* A released call leaves every index that named it, and no other entry can
\* have been this call's.
LEMMA ReleaseCallStep ==
  ASSUME IInv, NEW t \in Threads, ReleaseCall(t)
  PROVE  IInv'
<1> DEFINE c == Cur(t).c
           k == call[c].SIPCallID
<1>1. c \in Calls /\ todo[t] # <<>> /\ TypeOK
  BY CurType DEF ReleaseCall, CallSteps, IInv
<1>2. <<>> \in Seq(Op) OBVIOUS
<1>3. todo' \in [Threads -> Seq(Op)] BY <1>1, <1>2, ThenType DEF ReleaseCall
<1>4. CASE ~ Live(c)
  <2>1. TypeOK' /\ Frame
    BY <1>1, <1>3, <1>4 DEF ReleaseCall, TypeOK, Frame, SameCalls, indexVars,
         serverVars, wireVars
  <2> QED BY <2>1, FrameKeeps
<1>5. CASE Live(c)
  <2>1. /\ call' = [call EXCEPT ![c].st = "released"]
        /\ callsByH248' = callsByH248 \ {c}
        /\ callsBySIP' = IF k = Nil THEN callsBySIP
                         ELSE [callsBySIP EXCEPT ![k] = Nil]
        /\ outboundCall' = IF outboundCall = c THEN Nil ELSE outboundCall
    BY <1>5 DEF ReleaseCall
  <2>2. call[c] \in Call /\ k \in SIPKeys \cup {Nil} BY <1>1 DEF TypeOK, Call
  <2>3. relay' \in [Calls -> {"none", "open", "closed"}]
    BY <1>1, <1>5 DEF ReleaseCall, CloseRelay, TypeOK
  <2>4. UNCHANGED <<line, pendingH248, retained, timers, mgc, registered,
                    finals, sent, hook, onhooks, pbx>>
    BY DEF ReleaseCall, serverVars
  <2> HIDE DEF c, k
  <2>5. /\ call' \in [Calls -> Call]
        /\ call'[c].st = "released" /\ call'[c].SIPCallID = call[c].SIPCallID
        /\ \A d \in Calls : d # c => call'[d] = call[d]
    BY <1>1, <2>1, <2>2 DEF TypeOK, Call
  <2>6. TypeOK'
    <3>1. callsBySIP' \in [SIPKeys -> Calls \cup {Nil}]
      BY <1>1, <2>1, <2>2 DEF TypeOK
    <3>2. callsByH248' \subseteq Calls /\ outboundCall' \in OutCalls \cup {Nil}
      BY <1>1, <2>1 DEF TypeOK
    <3> QED BY <1>1, <1>3, <2>3, <2>4, <2>5, <3>1, <3>2 DEF TypeOK
  <2>7. KeysOK'
    BY <1>1, <2>5 DEF IInv, KeysOK, Live, Calls
  <2>8. IndexConsistent'
    <3>1. \A d \in Calls : Live(d)' <=> Live(d) /\ d # c BY <2>5 DEF Live
    <3>2. \A d \in Calls : call'[d].SIPCallID = call[d].SIPCallID BY <2>5
    <3>3. \A d \in callsByH248' : Live(d)'
      BY <1>1, <2>1, <3>1 DEF IInv, IndexConsistent, TypeOK
    <3>4. ASSUME NEW j \in SIPKeys, callsBySIP'[j] # Nil
          PROVE  Live(callsBySIP[j])' /\ callsBySIP'[j] = callsBySIP[j]
                 /\ call'[callsBySIP[j]].SIPCallID = j
      <4>1. j # k /\ callsBySIP'[j] = callsBySIP[j]
        <5>1. j # Nil BY ConstantsDisjoint DEF SIPKeys
        <5> QED BY <1>1, <2>1, <2>2, <3>4, <5>1 DEF TypeOK
      <4>2. callsBySIP[j] \in Calls /\ Live(callsBySIP[j])
            /\ call[callsBySIP[j]].SIPCallID = j
        BY <1>1, <3>4, <4>1 DEF TypeOK, IInv, IndexConsistent
      <4>3. callsBySIP[j] # c BY <4>1, <4>2 DEF k
      <4> QED BY <3>1, <3>2, <4>1, <4>2, <4>3
    <3>5. outboundCall' # Nil => Live(outboundCall)' /\ outboundCall' = outboundCall
      BY <1>1, <2>1, <3>1 DEF IInv, IndexConsistent, TypeOK, Calls
    <3>6. ASSUME NEW d \in Calls, Live(d)', call'[d].SIPCallID # Nil
          PROVE  callsBySIP'[call'[d].SIPCallID] = d
      <4>1. d # c /\ Live(d) /\ callsBySIP[call[d].SIPCallID] = d
        BY <3>1, <3>2, <3>6 DEF IInv, IndexConsistent
      <4>2. k # Nil => callsBySIP[k] = c
        BY <1>1, <1>5 DEF IInv, IndexConsistent, k
      <4>3. call[d].SIPCallID \in SIPKeys
        BY <1>1, <3>2, <3>6 DEF TypeOK, Call
      <4> QED BY <1>1, <2>1, <2>2, <3>2, <4>1, <4>2, <4>3 DEF TypeOK
    <3>7. \A d \in InCalls : Live(d)' => d \in callsByH248'
      BY <2>1, <3>1 DEF IInv, IndexConsistent, Calls
    <3>8. \A d \in OutCalls : Live(d)' => outboundCall' = d
      BY <2>1, <3>1 DEF IInv, IndexConsistent, Calls
    <3>9. \A j \in SIPKeys : callsBySIP'[j] # Nil =>
            Live(callsBySIP[j])' /\ callsBySIP'[j] = callsBySIP[j]
            /\ call'[callsBySIP[j]].SIPCallID = j
      BY <3>4
    <3>10. \A d \in Calls : Live(d)' /\ call'[d].SIPCallID # Nil =>
             callsBySIP'[call'[d].SIPCallID] = d
      BY <3>6
    <3> QED BY <3>3, <3>5, <3>7, <3>8, <3>9, <3>10 DEF IndexConsistent, Live
  <2> QED BY <2>6, <2>7, <2>8 DEF IInv
<1> QED BY <1>4, <1>5

\* A new Context is entered under its own ID, and no other index names it.
LEMMA InsertContextStep ==
  ASSUME IInv, NEW t \in Threads, InsertContext(t)
  PROVE  IInv'
<1> DEFINE o == Cur(t)
           c == o.c
           e == IF o.req THEN o.from ELSE Nil
           m == o.from
           r == [NewCall EXCEPT !.st = "live", !.H248ContextAllocated = TRUE,
                                !.H248EventRequestID = e, !.H248Responder = m,
                                !.Media = TRUE]
<1>1. /\ c \in InCalls /\ c \in Calls /\ m \in MGCs /\ todo[t] # <<>> /\ TypeOK
  BY CurType DEF InsertContext, IInv, Calls
<1>2. todo' \in [Threads -> Seq(Op)]
  <2>1. <<Step("incomingAddReply", c)>> \in Seq(Op)
    BY <1>1, StepType, OpSeq DEF InviteSteps
  <2> QED BY <1>1, <2>1, ThenType DEF InsertContext
<1>3. /\ call[c].st = "unused"
      /\ call' = [call EXCEPT ![c] = r]
      /\ callsByH248' = callsByH248 \cup {c}
  BY DEF InsertContext
<1>4. UNCHANGED <<callsBySIP, outboundCall>> BY DEF InsertContext
<1>5. r \in Call /\ r.st = "live" /\ r.SIPCallID = Nil
  <2>1. m \in OptionalMGC /\ e \in OptionalMGC BY <1>1 DEF OptionalMGC
  <2> HIDE DEF e, m
  <2> QED BY <2>1 DEF NewCall, Call, OptionalMGC
<1>6. TypeOK'
  <2>1. call' \in [Calls -> Call] /\ callsByH248' \subseteq Calls
    <3> HIDE DEF c, r
    <3> QED BY <1>1, <1>3, <1>5 DEF TypeOK
  <2> QED BY <1>1, <1>2, <2>1 DEF InsertContext, TypeOK, serverVars, wireVars
<1> HIDE DEF c, r
<1>7. /\ call'[c].st = "live" /\ call'[c].SIPCallID = Nil
      /\ \A d \in Calls : d # c => call'[d] = call[d]
  BY <1>1, <1>3, <1>5 DEF TypeOK
<1>8. c \notin OutCalls BY <1>1, ConstantsDisjoint
<1>9. KeysOK'
  BY <1>1, <1>7, <1>8 DEF IInv, KeysOK, Live, Calls
<1>10. IndexConsistent'
  <2>1. \A d \in Calls : Live(d)' <=> Live(d) \/ d = c BY <1>7 DEF Live
  <2>2. ~ Live(c) BY <1>3 DEF Live
  <2>3. \A d \in callsByH248' : Live(d)'
    BY <1>1, <1>3, <2>1 DEF IInv, IndexConsistent, TypeOK
  <2>4. \A j \in SIPKeys : callsBySIP[j] # Nil =>
          Live(callsBySIP[j])' /\ call'[callsBySIP[j]].SIPCallID = j
    BY SMTT(30), <1>1, <1>4, <1>7, <2>1, <2>2 DEF IInv, IndexConsistent, TypeOK
  <2>5. outboundCall # Nil => Live(outboundCall)'
    BY <1>1, <1>4, <2>1 DEF IInv, IndexConsistent, TypeOK, Calls
  <2>6. \A d \in Calls : Live(d)' /\ call'[d].SIPCallID # Nil =>
          callsBySIP[call'[d].SIPCallID] = d
    BY <1>1, <1>7, <2>1 DEF IInv, IndexConsistent
  <2>7. \A d \in InCalls : Live(d)' => d \in callsByH248'
    BY <1>3, <2>1 DEF IInv, IndexConsistent, Calls
  <2>8. \A d \in OutCalls : Live(d)' => outboundCall = d
    BY <1>8, <2>1 DEF IInv, IndexConsistent, Calls
  <2> QED BY <1>4, <2>3, <2>4, <2>5, <2>6, <2>7, <2>8 DEF IndexConsistent, Live
<1> QED BY <1>6, <1>9, <1>10 DEF IInv

\* The call being originated gets its Context while it is live.
LEMMA HandleOutboundCallAddStep ==
  ASSUME IInv, NEW t \in Threads, HandleOutboundCallAdd(t)
  PROVE  IInv'
<1> DEFINE o == Cur(t)
           c == o.c
           m == o.from
           e == RequestID(c, o.from, o.req)
           r == [call[c] EXCEPT !.H248ContextAllocated = TRUE,
                                !.H248Responder = m, !.H248EventRequestID = e]
<1>1. /\ c \in OutCalls /\ c \in Calls /\ m \in MGCs /\ todo[t] # <<>> /\ TypeOK
  BY CurType DEF HandleOutboundCallAdd, IInv, Calls
<1>2. todo' \in [Threads -> Seq(Op)]
  <2>1. <<Step("outboundAddReply", c)>> \in Seq(Op) /\ <<>> \in Seq(Op)
    BY <1>1, StepType, OpSeq DEF OriginationSteps
  <2> QED BY <1>1, <2>1, ThenType DEF HandleOutboundCallAdd
<1>3. CASE UNCHANGED <<call, callsByH248>>
  <2>1. TypeOK' /\ Frame
    BY <1>1, <1>2, <1>3 DEF HandleOutboundCallAdd, TypeOK, Frame, SameCalls,
         indexVars, serverVars, wireVars
  <2> QED BY <2>1, FrameKeeps
<1>4. CASE ~ UNCHANGED <<call, callsByH248>>
  <2>1. /\ Live(c)
        /\ call' = [call EXCEPT ![c] = r]
        /\ callsByH248' = callsByH248 \cup {c}
    BY <1>4 DEF HandleOutboundCallAdd, AddAccepted
  <2>2. UNCHANGED <<callsBySIP, outboundCall>> BY DEF HandleOutboundCallAdd
  <2>3. call[c] \in Call BY <1>1 DEF TypeOK
  <2>4. m \in OptionalMGC /\ e \in OptionalMGC
    BY <1>1, <2>3 DEF OptionalMGC, RequestID, Call
  <2>5. call' \in [Calls -> Call] /\ SameCalls
    <3> HIDE DEF c, m, e
    <3>1. r \in Call /\ r.st = call[c].st /\ r.SIPCallID = call[c].SIPCallID
      <4> SUFFICES ASSUME NEW s \in Call
                   PROVE  LET q == [s EXCEPT !.H248ContextAllocated = TRUE,
                                             !.H248Responder = m,
                                             !.H248EventRequestID = e]
                          IN  q \in Call /\ q.st = s.st /\ q.SIPCallID = s.SIPCallID
        BY <2>3
      <4> QED BY ZenonT(30), <2>4, ResponderUpdate
    <3> HIDE DEF r
    <3> QED BY <1>1, <2>1, <3>1, CallUpdate
  <2>6. TypeOK'
    <3>1. callsByH248' \subseteq Calls BY <1>1, <2>1 DEF TypeOK
    <3> QED BY <1>1, <1>2, <2>5, <3>1 DEF HandleOutboundCallAdd, TypeOK,
                 serverVars, wireVars
  <2> HIDE DEF c, r
  <2>7. \A d \in Calls : /\ Live(d)' <=> Live(d)
                         /\ call'[d].SIPCallID = call[d].SIPCallID
    BY <2>5 DEF SameCalls, Live
  <2>8. KeysOK' BY <2>7 DEF IInv, KeysOK, Calls
  <2>9. IndexConsistent'
    <3>1. \A d \in callsByH248' : Live(d)'
      BY <1>1, <2>1, <2>7 DEF IInv, IndexConsistent, TypeOK
    <3>2. /\ \A k \in SIPKeys : callsBySIP[k] # Nil => callsBySIP[k] \in Calls
          /\ outboundCall # Nil => outboundCall \in Calls
          /\ InCalls \subseteq Calls /\ OutCalls \subseteq Calls
      BY <1>1 DEF TypeOK, Calls
    <3> QED BY <2>1, <2>2, <2>7, <3>1, <3>2 DEF IInv, IndexConsistent
  <2> QED BY <2>6, <2>8, <2>9 DEF IInv
<1> QED BY <1>3, <1>4

\* The PBX's call is admitted only to a line on which no call is live, so
\* its Call-ID cannot be another one's.
LEMMA HandleNewSIPInviteStep ==
  ASSUME IInv, NEW t \in Threads, HandleNewSIPInvite(t)
  PROVE  IInv'
<1> DEFINE o == Cur(t)
           c == o.c
           k == o.id
           m == line.responder
           e == line.eventRequestID
           r == [NewCall EXCEPT !.st = "live", !.H248EventRequestID = e,
                                !.H248Responder = m, !.SIPCallID = k]
<1>1. /\ c \in OutCalls /\ c \in Calls /\ k \in CallIDs /\ k \in SIPKeys
      /\ todo[t] # <<>> /\ TypeOK
  BY CurType DEF HandleNewSIPInvite, IInv, Calls, SIPKeys
<1>2. todo' \in [Threads -> Seq(Op)]
  <2>1. <<Step("newMediaRelay", c)>> \in Seq(Op) /\ <<>> \in Seq(Op)
    BY <1>1, StepType, OpSeq DEF OriginationSteps
  <2> QED BY <1>1, <2>1, ThenType DEF HandleNewSIPInvite
<1>3. CASE ~ LineReady \/ LineBusy
  <2>1. TypeOK' /\ Frame
    BY <1>1, <1>2, <1>3 DEF HandleNewSIPInvite, TypeOK, Frame, SameCalls,
         indexVars, serverVars, wireVars
  <2> QED BY <2>1, FrameKeeps
<1>4. CASE ~ (~ LineReady \/ LineBusy)
  <2>1. /\ call' = [call EXCEPT ![c] = r]
        /\ outboundCall' = c
        /\ callsBySIP' = [callsBySIP EXCEPT ![k] = c]
    BY <1>4 DEF HandleNewSIPInvite
  <2>2. UNCHANGED callsByH248 BY DEF HandleNewSIPInvite
  <2>3. outboundCall = Nil /\ callsByH248 = {} BY <1>4 DEF LineBusy
  <2>4. r \in Call /\ r.st = "live" /\ r.SIPCallID = k
    <3>1. m \in OptionalMGC /\ e \in OptionalMGC BY <1>1 DEF TypeOK, Line
    <3> HIDE DEF e, m, k
    <3> QED BY <1>1, <3>1 DEF NewCall, Call, OptionalMGC
  <2> HIDE DEF c, k, r
  <2>5. /\ call' \in [Calls -> Call]
        /\ callsBySIP' \in [SIPKeys -> Calls \cup {Nil}]
        /\ outboundCall' \in OutCalls \cup {Nil}
    BY <1>1, <2>1, <2>4 DEF TypeOK
  <2>6. TypeOK'
    BY <1>1, <1>2, <2>5 DEF HandleNewSIPInvite, TypeOK, serverVars, wireVars
  <2>7. /\ call'[c].st = "live" /\ call'[c].SIPCallID = k
        /\ \A d \in Calls : d # c => call'[d] = call[d]
    BY <1>1, <2>1, <2>4 DEF TypeOK
  <2>8. c \notin InCalls /\ c # Nil /\ k # Nil BY <1>1, ConstantsDisjoint
  <2>9. \A d \in Calls : ~ Live(d)
    BY <2>3, ConstantsDisjoint DEF IInv, IndexConsistent, Calls
  <2>10. \A j \in SIPKeys : callsBySIP[j] = Nil
    BY <1>1, <2>9 DEF IInv, IndexConsistent, TypeOK
  <2>11. KeysOK'
    BY <1>1, <2>7, <2>8 DEF IInv, KeysOK, Live, Calls
  <2>12. IndexConsistent'
    <3>1. \A d \in Calls : Live(d)' <=> d = c BY <2>7, <2>9 DEF Live
    <3>2. \A j \in SIPKeys : callsBySIP'[j] # Nil => j = k /\ callsBySIP'[j] = c
      BY <1>1, <2>1, <2>10 DEF TypeOK
    <3>3. callsBySIP'[k] = c BY <1>1, <2>1 DEF TypeOK
    <3>4. \A d \in InCalls : ~ Live(d)' BY <2>8, <3>1 DEF Calls
    <3>5. \A d \in OutCalls : Live(d)' => outboundCall' = d
      BY <2>1, <3>1 DEF Calls
    <3> QED BY <1>1, <2>1, <2>2, <2>3, <2>7, <3>1, <3>2, <3>3, <3>4, <3>5
            DEF IndexConsistent, Live
  <2> QED BY <2>6, <2>11, <2>12 DEF IInv
<1> QED BY <1>3, <1>4

\* An incoming call takes a Call-ID of its own while it is live and has none.
LEMMA StartSIPInviteStep ==
  ASSUME IInv, NEW t \in Threads, StartSIPInvite(t)
  PROVE  IInv'
<1> DEFINE c == Cur(t).c
<1>1. /\ c \in InCalls /\ c \in Calls /\ c \in SIPKeys
      /\ todo[t] # <<>> /\ TypeOK
  BY CurType DEF StartSIPInvite, IInv, Calls, SIPKeys, InviteSteps
<1>2. todo' \in [Threads -> Seq(Op)]
  <2>1. <<Step("inviteSend", c)>> \in Seq(Op) /\ <<>> \in Seq(Op)
    BY <1>1, StepType, OpSeq DEF InviteSteps
  <2> QED BY <1>1, <2>1, ThenType DEF StartSIPInvite
<1>3. CASE ~ InviteDue(c)
  <2>1. TypeOK' /\ Frame
    BY <1>1, <1>2, <1>3 DEF StartSIPInvite, TypeOK, Frame, SameCalls,
         indexVars, serverVars, wireVars
  <2> QED BY <2>1, FrameKeeps
<1>4. CASE InviteDue(c)
  <2>1. /\ call' = [call EXCEPT ![c].SIPCallID = c]
        /\ callsBySIP' = [callsBySIP EXCEPT ![c] = c]
    BY <1>4 DEF StartSIPInvite
  <2>2. UNCHANGED <<callsByH248, outboundCall>> BY DEF StartSIPInvite
  <2>3. call[c] \in Call /\ Live(c) BY <1>1, <1>4 DEF TypeOK, InviteDue
  <2> HIDE DEF c
  <2>4. /\ call' \in [Calls -> Call]
        /\ call'[c].st = call[c].st /\ call'[c].SIPCallID = c
        /\ \A d \in Calls : d # c => call'[d] = call[d]
    BY <1>1, <2>1, <2>3 DEF TypeOK, Call
  <2>5. callsBySIP' \in [SIPKeys -> Calls \cup {Nil}] BY <1>1, <2>1 DEF TypeOK
  <2>6. TypeOK'
    BY <1>1, <1>2, <2>4, <2>5 DEF StartSIPInvite, TypeOK, serverVars, wireVars
  <2>7. c \notin OutCalls /\ c \notin CallIDs /\ c # Nil
    BY <1>1, ConstantsDisjoint
  <2>8. KeysOK'
    BY <1>1, <2>4, <2>7 DEF IInv, KeysOK, Live, Calls
  <2>9. IndexConsistent'
    <3>1. \A d \in Calls : Live(d)' <=> Live(d) BY <2>4 DEF Live
    <3>2. \A d \in Calls : d # c => call[d].SIPCallID # c
      BY <1>1, <2>7 DEF IInv, KeysOK, Calls
    <3>3. \A d \in callsByH248' : Live(d)'
      BY <1>1, <2>2, <3>1 DEF IInv, IndexConsistent, TypeOK
    <3>4. \A j \in SIPKeys : callsBySIP'[j] # Nil =>
            Live(callsBySIP[j])' /\ call'[callsBySIP'[j]].SIPCallID = j
      <4> SUFFICES ASSUME NEW j \in SIPKeys, callsBySIP'[j] # Nil
                   PROVE  Live(callsBySIP[j])' /\ call'[callsBySIP'[j]].SIPCallID = j
        OBVIOUS
      <4>1. CASE j = c
        <5>1. callsBySIP'[j] = c BY <1>1, <2>1, <4>1 DEF TypeOK
        <5> QED BY <1>1, <2>3, <2>4, <3>1, <4>1, <5>1 DEF Live
      <4>2. CASE j # c
        <5>1. callsBySIP'[j] = callsBySIP[j] BY <1>1, <2>1, <4>2 DEF TypeOK
        <5>2. callsBySIP[j] \in Calls /\ Live(callsBySIP[j])
              /\ call[callsBySIP[j]].SIPCallID = j
          BY <1>1, <5>1 DEF IInv, IndexConsistent, TypeOK
        <5>3. callsBySIP[j] # c
          BY <1>4, <5>2, ConstantsDisjoint DEF InviteDue, SIPKeys
        <5> QED BY <2>4, <3>1, <5>1, <5>2, <5>3 DEF Live
      <4> QED BY <4>1, <4>2
    <3>5. outboundCall' # Nil => Live(outboundCall)'
      BY <1>1, <2>2, <3>1 DEF IInv, IndexConsistent, TypeOK, Calls
    <3>6. \A d \in Calls : Live(d)' /\ call'[d].SIPCallID # Nil =>
            callsBySIP'[call'[d].SIPCallID] = d
      <4> SUFFICES ASSUME NEW d \in Calls, Live(d)', call'[d].SIPCallID # Nil
                   PROVE  callsBySIP'[call'[d].SIPCallID] = d
        OBVIOUS
      <4>1. CASE d = c BY <1>1, <2>1, <2>4, <4>1 DEF TypeOK
      <4>2. CASE d # c
        <5>1. /\ call'[d].SIPCallID = call[d].SIPCallID
              /\ callsBySIP[call[d].SIPCallID] = d
          BY <2>4, <3>1, <4>2 DEF IInv, IndexConsistent
        <5>2. call[d].SIPCallID \in SIPKeys
          BY <1>1, <5>1 DEF TypeOK, Call
        <5> QED BY <1>1, <2>1, <3>2, <4>2, <5>1, <5>2 DEF TypeOK
      <4> QED BY <4>1, <4>2
    <3>7. /\ \A d \in InCalls : Live(d)' => d \in callsByH248'
          /\ \A d \in OutCalls : Live(d)' => outboundCall' = d
      BY <2>2, <3>1 DEF IInv, IndexConsistent, Calls
    <3> QED BY <3>3, <3>4, <3>5, <3>6, <3>7 DEF IndexConsistent, Live
  <2> QED BY <2>6, <2>8, <2>9 DEF IInv
<1> QED BY <1>3, <1>4

\* A failed send takes the Call-ID back; no other call is known under it.
LEMMA InviteSendStep ==
  ASSUME IInv, NEW t \in Threads, InviteSend(t)
  PROVE  IInv'
<1> DEFINE c == Cur(t).c
<1>1. /\ c \in InCalls /\ c \in Calls /\ c \in SIPKeys
      /\ todo[t] # <<>> /\ TypeOK
  BY CurType DEF InviteSend, IInv, Calls, SIPKeys, InviteSteps
<1>2. <<>> \in Seq(Op) OBVIOUS
<1>3. todo' \in [Threads -> Seq(Op)] BY <1>1, <1>2, ThenType DEF InviteSend
<1>4. timers' \subseteq Timer
  <2>1. Step("retransmitInvite", c) \in Timer BY <1>1 DEF Step, Timer
  <2> QED BY <1>1, <2>1 DEF InviteSend, TypeOK
<1>5. sent' \in [Calls -> SUBSET {"INVITE", "ACK", "ACK2xx", "BYE", "CANCEL",
                                  "lateBYE", "digits"}]
  <2>1. UNCHANGED sent \/ Put(c, "INVITE") BY DEF InviteSend
  <2> HIDE DEF c
  <2> QED BY SMTT(30), <1>1, <2>1 DEF Put, TypeOK
<1>6. CASE UNCHANGED <<call, callsBySIP>>
  <2>1. TypeOK' /\ Frame
    BY <1>1, <1>3, <1>4, <1>5, <1>6 DEF InviteSend, TypeOK, Frame, SameCalls,
         indexVars, serverVars
  <2> QED BY <2>1, FrameKeeps
<1>7. CASE ~ UNCHANGED <<call, callsBySIP>>
  <2>1. /\ call' = [call EXCEPT ![c].SIPCallID = Nil]
        /\ callsBySIP' = [callsBySIP EXCEPT ![c] = Nil]
    BY <1>7 DEF InviteSend
  <2>2. UNCHANGED <<callsByH248, outboundCall>> BY DEF InviteSend
  <2>3. call[c] \in Call BY <1>1 DEF TypeOK
  <2> HIDE DEF c
  <2>4. /\ call' \in [Calls -> Call]
        /\ call'[c].st = call[c].st /\ call'[c].SIPCallID = Nil
        /\ \A d \in Calls : d # c => call'[d] = call[d]
    BY <1>1, <2>1, <2>3 DEF TypeOK, Call
  <2>5. callsBySIP' \in [SIPKeys -> Calls \cup {Nil}] BY <1>1, <2>1 DEF TypeOK
  <2>6. TypeOK'
    BY <1>1, <1>3, <1>4, <1>5, <2>4, <2>5 DEF InviteSend, TypeOK, serverVars
  <2>7. c \notin OutCalls /\ c \notin CallIDs /\ c # Nil
    BY <1>1, ConstantsDisjoint
  <2>8. KeysOK'
    BY <1>1, <2>4, <2>7 DEF IInv, KeysOK, Live, Calls
  <2>9. IndexConsistent'
    <3>1. \A d \in Calls : Live(d)' <=> Live(d) BY <2>4 DEF Live
    <3>2. /\ call[c].SIPCallID \in {c, Nil}
          /\ \A d \in Calls : d # c => call[d].SIPCallID # c
      BY <1>1, <2>7 DEF IInv, KeysOK, Calls
    <3>3. \A d \in callsByH248' : Live(d)'
      BY <1>1, <2>2, <3>1 DEF IInv, IndexConsistent, TypeOK
    <3>4. \A j \in SIPKeys : callsBySIP'[j] # Nil =>
            Live(callsBySIP[j])' /\ call'[callsBySIP'[j]].SIPCallID = j
      <4> SUFFICES ASSUME NEW j \in SIPKeys, callsBySIP'[j] # Nil
                   PROVE  Live(callsBySIP[j])' /\ call'[callsBySIP'[j]].SIPCallID = j
        OBVIOUS
      <4>1. j # c /\ callsBySIP'[j] = callsBySIP[j] BY <1>1, <2>1 DEF TypeOK
      <4>2. callsBySIP[j] \in Calls /\ Live(callsBySIP[j])
            /\ call[callsBySIP[j]].SIPCallID = j
        BY <1>1, <4>1 DEF IInv, IndexConsistent, TypeOK
      <4>3. callsBySIP[j] # c
        BY <3>2, <4>1, <4>2, ConstantsDisjoint DEF SIPKeys
      <4> QED BY <2>4, <3>1, <4>1, <4>2, <4>3 DEF Live
    <3>5. outboundCall' # Nil => Live(outboundCall)'
      BY <1>1, <2>2, <3>1 DEF IInv, IndexConsistent, TypeOK, Calls
    <3>6. \A d \in Calls : Live(d)' /\ call'[d].SIPCallID # Nil =>
            callsBySIP'[call'[d].SIPCallID] = d
      <4> SUFFICES ASSUME NEW d \in Calls, Live(d)', call'[d].SIPCallID # Nil
                   PROVE  callsBySIP'[call'[d].SIPCallID] = d
        OBVIOUS
      <4>1. /\ d # c /\ call'[d].SIPCallID = call[d].SIPCallID
            /\ callsBySIP[call[d].SIPCallID] = d
        BY <2>4, <3>1 DEF IInv, IndexConsistent
      <4>2. call[d].SIPCallID \in SIPKeys BY <1>1, <4>1 DEF TypeOK, Call
      <4> QED BY <1>1, <2>1, <3>2, <4>1, <4>2 DEF TypeOK
    <3>7. /\ \A d \in InCalls : Live(d)' => d \in callsByH248'
          /\ \A d \in OutCalls : Live(d)' => outboundCall' = d
      BY <2>2, <3>1 DEF IInv, IndexConsistent, Calls
    <3> QED BY <3>3, <3>4, <3>5, <3>6, <3>7 DEF IndexConsistent, Live
  <2> QED BY <2>6, <2>8, <2>9 DEF IInv
<1> QED BY <1>6, <1>7

----------------------------------------------------------------------------
(* The theorems *)

LEMMA InitIInv == Init => IInv
<1> SUFFICES ASSUME Init PROVE IInv OBVIOUS
<1>1. NewCall \in Call BY DEF NewCall, Call, OptionalMGC
<1>2. IdleLine \in Line BY DEF IdleLine, Line, OptionalMGC
<1>3. <<>> \in Seq(Op) OBVIOUS
<1>4. TypeOK
  <2>1. line \in Line /\ call \in [Calls -> Call] /\ todo \in [Threads -> Seq(Op)]
    BY <1>1, <1>2, <1>3 DEF Init
  <2>2. /\ callsByH248 \subseteq Calls
        /\ callsBySIP \in [SIPKeys -> Calls \cup {Nil}]
        /\ outboundCall \in OutCalls \cup {Nil}
        /\ pendingH248 \subseteq Pending
        /\ retained \in [InCalls -> {"none", "kept", "byeSent"}]
        /\ timers \subseteq Timer
        /\ mgc \in OptionalMGC /\ registered \in BOOLEAN
    BY DEF Init, OptionalMGC
  <2>3. /\ relay \in [Calls -> {"none", "open", "closed"}]
        /\ finals \in [OutCalls -> SUBSET Statuses]
        /\ hook \in {"none", "on", "off"}
        /\ onhooks \in [Calls -> 0..2]
        /\ pbx \in [InCalls -> {"none"} \cup SIPResponses]
    BY DEF Init
  <2> QED BY <2>1, <2>2, <2>3 DEF Init, TypeOK
<1>5. \A c \in Calls : ~ Live(c) /\ call[c].SIPCallID = Nil
  BY DEF Init, Live, NewCall
<1>6. KeysOK BY <1>5 DEF KeysOK, Calls
<1>7. IndexConsistent BY <1>5 DEF Init, IndexConsistent, Calls
<1> QED BY <1>4, <1>6, <1>7 DEF IInv

LEMMA ReceiveIInv ==
  ASSUME IInv, NEW t \in Goroutines, Receive(t)
  PROVE  IInv'
<1>1. t \in Threads BY DEF Threads
<1>2. TypeOK /\ KeysOK BY DEF IInv
<1>3. TypeOK' /\ Frame
  <2>1. CASE \E req \in BOOLEAN : RecvAdd(t, req)
    BY <1>1, <1>2, <2>1, RecvAddStep
  <2>2. CASE \E cmd \in Commands : RecvLineCommand(t, cmd)
    BY <1>1, <1>2, <2>2, RecvLineCommandStep
  <2>3. CASE \E c \in Calls, cmd \in Commands : RecvContextCommand(t, c, cmd)
    BY <1>1, <1>2, <2>3, RecvContextCommandStep
  <2>4. CASE RecvSubtractAll(t) BY <1>1, <1>2, <2>4, RecvSubtractAllStep
  <2>5. CASE \E p \in pendingH248, isError \in BOOLEAN : RecvReply(t, p, isError)
    BY <1>1, <1>2, <2>5, RecvReplyStep
  <2>6. CASE \E id \in CallIDs : RecvInvite(t, id)
    BY <1>1, <1>2, <2>6, RecvInviteStep
  <2>7. CASE \E c \in OutCalls : RecvCancel(t, c)
    BY <1>1, <1>2, <2>7, RemoteReleaseStep DEF Calls
  <2>8. CASE \E c \in Calls : RecvBye(t, c)
    BY <1>1, <1>2, <2>8, RemoteReleaseStep
  <2>9. CASE \E c \in InCalls, kind \in Answers : RecvResponse(t, c, kind)
    BY <1>1, <1>2, <2>9, RecvResponseStep
  <2> QED BY <2>1, <2>2, <2>3, <2>4, <2>5, <2>6, <2>7, <2>8, <2>9 DEF Receive
<1> QED BY <1>3, FrameKeeps

LEMMA RunIInv ==
  ASSUME IInv, NEW t \in Threads, Run(t)
  PROVE  IInv'
<1>1. TypeOK BY DEF IInv
<1>2. CASE ReleaseCall(t) BY <1>2, ReleaseCallStep
<1>3. CASE InsertContext(t) BY <1>3, InsertContextStep
<1>4. CASE HandleOutboundCallAdd(t) BY <1>4, HandleOutboundCallAddStep
<1>5. CASE HandleNewSIPInvite(t) BY <1>5, HandleNewSIPInviteStep
<1>6. CASE StartSIPInvite(t) BY <1>6, StartSIPInviteStep
<1>7. CASE InviteSend(t) BY <1>7, InviteSendStep
<1>8. CASE ~ \/ ReleaseCall(t) \/ InsertContext(t) \/ HandleOutboundCallAdd(t)
             \/ HandleNewSIPInvite(t) \/ StartSIPInvite(t) \/ InviteSend(t)
  <2>1. TypeOK' /\ Frame
    BY <1>1, <1>8, ArmReleaseStep, SendInitialOnhookStep, SendCallLineEventStep,
       LineEventSendStep, CallLoopStep, HandleIncomingCallAddStep, AddReplyStep,
       ScheduleOriginationOffhookStep, SendOriginationOffhookStep,
       OffhookSendStep, ScheduleOriginationDigitsStep, SendOriginationDigitsStep,
       DigitsSendStep, LineCommandStep, ContextCommandStep,
       HandleCarrierReleaseStep, NewMediaRelayStep, SetMediaStep,
       SendSIPOriginatedResponseStep, RespondStep, AnswerOrFailStep,
       MarkAnsweredStep, SIPAnsweredStep, SendSIPTeardownStep, SendSIPStep,
       RetainedStep, HandleRetainedSIPInviteResponseStep
    DEF Run
  <2> QED BY <2>1, FrameKeeps
<1> QED BY <1>2, <1>3, <1>4, <1>5, <1>6, <1>7, <1>8

LEMMA BackgroundIInv ==
  ASSUME IInv, Background
  PROVE  IInv'
<1>1. TypeOK /\ "timer" \in Threads BY DEF IInv, Threads
<1>2. TypeOK' /\ Frame
  BY <1>1, TimerFiresStep, RetransmitStep, RetainedStep, RegistrationStep,
     HandleH248ReadyStep, HandleH248UnavailableStep
  DEF Background
<1> QED BY <1>2, FrameKeeps

LEMMA Inductive == IInv /\ [Next]_vars => IInv'
<1> SUFFICES ASSUME IInv, [Next]_vars PROVE IInv' OBVIOUS
<1>1. CASE \E t \in Goroutines : Receive(t) BY <1>1, ReceiveIInv
<1>2. CASE \E t \in Threads : Run(t) BY <1>2, RunIInv
<1>3. CASE Background BY <1>3, BackgroundIInv
<1>4. CASE UNCHANGED vars
  <2>1. TypeOK' /\ Frame
    BY <1>4 DEF IInv, TypeOK, Frame, SameCalls, vars, bridgeVars, indexVars,
         serverVars, wireVars
  <2> QED BY <2>1, FrameKeeps
<1> QED BY <1>1, <1>2, <1>3, <1>4 DEF Next

\* Every reachable state of the bridge is well typed: in particular no
\* goroutine ever has a section for a call of the wrong direction left, and a
\* Reply of the MGC never applies an origination's failure to an incoming
\* call (HandleH248Response looks calls up by a string ID).
THEOREM TypeCorrect == Spec => []TypeOK
<1>1. IInv => TypeOK BY DEF IInv
<1> QED BY InitIInv, Inductive, <1>1, PTL DEF Spec

\* callsByH248, callsBySIP and outboundCall of bridge.go name exactly the
\* live calls, whatever goroutines, timers, faults and Call-ID reuse do
\* between the sections that create a call, release it or give it a Call-ID.
THEOREM IndexesAgree == Spec => []IndexConsistent
<1>1. IInv => IndexConsistent BY DEF IInv
<1> QED BY InitIInv, Inductive, <1>1, PTL DEF Spec
=============================================================================
