------------------------------- MODULE Bridge -------------------------------
(***************************************************************************)
(* The call bridge of the gateway: BridgeState, BridgeH248 and BridgeSIP   *)
(* put together, with the properties that make it correct.                 *)
(***************************************************************************)
EXTENDS BridgeH248, BridgeSIP

\* A datagram arrives and its handler runs its first section.
Receive(t) ==
  \/ \E req \in BOOLEAN : RecvAdd(t, req)
  \/ \E cmd \in Commands : RecvLineCommand(t, cmd)
  \/ \E c \in Calls, cmd \in Commands : RecvContextCommand(t, c, cmd)
  \/ RecvSubtractAll(t)
  \/ \E p \in pendingH248, isError \in BOOLEAN : RecvReply(t, p, isError)
  \/ \E id \in CallIDs : RecvInvite(t, id)
  \/ \E c \in OutCalls : RecvCancel(t, c)
  \/ \E c \in Calls : RecvBye(t, c)
  \/ \E c \in InCalls, kind \in Answers : RecvResponse(t, c, kind)

\* A thread runs its next section or send.
Run(t) ==
  \/ ReleaseCall(t)
  \/ ArmRelease(t)
  \/ SendInitialOnhook(t)
  \/ InitialOnhookSend(t)
  \/ SendCallLineEvent(t)
  \/ LineEventSend(t)
  \/ UnavailableCalls(t)
  \/ HandleIncomingCallAdd(t)
  \/ InsertContext(t)
  \/ IncomingAddReply(t)
  \/ HandleOutboundCallAdd(t)
  \/ OutboundAddReply(t)
  \/ ScheduleOriginationOffhook(t)
  \/ SendOriginationOffhook(t)
  \/ OffhookSend(t)
  \/ ScheduleOriginationDigits(t)
  \/ SendOriginationDigits(t)
  \/ DigitsSend(t)
  \/ LineCommand(t)
  \/ ContextCommand(t)
  \/ ReleaseAllCallsFromCarrier(t)
  \/ HandleCarrierRelease(t)
  \/ HandleNewSIPInvite(t)
  \/ NewMediaRelay(t)
  \/ SetMedia(t)
  \/ SendSIPOriginatedResponse(t)
  \/ Respond(t)
  \/ AnswerSIPOriginatedCall(t)
  \/ MarkAnswered(t)
  \/ FailSIPOriginatedCall(t)
  \/ StartSIPInvite(t)
  \/ InviteSend(t)
  \/ SIPAnswered(t)
  \/ SendSIPTeardown(t)
  \/ SendSIP(t)
  \/ RetainSIPInvite(t)
  \/ HandleRetainedSIPInviteResponse(t)
  \/ SendLateAnswerBYE(t)
  \/ LateByeSend(t)

\* Timers and the registration loop.
Background ==
  \/ TimerFires
  \/ RetransmitTick
  \/ RetransmitDeadline
  \/ RetainedExpires
  \/ RegistrationStarts
  \/ RegistrationFails
  \/ HandleH248Ready
  \/ HandleH248Unavailable

Next ==
  \/ \E t \in Goroutines : Receive(t)
  \/ \E t \in Threads : Run(t)
  \/ Background

Spec == Init /\ [][Next]_vars

\* The Go scheduler runs every goroutine on, and an armed timer fires.
Fairness ==
  /\ \A t \in Threads : WF_vars(Run(t))
  /\ WF_vars(TimerFires)
  /\ WF_vars(RetransmitTick \/ RetransmitDeadline)

FairSpec == Spec /\ Fairness

----------------------------------------------------------------------------
(* Types *)

\* Type invariant.  Beyond the ranges of the fields it says that a section a
\* goroutine has left, and a transaction of pendingH248, is for a call of the
\* direction the code means it for.
TypeOK ==
  /\ line \in Line
  /\ call \in [Calls -> Call]
  /\ callsByH248 \subseteq Calls
  /\ callsBySIP \in [SIPKeys -> Calls \cup {Nil}]
  /\ outboundCall \in OutCalls \cup {Nil}
  /\ pendingH248 \subseteq Pending
  /\ retained \in [InCalls -> {"none", "kept", "byeSent"}]
  /\ todo \in [Threads -> Seq(Op)]
  /\ timers \subseteq Timer
  /\ mgc \in OptionalMGC
  /\ registered \in BOOLEAN
  /\ relay \in [Calls -> {"none", "open", "closed"}]
  /\ finals \in [OutCalls -> SUBSET Statuses]
  /\ sent \in [Calls -> SUBSET {"INVITE", "ACK", "ACK2xx", "BYE", "CANCEL",
                             "lateBYE", "digits"}]
  /\ hook \in {"none", "on", "off"}
  /\ onhooks \in [Calls -> 0..2]
  /\ pbx \in [InCalls -> {"none"} \cup SIPResponses]

----------------------------------------------------------------------------
(* Safety *)

\* Bridge.callsByH248, callsBySIP and outboundCall (bridge.go) name exactly
\* the calls that are not released: a released call is in none of them, and a
\* live one is found by every message that belongs to it, although sections
\* of other goroutines run between the lookup of a call and its use.
IndexConsistent ==
  /\ \A c \in callsByH248 : Live(c)
  /\ \A k \in SIPKeys : callsBySIP[k] # Nil =>
       Live(callsBySIP[k]) /\ call[callsBySIP[k]].SIPCallID = k
  /\ outboundCall # Nil => Live(outboundCall)
  /\ \A c \in Calls : Live(c) /\ call[c].SIPCallID # Nil =>
       callsBySIP[call[c].SIPCallID] = c
  /\ \A c \in InCalls : Live(c) => c \in callsByH248
  /\ \A c \in OutCalls : Live(c) => outboundCall = c

\* A call is known under a Call-ID of its own direction (the strengthening
\* of IndexConsistent that the proofs need).
KeysOK ==
  /\ \A c \in InCalls : call[c].SIPCallID \in {c, Nil}
  /\ \A c \in OutCalls : call[c].SIPCallID \in CallIDs \cup {Nil}
  /\ \A c \in OutCalls : Live(c) => call[c].SIPCallID # Nil

\* No goroutine and no timer has anything left to do for the call.
Settled(c) ==
  /\ \A t \in Threads : \A i \in DOMAIN todo[t] : ~ Refers(todo[t][i], c)
  /\ \A o \in timers : o.c # c
Gone(c) == call[c].st = "released" /\ Settled(c)

\* sendCallLineEvent: the MGC gets the al/on of a call at most once, although
\* BYE, CANCEL, a failure response, the INVITE deadline and the carrier's
\* release may all ask for it at the same time, and a failed send asks again.
OnhookAtMostOnce == \A c \in Calls : onhooks[c] <= 1

\* tryAnswerH248: once the PBX has answered and the MGC has given a request
\* ID, in whichever order the two came, the answer al/of has been reported by
\* the time no goroutine works on the call.
AnswerReported ==
  \A c \in InCalls :
    /\ Live(c) /\ Settled(c)
    /\ call[c].SIPAnswered /\ call[c].H248EventRequestID # Nil
    => call[c].H248Answered

\* answerSIPOriginatedCall and sendOriginationDigits: the PBX's INVITE is
\* answered with 200 only when its digits have been sent to the carrier or are
\* being sent; if that send fails, the call that was answered meanwhile is
\* released.
DigitsBeforeAnswer ==
  \A c \in OutCalls : "200" \in finals[c] =>
    \/ "digits" \in sent[c]
    \/ \E t \in Threads : At(t, "digitsSend") /\ Cur(t).c = c
    \/ \E t \in Threads : \E i \in DOMAIN todo[t] :
         todo[t][i].f = "releaseCall" /\ todo[t][i].c = c
    \/ call[c].st = "released"

\* releaseCall: once nothing works on a released call any more, the ports of
\* its media relay are closed.
MediaReclaimed == \A c \in Calls : Gone(c) => relay[c] # "open"

\* One of the two sides has sent BYE.
DialogEnded(c) ==
  call[c].SIPRemoteReleased \/ {"BYE", "lateBYE"} \cap sent[c] # {}

\* handleSIPResponse and everything that releases a call: an answer of the
\* PBX that the gateway has ACKed is ended with a BYE of one side when the
\* call is over.
AnsweredDialogCleared ==
  \A c \in InCalls : Gone(c) /\ "ACK2xx" \in sent[c] => DialogEnded(c)

\* sendSIPTeardown: a live call whose answer the gateway has ACKed is ended
\* with BYE, unless the PBX ended it.
TeardownSendsBye ==
  \A t \in Threads : At(t, "sendSIPTeardown") =>
    LET c == Cur(t).c
    IN c \in InCalls /\ Live(c) /\ "ACK2xx" \in sent[c] =>
         DialogEnded(c) \/ TeardownSteps(c) = <<StepA("sendSIP", c, "BYE")>>

\* sendLateAnswerBYE: of the goroutines that handle a late 2xx and its
\* retransmissions only one sends the BYE, and none after it was sent.
LateByeOnce ==
  \A t \in Threads : At(t, "lateByeSend") =>
    /\ "lateBYE" \notin sent[Cur(t).c]
    /\ \A u \in Threads \ {t} : At(u, "lateByeSend") => Cur(u).c # Cur(t).c

\* sendOriginationOffhook: the al/of that begins an origination is not sent
\* while an incoming call is on the line, for which al/of means its answer.
NoFalseAnswer ==
  \A t \in Threads : At(t, "offhookSend") => callsByH248 \cap InCalls = {}

\* sendSIPOriginatedResponse: the PBX's INVITE gets one final response.
OneFinalResponse == \A c \in OutCalls : Cardinality(finals[c]) <= 1

\* When no call is left and nothing is running, the line is not left off-hook:
\* al/of of an origination is always followed by al/on.
LineBackOnhook ==
  (\A c \in Calls : call[c].st = "unused" \/ Gone(c)) /\ (\A t \in Threads : Idle(t))
    => hook # "off"

\* HandleH248Unavailable and HandleH248Ready: with an MGC in service, the
\* calls there are belong to it.
CallsOnActiveMGC ==
  \A c \in Calls : line.ready /\ Live(c) => call[c].H248Responder = mgc

\* HandleH248Unavailable: a call the PBX made does not outlive the service of
\* the line; while there is none, the registration loop is releasing it.
OutboundReleasedFirst ==
  \A c \in OutCalls : Live(c) /\ ~ line.ready =>
    \E i \in DOMAIN todo["reg"] : Refers(todo["reg"][i], c)

----------------------------------------------------------------------------
(* What the MGC and the PBX see *)

Protocol == INSTANCE CallProtocol WITH
  Lossy    <- SendError,
  serving  <- line.ready,
  st       <- [c \in Calls |-> call[c].st],
  answered <- {c \in Calls : call[c].SIPAnswered}

\* Whatever goroutines interleave, the messages of the bridge keep to the
\* order of CallProtocol: among others, handleNewSIPInvite admits a call only
\* to a free line in service, sendSIPTeardown and sendLateAnswerBYE send BYE
\* only in a dialog the PBX accepted and whose ACK went out first, and
\* sendCallLineEvent reports an answer only after that.
ImplementsProtocol == Protocol!Spec

\* The messages of a call of the carrier are those of one SIP dialog.
DialogOrder == Protocol!DialogOrder

----------------------------------------------------------------------------
(* Liveness *)

\* The PBX has ended the call, or has been told that it failed.
Ended(c) ==
  \/ call[c].SIPRemoteReleased
  \/ c \in OutCalls /\ finals[c] \cap Failures # {}
  \/ c \in InCalls /\ call[c].SIPInviteFinal /\ pbx[c] \in {"failure", "2xx-bad-sdp"}

\* releaseCall after BYE, CANCEL, a failure response in either direction or
\* an unusable answer: whichever send fails on the way, the call is released.
EndedCallReleased == \A c \in Calls : Ended(c) ~> call[c].st = "released"

\* retransmitInvite: an INVITE the PBX never responds to ends the call.
UnansweredInviteEnds ==
  \A c \in InCalls : "INVITE" \in sent[c] ~>
    call[c].st = "released" \/ call[c].SIPInviteProvisional

\* sendInitialOnhook: once the MGC is in service and has given a request ID,
\* in whichever order the two came, the on-hook state of the line is reported
\* unless the MGC is lost again.  Said of a line that has had no call: the
\* carrier's release of one, delayed until after a failover, also leaves a
\* request ID behind, and nothing follows from that.
LineSynchronised ==
  /\ line.ready /\ line.eventRequestID # Nil
  /\ \A c \in Calls : call[c].st = "unused"
  ~> line.initialOnhookSent \/ ~ line.ready
=============================================================================
