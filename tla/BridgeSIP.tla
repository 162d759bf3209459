----------------------------- MODULE BridgeSIP ------------------------------
(***************************************************************************)
(* The bridge's SIP side (src/internal/bridge/sip.go): the server          *)
(* transactions of calls the PBX makes, the client transactions of calls   *)
(* the carrier makes, teardown, and the INVITEs retained for late answers. *)
(*                                                                         *)
(* CANCEL, BYE and every response may be delivered again.                  *)
(* OPTIONS, INFO, ACK, UPDATE, re-INVITE and responses to CANCEL, BYE and  *)
(* PRACK change no state but media addresses, which are left out.          *)
(***************************************************************************)
EXTENDS BridgeState

Put(c, method) == sent' = [sent EXCEPT ![c] = sent[c] \cup {method}]

----------------------------------------------------------------------------
(* A call the PBX makes *)

\* handleNewSIPInvite, the lookup.  An INVITE for a known Call-ID repeats
\* the last response; one without digits or PCMA is refused.
RecvInvite(t, id) ==
  /\ callsBySIP[id] = Nil
  /\ \E c \in OutCalls :
       /\ Fresh(c)
       /\ Start(t, <<[f |-> "handleNewSIPInvite", c |-> c, id |-> id]>>)
  /\ UNCHANGED <<bridgeVars, timers, serverVars, wireVars>>

\* Mutant: a request ID is taken for the sign that the line is in service.
LineReadyEarly == line.eventRequestID # Nil /\ line.responder # Nil

LineReady == /\ line.ready /\ line.initialOnhookSent
             /\ line.eventRequestID # Nil /\ line.responder # Nil
LineBusy  == outboundCall # Nil \/ callsByH248 # {}

\* ... and the admission to the line, or 486 or 503.
HandleNewSIPInvite(t) ==
  /\ At(t, "handleNewSIPInvite")
  /\ LET o == Cur(t)
         c == o.c
     IN IF ~ LineReady \/ LineBusy
        THEN Then(t, <<>>) /\ UNCHANGED <<call, outboundCall, callsBySIP>>
        ELSE /\ call[c].st = "unused"
             /\ call' = [call EXCEPT ![c] =
                  [NewCall EXCEPT !.st = "live",
                                  !.H248EventRequestID = line.eventRequestID,
                                  !.H248Responder = line.responder,
                                  !.SIPCallID = o.id]]
             /\ outboundCall' = c
             /\ callsBySIP' = [callsBySIP EXCEPT ![o.id] = c]
             /\ Then(t, <<Step("newMediaRelay", c)>>)
  /\ UNCHANGED <<line, callsByH248, pendingH248, retained, timers,
                 serverVars, wireVars>>

NewMediaRelay(t) ==
  /\ At(t, "newMediaRelay")
  /\ LET c == Cur(t).c
     IN \/ /\ relay' = [relay EXCEPT ![c] = "open"]
           /\ Then(t, <<Step("setMedia", c)>>)
        \/ /\ "relay" \in Faults
           /\ Then(t, <<StepA("failSIPOriginatedCall", c, "500"),
                        Step("releaseCall", c)>>)
           /\ UNCHANGED relay
  /\ UNCHANGED <<bridgeVars, timers, serverVars, finals, sent, hook, onhooks, pbx>>

SetMedia(t) ==
  /\ At(t, "setMedia")
  /\ LET c == Cur(t).c
     IN /\ call' = [call EXCEPT ![c].Media = TRUE]
        /\ Then(t, <<StepA("sendSIPOriginatedResponse", c, "100"),
                     Step("scheduleOriginationOffhook", c)>>)
  /\ UNCHANGED <<line, indexVars, pendingH248, retained, timers,
                 serverVars, wireVars>>

\* sendSIPOriginatedResponse, the section
SendSIPOriginatedResponse(t) ==
  /\ At(t, "sendSIPOriginatedResponse")
  /\ LET c == Cur(t).c
         status == Cur(t).a
     IN IF Live(c) /\ ~ (call[c].SIPAnswered /\ status \in Provisionals)
        THEN /\ call' = [call EXCEPT ![c].SIPAnswered =
                           call[c].SIPAnswered \/ status = "200"]
             /\ Then(t, <<StepA("respond", c, status)>>)
        ELSE UNCHANGED call /\ Then(t, <<>>)
  /\ UNCHANGED <<line, indexVars, pendingH248, retained, timers,
                 serverVars, wireVars>>

\* ... and its send; answerSIPOriginatedCall goes on after a 200.
Respond(t) ==
  /\ At(t, "respond")
  /\ LET c == Cur(t).c
         status == Cur(t).a
     IN \/ /\ finals' = IF status \in Provisionals THEN finals
                        ELSE [finals EXCEPT ![c] = finals[c] \cup {status}]
           /\ Then(t, IF status = "200" THEN <<Step("markAnswered", c)>> ELSE <<>>)
        \/ SendError /\ Then(t, <<>>) /\ UNCHANGED finals
  /\ UNCHANGED <<bridgeVars, timers, serverVars, relay, sent, hook, onhooks, pbx>>

AnswerSIPOriginatedCall(t) ==
  /\ At(t, "answerSIPOriginatedCall")
  /\ LET c == Cur(t).c
     IN Then(t, IF Live(c) /\ ~ call[c].SIPAnswered
                THEN <<StepA("sendSIPOriginatedResponse", c, "200")>> ELSE <<>>)
  /\ UNCHANGED <<bridgeVars, timers, serverVars, wireVars>>

MarkAnswered(t) ==
  /\ At(t, "markAnswered")
  /\ call' = [call EXCEPT ![Cur(t).c].H248Answered = TRUE]
  /\ Then(t, <<>>)
  /\ UNCHANGED <<line, indexVars, pendingH248, retained, timers,
                 serverVars, wireVars>>

FailSIPOriginatedCall(t) ==
  /\ At(t, "failSIPOriginatedCall")
  /\ LET c == Cur(t).c
     IN Then(t, IF call[c].SIPAnswered THEN <<>>
                ELSE <<StepA("sendSIPOriginatedResponse", c, Cur(t).a)>>)
  /\ UNCHANGED <<bridgeVars, timers, serverVars, wireVars>>

\* handleSIPCancel; the 200 to the CANCEL itself always goes out.  The lookup
\* and the mark are two sections: a release between them leaves nothing to do.
RecvCancel(t, c) ==
  /\ c \in OutCalls
  /\ Live(c) /\ callsBySIP[call[c].SIPCallID] = c
  /\ call' = [call EXCEPT ![c].SIPRemoteReleased = TRUE]
  /\ Start(t, <<StepA("failSIPOriginatedCall", c, "487"),
                StepA("sendCallLineEvent", c, "onhook"),
                Step("armRelease", c)>>)
  /\ UNCHANGED <<line, indexVars, pendingH248, retained, timers,
                 serverVars, wireVars>>

----------------------------------------------------------------------------
(* A call the carrier makes *)

\* Mutant: a call that was released meanwhile still sends its INVITE.
InviteDueReleased(c) == call[c].SIPCallID = Nil

InviteDue(c) == Live(c) /\ call[c].SIPCallID = Nil

\* startSIPInvite up to the send.
StartSIPInvite(t) ==
  /\ At(t, "startSIPInvite")
  /\ LET c == Cur(t).c
     IN IF InviteDue(c)
        THEN /\ call' = [call EXCEPT ![c].SIPCallID = c]
             /\ callsBySIP' = [callsBySIP EXCEPT ![c] = c]
             /\ Then(t, <<Step("inviteSend", c)>>)
        ELSE UNCHANGED <<call, callsBySIP>> /\ Then(t, <<>>)
  /\ UNCHANGED <<line, callsByH248, outboundCall, pendingH248, retained,
                 timers, serverVars, wireVars>>

InviteSend(t) ==
  /\ At(t, "inviteSend")
  /\ LET c == Cur(t).c
     IN \/ /\ Put(c, "INVITE")
           /\ timers' = timers \cup {Step("retransmitInvite", c)}
           /\ UNCHANGED <<call, callsBySIP>>
        \/ /\ SendError
           /\ call' = [call EXCEPT ![c].SIPCallID = Nil]
           /\ callsBySIP' = [callsBySIP EXCEPT ![c] = Nil]
           /\ UNCHANGED <<sent, timers>>
  /\ Then(t, <<>>)
  /\ UNCHANGED <<line, callsByH248, outboundCall, pendingH248, retained,
                 serverVars, relay, finals, hook, onhooks, pbx>>

\* retransmitInvite: an interval ends.  It sends the INVITE again unless
\* the call is gone or has a response, and then it stops.
RetransmitTick ==
  /\ \E c \in InCalls :
       /\ Step("retransmitInvite", c) \in timers
       /\ \/ callsBySIP[c] = Nil \/ ~ Live(c)
          \/ call[c].SIPInviteProvisional \/ call[c].SIPAnswered
       /\ timers' = timers \ {Step("retransmitInvite", c)}
  /\ UNCHANGED <<bridgeVars, todo, serverVars, wireVars>>

\* Mutant: the deadline reports the on-hook and leaves the call.
DeadlineStepsNoRelease(c) ==
  IF callsBySIP[c] = Nil THEN <<>>
  ELSE <<StepA("sendCallLineEvent", c, "onhook")>>

DeadlineSteps(c) ==
  IF callsBySIP[c] = Nil THEN <<>>
  ELSE <<StepA("sendCallLineEvent", c, "onhook"), Step("releaseCall", c)>>

\* retransmitInvite: the 32 second deadline comes first.
RetransmitDeadline ==
  /\ \E c \in InCalls :
       /\ Step("retransmitInvite", c) \in timers
       /\ timers' = timers \ {Step("retransmitInvite", c)}
       /\ Start("timer", DeadlineSteps(c))
  /\ UNCHANGED <<bridgeVars, serverVars, wireVars>>

\* Mutant: the call is marked answered before the ACK is sent.
ResponseStepsMarkFirst(c, kind) ==
  IF kind = "1xx" THEN <<>>
  ELSE IF kind = "failure"
  THEN <<StepA("sendSIP", c, "ACK"), Step("retainSIPInvite", c),
         StepA("sendCallLineEvent", c, "onhook"), Step("armRelease", c)>>
  ELSE <<Step("sipAnswered", c), StepA("sendSIP", c, "ACK2xx")>>

\* What handleSIPResponse does with a response to the INVITE of a live call.
ResponseSteps(c, kind) ==
  CASE kind = "1xx" -> <<>>
    [] kind = "2xx" ->
         <<StepA("sendSIP", c, "ACK2xx"), Step("sipAnswered", c)>>
    [] kind = "2xx-bad-sdp" ->
         <<StepA("sendSIP", c, "ACK2xx"), Step("sendSIPTeardown", c),
           StepA("sendCallLineEvent", c, "onhook"), Step("releaseCall", c)>>
    [] kind = "failure" ->
         <<StepA("sendSIP", c, "ACK"), Step("retainSIPInvite", c),
           StepA("sendCallLineEvent", c, "onhook"), Step("armRelease", c)>>

\* handleSIPResponse for an INVITE the gateway sent: the first section.
\* The PBX settles on one final response and may repeat it.
RecvResponse(t, c, kind) ==
  /\ "INVITE" \in sent[c]
  /\ kind = "1xx" \/ pbx[c] \in {"none", kind}
  /\ pbx' = IF kind = "1xx" THEN pbx ELSE [pbx EXCEPT ![c] = kind]
  /\ \/ /\ callsBySIP[c] # Nil /\ Live(c)
        /\ call' = [call EXCEPT ![c] =
             [@ EXCEPT !.SIPInviteProvisional = TRUE,
                       !.SIPInviteFinal = call[c].SIPInviteFinal \/ kind # "1xx"]]
        /\ Start(t, ResponseSteps(c, kind))
     \/ /\ callsBySIP[c] = Nil \/ ~ Live(c)
        /\ Start(t, IF retained[c] = "none" THEN <<>>
                    ELSE <<StepA("handleRetainedSIPInviteResponse", c, kind)>>)
        /\ UNCHANGED call
  /\ UNCHANGED <<line, indexVars, pendingH248, retained, timers, serverVars,
                 relay, finals, sent, hook, onhooks>>

\* handleSIPResponse after a good answer; it does not look at Released.
SIPAnswered(t) ==
  /\ At(t, "sipAnswered")
  /\ LET c == Cur(t).c
     IN /\ call' = [call EXCEPT ![c].SIPAnswered = TRUE]
        /\ Then(t, <<StepA("sendCallLineEvent", c, "answer")>>)
  /\ UNCHANGED <<line, indexVars, pendingH248, retained, timers,
                 serverVars, wireVars>>

----------------------------------------------------------------------------
(* The end of a call *)

\* handleSIPBye.  The PBX may leave the dialog it began at any time, and one
\* it answered.
RecvBye(t, c) ==
  /\ Live(c) /\ call[c].SIPCallID # Nil /\ callsBySIP[call[c].SIPCallID] = c
  /\ c \in InCalls => pbx[c] \in {"2xx", "2xx-bad-sdp"}
  /\ call' = [call EXCEPT ![c].SIPRemoteReleased = TRUE]
  /\ Start(t, <<StepA("sendCallLineEvent", c, "onhook"), Step("armRelease", c)>>)
  /\ UNCHANGED <<line, indexVars, pendingH248, retained, timers,
                 serverVars, wireVars>>

\* Mutant: the two directions are confused.
TeardownStepsConfused(c) ==
  IF call[c].SIPCallID = Nil \/ call[c].SIPRemoteReleased THEN <<>>
  ELSE IF call[c].SIPAnswered THEN <<StepA("sendSIP", c, "BYE")>>
  ELSE IF c \in InCalls THEN <<StepA("failSIPOriginatedCall", c, "503")>>
  ELSE IF call[c].SIPInviteFinal THEN <<>>
  ELSE <<Step("retainSIPInvite", c), StepA("sendSIP", c, "CANCEL")>>

\* Mutant: a BYE as soon as the PBX has given its final response.
TeardownStepsFinal(c) ==
  IF call[c].SIPCallID = Nil \/ call[c].SIPRemoteReleased THEN <<>>
  ELSE IF call[c].SIPAnswered \/ call[c].SIPInviteFinal
  THEN <<StepA("sendSIP", c, "BYE")>>
  ELSE IF c \in OutCalls THEN <<StepA("failSIPOriginatedCall", c, "503")>>
  ELSE <<Step("retainSIPInvite", c), StepA("sendSIP", c, "CANCEL")>>

\* sendSIPTeardown: what the gateway owes the PBX
TeardownSteps(c) ==
  IF call[c].SIPCallID = Nil \/ call[c].SIPRemoteReleased THEN <<>>
  ELSE IF call[c].SIPAnswered THEN <<StepA("sendSIP", c, "BYE")>>
  ELSE IF c \in OutCalls THEN <<StepA("failSIPOriginatedCall", c, "503")>>
  ELSE IF call[c].SIPInviteFinal THEN <<>>
  ELSE <<Step("retainSIPInvite", c), StepA("sendSIP", c, "CANCEL")>>

SendSIPTeardown(t) ==
  /\ At(t, "sendSIPTeardown")
  /\ Then(t, TeardownSteps(Cur(t).c))
  /\ UNCHANGED <<bridgeVars, timers, serverVars, wireVars>>

\* ACK, BYE and CANCEL; an error is only logged.
SendSIP(t) ==
  /\ At(t, "sendSIP")
  /\ \/ Put(Cur(t).c, Cur(t).a)
     \/ SendError /\ UNCHANGED sent
  /\ Then(t, <<>>)
  /\ UNCHANGED <<bridgeVars, timers, serverVars, relay, finals, hook, onhooks, pbx>>

----------------------------------------------------------------------------
(* Retained INVITE transactions *)

RetainSIPInvite(t) ==
  /\ At(t, "retainSIPInvite")
  /\ LET c == Cur(t).c
     IN retained' = IF call[c].SIPCallID = Nil \/ retained[c] # "none" THEN retained
                    ELSE [retained EXCEPT ![c] = "kept"]
  /\ Then(t, <<>>)
  /\ UNCHANGED <<line, call, indexVars, pendingH248, timers, serverVars, wireVars>>

\* The sections of the goroutine that handles a late response.
LateResponseSteps == {"handleRetainedSIPInviteResponse", "sendSIP",
                      "sendLateAnswerBYE", "lateByeSend"}

\* The last scheduled expiry finds expiresAt reached.  The 32 seconds are
\* long compared with a handler: whatever else was running for the call when
\* its INVITE was retained has finished, only a late response can be in work.
RetainedExpires ==
  /\ \E c \in InCalls :
       /\ retained[c] # "none"
       /\ \A t \in Threads : \A i \in DOMAIN todo[t] :
            Refers(todo[t][i], c) => todo[t][i].f \in LateResponseSteps
       /\ retained' = [retained EXCEPT ![c] = "none"]
  /\ UNCHANGED <<line, call, indexVars, pendingH248, todo, timers,
                 serverVars, wireVars>>

\* A late provisional response is ignored, a final one is ACKed.
HandleRetainedSIPInviteResponse(t) ==
  /\ At(t, "handleRetainedSIPInviteResponse")
  /\ LET c == Cur(t).c
         kind == Cur(t).a
     IN Then(t, IF retained[c] = "none" \/ kind = "1xx" THEN <<>>
                ELSE IF kind = "failure" THEN <<StepA("sendSIP", c, "ACK")>>
                ELSE <<StepA("sendSIP", c, "ACK2xx"), Step("sendLateAnswerBYE", c)>>)
  /\ UNCHANGED <<bridgeVars, timers, serverVars, wireVars>>

\* Mutant: a late answer that is delivered again gets another BYE.
LateByeDueAgain(c) == retained[c] # "none"

LateByeDue(c) == retained[c] = "kept"

SendLateAnswerBYE(t) ==
  /\ At(t, "sendLateAnswerBYE")
  /\ LET c == Cur(t).c
     IN IF LateByeDue(c)
        THEN /\ retained' = [retained EXCEPT ![c] = "byeSent"]
             /\ Then(t, <<Step("lateByeSend", c)>>)
        ELSE UNCHANGED retained /\ Then(t, <<>>)
  /\ UNCHANGED <<line, call, indexVars, pendingH248, timers, serverVars, wireVars>>

LateByeSend(t) ==
  /\ At(t, "lateByeSend")
  /\ LET c == Cur(t).c
     IN \/ Put(c, "lateBYE") /\ UNCHANGED retained
        \/ /\ SendError
           /\ retained' = IF retained[c] = "none" THEN retained
                          ELSE [retained EXCEPT ![c] = "kept"]
           /\ UNCHANGED sent
  /\ Then(t, <<>>)
  /\ UNCHANGED <<line, call, indexVars, pendingH248, timers, serverVars,
                 relay, finals, hook, onhooks, pbx>>
=============================================================================
