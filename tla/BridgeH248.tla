----------------------------- MODULE BridgeH248 -----------------------------
(***************************************************************************)
(* The bridge's H.248 side (src/internal/bridge/h248.go): the handlers of  *)
(* the MGC's transactions and replies, the lifecycle callbacks of the      *)
(* registration loop, and the line events the gateway reports.             *)
(*                                                                         *)
(* A Transaction is one command; one with several commands runs them one   *)
(* after the other, as separate Transactions can.  The H.248 server passes *)
(* on what comes from the MGC it registers with or serves, and audits from *)
(* anywhere (UDPServer.handle).                                            *)
(***************************************************************************)
EXTENDS BridgeState

----------------------------------------------------------------------------
(* Line events: al/of and al/on in a Notify *)

\* The network takes a line event of the physical termination.
HookEvent(event) == hook' = event

\* A successful al/on of a call is counted, up to "more than one".
CountOnhook(c) ==
  onhooks' = [onhooks EXCEPT ![c] = IF onhooks[c] = 0 THEN 1 ELSE 2]

\* sendInitialOnhook, the section
SendInitialOnhook(t) ==
  /\ At(t, "sendInitialOnhook")
  /\ IF /\ line.ready /\ ~ line.initialOnhookSent
        /\ line.eventRequestID # Nil /\ line.responder # Nil
     THEN /\ line' = [line EXCEPT !.initialOnhookSent = TRUE]
          /\ Then(t, <<LineStep("initialOnhookSend")>>)
     ELSE UNCHANGED line /\ Then(t, <<>>)
  /\ UNCHANGED <<call, indexVars, pendingH248, retained, timers, serverVars, wireVars>>

InitialOnhookSend(t) ==
  /\ At(t, "initialOnhookSend")
  /\ \/ HookEvent("on") /\ UNCHANGED line
     \/ /\ SendError
        /\ line' = [line EXCEPT !.initialOnhookSent = FALSE]
        /\ UNCHANGED hook
  /\ Then(t, <<>>)
  /\ UNCHANGED <<call, indexVars, pendingH248, retained, timers, serverVars,
                 relay, finals, sent, onhooks, pbx>>

\* Mutant: H248OnhookSent is not looked at.
LineEventDueAgain(c, phase) ==
  /\ Live(c)
  /\ call[c].H248Responder # Nil
  /\ call[c].H248EventRequestID # Nil
  /\ phase = "answer" => call[c].SIPAnswered /\ ~ call[c].H248Answered

\* What sendCallLineEvent asks of a call before it reports phase.
LineEventDue(c, phase) ==
  /\ Live(c)
  /\ call[c].H248Responder # Nil
  /\ call[c].H248EventRequestID # Nil
  /\ phase = "answer" => call[c].SIPAnswered /\ ~ call[c].H248Answered
  /\ phase = "onhook" => ~ call[c].H248OnhookSent

SetLineEventFlag(c, phase, value) ==
  call' = IF phase = "answer" THEN [call EXCEPT ![c].H248Answered = value]
          ELSE [call EXCEPT ![c].H248OnhookSent = value]

\* sendCallLineEvent, the section
SendCallLineEvent(t) ==
  /\ At(t, "sendCallLineEvent")
  /\ LET c == Cur(t).c
         phase == Cur(t).a
     IN IF LineEventDue(c, phase)
        THEN /\ SetLineEventFlag(c, phase, TRUE)
             /\ pendingH248' = IF phase = "onhook" THEN pendingH248
                               ELSE pendingH248 \cup {[c |-> c, phase |-> phase]}
             /\ Then(t, <<StepA("lineEventSend", c, phase)>>)
        ELSE UNCHANGED <<call, pendingH248>> /\ Then(t, <<>>)
  /\ UNCHANGED <<line, indexVars, retained, timers, serverVars, wireVars>>

\* ... and its send
LineEventSend(t) ==
  /\ At(t, "lineEventSend")
  /\ LET c == Cur(t).c
         phase == Cur(t).a
     IN \/ /\ IF phase = "onhook" THEN HookEvent("on") /\ CountOnhook(c)
              ELSE HookEvent("off") /\ UNCHANGED onhooks
           /\ UNCHANGED <<call, pendingH248>>
        \/ /\ SendError
           /\ SetLineEventFlag(c, phase, FALSE)
           /\ pendingH248' = pendingH248 \ {[c |-> c, phase |-> phase]}
           /\ UNCHANGED <<hook, onhooks>>
  /\ Then(t, <<>>)
  /\ UNCHANGED <<line, indexVars, retained, timers, serverVars,
                 relay, finals, sent, pbx>>

----------------------------------------------------------------------------
(* Registration callbacks, on the goroutine of the registration loop *)

\* The registration, as far as the bridge sees it.
Service == INSTANCE MGCService

\* registerTermination names the MGC whose messages are accepted from now on.
RegistrationStarts ==
  /\ mgc = Nil /\ Idle("reg")
  /\ Service!Try
  /\ UNCHANGED <<bridgeVars, todo, timers, wireVars>>

\* The candidate does not answer; the loop goes on with another one.
RegistrationFails ==
  /\ "mgc" \in Faults
  /\ mgc # Nil
  /\ Service!Try
  /\ UNCHANGED <<bridgeVars, todo, timers, wireVars>>

\* Mutant: only a request ID that comes later triggers the on-hook.
ReadyStepsForgotten == <<>>

\* A request ID that came before the registration was complete is used now.
ReadySteps == IF line.eventRequestID # Nil
              THEN <<LineStep("sendInitialOnhook")>> ELSE <<>>

HandleH248Ready ==
  /\ Service!Serve
  /\ line' = [line EXCEPT !.ready = TRUE, !.responder = mgc]
  /\ Start("reg", ReadySteps)
  /\ UNCHANGED <<call, indexVars, pendingH248, retained, timers, wireVars>>

\* Mutant: the call being originated, which has no Context yet, is missed.
ActiveCallsWithContext == callsByH248

\* The calls HandleH248Unavailable releases.
ActiveCalls == callsByH248 \cup ({outboundCall} \ {Nil})

HandleH248Unavailable ==
  /\ "mgc" \in Faults
  /\ Service!Lose
  /\ line' = IdleLine
  /\ pendingH248' = {}
  /\ Start("reg", <<EachOf("unavailableCalls", ActiveCalls)>>)
  /\ UNCHANGED <<call, indexVars, retained, timers, wireVars>>

\* The loop over the snapshot, in any order.
UnavailableCalls(t) ==
  /\ At(t, "unavailableCalls")
  /\ LET cs == Cur(t).cs
     IN \/ cs = {} /\ Then(t, <<>>)
        \/ \E c \in cs :
             Then(t, <<Step("sendSIPTeardown", c), Step("releaseCall", c),
                       EachOf("unavailableCalls", cs \ {c})>>)
  /\ UNCHANGED <<bridgeVars, timers, serverVars, wireVars>>

----------------------------------------------------------------------------
(* HandleH248: an Add of the physical and a new ephemeral termination *)

\* The call's request ID after a command of the MGC that may carry a new one.
RequestID(c, from, given) == IF given THEN from ELSE call[c].H248EventRequestID

\* Mutant: any Add belongs to the call being originated.
AddIsOutboundEarly == outboundCall # Nil /\ Live(outboundCall)

\* The Add is taken for the call being originated once its digits are out.
AddIsOutbound == /\ outboundCall # Nil
                 /\ Live(outboundCall) /\ call[outboundCall].H248DigitsSent

RecvAdd(t, req) ==
  /\ mgc # Nil
  /\ IF AddIsOutbound
     THEN Start(t, <<[f |-> "handleOutboundCallAdd", c |-> outboundCall,
                      from |-> mgc, req |-> req]>>)
     ELSE \E c \in InCalls :
            /\ Fresh(c)
            /\ Start(t, <<[f |-> "handleIncomingCallAdd", c |-> c,
                           from |-> mgc, req |-> req]>>)
  /\ UNCHANGED <<bridgeVars, timers, serverVars, wireVars>>

\* handleIncomingCallAdd up to the relay.  The Call object is the
\* goroutine's own until it is inserted.
HandleIncomingCallAdd(t) ==
  /\ At(t, "handleIncomingCallAdd")
  /\ \/ /\ relay' = [relay EXCEPT ![Cur(t).c] = "open"]
        /\ Then(t, <<[f |-> "insertContext", c |-> Cur(t).c,
                       from |-> Cur(t).from, req |-> Cur(t).req]>>)
     \/ /\ "relay" \in Faults                  \* error 510
        /\ Then(t, <<>>) /\ UNCHANGED relay
  /\ UNCHANGED <<bridgeVars, timers, serverVars, finals, sent, hook, onhooks, pbx>>

InsertContext(t) ==
  /\ At(t, "insertContext")
  /\ LET o == Cur(t)
     IN /\ call[o.c].st = "unused"
        /\ call' = [call EXCEPT ![o.c] =
             [NewCall EXCEPT !.st = "live",
                             !.H248ContextAllocated = TRUE,
                             !.H248EventRequestID = IF o.req THEN o.from ELSE Nil,
                             !.H248Responder = o.from,
                             !.Media = TRUE]]
        /\ callsByH248' = callsByH248 \cup {o.c}
        /\ Then(t, <<Step("incomingAddReply", o.c)>>)
  /\ UNCHANGED <<line, callsBySIP, outboundCall, pendingH248, retained,
                 timers, serverVars, wireVars>>

IncomingAddReply(t) ==
  /\ At(t, "incomingAddReply")
  /\ \/ Then(t, <<>>)
     \/ SendError /\ Then(t, <<Step("releaseCall", Cur(t).c)>>)
  /\ UNCHANGED <<bridgeVars, timers, serverVars, wireVars>>

\* Mutant: the call is not checked again after the lookup.
AddAcceptedUnchecked(c) == ~ call[c].H248ContextAllocated

\* What handleOutboundCallAdd asks of the call, or it answers error 510.
AddAccepted(c) == Live(c) /\ ~ call[c].H248ContextAllocated

HandleOutboundCallAdd(t) ==
  /\ At(t, "handleOutboundCallAdd")
  /\ LET o == Cur(t)
         c == o.c
     IN IF AddAccepted(c)
        THEN /\ call' = [call EXCEPT ![c] =
                  [@ EXCEPT !.H248ContextAllocated = TRUE,
                            !.H248Responder = o.from,
                            !.H248EventRequestID = RequestID(c, o.from, o.req)]]
             /\ callsByH248' = callsByH248 \cup {c}
             /\ Then(t, <<Step("outboundAddReply", c)>>)
        ELSE UNCHANGED <<call, callsByH248>> /\ Then(t, <<>>)
  /\ UNCHANGED <<line, callsBySIP, outboundCall, pendingH248, retained,
                 timers, serverVars, wireVars>>

OutboundAddReply(t) ==
  /\ At(t, "outboundAddReply")
  /\ LET c == Cur(t).c
     IN \/ Then(t, <<StepA("sendSIPOriginatedResponse", c, "183")>>)
        \/ /\ SendError
           /\ Then(t, <<StepA("failSIPOriginatedCall", c, "503"),
                        Step("releaseCall", c)>>)
  /\ UNCHANGED <<bridgeVars, timers, serverVars, wireVars>>

----------------------------------------------------------------------------
(* Origination: al/of, then the digits *)

ScheduleOriginationOffhook(t) ==
  /\ At(t, "scheduleOriginationOffhook")
  /\ LET c == Cur(t).c
     IN timers' = IF Live(c) /\ ~ call[c].H248OffhookSent
                  THEN timers \cup {Step("sendOriginationOffhook", c)}
                  ELSE timers
  /\ Then(t, <<>>)
  /\ UNCHANGED <<bridgeVars, serverVars, wireVars>>

SendOriginationOffhook(t) ==
  /\ At(t, "sendOriginationOffhook")
  /\ LET c == Cur(t).c
     IN IF /\ Live(c) /\ ~ call[c].H248OffhookSent
           /\ line.ready /\ line.initialOnhookSent
           /\ line.eventRequestID # Nil /\ line.responder # Nil
        THEN /\ call' = [call EXCEPT ![c] =
                  [@ EXCEPT !.H248Responder = line.responder,
                            !.H248EventRequestID = line.eventRequestID,
                            !.H248OffhookSent = TRUE]]
             /\ pendingH248' = pendingH248 \cup
                                 {[c |-> c, phase |-> "origination-offhook"]}
             /\ Then(t, <<Step("offhookSend", c)>>)
        ELSE /\ UNCHANGED <<call, pendingH248>>
             /\ Then(t, <<StepA("failSIPOriginatedCall", c, "503"),
                          Step("releaseCall", c)>>)
  /\ UNCHANGED <<line, indexVars, retained, timers, serverVars, wireVars>>

OffhookSend(t) ==
  /\ At(t, "offhookSend")
  /\ LET c == Cur(t).c
     IN \/ /\ HookEvent("off")
           /\ Then(t, <<>>)
           /\ UNCHANGED <<call, pendingH248>>
        \/ /\ SendError
           /\ call' = [call EXCEPT ![c].H248OffhookSent = FALSE]
           /\ pendingH248' = pendingH248 \ {[c |-> c, phase |-> "origination-offhook"]}
           /\ Then(t, <<StepA("failSIPOriginatedCall", c, "503"),
                        Step("releaseCall", c)>>)
           /\ UNCHANGED hook
  /\ UNCHANGED <<line, indexVars, retained, timers, serverVars,
                 relay, finals, sent, onhooks, pbx>>

ScheduleOriginationDigits(t) ==
  /\ At(t, "scheduleOriginationDigits")
  /\ LET c == Cur(t).c
     IN IF /\ Live(c)
           /\ ~ call[c].H248DigitsSent /\ ~ call[c].H248DigitsScheduled
        THEN /\ call' = [call EXCEPT ![c].H248DigitsScheduled = TRUE]
             /\ timers' = timers \cup {Step("sendOriginationDigits", c)}
        ELSE UNCHANGED <<call, timers>>
  /\ Then(t, <<>>)
  /\ UNCHANGED <<line, indexVars, pendingH248, retained, serverVars, wireVars>>

SendOriginationDigits(t) ==
  /\ At(t, "sendOriginationDigits")
  /\ LET c == Cur(t).c
         due == /\ Live(c) /\ ~ call[c].H248DigitsSent
                /\ call[c].H248Responder # Nil
                /\ call[c].H248EventRequestID # Nil
     IN /\ call' = [call EXCEPT ![c] =
                      [@ EXCEPT !.H248DigitsScheduled = FALSE,
                                !.H248DigitsSent = call[c].H248DigitsSent \/ due]]
        /\ IF due
           THEN /\ pendingH248' = pendingH248 \cup
                                    {[c |-> c, phase |-> "origination-digits"]}
                /\ Then(t, <<Step("digitsSend", c)>>)
           ELSE UNCHANGED pendingH248 /\ Then(t, <<>>)
  /\ UNCHANGED <<line, indexVars, retained, timers, serverVars, wireVars>>

DigitsSend(t) ==
  /\ At(t, "digitsSend")
  /\ LET c == Cur(t).c
     IN \/ /\ sent' = [sent EXCEPT ![c] = sent[c] \cup {"digits"}]
           /\ Then(t, <<>>)
           /\ UNCHANGED <<call, pendingH248>>
        \/ /\ SendError
           /\ call' = [call EXCEPT ![c].H248DigitsSent = FALSE]
           /\ pendingH248' = pendingH248 \ {[c |-> c, phase |-> "origination-digits"]}
           /\ Then(t, <<StepA("failSIPOriginatedCall", c, "503"),
                        Step("releaseCall", c)>>)
           /\ UNCHANGED sent
  /\ UNCHANGED <<line, indexVars, retained, timers, serverVars,
                 relay, finals, hook, onhooks, pbx>>

----------------------------------------------------------------------------
(* processH248Command *)

\* A command for the line in the null Context: its first section.
RecvLineCommand(t, cmd) ==
  /\ mgc # Nil
  /\ cmd.act \in LineActs
  /\ line' = IF cmd.req
             THEN [line EXCEPT !.eventRequestID = mgc, !.responder = mgc]
             ELSE line
  /\ Start(t, (IF cmd.req /\ line.ready
               THEN <<LineStep("sendInitialOnhook")>> ELSE <<>>)
              \o <<[f |-> "lineCommand", from |-> mgc, cmd |-> cmd]>>)
  /\ UNCHANGED <<call, indexVars, pendingH248, retained, timers,
                 serverVars, wireVars>>

\* ... and the one that looks after the call being originated.
LineCommand(t) ==
  /\ At(t, "lineCommand")
  /\ LET o == Cur(t)
         waiting == /\ outboundCall # Nil
                    /\ call[outboundCall].H248OffhookSent
                    /\ ~ call[outboundCall].H248DigitsSent
     IN /\ call' = IF waiting /\ o.cmd.req
                   THEN [call EXCEPT ![outboundCall] =
                           [@ EXCEPT !.H248EventRequestID = o.from,
                                     !.H248Responder = o.from]]
                   ELSE call
        /\ Then(t, IF waiting /\ o.cmd.act = "digits"
                   THEN <<Step("scheduleOriginationDigits", outboundCall)>>
                   ELSE <<>>)
  /\ UNCHANGED <<line, indexVars, pendingH248, retained, timers,
                 serverVars, wireVars>>

\* The MGCs whose command the H.248 server lets through.
Senders(cmd) == IF cmd.act = "audit" THEN MGCs ELSE MGCs \cap {mgc}

\* A command for a call's Context: findCallByContext.
RecvContextCommand(t, c, cmd) ==
  /\ cmd.act \in ContextActs
  /\ c \in callsByH248
  /\ \E from \in Senders(cmd) :
       Start(t, <<[f |-> "contextCommand", c |-> c, from |-> from, cmd |-> cmd]>>)
  /\ UNCHANGED <<bridgeVars, timers, serverVars, wireVars>>

\* Mutant: a request ID that comes after the answer does not report it.
CommandStepsNoAnswer(c, cmd) ==
  (IF c \in OutCalls /\ cmd.act = "media"
   THEN <<Step("answerSIPOriginatedCall", c)>> ELSE <<>>)
  \o (IF c \in InCalls /\ cmd.act = "ring"
      THEN <<Step("startSIPInvite", c)>> ELSE <<>>)
  \o (IF cmd.act \in {"Subtract", "clear"}
      THEN <<StepA("handleCarrierRelease", c, cmd.act = "Subtract")>> ELSE <<>>)

\* What the rest of processH248Command does with the call.  Media commands
\* name the ephemeral termination, the others the line.
CommandSteps(c, cmd) ==
  (IF c \in OutCalls /\ cmd.act = "media"
   THEN <<Step("answerSIPOriginatedCall", c)>> ELSE <<>>)
  \o (IF c \in InCalls /\ cmd.act = "ring"
      THEN <<Step("startSIPInvite", c)>> ELSE <<>>)
  \o (IF cmd.act \in {"Subtract", "clear"}
      THEN <<StepA("handleCarrierRelease", c, cmd.act = "Subtract")>>
      ELSE IF cmd.req THEN <<StepA("sendCallLineEvent", c, "answer")>>
      ELSE <<>>)

ContextCommand(t) ==
  /\ At(t, "contextCommand")
  /\ LET o == Cur(t)
     IN /\ call' = [call EXCEPT ![o.c] =
             [@ EXCEPT !.H248Responder = o.from,
                       !.H248EventRequestID =
                          RequestID(o.c, o.from, o.cmd.req /\ o.cmd.act # "media")]]
        /\ Then(t, CommandSteps(o.c, o.cmd))
  /\ UNCHANGED <<line, indexVars, pendingH248, retained, timers,
                 serverVars, wireVars>>

\* A Subtract of every Context: releaseAllCallsFromCarrier takes a snapshot.
RecvSubtractAll(t) ==
  /\ mgc # Nil
  /\ callsByH248 # {}
  /\ Start(t, <<EachOf("releaseAllCallsFromCarrier", callsByH248)>>)
  /\ UNCHANGED <<bridgeVars, timers, serverVars, wireVars>>

ReleaseAllCallsFromCarrier(t) ==
  /\ At(t, "releaseAllCallsFromCarrier")
  /\ LET cs == Cur(t).cs
     IN \/ cs = {} /\ Then(t, <<>>)
        \/ \E c \in cs :
             Then(t, <<StepA("handleCarrierRelease", c, TRUE),
                       EachOf("releaseAllCallsFromCarrier", cs \ {c})>>)
  /\ UNCHANGED <<bridgeVars, timers, serverVars, wireVars>>

HandleCarrierRelease(t) ==
  /\ At(t, "handleCarrierRelease")
  /\ LET c == Cur(t).c
         contextReleased == Cur(t).a
         needsOnhook == /\ ~ call[c].H248OnhookSent
                        /\ call[c].H248OffhookSent \/ call[c].H248Answered
     IN /\ call' = [call EXCEPT ![c].H248ContextAllocated =
                      call[c].H248ContextAllocated /\ ~ contextReleased]
        /\ line' = IF /\ contextReleased
                      /\ call[c].H248EventRequestID # Nil
                      /\ call[c].H248Responder # Nil
                   THEN [line EXCEPT !.eventRequestID = call[c].H248EventRequestID,
                                     !.responder = call[c].H248Responder]
                   ELSE line
        /\ Then(t, (IF needsOnhook
                    THEN <<StepA("sendCallLineEvent", c, "onhook")>> ELSE <<>>)
                   \o <<Step("sendSIPTeardown", c), Step("releaseCall", c)>>)
  /\ UNCHANGED <<indexVars, pendingH248, retained, timers, serverVars, wireVars>>

----------------------------------------------------------------------------
(* HandleH248Response: the Reply to a transaction of the gateway *)

\* Call.ID, which pendingH248 records: "h248-" and the Context of an
\* incoming call, "sip-" and the Call-ID of an outbound one.
CallIdent(c) == IF c \in InCalls THEN c ELSE call[c].SIPCallID

\* The calls the lookup by ID can return.
PendingCalls(p) ==
  {d \in ActiveCalls : CallIdent(d) = CallIdent(p.c)}

RecvReply(t, p, isError) ==
  /\ mgc # Nil
  /\ p \in pendingH248
  /\ isError => "reject" \in Faults
  /\ pendingH248' = pendingH248 \ {p}
  /\ \/ /\ ~ isError \/ PendingCalls(p) = {}
        /\ Start(t, <<>>)
        /\ UNCHANGED call
     \/ \E c \in PendingCalls(p) :
          /\ isError /\ p.phase = "answer"
          /\ call' = [call EXCEPT ![c].H248Answered = FALSE]
          /\ Start(t, <<>>)
     \/ \E c \in PendingCalls(p) :
          /\ isError /\ p.phase \in {"origination-offhook", "origination-digits"}
          /\ Start(t, <<StepA("failSIPOriginatedCall", c, "503"),
                        Step("releaseCall", c)>>)
          /\ UNCHANGED call
  /\ UNCHANGED <<line, indexVars, retained, timers, serverVars, wireVars>>
=============================================================================
