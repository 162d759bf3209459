---------------------------- MODULE CallProtocol ----------------------------
(***************************************************************************)
(* What the call bridge promises those outside: the carrier's MGC, which   *)
(* sees the hook of the line, and the PBX, which sees SIP messages.        *)
(*                                                                         *)
(* There are no goroutines here, no indexes, timers and retransmissions;   *)
(* each step is one message that reaches somebody, or one decision.  The   *)
(* promises are the guards: which message may follow which others.  Bridge *)
(* implements this module (Bridge!ImplementsProtocol).                     *)
(*                                                                         *)
(* What the bridge does not promise has no guard: a CANCEL may overtake    *)
(* the INVITE or cross its answer, a response to the PBX may follow the    *)
(* release of its call, and a second final one the first.                  *)
(***************************************************************************)
CONSTANTS
  InCalls,    \* calls of the carrier, which the PBX is invited to
  OutCalls,   \* calls of the PBX, which the line originates
  Lossy       \* a datagram may be lost when it is sent

VARIABLES
  serving,    \* the line is in the service of an MGC
  st,         \* a call is "unused", "live" or "released"
  answered,   \* calls the gateway considers answered
  sent,       \* messages of each call that reached the PBX, or its digits
              \* that reached the carrier
  pbx,        \* final response of the PBX to the INVITE of a call
  finals,     \* final responses to each INVITE of the PBX
  hook,       \* last event of the line the MGC got
  onhooks     \* al/on events of each call

calls == <<st, answered>>
wire  == <<sent, pbx, finals, hook, onhooks>>
vars  == <<serving, calls, wire>>

Calls == InCalls \cup OutCalls

Init ==
  /\ serving = FALSE
  /\ st = [c \in Calls |-> "unused"]
  /\ answered = {}
  /\ sent = [c \in Calls |-> {}]
  /\ pbx = [c \in InCalls |-> "none"]
  /\ finals = [c \in OutCalls |-> {}]
  /\ hook = "none"
  /\ onhooks = [c \in Calls |-> 0]

Created(c) == st[c] # "unused"
NoCall     == \A c \in Calls : st[c] # "live"

\* The answers of the PBX; it may come with a session that is of no use.
AnswerKinds == {"2xx", "2xx-bad-sdp"}

\* The PBX has its ACK, unless it was lost.
Acked(c) == Lossy \/ "ACK2xx" \in sent[c]

----------------------------------------------------------------------------
(* Service and calls *)

Service ==
  /\ serving' = ~ serving
  /\ UNCHANGED <<calls, wire>>

\* The carrier offers a call.
Offer(c) ==
  /\ c \in InCalls /\ st[c] = "unused"
  /\ st' = [st EXCEPT ![c] = "live"]
  /\ UNCHANGED <<serving, answered, wire>>

\* A call of the PBX is admitted to a line that is in service and free.
Admit(c) ==
  /\ c \in OutCalls /\ st[c] = "unused"
  /\ serving /\ NoCall
  /\ st' = [st EXCEPT ![c] = "live"]
  /\ UNCHANGED <<serving, answered, wire>>

Release(c) ==
  /\ st[c] = "live"
  /\ st' = [st EXCEPT ![c] = "released"]
  /\ UNCHANGED <<serving, answered, wire>>

\* A call of the carrier is answered when the PBX has accepted it, with a
\* session that can be used, and has the ACK.
Answer(c) ==
  /\ c \in InCalls => pbx[c] = "2xx" /\ Acked(c)
  /\ c \in OutCalls => Created(c)
  /\ answered' = answered \cup {c}
  /\ UNCHANGED <<serving, st, wire>>

----------------------------------------------------------------------------
(* The PBX *)

\* When the gateway may send which message for a call.
MaySend(c, m) ==
  \/ /\ c \in InCalls
     /\ \/ m \in {"INVITE", "CANCEL"} /\ Created(c)
        \/ m = "ACK" /\ pbx[c] = "failure"
        \/ m = "ACK2xx" /\ pbx[c] \in AnswerKinds
        \/ m = "lateBYE" /\ st[c] = "released" /\ pbx[c] \in AnswerKinds /\ Acked(c)
  \/ m = "BYE" /\ c \in answered
  \/ m = "digits" /\ c \in OutCalls /\ Created(c)

Send(c, m) ==
  /\ MaySend(c, m)
  /\ sent' = [sent EXCEPT ![c] = @ \cup {m}]
  /\ UNCHANGED <<serving, calls, pbx, finals, hook, onhooks>>

\* The PBX gives an INVITE it got one final response.
Respond(c, kind) ==
  /\ c \in InCalls /\ kind \in AnswerKinds \cup {"failure"}
  /\ "INVITE" \in sent[c] /\ pbx[c] = "none"
  /\ pbx' = [pbx EXCEPT ![c] = kind]
  /\ UNCHANGED <<serving, calls, sent, finals, hook, onhooks>>

\* The gateway responds to the INVITE of the PBX.
Final(c, status) ==
  /\ c \in OutCalls /\ Created(c)
  /\ status = "200" => c \in answered
  /\ finals' = [finals EXCEPT ![c] = @ \cup {status}]
  /\ UNCHANGED <<serving, calls, sent, pbx, hook, onhooks>>

----------------------------------------------------------------------------
(* The hook of the line *)

\* al/of: the answer of a call of the carrier, or the beginning of one of
\* the PBX.
Offhook(c) ==
  /\ c \in answered \/ (c \in OutCalls /\ Created(c))
  /\ hook' = "off"
  /\ UNCHANGED <<serving, calls, sent, pbx, finals, onhooks>>

\* al/on of a call
Onhook(c) ==
  /\ Created(c) /\ onhooks[c] = 0
  /\ hook' = "on"
  /\ onhooks' = [onhooks EXCEPT ![c] = 1]
  /\ UNCHANGED <<serving, calls, sent, pbx, finals>>

\* al/on of a line that begins its service
InitialOnhook ==
  /\ hook' = "on"
  /\ UNCHANGED <<serving, calls, sent, pbx, finals, onhooks>>

Methods  == {"INVITE", "ACK", "ACK2xx", "BYE", "CANCEL", "lateBYE", "digits"}
Statuses == {"200", "487", "500", "503"}

Next ==
  \/ Service
  \/ InitialOnhook
  \/ \E c \in Calls :
       \/ Offer(c) \/ Admit(c) \/ Release(c) \/ Answer(c)
       \/ Offhook(c) \/ Onhook(c)
       \/ \E m \in Methods : Send(c, m)
       \/ \E kind \in AnswerKinds \cup {"failure"} : Respond(c, kind)
       \/ \E status \in Statuses : Final(c, status)

Spec == Init /\ [][Next]_vars

----------------------------------------------------------------------------
(* What the guards amount to *)

\* bridge.go and sip.go: the messages of a call of the carrier are those of
\* one SIP dialog in an order RFC 3261 allows.  A final response follows the
\* INVITE; an ACK for a failure excludes the ACK for an answer and any BYE;
\* a BYE follows the answer and, unless it was lost, its ACK; and the call is
\* taken for answered only when all this has happened.
DialogOrder ==
  \A c \in InCalls :
    /\ pbx[c] # "none" => "INVITE" \in sent[c]
    /\ "ACK" \in sent[c] => pbx[c] = "failure"
    /\ "ACK2xx" \in sent[c] => pbx[c] \in AnswerKinds
    /\ c \in answered => pbx[c] = "2xx" /\ Acked(c)
    /\ "BYE" \in sent[c] => c \in answered
    /\ "lateBYE" \in sent[c] =>
         st[c] = "released" /\ pbx[c] \in AnswerKinds /\ Acked(c)
=============================================================================
