------------------------ MODULE BridgeProtocolProofs ------------------------
(***************************************************************************)
(* The bridge implements CallProtocol, for any calls, MGCs, goroutines and *)
(* faults: every section either sends what the protocol allows at that     *)
(* moment, takes one of its decisions, or is invisible.                    *)
(*                                                                         *)
(* A message is often decided on in one section and sent in another one.   *)
(* What allowed the decision must still hold when the message goes out,    *)
(* and it does because it is of a kind that lasts: that the call exists,   *)
(* that the PBX has given its final response, that an ACK went out.        *)
(* Founded collects the sections that have such a ground, GroundsInv says  *)
(* that every pending section has one, and Kept that a step takes none     *)
(* away.                                                                   *)
(***************************************************************************)
EXTENDS BridgeSafetyProofs

----------------------------------------------------------------------------
(* Grounds *)

Created(c) == call[c].st # "unused"
Acked(c)   == SendError \/ "ACK2xx" \in sent[c]
AnswerKinds == {"2xx", "2xx-bad-sdp"}

\* Sections that say nothing about any call that exists.
Groundless == {"handleNewSIPInvite", "handleIncomingCallAdd", "insertContext",
               "lineCommand", "sendInitialOnhook", "initialOnhookSend"}
LoopSections == {"releaseAllCallsFromCarrier", "unavailableCalls"}

\* What allows a message of sendSIP.
SIPGround(c, m) ==
  CASE m = "ACK"    -> c \in InCalls /\ pbx[c] = "failure"
    [] m = "ACK2xx" -> c \in InCalls /\ pbx[c] \in AnswerKinds
    [] m = "BYE"    -> call[c].SIPAnswered
    [] OTHER        -> c \in InCalls

\* The sections that have a ground.
Founded == {o \in Op :
  /\ o.f \notin Groundless \cup LoopSections => Created(o.c)
  /\ o.f \in LoopSections => \A c \in o.cs : Created(c)
  /\ o.f = "sendSIP" => SIPGround(o.c, o.a)
  /\ o.f = "respond" /\ o.a = "200" => call[o.c].SIPAnswered
  /\ o.f = "lineEventSend" /\ o.a = "answer" => call[o.c].SIPAnswered
  /\ o.f = "sipAnswered" => pbx[o.c] = "2xx"
  /\ o.f = "handleRetainedSIPInviteResponse" /\ o.a # "1xx" => pbx[o.c] = o.a
  /\ o.f \in {"sendLateAnswerBYE", "lateByeSend"} => pbx[o.c] \in AnswerKinds}

\* The ACK of an answer, and the sections that come after it.
Ack(c)       == StepA("sendSIP", c, "ACK2xx")
AfterAcks(c) == Of({"sipAnswered", "sendLateAnswerBYE", "lateByeSend"}, c)

GroundsInv ==
  /\ \A t \in Threads : \A i \in DOMAIN todo[t] :
       /\ todo[t][i] \in Founded
       /\ \A c \in InCalls : todo[t][i] \in AfterAcks(c) =>
            Acked(c) \/ (i - 1 \in DOMAIN todo[t] /\ todo[t][i - 1] = Ack(c))
  /\ \A o \in timers : Created(o.c)
  /\ \A c \in Calls : call[c].SIPAnswered => Created(c)
  /\ \A c \in InCalls : call[c].SIPAnswered => pbx[c] = "2xx" /\ Acked(c)

\* What a step does not take away.
Kept ==
  /\ \A c \in Calls : /\ Created(c) => Created(c)'
                      /\ call[c].SIPAnswered => call'[c].SIPAnswered
                      /\ "ACK2xx" \in sent[c] => "ACK2xx" \in sent'[c]
  /\ \A c \in InCalls : pbx[c] # "none" => pbx'[c] = pbx[c]

\* The call a section works on, where it has one.
LEMMA OpCalls ==
  ASSUME NEW o \in Op
  PROVE  /\ o.f \notin {"lineCommand", "sendInitialOnhook", "initialOnhookSend"}
                        \cup LoopSections => o.c \in Calls
         /\ o.f \in LoopSections => o.cs \subseteq Calls
         /\ o.f \in InviteSteps \cup {"handleRetainedSIPInviteResponse"} => o.c \in InCalls
         /\ o.f = "sendSIP" => o.a \in {"ACK", "ACK2xx", "BYE", "CANCEL"}
BY DEF Op, CallSteps, OriginationSteps, InviteSteps, Calls, LoopSections

LEMMA FoundedKept ==
  ASSUME Kept
  PROVE  Founded \subseteq Founded'
<1> SUFFICES ASSUME NEW o \in Founded PROVE o \in Founded' OBVIOUS
<1>1. o \in Op BY DEF Founded
<1>2. o.f \notin Groundless \cup LoopSections => o.c \in Calls BY <1>1, OpCalls DEF Groundless
<1>3. o.f \notin Groundless \cup LoopSections => Created(o.c)'
  BY <1>2 DEF Founded, Kept
<1>4. o.f \in LoopSections => \A c \in o.cs : Created(c)'
  BY <1>1, OpCalls DEF Founded, Kept
<1>5. o.f = "sendSIP" => SIPGround(o.c, o.a)'
  BY <1>2 DEF Founded, Kept, SIPGround, AnswerKinds, Groundless, LoopSections
<1>6. /\ o.f = "respond" /\ o.a = "200" => call'[o.c].SIPAnswered
      /\ o.f = "lineEventSend" /\ o.a = "answer" => call'[o.c].SIPAnswered
  BY <1>2 DEF Founded, Kept, Groundless, LoopSections
<1>7. /\ o.f = "sipAnswered" => pbx'[o.c] = "2xx"
      /\ o.f = "handleRetainedSIPInviteResponse" /\ o.a # "1xx" => pbx'[o.c] = o.a
      /\ o.f \in {"sendLateAnswerBYE", "lateByeSend"} => pbx'[o.c] \in AnswerKinds
  <2>1. o.f = "handleRetainedSIPInviteResponse" => o.a # "none"
    BY <1>1 DEF Op, CallSteps, OriginationSteps, InviteSteps, SIPResponses
  <2> QED BY <1>1, <2>1, OpCalls DEF Founded, Kept, AnswerKinds, InviteSteps
<1> QED BY <1>1, <1>3, <1>4, <1>5, <1>6, <1>7 DEF Founded

\* The sections a step leaves have their grounds after it.
Backed(ops) ==
  \A i \in DOMAIN ops :
    /\ ops[i] \in Founded'
    /\ \A c \in InCalls : ops[i] \in AfterAcks(c) =>
         Acked(c)' \/ (i - 1 \in DOMAIN ops /\ ops[i - 1] = Ack(c))

\* What a step of a thread has to do for GroundsInv to survive.
GroundStep(t, ops) ==
  /\ Kept
  /\ Backed(ops)
  /\ \A c \in InCalls : Running(t, {Ack(c)}) => Acked(c)'
  /\ \A o \in timers' : o \in timers \/ Created(o.c)'
  /\ \A c \in Calls : call'[c].SIPAnswered =>
       \/ call[c].SIPAnswered
       \/ Created(c)' /\ (c \in InCalls => pbx'[c] = "2xx" /\ Acked(c)')

LEMMA GroundsPreserved ==
  ASSUME TypeOK, TypeOK', GroundsInv, NEW t \in Threads, NEW ops \in Seq(Op),
         Moves(t, ops), GroundStep(t, ops)
  PROVE  GroundsInv'
<1>1. Founded \subseteq Founded' BY FoundedKept DEF GroundStep
<1>2. \A c \in InCalls : c \in Calls /\ (Acked(c) => Acked(c)')
  BY DEF GroundStep, Kept, Acked, Calls
<1>3. ASSUME NEW u \in Threads, NEW i \in DOMAIN todo'[u]
      PROVE  /\ todo'[u][i] \in Founded'
             /\ \A c \in InCalls : todo'[u][i] \in AfterAcks(c) =>
                  Acked(c)' \/ (i - 1 \in DOMAIN todo'[u] /\ todo'[u][i - 1] = Ack(c))
  <2> DEFINE n == Len(ops)
             k == IF todo[t] = <<>> THEN 0 ELSE 1
  <2>1. /\ u # t => todo'[u] = todo[u]
        /\ \A j \in DOMAIN ops : j \in DOMAIN todo'[t] /\ todo'[t][j] = ops[j]
        /\ \A j \in DOMAIN todo'[t] :
             \/ j \in DOMAIN ops
             \/ /\ j > n /\ j - n + k \in DOMAIN todo[t]
                /\ todo'[t][j] = todo[t][j - n + k]
        /\ \A j \in DOMAIN todo[t] :
             \/ j = 1 /\ k = 1
             \/ /\ j - k + n \in DOMAIN todo'[t]
                /\ todo'[t][j - k + n] = todo[t][j]
    BY MovedThread
  <2>2. CASE u # t
    <3>1. todo'[u] = todo[u] /\ i \in DOMAIN todo[u] BY <2>1, <2>2
    <3>2. /\ todo[u][i] \in Founded
          /\ \A c \in InCalls : todo[u][i] \in AfterAcks(c) =>
               Acked(c) \/ (i - 1 \in DOMAIN todo[u] /\ todo[u][i - 1] = Ack(c))
      BY <3>1 DEF GroundsInv
    <3> QED BY <1>1, <1>2, <3>1, <3>2
  <2>3. CASE u = t /\ i \in DOMAIN ops
    <3>1. todo'[t][i] = ops[i] BY <2>1, <2>3
    <3> QED BY <2>1, <2>3, <3>1 DEF GroundStep, Backed
  <2>4. CASE u = t /\ i \notin DOMAIN ops
    <3> DEFINE j == i - n + k
    <3>1. j \in DOMAIN todo[t] /\ todo'[t][i] = todo[t][j] /\ i > n
      BY <2>1, <2>4
    <3>2. /\ todo[t][j] \in Founded
          /\ \A c \in InCalls : todo[t][j] \in AfterAcks(c) =>
               Acked(c) \/ (j - 1 \in DOMAIN todo[t] /\ todo[t][j - 1] = Ack(c))
      BY <3>1 DEF GroundsInv
    <3>3. ASSUME NEW c \in InCalls, j - 1 \in DOMAIN todo[t], todo[t][j - 1] = Ack(c)
          PROVE  Acked(c)' \/ (i - 1 \in DOMAIN todo'[t] /\ todo'[t][i - 1] = Ack(c))
      <4>1. /\ todo[t] \in Seq(Op) /\ n \in Nat /\ k \in {0, 1}
            /\ DOMAIN todo'[t] \subseteq Int
        BY DEF TypeOK
      <4>2. i \in Int BY <2>4, <4>1
      <4>3. CASE j - 1 = 1 /\ k = 1
        <5>1. todo[t] # <<>> /\ Cur(t) = Ack(c) BY <3>3, <4>1, <4>3 DEF Cur
        <5> QED BY <5>1 DEF GroundStep, Running
      <4>4. CASE ~ (j - 1 = 1 /\ k = 1)
        <5>1. /\ (j - 1) - k + n \in DOMAIN todo'[t]
              /\ todo'[t][(j - 1) - k + n] = todo[t][j - 1]
          BY <2>1, <3>3, <4>4
        <5>2. (j - 1) - k + n = i - 1 BY <4>1, <4>2
        <5> QED BY <3>3, <5>1, <5>2
      <4> QED BY <4>3, <4>4
    <3> HIDE DEF j, n, k
    <3> QED BY <1>1, <1>2, <2>4, <3>1, <3>2, <3>3
  <2> QED BY <2>2, <2>3, <2>4
<1>4. \A o \in timers' : Created(o.c)'
  <2>1. \A o \in timers : o.c \in Calls
    BY DEF TypeOK, Timer, Calls
  <2> QED BY <2>1 DEF GroundStep, GroundsInv, Kept
<1>5. \A c \in Calls : call'[c].SIPAnswered => Created(c)'
  BY DEF GroundStep, GroundsInv, Kept
<1>6. \A c \in InCalls : call'[c].SIPAnswered => pbx'[c] = "2xx" /\ Acked(c)'
  BY <1>2 DEF GroundStep, GroundsInv, Kept
<1> QED BY <1>3, <1>4, <1>5, <1>6 DEF GroundsInv

----------------------------------------------------------------------------
(* Invisible steps *)

\* A step is allowed when it is one of the protocol, or invisible, and every
\* section that is pending after it has a ground.
Allowed == GroundsInv' /\ [Protocol!Next]_(Protocol!vars)

\* Nothing changes that the protocol speaks of.
SameTold(r, s) == s.st = r.st /\ s.SIPAnswered = r.SIPAnswered
Quiet == /\ line'.ready = line.ready
         /\ \A c \in Calls : SameTold(call[c], call'[c])
         /\ UNCHANGED <<sent, pbx, finals, hook, onhooks>>

\* Sections that need no ACK before them.
PlainOps == {o \in Founded : o.f \notin {"sipAnswered", "sendLateAnswerBYE", "lateByeSend"}}

LEMMA PlainMembers ==
  ASSUME NEW ops \in Seq(PlainOps)
  PROVE  /\ ops \in Seq(Op)
         /\ \A i \in DOMAIN ops : /\ ops[i] \in Founded
                                  /\ \A c : ops[i] \notin AfterAcks(c)
<1>1. PlainOps \subseteq Op /\ PlainOps \subseteq Founded BY DEF PlainOps, Founded
<1>2. ops \in Seq(Op) BY <1>1
<1>3. \A i \in DOMAIN ops : ops[i] \in PlainOps OBVIOUS
<1> QED BY <1>1, <1>2, <1>3 DEF PlainOps, AfterAcks, Of

LEMMA QuietKept == ASSUME Quiet PROVE Kept /\ Founded \subseteq Founded'
<1>1. InCalls \subseteq Calls BY DEF Calls
<1>2. Kept BY <1>1 DEF Quiet, SameTold, Kept, Created
<1> QED BY <1>2, FoundedKept

LEMMA QuietBacked ==
  ASSUME TypeOK, TypeOK', GroundsInv, Quiet, NEW t \in Threads, ~ At(t, "sendSIP"),
         NEW ops \in Seq(Op), Backed(ops), Moves(t, ops),
         \A o \in timers' : o \in timers \/ Created(o.c)
  PROVE  Allowed
<1>1. Kept BY QuietKept
<1>2. \A c \in InCalls : ~ Running(t, {Ack(c)})
  BY DEF Running, At, Cur, Ack, StepA
<1>3. \A o \in timers' : o \in timers \/ Created(o.c)'
  <2>1. \A o \in timers' : o.c \in Calls BY DEF TypeOK, Timer, Calls
  <2> QED BY <1>1, <2>1 DEF Kept
<1>4. GroundStep(t, ops)
  BY <1>1, <1>2, <1>3 DEF GroundStep, Quiet, SameTold
<1>5. GroundsInv' BY <1>4, GroundsPreserved
<1>6. UNCHANGED Protocol!vars
  BY DEF Quiet, SameTold, Protocol!vars, Protocol!calls, Protocol!wire
<1> QED BY <1>5, <1>6 DEF Allowed

LEMMA QuietStep ==
  ASSUME TypeOK, TypeOK', GroundsInv, Quiet, NEW t \in Threads, ~ At(t, "sendSIP"),
         NEW ops \in Seq(PlainOps), Moves(t, ops),
         \A o \in timers' : o \in timers \/ Created(o.c)
  PROVE  Allowed
<1>1. /\ ops \in Seq(Op)
      /\ \A i \in DOMAIN ops : ops[i] \in Founded /\ \A c : ops[i] \notin AfterAcks(c)
  BY PlainMembers
<1>2. Backed(ops) BY <1>1, QuietKept DEF Backed
<1> QED BY <1>1, <1>2, QuietBacked

LEMMA PlainSeqs ==
  ASSUME NEW a \in PlainOps, NEW b \in PlainOps, NEW d \in PlainOps
  PROVE  /\ <<>> \in Seq(PlainOps)
         /\ <<a>> \in Seq(PlainOps)
         /\ <<a, b>> \in Seq(PlainOps)
         /\ <<a, b, d>> \in Seq(PlainOps)
OBVIOUS

LEMMA PlainEmpty == <<>> \in Seq(PlainOps)
OBVIOUS

LEMMA PlainConcat ==
  ASSUME NEW p \in Seq(PlainOps), NEW q \in Seq(PlainOps)
  PROVE  p \o q \in Seq(PlainOps)
OBVIOUS

\* Sections that need no more than a call to be plain.
Guarded == {"sendSIP", "respond", "lineEventSend", "sipAnswered",
            "handleRetainedSIPInviteResponse", "sendLateAnswerBYE", "lateByeSend"}

LEMMA PlainCall ==
  ASSUME NEW o \in Op, o.f \notin Guarded \cup LoopSections, Created(o.c)
  PROVE  o \in PlainOps
BY DEF PlainOps, Founded, Guarded, LoopSections

LEMMA PlainLoop ==
  ASSUME NEW o \in Op, o.f \in LoopSections, \A c \in o.cs : Created(c)
  PROVE  o \in PlainOps
BY DEF PlainOps, Founded, LoopSections, Groundless

LEMMA PlainGroundless ==
  ASSUME NEW o \in Op, o.f \in Groundless
  PROVE  o \in PlainOps
BY DEF PlainOps, Founded, LoopSections, Groundless

\* The section a thread runs has its ground.
LEMMA CurGround ==
  ASSUME TypeOK, GroundsInv, NEW t \in Threads, NEW f, At(t, f)
  PROVE  /\ todo[t] # <<>> /\ Cur(t) \in Founded /\ Cur(t).f = f
         /\ f \notin Groundless \cup LoopSections => Created(Cur(t).c)
         /\ f \in LoopSections => \A c \in Cur(t).cs : Created(c)
         /\ f # "sendSIP" => ~ At(t, "sendSIP")
<1>1. todo[t] \in Seq(Op) /\ todo[t] # <<>> /\ Head(todo[t]).f = f
  BY DEF TypeOK, At
<1>2. 1 \in DOMAIN todo[t] /\ Head(todo[t]) = todo[t][1] BY <1>1
<1> QED BY <1>1, <1>2 DEF GroundsInv, Founded, Cur, At

LEMMA LiveCreated == ASSUME NEW c, Live(c) PROVE Created(c)
BY DEF Live, Created

\* A section of a quiet thread, and a quiet new goroutine.
LEMMA QuietThen ==
  ASSUME TypeOK, TypeOK', GroundsInv, Quiet, NEW t \in Threads, NEW f, At(t, f),
         f # "sendSIP", NEW ops \in Seq(PlainOps), Then(t, ops),
         \A o \in timers' : o \in timers \/ Created(o.c)
  PROVE  Allowed
<1>1. Moves(t, ops) /\ ~ At(t, "sendSIP") BY CurGround DEF Moves
<1> QED BY <1>1, QuietStep

LEMMA QuietStart ==
  ASSUME TypeOK, TypeOK', GroundsInv, Quiet, NEW t \in Threads,
         NEW ops \in Seq(PlainOps), Start(t, ops),
         \A o \in timers' : o \in timers \/ Created(o.c)
  PROVE  Allowed
<1>1. Moves(t, ops) /\ ~ At(t, "sendSIP") BY DEF Moves, Start, Idle, At
<1> QED BY <1>1, QuietStep

\* When no Call object changes, or one does in what is not told.
LEMMA QuietSame ==
  ASSUME line'.ready = line.ready, UNCHANGED call,
         UNCHANGED <<sent, pbx, finals, hook, onhooks>>
  PROVE  Quiet
BY DEF Quiet, SameTold

LEMMA QuietCall ==
  ASSUME TypeOK, line'.ready = line.ready, NEW c \in Calls, NEW r,
         call' = [call EXCEPT ![c] = r], SameTold(call[c], r),
         UNCHANGED <<sent, pbx, finals, hook, onhooks>>
  PROVE  Quiet
BY DEF Quiet, SameTold, TypeOK

\* The updates of a Call object that are not told.
LEMMA UntoldFlag ==
  ASSUME NEW r \in Call, NEW b \in BOOLEAN
  PROVE
    /\ SameTold(r, [r EXCEPT !.H248ContextAllocated = b])
    /\ SameTold(r, [r EXCEPT !.H248Answered = b])
    /\ SameTold(r, [r EXCEPT !.H248OnhookSent = b])
    /\ SameTold(r, [r EXCEPT !.H248OffhookSent = b])
    /\ SameTold(r, [r EXCEPT !.H248DigitsSent = b])
    /\ SameTold(r, [r EXCEPT !.H248DigitsScheduled = b])
    /\ SameTold(r, [r EXCEPT !.SIPRemoteReleased = b])
    /\ SameTold(r, [r EXCEPT !.Media = b])
    /\ SameTold(r, [r EXCEPT !.SIPInviteProvisional = TRUE, !.SIPInviteFinal = b])
    /\ SameTold(r, [r EXCEPT !.H248DigitsScheduled = FALSE, !.H248DigitsSent = b])
BY ZenonT(30) DEF Call, SameTold

LEMMA UntoldCallID ==
  ASSUME NEW r \in Call, NEW k \in SIPKeys \cup {Nil}
  PROVE  SameTold(r, [r EXCEPT !.SIPCallID = k])
BY ZenonT(30) DEF Call, SameTold

LEMMA UntoldResponder ==
  ASSUME NEW r \in Call, NEW m \in OptionalMGC, NEW e \in OptionalMGC
  PROVE
    /\ SameTold(r, [r EXCEPT !.H248Responder = m, !.H248EventRequestID = e])
    /\ SameTold(r, [r EXCEPT !.H248EventRequestID = e, !.H248Responder = m])
    /\ SameTold(r, [r EXCEPT !.H248ContextAllocated = TRUE,
                             !.H248Responder = m, !.H248EventRequestID = e])
    /\ SameTold(r, [r EXCEPT !.H248Responder = m, !.H248EventRequestID = e,
                             !.H248OffhookSent = TRUE])
BY ZenonT(30) DEF Call, SameTold

\* The sections the handlers push, for calls that exist.
LEMMA PlainSteps ==
  /\ \A f \in CallSteps, c \in Calls : Created(c) => Step(f, c) \in PlainOps
  /\ \A f \in OriginationSteps, c \in OutCalls : Created(c) => Step(f, c) \in PlainOps
  /\ \A f \in {"incomingAddReply", "startSIPInvite", "inviteSend", "retainSIPInvite"},
        c \in InCalls : Created(c) => Step(f, c) \in PlainOps
  /\ \A c \in Calls, a \in LinePhases :
       Created(c) => StepA("sendCallLineEvent", c, a) \in PlainOps
  /\ \A c \in OutCalls, a \in Failures :
       Created(c) => StepA("failSIPOriginatedCall", c, a) \in PlainOps
  /\ \A c \in OutCalls, a \in Statuses :
       Created(c) => StepA("sendSIPOriginatedResponse", c, a) \in PlainOps
  /\ \A c \in Calls, a \in BOOLEAN :
       Created(c) => StepA("handleCarrierRelease", c, a) \in PlainOps
  /\ \A f \in {"sendInitialOnhook", "initialOnhookSend"} : LineStep(f) \in PlainOps
  /\ \A f \in LoopSections, cs \in SUBSET Calls :
       (\A c \in cs : Created(c)) => EachOf(f, cs) \in PlainOps
<1>1. ASSUME NEW f \in CallSteps, NEW c \in Calls, Created(c)
      PROVE  Step(f, c) \in PlainOps
  <2>1. Step(f, c) \in Op BY StepType
  <2> QED BY <1>1, <2>1, PlainCall DEF Step, CallSteps, Guarded, LoopSections
<1>2. ASSUME NEW f \in OriginationSteps, NEW c \in OutCalls, Created(c)
      PROVE  Step(f, c) \in PlainOps
  <2>1. Step(f, c) \in Op BY StepType
  <2> QED BY <1>2, <2>1, PlainCall DEF Step, OriginationSteps, Guarded, LoopSections
<1>3. ASSUME NEW f \in {"incomingAddReply", "startSIPInvite", "inviteSend", "retainSIPInvite"},
             NEW c \in InCalls, Created(c)
      PROVE  Step(f, c) \in PlainOps
  <2>1. Step(f, c) \in Op BY StepType DEF InviteSteps
  <2> QED BY <1>3, <2>1, PlainCall DEF Step, Guarded, LoopSections
<1>4. ASSUME NEW c \in Calls, Created(c), NEW a
      PROVE  /\ a \in LinePhases => StepA("sendCallLineEvent", c, a) \in PlainOps
             /\ a \in BOOLEAN => StepA("handleCarrierRelease", c, a) \in PlainOps
  <2>1. /\ a \in LinePhases => StepA("sendCallLineEvent", c, a) \in Op
        /\ a \in BOOLEAN => StepA("handleCarrierRelease", c, a) \in Op
    BY StepType
  <2> QED BY <1>4, <2>1, PlainCall DEF StepA, Guarded, LoopSections
<1>5. ASSUME NEW c \in OutCalls, Created(c), NEW a
      PROVE  /\ a \in Failures => StepA("failSIPOriginatedCall", c, a) \in PlainOps
             /\ a \in Statuses => StepA("sendSIPOriginatedResponse", c, a) \in PlainOps
  <2>1. /\ a \in Failures => StepA("failSIPOriginatedCall", c, a) \in Op
        /\ a \in Statuses => StepA("sendSIPOriginatedResponse", c, a) \in Op
    BY StepType
  <2> QED BY <1>5, <2>1, PlainCall DEF StepA, Guarded, LoopSections
<1>6. \A f \in {"sendInitialOnhook", "initialOnhookSend"} : LineStep(f) \in PlainOps
  BY StepType, PlainGroundless DEF LineStep, Groundless
<1>7. ASSUME NEW f \in LoopSections, NEW cs \in SUBSET Calls, \A c \in cs : Created(c)
      PROVE  EachOf(f, cs) \in PlainOps
  <2>1. EachOf(f, cs) \in Op BY StepType DEF LoopSections
  <2> QED BY <1>7, <2>1, PlainLoop DEF EachOf
<1> QED BY <1>1, <1>2, <1>3, <1>4, <1>5, <1>6, <1>7

\* The sections that send what has a ground now.
LEMMA PlainSends ==
  /\ \A c \in Calls, a \in LinePhases :
       Created(c) /\ (a = "answer" => call[c].SIPAnswered) =>
         StepA("lineEventSend", c, a) \in PlainOps
  /\ \A c \in OutCalls, a \in Statuses :
       Created(c) /\ (a = "200" => call[c].SIPAnswered) =>
         StepA("respond", c, a) \in PlainOps
  /\ \A c \in Calls, m \in {"ACK", "ACK2xx", "BYE", "CANCEL"} :
       Created(c) /\ SIPGround(c, m) => StepA("sendSIP", c, m) \in PlainOps
  /\ \A c \in InCalls, a \in SIPResponses :
       Created(c) /\ (a # "1xx" => pbx[c] = a) =>
         StepA("handleRetainedSIPInviteResponse", c, a) \in PlainOps
<1>1. ASSUME NEW c \in Calls, NEW a \in LinePhases, Created(c),
             a = "answer" => call[c].SIPAnswered
      PROVE  StepA("lineEventSend", c, a) \in PlainOps
  <2>1. StepA("lineEventSend", c, a) \in Op BY StepType
  <2> QED BY <1>1, <2>1 DEF StepA, PlainOps, Founded, Groundless, LoopSections
<1>2. ASSUME NEW c \in OutCalls, NEW a \in Statuses, Created(c),
             a = "200" => call[c].SIPAnswered
      PROVE  StepA("respond", c, a) \in PlainOps
  <2>1. StepA("respond", c, a) \in Op BY StepType
  <2> QED BY <1>2, <2>1 DEF StepA, PlainOps, Founded, Groundless, LoopSections
<1>3. ASSUME NEW c \in Calls, NEW m \in {"ACK", "ACK2xx", "BYE", "CANCEL"}, Created(c),
             SIPGround(c, m)
      PROVE  StepA("sendSIP", c, m) \in PlainOps
  <2>1. StepA("sendSIP", c, m) \in Op BY StepType
  <2> QED BY <1>3, <2>1 DEF StepA, PlainOps, Founded, Groundless, LoopSections
<1>4. ASSUME NEW c \in InCalls, NEW a \in SIPResponses, Created(c),
             a # "1xx" => pbx[c] = a
      PROVE  StepA("handleRetainedSIPInviteResponse", c, a) \in PlainOps
  <2>1. StepA("handleRetainedSIPInviteResponse", c, a) \in Op BY StepType
  <2> QED BY <1>4, <2>1 DEF StepA, PlainOps, Founded, Groundless, LoopSections
<1> QED BY <1>1, <1>2, <1>3, <1>4

LEMMA QuietOne == ASSUME NEW a \in PlainOps PROVE <<a>> \in Seq(PlainOps)
OBVIOUS

LEMMA QuietTwo ==
  ASSUME NEW a \in PlainOps, NEW b \in PlainOps
  PROVE  <<a, b>> \in Seq(PlainOps)
OBVIOUS

\* A thread that leaves the timers alone.
LEMMA QuietRun ==
  ASSUME TypeOK, TypeOK', GroundsInv, Quiet, NEW t \in Threads, NEW f, At(t, f),
         f # "sendSIP", NEW ops \in Seq(PlainOps), Then(t, ops), timers' = timers
  PROVE  Allowed
<1>1. \A o \in timers' : o \in timers \/ Created(o.c) OBVIOUS
<1> QED BY <1>1, QuietThen

LEMMA QuietBegin ==
  ASSUME TypeOK, TypeOK', GroundsInv, Quiet, NEW t \in Threads,
         NEW ops \in Seq(PlainOps), Start(t, ops), timers' = timers
  PROVE  Allowed
<1>1. \A o \in timers' : o \in timers \/ Created(o.c) OBVIOUS
<1> QED BY <1>1, QuietStart

\* The same for the sections that push at most two.
LEMMA QuietFew ==
  ASSUME TypeOK, TypeOK', GroundsInv, Quiet, NEW t \in Threads, NEW f, At(t, f),
         f # "sendSIP", timers' = timers,
         \/ Then(t, <<>>)
         \/ \E o \in PlainOps : Then(t, <<o>>)
         \/ \E o, p \in PlainOps : Then(t, <<o, p>>)
  PROVE  Allowed
<1>1. CASE Then(t, <<>>) BY <1>1, QuietRun, PlainEmpty
<1>2. ASSUME NEW o \in PlainOps, Then(t, <<o>>) PROVE Allowed
  <2>1. <<o>> \in Seq(PlainOps) BY QuietOne
  <2> QED BY <1>2, <2>1, QuietRun
<1>3. ASSUME NEW o \in PlainOps, NEW p \in PlainOps, Then(t, <<o, p>>) PROVE Allowed
  <2>1. <<o, p>> \in Seq(PlainOps) BY QuietTwo
  <2> QED BY <1>3, <2>1, QuietRun
<1> QED BY <1>1, <1>2, <1>3

----------------------------------------------------------------------------
(* Invisible sections: the H.248 side *)

LEMMA ArmReleaseAllowed ==
  ASSUME TypeOK, TypeOK', GroundsInv, NEW t \in Threads, ArmRelease(t)
  PROVE  Allowed
<1>1. At(t, "armRelease") BY DEF ArmRelease
<1>2. Created(Cur(t).c) BY <1>1, CurGround DEF Groundless, LoopSections
<1>3. Quiet BY QuietSame DEF ArmRelease, bridgeVars, wireVars
<1>4. \A o \in timers' : o \in timers \/ Created(o.c)
  BY <1>2 DEF ArmRelease, ReleaseTimer, Step
<1> QED BY <1>1, <1>3, <1>4, QuietThen, PlainEmpty DEF ArmRelease

LEMMA SendInitialOnhookAllowed ==
  ASSUME TypeOK, TypeOK', GroundsInv, NEW t \in Threads, SendInitialOnhook(t)
  PROVE  Allowed
<1>1. At(t, "sendInitialOnhook") BY DEF SendInitialOnhook
<1>2. line'.ready = line.ready
  BY DEF SendInitialOnhook, TypeOK, Line
<1>3. Quiet BY <1>2, QuietSame DEF SendInitialOnhook, wireVars
<1>4. LineStep("initialOnhookSend") \in PlainOps BY PlainSteps
<1>5. Then(t, <<LineStep("initialOnhookSend")>>) \/ Then(t, <<>>)
  BY DEF SendInitialOnhook
<1>6. timers' = timers BY DEF SendInitialOnhook
<1> QED BY <1>1, <1>3, <1>4, <1>5, <1>6, QuietFew

LEMMA SendCallLineEventAllowed ==
  ASSUME TypeOK, TypeOK', GroundsInv, NEW t \in Threads, SendCallLineEvent(t)
  PROVE  Allowed
<1> DEFINE c == Cur(t).c
           phase == Cur(t).a
<1>1. At(t, "sendCallLineEvent") BY DEF SendCallLineEvent
<1>2. c \in Calls /\ phase \in LinePhases BY <1>1, CurType
<1>3. Created(c) BY <1>1, CurGround DEF Groundless, LoopSections
<1>4. UNCHANGED <<line, timers, wireVars>> BY DEF SendCallLineEvent
<1>5. \/ UNCHANGED call /\ Then(t, <<>>)
      \/ /\ LineEventDue(c, phase) /\ SetLineEventFlag(c, phase, TRUE)
         /\ Then(t, <<StepA("lineEventSend", c, phase)>>)
  BY DEF SendCallLineEvent
<1> HIDE DEF c, phase
<1>6. CASE UNCHANGED call /\ Then(t, <<>>)
  <2>1. Quiet BY <1>4, <1>6, QuietSame DEF wireVars
  <2> QED BY <1>1, <1>4, <1>6, <2>1, QuietFew
<1>7. CASE /\ LineEventDue(c, phase) /\ SetLineEventFlag(c, phase, TRUE)
           /\ Then(t, <<StepA("lineEventSend", c, phase)>>)
  <2>1. call[c] \in Call BY <1>2 DEF TypeOK
  <2>2. \/ call' = [call EXCEPT ![c] = [call[c] EXCEPT !.H248Answered = TRUE]]
        \/ call' = [call EXCEPT ![c] = [call[c] EXCEPT !.H248OnhookSent = TRUE]]
    BY <1>7 DEF SetLineEventFlag
  <2>5. /\ SameTold(call[c], [call[c] EXCEPT !.H248Answered = TRUE])
        /\ SameTold(call[c], [call[c] EXCEPT !.H248OnhookSent = TRUE])
    BY <2>1, TRUE \in BOOLEAN, UntoldFlag, Zenon
  <2>6. line'.ready = line.ready /\ UNCHANGED <<sent, pbx, finals, hook, onhooks>>
    BY <1>4 DEF wireVars
  <2>3. Quiet
    <3>1. CASE call' = [call EXCEPT ![c] = [call[c] EXCEPT !.H248Answered = TRUE]]
      BY <1>2, <2>5, <2>6, <3>1, QuietCall
    <3>2. CASE call' = [call EXCEPT ![c] = [call[c] EXCEPT !.H248OnhookSent = TRUE]]
      BY <1>2, <2>5, <2>6, <3>2, QuietCall
    <3> QED BY <2>2, <3>1, <3>2
  <2>4. StepA("lineEventSend", c, phase) \in PlainOps
    BY <1>2, <1>3, <1>7, PlainSends DEF LineEventDue
  <2> QED BY <1>1, <1>4, <1>7, <2>3, <2>4, QuietFew
<1> QED BY <1>5, <1>6, <1>7

LEMMA LoopAllowed ==
  ASSUME TypeOK, TypeOK', GroundsInv, NEW t \in Threads,
         UnavailableCalls(t) \/ ReleaseAllCallsFromCarrier(t)
  PROVE  Allowed
<1> DEFINE cs == Cur(t).cs
<1>1. PICK f \in LoopSections : At(t, f)
  BY DEF UnavailableCalls, ReleaseAllCallsFromCarrier, LoopSections
<1>2. cs \subseteq Calls /\ \A c \in cs : Created(c)
  BY <1>1, CurType, CurGround DEF LoopSections
<1>3. Quiet BY QuietSame DEF UnavailableCalls, ReleaseAllCallsFromCarrier, bridgeVars, wireVars
<1>4. timers' = timers BY DEF UnavailableCalls, ReleaseAllCallsFromCarrier
<1>5. ASSUME NEW c \in cs
      PROVE  /\ <<Step("sendSIPTeardown", c), Step("releaseCall", c),
                  EachOf("unavailableCalls", cs \ {c})>> \in Seq(PlainOps)
             /\ <<StepA("handleCarrierRelease", c, TRUE),
                  EachOf("releaseAllCallsFromCarrier", cs \ {c})>> \in Seq(PlainOps)
  <2>1. /\ c \in Calls /\ Created(c) /\ cs \ {c} \in SUBSET Calls
        /\ \A d \in cs \ {c} : Created(d)
    BY <1>2
  <2>2. /\ Step("sendSIPTeardown", c) \in PlainOps
        /\ Step("releaseCall", c) \in PlainOps
        /\ StepA("handleCarrierRelease", c, TRUE) \in PlainOps
    BY <2>1, PlainSteps DEF CallSteps
  <2>3. /\ EachOf("unavailableCalls", cs \ {c}) \in PlainOps
        /\ EachOf("releaseAllCallsFromCarrier", cs \ {c}) \in PlainOps
    BY <2>1, PlainSteps DEF LoopSections
  <2> QED BY <2>2, <2>3, PlainSeqs
<1>6. \/ Then(t, <<>>)
      \/ \E c \in cs :
           \/ Then(t, <<Step("sendSIPTeardown", c), Step("releaseCall", c),
                        EachOf("unavailableCalls", cs \ {c})>>)
           \/ Then(t, <<StepA("handleCarrierRelease", c, TRUE),
                        EachOf("releaseAllCallsFromCarrier", cs \ {c})>>)
  BY DEF UnavailableCalls, ReleaseAllCallsFromCarrier
<1>7. PICK ops \in Seq(PlainOps) : Then(t, ops) BY <1>5, <1>6, PlainEmpty
<1> QED BY <1>1, <1>3, <1>4, <1>7, QuietRun DEF LoopSections

LEMMA RecvAddAllowed ==
  ASSUME IInv, TypeOK', GroundsInv, NEW t \in Threads, NEW req \in BOOLEAN,
         RecvAdd(t, req)
  PROVE  Allowed
<1>1. Quiet BY QuietSame DEF RecvAdd, bridgeVars, wireVars
<1>2. timers' = timers /\ mgc \in MGCs BY DEF RecvAdd, IInv, TypeOK, OptionalMGC
<1>3. CASE AddIsOutbound
  <2> DEFINE o == [f |-> "handleOutboundCallAdd", c |-> outboundCall,
                   from |-> mgc, req |-> req]
  <2>1. outboundCall \in OutCalls /\ Live(outboundCall)
    BY <1>3 DEF AddIsOutbound, IInv, TypeOK
  <2>2. o \in Op BY <1>2, <2>1 DEF Op
  <2>3. o \in PlainOps BY <2>1, <2>2, PlainCall, LiveCreated DEF Guarded, LoopSections
  <2>4. Start(t, <<o>>) BY <1>3 DEF RecvAdd
  <2> HIDE DEF o
  <2>5. <<o>> \in Seq(PlainOps) BY <2>3, QuietOne
  <2> QED BY <1>1, <1>2, <2>4, <2>5, QuietBegin DEF IInv
<1>4. CASE ~ AddIsOutbound
  <2>1. PICK c \in InCalls :
          Start(t, <<[f |-> "handleIncomingCallAdd", c |-> c,
                      from |-> mgc, req |-> req]>>)
    BY <1>4 DEF RecvAdd
  <2> DEFINE o == [f |-> "handleIncomingCallAdd", c |-> c, from |-> mgc, req |-> req]
  <2>2. o \in Op BY <1>2 DEF Op
  <2>3. o \in PlainOps BY <2>2, PlainGroundless DEF Groundless
  <2>4. Start(t, <<o>>) BY <2>1
  <2> HIDE DEF o
  <2>5. <<o>> \in Seq(PlainOps) BY <2>3, QuietOne
  <2> QED BY <1>1, <1>2, <2>4, <2>5, QuietBegin DEF IInv
<1> QED BY <1>3, <1>4

LEMMA HandleIncomingCallAddAllowed ==
  ASSUME TypeOK, TypeOK', GroundsInv, NEW t \in Threads, HandleIncomingCallAdd(t)
  PROVE  Allowed
<1> DEFINE o == [f |-> "insertContext", c |-> Cur(t).c, from |-> Cur(t).from,
                 req |-> Cur(t).req]
<1>1. At(t, "handleIncomingCallAdd") BY DEF HandleIncomingCallAdd
<1>2. o \in Op BY <1>1, CurType DEF Op
<1>3. o \in PlainOps BY <1>2, PlainGroundless DEF Groundless
<1>4. Quiet BY QuietSame DEF HandleIncomingCallAdd, bridgeVars
<1>5. Then(t, <<o>>) \/ Then(t, <<>>) BY DEF HandleIncomingCallAdd
<1>6. timers' = timers BY DEF HandleIncomingCallAdd
<1> HIDE DEF o
<1> QED BY <1>1, <1>3, <1>4, <1>5, <1>6, QuietFew

LEMMA AddReplyAllowed ==
  ASSUME TypeOK, TypeOK', GroundsInv, NEW t \in Threads,
         IncomingAddReply(t) \/ OutboundAddReply(t)
  PROVE  Allowed
<1> DEFINE c == Cur(t).c
<1>1. PICK f \in {"incomingAddReply", "outboundAddReply"} :
        /\ At(t, f)
        /\ f = "outboundAddReply" <=> OutboundAddReply(t)
  BY DEF IncomingAddReply, OutboundAddReply, At
<1>2. /\ c \in Calls /\ Created(c)
      /\ f = "outboundAddReply" => c \in OutCalls
  BY <1>1, CurType, CurGround DEF InviteSteps, OriginationSteps, Calls, Groundless,
     LoopSections
<1>3. Quiet /\ timers' = timers
  BY QuietSame DEF IncomingAddReply, OutboundAddReply, bridgeVars, wireVars
<1>4. Step("releaseCall", c) \in PlainOps BY <1>2, PlainSteps DEF CallSteps
<1>5. c \in OutCalls => /\ StepA("sendSIPOriginatedResponse", c, "183") \in PlainOps
                        /\ StepA("failSIPOriginatedCall", c, "503") \in PlainOps
  BY <1>2, PlainSteps DEF Statuses, Provisionals, Failures
<1>6. CASE f = "outboundAddReply"
  <2>1. \/ Then(t, <<StepA("sendSIPOriginatedResponse", c, "183")>>)
        \/ Then(t, <<StepA("failSIPOriginatedCall", c, "503"), Step("releaseCall", c)>>)
    BY <1>1, <1>6 DEF OutboundAddReply
  <2> QED BY <1>1, <1>2, <1>3, <1>4, <1>5, <1>6, <2>1, QuietFew
<1>7. CASE f # "outboundAddReply"
  <2>1. Then(t, <<>>) \/ Then(t, <<Step("releaseCall", c)>>)
    BY <1>1, <1>7 DEF IncomingAddReply
  <2> QED BY <1>1, <1>3, <1>4, <2>1, QuietFew
<1> QED BY <1>6, <1>7

\* A Call object that changes in what is not told.
LEMMA QuietUpdated ==
  ASSUME TypeOK, NEW c \in Calls, NEW r, call' = [call EXCEPT ![c] = r],
         SameTold(call[c], r), UNCHANGED <<line, wireVars>>
  PROVE  Quiet
BY QuietCall DEF wireVars

LEMMA HandleOutboundCallAddAllowed ==
  ASSUME TypeOK, TypeOK', GroundsInv, NEW t \in Threads, HandleOutboundCallAdd(t)
  PROVE  Allowed
<1> DEFINE c == Cur(t).c
           e == RequestID(c, Cur(t).from, Cur(t).req)
           r == [call[c] EXCEPT !.H248ContextAllocated = TRUE,
                                !.H248Responder = Cur(t).from,
                                !.H248EventRequestID = e]
<1>1. At(t, "handleOutboundCallAdd") BY DEF HandleOutboundCallAdd
<1>2. /\ c \in OutCalls /\ c \in Calls /\ Created(c)
      /\ Cur(t).from \in OptionalMGC
  BY <1>1, CurType, CurGround DEF Calls, Groundless, LoopSections, OptionalMGC
<1>3. UNCHANGED <<line, timers, wireVars>> BY DEF HandleOutboundCallAdd
<1>4. \/ UNCHANGED call /\ Then(t, <<>>)
      \/ call' = [call EXCEPT ![c] = r] /\ Then(t, <<Step("outboundAddReply", c)>>)
  BY DEF HandleOutboundCallAdd
<1>5. call[c] \in Call /\ e \in OptionalMGC
  BY <1>2 DEF TypeOK, Call, RequestID
<1> HIDE DEF c, e
<1>6. SameTold(call[c], r) BY <1>2, <1>5, UntoldResponder, Zenon
<1> HIDE DEF r
<1>7. Quiet
  <2>1. UNCHANGED call => Quiet BY <1>3, QuietSame DEF wireVars
  <2> QED BY <1>2, <1>3, <1>4, <1>6, <2>1, QuietUpdated
<1>8. Step("outboundAddReply", c) \in PlainOps BY <1>2, PlainSteps DEF OriginationSteps
<1> QED BY <1>1, <1>3, <1>4, <1>7, <1>8, QuietFew

LEMMA ScheduleOriginationOffhookAllowed ==
  ASSUME TypeOK, TypeOK', GroundsInv, NEW t \in Threads, ScheduleOriginationOffhook(t)
  PROVE  Allowed
<1>1. At(t, "scheduleOriginationOffhook") BY DEF ScheduleOriginationOffhook
<1>2. Created(Cur(t).c) BY <1>1, CurGround DEF Groundless, LoopSections
<1>3. Quiet BY QuietSame DEF ScheduleOriginationOffhook, bridgeVars, wireVars
<1>4. \A o \in timers' : o \in timers \/ Created(o.c)
  BY <1>2 DEF ScheduleOriginationOffhook, Step
<1> QED BY <1>1, <1>3, <1>4, QuietThen, PlainEmpty DEF ScheduleOriginationOffhook

LEMMA SendOriginationOffhookAllowed ==
  ASSUME TypeOK, TypeOK', GroundsInv, NEW t \in Threads, SendOriginationOffhook(t)
  PROVE  Allowed
<1> DEFINE c == Cur(t).c
           r == [call[c] EXCEPT !.H248Responder = line.responder,
                                !.H248EventRequestID = line.eventRequestID,
                                !.H248OffhookSent = TRUE]
<1>1. At(t, "sendOriginationOffhook") BY DEF SendOriginationOffhook
<1>2. c \in OutCalls /\ c \in Calls /\ Created(c)
  BY <1>1, CurType, CurGround DEF Calls, OriginationSteps, Groundless, LoopSections
<1>3. UNCHANGED <<line, timers, wireVars>> BY DEF SendOriginationOffhook
<1>4. \/ /\ UNCHANGED call
         /\ Then(t, <<StepA("failSIPOriginatedCall", c, "503"), Step("releaseCall", c)>>)
      \/ call' = [call EXCEPT ![c] = r] /\ Then(t, <<Step("offhookSend", c)>>)
  BY DEF SendOriginationOffhook
<1>5. /\ call[c] \in Call
      /\ line.responder \in OptionalMGC /\ line.eventRequestID \in OptionalMGC
  BY <1>2 DEF TypeOK, Line
<1> HIDE DEF c
<1>6. SameTold(call[c], r) BY <1>5, UntoldResponder, Zenon
<1> HIDE DEF r
<1>7. Quiet
  <2>1. UNCHANGED call => Quiet BY <1>3, QuietSame DEF wireVars
  <2> QED BY <1>2, <1>3, <1>4, <1>6, <2>1, QuietUpdated
<1>8. /\ Step("offhookSend", c) \in PlainOps /\ Step("releaseCall", c) \in PlainOps
      /\ StepA("failSIPOriginatedCall", c, "503") \in PlainOps
  BY <1>2, PlainSteps DEF OriginationSteps, CallSteps, Failures
<1> QED BY <1>1, <1>3, <1>4, <1>7, <1>8, QuietFew

LEMMA ScheduleOriginationDigitsAllowed ==
  ASSUME TypeOK, TypeOK', GroundsInv, NEW t \in Threads, ScheduleOriginationDigits(t)
  PROVE  Allowed
<1> DEFINE c == Cur(t).c
           r == [call[c] EXCEPT !.H248DigitsScheduled = TRUE]
<1>1. At(t, "scheduleOriginationDigits") BY DEF ScheduleOriginationDigits
<1>2. c \in Calls /\ Created(c)
  BY <1>1, CurType, CurGround DEF Calls, OriginationSteps, Groundless, LoopSections
<1>3. UNCHANGED <<line, wireVars>> /\ Then(t, <<>>) BY DEF ScheduleOriginationDigits
<1>4. UNCHANGED call \/ call' = [call EXCEPT ![c] = r]
  BY DEF ScheduleOriginationDigits
<1>5. \A o \in timers' : o \in timers \/ Created(o.c)
  BY <1>2 DEF ScheduleOriginationDigits, Step
<1>6. call[c] \in Call BY <1>2 DEF TypeOK
<1> HIDE DEF c
<1>7. SameTold(call[c], r) BY <1>6, TRUE \in BOOLEAN, UntoldFlag, Zenon
<1> HIDE DEF r
<1>8. Quiet
  <2>1. UNCHANGED call => Quiet BY <1>3, QuietSame DEF wireVars
  <2> QED BY <1>2, <1>3, <1>4, <1>7, <2>1, QuietUpdated
<1> QED BY <1>1, <1>3, <1>5, <1>8, QuietThen, PlainEmpty

LEMMA SendOriginationDigitsAllowed ==
  ASSUME TypeOK, TypeOK', GroundsInv, NEW t \in Threads, SendOriginationDigits(t)
  PROVE  Allowed
<1> DEFINE c == Cur(t).c
           due == /\ Live(c) /\ ~ call[c].H248DigitsSent
                  /\ call[c].H248Responder # Nil
                  /\ call[c].H248EventRequestID # Nil
           b == call[c].H248DigitsSent \/ due
           r == [call[c] EXCEPT !.H248DigitsScheduled = FALSE, !.H248DigitsSent = b]
<1>1. At(t, "sendOriginationDigits") BY DEF SendOriginationDigits
<1>2. c \in OutCalls /\ c \in Calls /\ Created(c)
  BY <1>1, CurType, CurGround DEF Calls, OriginationSteps, Groundless, LoopSections
<1>3. UNCHANGED <<line, timers, wireVars>> BY DEF SendOriginationDigits
<1>4. /\ call' = [call EXCEPT ![c] = r]
      /\ Then(t, <<>>) \/ Then(t, <<Step("digitsSend", c)>>)
  BY DEF SendOriginationDigits
<1>5. call[c] \in Call /\ b \in BOOLEAN BY <1>2 DEF TypeOK, Call
<1> HIDE DEF c, b
<1>6. SameTold(call[c], r) BY <1>5, UntoldFlag, Zenon
<1> HIDE DEF r
<1>7. Quiet BY <1>2, <1>3, <1>4, <1>6, QuietUpdated
<1>8. Step("digitsSend", c) \in PlainOps BY <1>2, PlainSteps DEF OriginationSteps
<1> QED BY <1>1, <1>3, <1>4, <1>7, <1>8, QuietFew

LEMMA RecvLineCommandAllowed ==
  ASSUME TypeOK, TypeOK', GroundsInv, NEW t \in Threads, NEW cmd \in Commands,
         RecvLineCommand(t, cmd)
  PROVE  Allowed
<1> DEFINE o == [f |-> "lineCommand", from |-> mgc, cmd |-> cmd]
           p == IF cmd.req /\ line.ready THEN <<LineStep("sendInitialOnhook")>>
                ELSE <<>>
<1>1. Start(t, p \o <<o>>) /\ timers' = timers BY DEF RecvLineCommand
<1>2. line'.ready = line.ready BY DEF RecvLineCommand, TypeOK, Line
<1>3. Quiet BY <1>2, QuietSame DEF RecvLineCommand, wireVars
<1>4. mgc \in MGCs BY DEF RecvLineCommand, TypeOK, OptionalMGC
<1>5. o \in Op BY <1>4 DEF Op
<1>6. o \in PlainOps BY <1>5, PlainGroundless DEF Groundless
<1>7. p \in Seq(PlainOps) BY PlainSteps, QuietOne, PlainEmpty
<1> HIDE DEF o, p
<1>8. p \o <<o>> \in Seq(PlainOps) BY <1>6, <1>7, QuietOne, PlainConcat
<1> QED BY <1>1, <1>3, <1>8, QuietBegin

LEMMA LineCommandAllowed ==
  ASSUME IInv, TypeOK', GroundsInv, NEW t \in Threads, LineCommand(t)
  PROVE  Allowed
<1> DEFINE c == outboundCall
           m == Cur(t).from
           r == [call[c] EXCEPT !.H248EventRequestID = m, !.H248Responder = m]
<1>1. At(t, "lineCommand") BY DEF LineCommand
<1>2. UNCHANGED <<line, timers, wireVars>> BY DEF LineCommand
<1>3. /\ UNCHANGED call \/ (c # Nil /\ call' = [call EXCEPT ![c] = r])
      /\ \/ Then(t, <<>>)
         \/ c # Nil /\ Then(t, <<Step("scheduleOriginationDigits", c)>>)
  BY DEF LineCommand
<1>4. TypeOK /\ m \in OptionalMGC BY <1>1, CurType DEF IInv, OptionalMGC
<1>5. c # Nil => c \in OutCalls /\ c \in Calls /\ Created(c)
  BY <1>4, LiveCreated DEF TypeOK, IInv, IndexConsistent, Calls
<1>6. c # Nil => call[c] \in Call BY <1>4, <1>5 DEF TypeOK
<1> HIDE DEF c, m
<1>7. c # Nil => SameTold(call[c], r) BY <1>4, <1>6, UntoldResponder, Zenon
<1> HIDE DEF r
<1>8. Quiet
  <2>1. UNCHANGED call => Quiet BY <1>2, QuietSame DEF wireVars
  <2> QED BY <1>2, <1>3, <1>4, <1>5, <1>7, <2>1, QuietUpdated
<1>9. c # Nil => Step("scheduleOriginationDigits", c) \in PlainOps
  BY <1>5, PlainSteps DEF OriginationSteps
<1> QED BY <1>1, <1>2, <1>3, <1>4, <1>8, <1>9, QuietFew

LEMMA RecvContextCommandAllowed ==
  ASSUME IInv, TypeOK', GroundsInv, NEW t \in Threads, NEW c \in Calls,
         NEW cmd \in Commands, RecvContextCommand(t, c, cmd)
  PROVE  Allowed
<1> PICK from \in Senders(cmd) :
      Start(t, <<[f |-> "contextCommand", c |-> c, from |-> from, cmd |-> cmd]>>)
  BY DEF RecvContextCommand
<1> DEFINE o == [f |-> "contextCommand", c |-> c, from |-> from, cmd |-> cmd]
<1>1. TypeOK /\ from \in MGCs BY DEF Senders, IInv
<1>2. Start(t, <<o>>) /\ timers' = timers /\ c \in callsByH248
  BY DEF RecvContextCommand
<1>3. Quiet BY QuietSame DEF RecvContextCommand, bridgeVars, wireVars
<1>4. Created(c) BY <1>2, LiveCreated DEF IInv, IndexConsistent
<1>5. o \in Op BY <1>1 DEF Op
<1>6. o \in PlainOps BY <1>4, <1>5, PlainCall DEF Guarded, LoopSections
<1> HIDE DEF o
<1>7. <<o>> \in Seq(PlainOps) BY <1>6, QuietOne
<1> QED BY <1>1, <1>2, <1>3, <1>7, QuietBegin

LEMMA ContextCommandAllowed ==
  ASSUME TypeOK, TypeOK', GroundsInv, NEW t \in Threads, ContextCommand(t)
  PROVE  Allowed
<1> DEFINE c == Cur(t).c
           m == Cur(t).from
           cmd == Cur(t).cmd
           e == RequestID(c, m, cmd.req /\ cmd.act # "media")
           r == [call[c] EXCEPT !.H248Responder = m, !.H248EventRequestID = e]
           p1 == IF c \in OutCalls /\ cmd.act = "media"
                 THEN <<Step("answerSIPOriginatedCall", c)>> ELSE <<>>
           p2 == IF c \in InCalls /\ cmd.act = "ring"
                 THEN <<Step("startSIPInvite", c)>> ELSE <<>>
           p3 == IF cmd.act \in {"Subtract", "clear"}
                 THEN <<StepA("handleCarrierRelease", c, cmd.act = "Subtract")>>
                 ELSE IF cmd.req THEN <<StepA("sendCallLineEvent", c, "answer")>>
                 ELSE <<>>
           ops == CommandSteps(c, cmd)
<1>1. At(t, "contextCommand") BY DEF ContextCommand
<1>2. /\ c \in Calls /\ Created(c) /\ m \in OptionalMGC
  BY <1>1, CurType, CurGround DEF OptionalMGC, Groundless, LoopSections
<1>3. /\ call' = [call EXCEPT ![c] = r] /\ Then(t, ops)
      /\ UNCHANGED <<line, timers, wireVars>>
  BY DEF ContextCommand
<1>4. call[c] \in Call /\ e \in OptionalMGC BY <1>2 DEF TypeOK, Call, RequestID
<1>5. ops = (p1 \o p2) \o p3 BY DEF CommandSteps
<1> HIDE DEF ops
<1>6. p1 \in Seq(PlainOps)
  <2>1. c \in OutCalls => Step("answerSIPOriginatedCall", c) \in PlainOps
    BY <1>2, PlainSteps DEF OriginationSteps
  <2> QED BY <2>1, QuietOne, PlainEmpty
<1>7. p2 \in Seq(PlainOps)
  <2>1. c \in InCalls => Step("startSIPInvite", c) \in PlainOps BY <1>2, PlainSteps
  <2> QED BY <2>1, QuietOne, PlainEmpty
<1>8. p3 \in Seq(PlainOps)
  <2>1. /\ StepA("handleCarrierRelease", c, cmd.act = "Subtract") \in PlainOps
        /\ StepA("sendCallLineEvent", c, "answer") \in PlainOps
    BY <1>2, PlainSteps DEF LinePhases
  <2> QED BY <2>1, QuietOne, PlainEmpty
<1> HIDE DEF p1, p2, p3, c, m, e
<1>9. ops \in Seq(PlainOps)
  <2>1. p1 \o p2 \in Seq(PlainOps) BY <1>6, <1>7, PlainConcat
  <2> QED BY <1>5, <1>8, <2>1, PlainConcat
<1>10. SameTold(call[c], r) BY <1>2, <1>4, UntoldResponder, Zenon
<1> HIDE DEF r
<1>11. Quiet BY <1>2, <1>3, <1>10, QuietUpdated
<1> QED BY <1>1, <1>3, <1>9, <1>11, QuietRun

LEMMA RecvSubtractAllAllowed ==
  ASSUME IInv, TypeOK', GroundsInv, NEW t \in Threads, RecvSubtractAll(t)
  PROVE  Allowed
<1> DEFINE o == EachOf("releaseAllCallsFromCarrier", callsByH248)
<1>1. TypeOK /\ callsByH248 \in SUBSET Calls BY DEF IInv, TypeOK
<1>2. Start(t, <<o>>) /\ timers' = timers BY DEF RecvSubtractAll
<1>3. Quiet BY QuietSame DEF RecvSubtractAll, bridgeVars, wireVars
<1>4. \A c \in callsByH248 : Created(c) BY LiveCreated DEF IInv, IndexConsistent
<1>5. o \in PlainOps BY <1>1, <1>4, PlainSteps DEF LoopSections
<1> HIDE DEF o
<1>6. <<o>> \in Seq(PlainOps) BY <1>5, QuietOne
<1> QED BY <1>1, <1>2, <1>3, <1>6, QuietBegin

LEMMA HandleCarrierReleaseAllowed ==
  ASSUME TypeOK, TypeOK', GroundsInv, NEW t \in Threads, HandleCarrierRelease(t)
  PROVE  Allowed
<1> DEFINE c == Cur(t).c
           x == call[c].H248ContextAllocated /\ ~ Cur(t).a
           r == [call[c] EXCEPT !.H248ContextAllocated = x]
           p == IF /\ ~ call[c].H248OnhookSent
                   /\ call[c].H248OffhookSent \/ call[c].H248Answered
                THEN <<StepA("sendCallLineEvent", c, "onhook")>> ELSE <<>>
           q == <<Step("sendSIPTeardown", c), Step("releaseCall", c)>>
<1>1. At(t, "handleCarrierRelease") BY DEF HandleCarrierRelease
<1>2. c \in Calls /\ Created(c) /\ Cur(t).a \in BOOLEAN
  BY <1>1, CurType, CurGround DEF Groundless, LoopSections
<1>3. /\ call' = [call EXCEPT ![c] = r] /\ Then(t, p \o q)
      /\ UNCHANGED <<timers, wireVars>>
  BY DEF HandleCarrierRelease
<1>4. line'.ready = line.ready BY DEF HandleCarrierRelease, TypeOK, Line
<1>5. call[c] \in Call /\ x \in BOOLEAN BY <1>2 DEF TypeOK, Call
<1>6. /\ StepA("sendCallLineEvent", c, "onhook") \in PlainOps
      /\ Step("sendSIPTeardown", c) \in PlainOps /\ Step("releaseCall", c) \in PlainOps
  BY <1>2, PlainSteps DEF LinePhases, CallSteps
<1>7. p \in Seq(PlainOps) /\ q \in Seq(PlainOps)
  BY <1>6, QuietOne, QuietTwo, PlainEmpty
<1> HIDE DEF p, q, c, x
<1>8. p \o q \in Seq(PlainOps) BY <1>7, PlainConcat
<1>9. SameTold(call[c], r) BY <1>5, UntoldFlag, Zenon
<1> HIDE DEF r
<1>10. Quiet BY <1>2, <1>3, <1>4, <1>9, QuietCall DEF wireVars
<1> QED BY <1>1, <1>3, <1>8, <1>10, QuietRun

LEMMA RecvReplyAllowed ==
  ASSUME IInv, TypeOK', GroundsInv, NEW t \in Threads, NEW p \in pendingH248,
         NEW isError \in BOOLEAN, RecvReply(t, p, isError)
  PROVE  Allowed
<1>1. TypeOK /\ KeysOK BY DEF IInv
<1>2. UNCHANGED <<line, timers, wireVars>> BY DEF RecvReply
<1>3. \A c \in PendingCalls(p) : c \in Calls /\ Created(c)
  BY LiveCreated
  DEF PendingCalls, ActiveCalls, IInv, TypeOK, IndexConsistent, Calls
<1>4. CASE UNCHANGED call /\ Start(t, <<>>)
  <2>1. Quiet BY <1>2, <1>4, QuietSame DEF wireVars
  <2> QED BY <1>1, <1>2, <1>4, <2>1, QuietBegin, PlainEmpty
<1>5. ASSUME NEW c \in PendingCalls(p),
             call' = [call EXCEPT ![c].H248Answered = FALSE], Start(t, <<>>)
      PROVE  Allowed
  <2> DEFINE r == [call[c] EXCEPT !.H248Answered = FALSE]
  <2>1. c \in Calls /\ call[c] \in Call BY <1>1, <1>3 DEF TypeOK
  <2>2. call' = [call EXCEPT ![c] = r] BY <1>5
  <2>3. SameTold(call[c], r) BY <2>1, FALSE \in BOOLEAN, UntoldFlag, Zenon
  <2> HIDE DEF r
  <2>4. Quiet BY <1>1, <1>2, <2>1, <2>2, <2>3, QuietUpdated
  <2> QED BY <1>1, <1>2, <1>5, <2>4, QuietBegin, PlainEmpty
<1>6. ASSUME NEW c \in PendingCalls(p), UNCHANGED call,
             p.phase \in {"origination-offhook", "origination-digits"},
             Start(t, <<StepA("failSIPOriginatedCall", c, "503"), Step("releaseCall", c)>>)
      PROVE  Allowed
  <2>1. c \in OutCalls BY <1>1, <1>6, PendingOrigination
  <2>2. Quiet BY <1>2, <1>6, QuietSame DEF wireVars
  <2>3. /\ StepA("failSIPOriginatedCall", c, "503") \in PlainOps
        /\ Step("releaseCall", c) \in PlainOps
    BY <1>3, <2>1, PlainSteps DEF Failures, CallSteps
  <2>4. <<StepA("failSIPOriginatedCall", c, "503"), Step("releaseCall", c)>> \in Seq(PlainOps)
    BY <2>3, QuietTwo
  <2> QED BY <1>1, <1>2, <1>6, <2>2, <2>4, QuietBegin
<1> QED BY <1>4, <1>5, <1>6 DEF RecvReply

----------------------------------------------------------------------------
(* Invisible sections: the SIP side *)

LEMMA RecvInviteAllowed ==
  ASSUME TypeOK, TypeOK', GroundsInv, NEW t \in Threads, NEW id \in CallIDs,
         RecvInvite(t, id)
  PROVE  Allowed
<1>1. PICK c \in OutCalls :
        Start(t, <<[f |-> "handleNewSIPInvite", c |-> c, id |-> id]>>)
  BY DEF RecvInvite
<1> DEFINE o == [f |-> "handleNewSIPInvite", c |-> c, id |-> id]
<1>2. Quiet /\ timers' = timers BY QuietSame DEF RecvInvite, bridgeVars, wireVars
<1>3. o \in Op BY DEF Op
<1>4. o \in PlainOps BY <1>3, PlainGroundless DEF Groundless
<1>5. Start(t, <<o>>) BY <1>1
<1> HIDE DEF o
<1>6. <<o>> \in Seq(PlainOps) BY <1>4, QuietOne
<1> QED BY <1>2, <1>5, <1>6, QuietBegin

LEMMA NewMediaRelayAllowed ==
  ASSUME TypeOK, TypeOK', GroundsInv, NEW t \in Threads, NewMediaRelay(t)
  PROVE  Allowed
<1> DEFINE c == Cur(t).c
<1>1. At(t, "newMediaRelay") BY DEF NewMediaRelay
<1>2. c \in OutCalls /\ c \in Calls /\ Created(c)
  BY <1>1, CurType, CurGround DEF OriginationSteps, Calls, Groundless, LoopSections
<1>3. Quiet /\ timers' = timers BY QuietSame DEF NewMediaRelay, bridgeVars
<1>4. \/ Then(t, <<Step("setMedia", c)>>)
      \/ Then(t, <<StepA("failSIPOriginatedCall", c, "500"), Step("releaseCall", c)>>)
  BY DEF NewMediaRelay
<1>5. /\ Step("setMedia", c) \in PlainOps /\ Step("releaseCall", c) \in PlainOps
      /\ StepA("failSIPOriginatedCall", c, "500") \in PlainOps
  BY <1>2, PlainSteps DEF OriginationSteps, CallSteps, Failures
<1> QED BY <1>1, <1>3, <1>4, <1>5, QuietFew

LEMMA SetMediaAllowed ==
  ASSUME TypeOK, TypeOK', GroundsInv, NEW t \in Threads, SetMedia(t)
  PROVE  Allowed
<1> DEFINE c == Cur(t).c
           r == [call[c] EXCEPT !.Media = TRUE]
<1>1. At(t, "setMedia") BY DEF SetMedia
<1>2. c \in OutCalls /\ c \in Calls /\ Created(c)
  BY <1>1, CurType, CurGround DEF OriginationSteps, Calls, Groundless, LoopSections
<1>3. /\ UNCHANGED <<line, timers, wireVars>> /\ call' = [call EXCEPT ![c] = r]
      /\ Then(t, <<StepA("sendSIPOriginatedResponse", c, "100"),
                   Step("scheduleOriginationOffhook", c)>>)
  BY DEF SetMedia
<1>4. call[c] \in Call BY <1>2 DEF TypeOK
<1>5. /\ StepA("sendSIPOriginatedResponse", c, "100") \in PlainOps
      /\ Step("scheduleOriginationOffhook", c) \in PlainOps
  BY <1>2, PlainSteps DEF OriginationSteps, Statuses, Provisionals
<1> HIDE DEF c
<1>6. SameTold(call[c], r) BY <1>4, TRUE \in BOOLEAN, UntoldFlag, Zenon
<1> HIDE DEF r
<1>7. Quiet BY <1>2, <1>3, <1>6, QuietUpdated
<1> QED BY <1>1, <1>3, <1>5, <1>7, QuietFew

LEMMA MarkAnsweredAllowed ==
  ASSUME TypeOK, TypeOK', GroundsInv, NEW t \in Threads, MarkAnswered(t)
  PROVE  Allowed
<1> DEFINE c == Cur(t).c
           r == [call[c] EXCEPT !.H248Answered = TRUE]
<1>1. At(t, "markAnswered") BY DEF MarkAnswered
<1>2. c \in Calls BY <1>1, CurType DEF OriginationSteps, Calls
<1>3. /\ UNCHANGED <<line, timers, wireVars>> /\ call' = [call EXCEPT ![c] = r]
      /\ Then(t, <<>>)
  BY DEF MarkAnswered
<1>4. call[c] \in Call BY <1>2 DEF TypeOK
<1> HIDE DEF c
<1>5. SameTold(call[c], r) BY <1>4, TRUE \in BOOLEAN, UntoldFlag, Zenon
<1> HIDE DEF r
<1>6. Quiet BY <1>2, <1>3, <1>5, QuietUpdated
<1> QED BY <1>1, <1>3, <1>6, QuietFew

LEMMA AnswerOrFailAllowed ==
  ASSUME TypeOK, TypeOK', GroundsInv, NEW t \in Threads,
         AnswerSIPOriginatedCall(t) \/ FailSIPOriginatedCall(t)
  PROVE  Allowed
<1> DEFINE c == Cur(t).c
<1>1. PICK f \in {"answerSIPOriginatedCall", "failSIPOriginatedCall"} : At(t, f)
  BY DEF AnswerSIPOriginatedCall, FailSIPOriginatedCall
<1>2. c \in OutCalls /\ Created(c)
  BY <1>1, CurType, CurGround DEF OriginationSteps, Groundless, LoopSections
<1>3. Quiet /\ timers' = timers
  BY QuietSame DEF AnswerSIPOriginatedCall, FailSIPOriginatedCall, bridgeVars, wireVars
<1>4. \/ Then(t, <<>>)
      \/ Then(t, <<StepA("sendSIPOriginatedResponse", c, "200")>>)
      \/ At(t, "failSIPOriginatedCall")
         /\ Then(t, <<StepA("sendSIPOriginatedResponse", c, Cur(t).a)>>)
  BY DEF AnswerSIPOriginatedCall, FailSIPOriginatedCall
<1>5. At(t, "failSIPOriginatedCall") => Cur(t).a \in Failures BY CurType
<1>6. /\ StepA("sendSIPOriginatedResponse", c, "200") \in PlainOps
      /\ Cur(t).a \in Failures =>
           StepA("sendSIPOriginatedResponse", c, Cur(t).a) \in PlainOps
  BY <1>2, PlainSteps DEF Statuses
<1> QED BY <1>1, <1>3, <1>4, <1>5, <1>6, QuietFew

LEMMA RemoteReleaseAllowed ==
  ASSUME TypeOK, TypeOK', GroundsInv, NEW t \in Threads, NEW c \in Calls,
         RecvCancel(t, c) \/ RecvBye(t, c)
  PROVE  Allowed
<1> DEFINE r == [call[c] EXCEPT !.SIPRemoteReleased = TRUE]
           a == StepA("failSIPOriginatedCall", c, "487")
           b == StepA("sendCallLineEvent", c, "onhook")
           d == Step("armRelease", c)
<1>1. /\ UNCHANGED <<line, timers, wireVars>> /\ call' = [call EXCEPT ![c] = r]
      /\ Created(c)
      /\ (c \in OutCalls /\ Start(t, <<a, b, d>>)) \/ Start(t, <<b, d>>)
  BY LiveCreated DEF RecvCancel, RecvBye
<1>2. call[c] \in Call BY DEF TypeOK
<1>3. b \in PlainOps /\ d \in PlainOps /\ (c \in OutCalls => a \in PlainOps)
  BY <1>1, PlainSteps DEF LinePhases, CallSteps, Failures
<1>4. SameTold(call[c], r) BY <1>2, TRUE \in BOOLEAN, UntoldFlag, Zenon
<1> HIDE DEF r, a, b, d
<1>5. Quiet BY <1>1, <1>4, QuietUpdated
<1>6. /\ <<b, d>> \in Seq(PlainOps)
      /\ c \in OutCalls => <<a, b, d>> \in Seq(PlainOps)
  BY <1>3, PlainSeqs
<1>7. CASE c \in OutCalls /\ Start(t, <<a, b, d>>) BY <1>1, <1>5, <1>6, <1>7, QuietBegin
<1>8. CASE Start(t, <<b, d>>) BY <1>1, <1>5, <1>6, <1>8, QuietBegin
<1> QED BY <1>1, <1>7, <1>8

LEMMA StartSIPInviteAllowed ==
  ASSUME TypeOK, TypeOK', GroundsInv, NEW t \in Threads, StartSIPInvite(t)
  PROVE  Allowed
<1> DEFINE c == Cur(t).c
           r == [call[c] EXCEPT !.SIPCallID = c]
<1>1. At(t, "startSIPInvite") BY DEF StartSIPInvite
<1>2. c \in InCalls /\ c \in Calls /\ c \in SIPKeys \cup {Nil} /\ Created(c)
  BY <1>1, CurType, CurGround DEF InviteSteps, Calls, SIPKeys, Groundless, LoopSections
<1>3. UNCHANGED <<line, timers, wireVars>> BY DEF StartSIPInvite
<1>4. \/ UNCHANGED call /\ Then(t, <<>>)
      \/ call' = [call EXCEPT ![c] = r] /\ Then(t, <<Step("inviteSend", c)>>)
  BY DEF StartSIPInvite
<1>5. call[c] \in Call BY <1>2 DEF TypeOK
<1>6. Step("inviteSend", c) \in PlainOps BY <1>2, PlainSteps
<1> HIDE DEF c
<1>7. SameTold(call[c], r) BY <1>2, <1>5, UntoldCallID, Zenon
<1> HIDE DEF r
<1>8. Quiet
  <2>1. UNCHANGED call => Quiet BY <1>3, QuietSame DEF wireVars
  <2> QED BY <1>2, <1>3, <1>4, <1>7, <2>1, QuietUpdated
<1> QED BY <1>1, <1>3, <1>4, <1>6, <1>8, QuietFew

LEMMA SendSIPTeardownAllowed ==
  ASSUME TypeOK, TypeOK', GroundsInv, NEW t \in Threads, SendSIPTeardown(t)
  PROVE  Allowed
<1> DEFINE c == Cur(t).c
<1>1. At(t, "sendSIPTeardown") BY DEF SendSIPTeardown
<1>2. c \in Calls /\ Created(c)
  BY <1>1, CurType, CurGround DEF CallSteps, Groundless, LoopSections
<1>3. Quiet /\ timers' = timers BY QuietSame DEF SendSIPTeardown, bridgeVars, wireVars
<1>4. \/ Then(t, <<>>)
      \/ call[c].SIPAnswered /\ Then(t, <<StepA("sendSIP", c, "BYE")>>)
      \/ c \in OutCalls /\ Then(t, <<StepA("failSIPOriginatedCall", c, "503")>>)
      \/ /\ c \in InCalls
         /\ Then(t, <<Step("retainSIPInvite", c), StepA("sendSIP", c, "CANCEL")>>)
  BY <1>2 DEF SendSIPTeardown, TeardownSteps, Calls
<1>5. /\ call[c].SIPAnswered => StepA("sendSIP", c, "BYE") \in PlainOps
      /\ c \in InCalls => StepA("sendSIP", c, "CANCEL") \in PlainOps
  BY <1>2, PlainSends DEF SIPGround
<1>6. /\ c \in OutCalls => StepA("failSIPOriginatedCall", c, "503") \in PlainOps
      /\ c \in InCalls => Step("retainSIPInvite", c) \in PlainOps
  BY <1>2, PlainSteps DEF Failures
<1> QED BY <1>1, <1>3, <1>4, <1>5, <1>6, QuietFew

LEMMA RetainSIPInviteAllowed ==
  ASSUME TypeOK, TypeOK', GroundsInv, NEW t \in Threads, RetainSIPInvite(t)
  PROVE  Allowed
<1>1. At(t, "retainSIPInvite") /\ Then(t, <<>>) BY DEF RetainSIPInvite
<1>2. Quiet /\ timers' = timers BY QuietSame DEF RetainSIPInvite, wireVars
<1> QED BY <1>1, <1>2, QuietFew

LEMMA TimerFiresAllowed ==
  ASSUME TypeOK, TypeOK', GroundsInv, TimerFires
  PROVE  Allowed
<1>1. PICK o \in timers : /\ o.f # "retransmitInvite"
                          /\ timers' = timers \ {o}
                          /\ Start("timer", <<o>>)
  BY DEF TimerFires
<1>2. Quiet BY QuietSame DEF TimerFires, bridgeVars, wireVars
<1>3. o \in Timer /\ Created(o.c) BY DEF TypeOK, GroundsInv
<1>4. o \in Op /\ o.f \notin Guarded \cup LoopSections
  BY <1>1, <1>3 DEF Timer, Op, CallSteps, OriginationSteps, Guarded, LoopSections
<1>5. o \in PlainOps BY <1>3, <1>4, PlainCall
<1>6. <<o>> \in Seq(PlainOps) /\ "timer" \in Threads BY <1>5, QuietOne DEF Threads
<1>7. \A p \in timers' : p \in timers \/ Created(p.c) BY <1>1
<1> QED BY <1>1, <1>2, <1>6, <1>7, QuietStart

LEMMA RetransmitDeadlineAllowed ==
  ASSUME TypeOK, TypeOK', GroundsInv, RetransmitDeadline
  PROVE  Allowed
<1>1. PICK c \in InCalls : /\ Step("retransmitInvite", c) \in timers
                           /\ timers' = timers \ {Step("retransmitInvite", c)}
                           /\ Start("timer", DeadlineSteps(c))
  BY DEF RetransmitDeadline
<1>2. Quiet BY QuietSame DEF RetransmitDeadline, bridgeVars, wireVars
<1>3. Created(c) /\ c \in Calls BY <1>1 DEF GroundsInv, Step, Calls
<1>4. /\ StepA("sendCallLineEvent", c, "onhook") \in PlainOps
      /\ Step("releaseCall", c) \in PlainOps
  BY <1>3, PlainSteps DEF LinePhases, CallSteps
<1>5. DeadlineSteps(c) \in Seq(PlainOps) /\ "timer" \in Threads
  BY <1>4, QuietTwo, PlainEmpty DEF DeadlineSteps, Threads
<1>6. \A o \in timers' : o \in timers \/ Created(o.c) BY <1>1
<1> QED BY <1>1, <1>2, <1>5, <1>6, QuietStart

----------------------------------------------------------------------------
(* Steps of no goroutine *)

LEMMA StillAllowed ==
  ASSUME GroundsInv, UNCHANGED <<todo, call, sent, pbx, finals, hook, onhooks>>,
         timers' \subseteq timers, line'.ready = line.ready
  PROVE  Allowed
<1>1. Kept BY DEF Kept, Created
<1>2. Founded \subseteq Founded' BY <1>1, FoundedKept
<1>3. GroundsInv' BY <1>2 DEF GroundsInv, Created, Acked
<1>4. UNCHANGED Protocol!vars BY DEF Protocol!vars, Protocol!calls, Protocol!wire
<1> QED BY <1>3, <1>4 DEF Allowed

LEMMA BackgroundStillAllowed ==
  ASSUME GroundsInv,
         \/ RetransmitTick \/ RetainedExpires \/ RegistrationStarts
         \/ RegistrationFails \/ UNCHANGED vars
  PROVE  Allowed
BY StillAllowed
DEF RetransmitTick, RetainedExpires, RegistrationStarts, RegistrationFails, vars,
    bridgeVars, wireVars

----------------------------------------------------------------------------
(* Sections that come after an ACK *)

\* When such a section runs, the ACK has been sent.
LEMMA AckedCur ==
  ASSUME TypeOK, GroundsInv, NEW t \in Threads,
         NEW f \in {"sipAnswered", "sendLateAnswerBYE", "lateByeSend"}, At(t, f)
  PROVE  Acked(Cur(t).c)
<1>1. todo[t] \in Seq(Op) /\ todo[t] # <<>> BY DEF TypeOK, At
<1>2. 1 \in DOMAIN todo[t] /\ Cur(t) = todo[t][1] /\ 0 \notin DOMAIN todo[t]
  BY <1>1 DEF Cur
<1>3. Cur(t).c \in InCalls BY CurType DEF InviteSteps
<1>4. Cur(t) \in AfterAcks(Cur(t).c) BY CurOp DEF AfterAcks, Of
<1>5. todo[t][1] \in AfterAcks(Cur(t).c) =>
        Acked(Cur(t).c) \/ 1 - 1 \in DOMAIN todo[t]
  BY <1>2, <1>3 DEF GroundsInv
<1> QED BY <1>2, <1>4, <1>5

\* An ACK with what comes after it.
LEMMA AckPair ==
  ASSUME NEW c \in InCalls, Ack(c) \in Founded', NEW o \in Founded',
         o.c = c
  PROVE  <<Ack(c), o>> \in Seq(Op) /\ Backed(<<Ack(c), o>>)
<1> DEFINE ops == <<Ack(c), o>>
<1>1. Ack(c) \in Op /\ o \in Op BY DEF Founded
<1>2. DOMAIN ops = {1, 2} /\ ops[1] = Ack(c) /\ ops[2] = o OBVIOUS
<1>3. \A d : ops[1] \notin AfterAcks(d) BY <1>2 DEF AfterAcks, Of, Ack, StepA
<1>4. \A d : ops[2] \in AfterAcks(d) => d = c BY <1>2 DEF AfterAcks, Of
<1>5. ops \in Seq(Op) BY <1>1
<1> HIDE DEF ops
<1>6. Backed(ops)
  <2> SUFFICES ASSUME NEW i \in {1, 2}
               PROVE  /\ ops[i] \in Founded'
                      /\ \A d \in InCalls : ops[i] \in AfterAcks(d) =>
                           Acked(d)' \/ (i - 1 \in DOMAIN ops /\ ops[i - 1] = Ack(d))
    BY <1>2 DEF Backed
  <2>1. CASE i = 1 BY <1>2, <1>3, <2>1
  <2>2. CASE i = 2
    <3>1. i - 1 = 1 BY <2>2
    <3> QED BY <1>2, <1>4, <2>2, <3>1
  <2> QED BY <2>1, <2>2
<1> QED BY <1>5, <1>6 DEF ops

LEMMA HandleRetainedSIPInviteResponseAllowed ==
  ASSUME TypeOK, TypeOK', GroundsInv, NEW t \in Threads,
         HandleRetainedSIPInviteResponse(t)
  PROVE  Allowed
<1> DEFINE c == Cur(t).c
           kind == Cur(t).a
           f == "handleRetainedSIPInviteResponse"
<1>1. At(t, f) BY DEF HandleRetainedSIPInviteResponse
<1>2. /\ c \in InCalls /\ c \in Calls /\ Created(c)
      /\ kind # "1xx" => pbx[c] = kind
  BY <1>1, CurType, CurGround DEF Calls, Founded, Groundless, LoopSections
<1>3. kind \in SIPResponses
  <2>1. Cur(t) \in Op /\ Cur(t).f = f BY <1>1, CurOp
  <2> QED BY <2>1 DEF Op, CallSteps, OriginationSteps, InviteSteps
<1>4. Quiet /\ timers' = timers
  BY QuietSame DEF HandleRetainedSIPInviteResponse, bridgeVars, wireVars
<1>5. \/ Then(t, <<>>)
      \/ kind = "failure" /\ Then(t, <<StepA("sendSIP", c, "ACK")>>)
      \/ /\ kind \in AnswerKinds
         /\ Then(t, <<Ack(c), Step("sendLateAnswerBYE", c)>>)
  BY <1>3 DEF HandleRetainedSIPInviteResponse, SIPResponses, AnswerKinds, Ack
<1>6. CASE Then(t, <<>>) BY <1>1, <1>4, <1>6, QuietFew
<1>7. CASE kind = "failure" /\ Then(t, <<StepA("sendSIP", c, "ACK")>>)
  <2>1. StepA("sendSIP", c, "ACK") \in PlainOps BY <1>2, <1>7, PlainSends DEF SIPGround
  <2> QED BY <1>1, <1>4, <1>7, <2>1, QuietFew
<1>8. CASE kind \in AnswerKinds /\ Then(t, <<Ack(c), Step("sendLateAnswerBYE", c)>>)
  <2> DEFINE o == Step("sendLateAnswerBYE", c)
  <2>1. pbx[c] \in AnswerKinds BY <1>2, <1>8 DEF AnswerKinds
  <2>2. Ack(c) \in Founded
    <3>1. Ack(c) \in PlainOps BY <1>2, <2>1, PlainSends DEF SIPGround, Ack
    <3> QED BY <3>1 DEF PlainOps
  <2>3. o \in Op BY <1>2, StepType DEF InviteSteps
  <2>4. o \in Founded BY <1>2, <2>1, <2>3 DEF Founded, Step, Groundless, LoopSections
  <2>5. o.c = c BY DEF Step
  <2> HIDE DEF o, c
  <2>6. Ack(c) \in Founded' /\ o \in Founded' BY <1>4, <2>2, <2>4, QuietKept
  <2>7. <<Ack(c), o>> \in Seq(Op) /\ Backed(<<Ack(c), o>>) BY <1>2, <2>5, <2>6, AckPair
  <2>8. Moves(t, <<Ack(c), o>>) /\ ~ At(t, "sendSIP")
    BY <1>1, <1>8, CurGround DEF Moves, o
  <2>9. \A p \in timers' : p \in timers \/ Created(p.c) BY <1>4
  <2> QED BY <1>4, <2>7, <2>8, <2>9, QuietBacked
<1> QED BY <1>5, <1>6, <1>7, <1>8

LEMMA SendLateAnswerBYEAllowed ==
  ASSUME TypeOK, TypeOK', GroundsInv, NEW t \in Threads, SendLateAnswerBYE(t)
  PROVE  Allowed
<1>1. At(t, "sendLateAnswerBYE") BY DEF SendLateAnswerBYE
<1>2. PICK c \in InCalls : c = Cur(t).c BY <1>1, CurType DEF InviteSteps
<1> DEFINE o == Step("lateByeSend", c)
<1>3. Created(c) /\ pbx[c] \in AnswerKinds /\ Acked(c)
  BY <1>1, <1>2, CurGround, AckedCur DEF Founded, Groundless, LoopSections
<1>4. Quiet /\ timers' = timers BY QuietSame DEF SendLateAnswerBYE, wireVars
<1>5. Then(t, <<>>) \/ Then(t, <<o>>) BY <1>2 DEF SendLateAnswerBYE
<1>6. CASE Then(t, <<>>) BY <1>1, <1>4, <1>6, QuietFew
<1>7. CASE Then(t, <<o>>)
  <2>1. o \in Op BY StepType DEF InviteSteps
  <2>2. o \in Founded BY <1>3, <2>1 DEF Founded, Step, Groundless, LoopSections
  <2>3. \A d : o \in AfterAcks(d) => d = c BY DEF AfterAcks, Of, Step
  <2>4. Acked(c)' BY <1>3, <1>4 DEF Quiet, Acked
  <2>5. o \in Founded' BY <1>4, <2>2, QuietKept
  <2> HIDE DEF o
  <2>6. <<o>> \in Seq(Op) /\ Backed(<<o>>) BY <2>1, <2>3, <2>4, <2>5 DEF Backed
  <2>7. Moves(t, <<o>>) /\ ~ At(t, "sendSIP") BY <1>1, <1>7, CurGround DEF Moves
  <2>8. \A p \in timers' : p \in timers \/ Created(p.c) BY <1>4
  <2> QED BY <1>4, <2>6, <2>7, <2>8, QuietBacked
<1> QED BY <1>5, <1>6, <1>7

----------------------------------------------------------------------------
(* What the MGC and the PBX are told *)

\* A step that answers no call.
NoAnswer == \A c \in Calls : call'[c].SIPAnswered => call[c].SIPAnswered

LEMMA PlainBacked ==
  ASSUME NEW ops \in Seq(PlainOps')
  PROVE  ops \in Seq(Op) /\ Backed(ops)
<1>1. PlainOps' \subseteq Op /\ PlainOps' \subseteq Founded' BY DEF PlainOps, Founded
<1>2. \A i \in DOMAIN ops : ops[i] \in PlainOps' OBVIOUS
<1>3. ops \in Seq(Op) BY <1>1
<1> QED BY <1>1, <1>2, <1>3 DEF PlainOps, AfterAcks, Of, Backed

LEMMA PlainKept == ASSUME Kept PROVE PlainOps \subseteq PlainOps'
BY FoundedKept DEF PlainOps

LEMMA PlainFew ==
  /\ <<>> \in Seq(PlainOps')
  /\ \A o \in PlainOps' : <<o>> \in Seq(PlainOps')
  /\ \A o, p \in PlainOps' : <<o, p>> \in Seq(PlainOps')
OBVIOUS

\* A section that says something, and leaves sections with a ground.
LEMMA ToldThen ==
  ASSUME TypeOK, TypeOK', GroundsInv, Kept, NoAnswer,
         NEW t \in Threads, NEW f, At(t, f), f # "sendSIP",
         NEW ops \in Seq(PlainOps'), Then(t, ops),
         \A o \in timers' : o \in timers \/ Created(o.c)',
         [Protocol!Next]_(Protocol!vars)
  PROVE  Allowed
<1>1. ops \in Seq(Op) /\ Backed(ops) BY PlainBacked
<1>2. Moves(t, ops) /\ ~ At(t, "sendSIP") BY CurGround DEF Moves
<1>3. \A c \in InCalls : ~ Running(t, {Ack(c)})
  BY <1>2 DEF Running, At, Cur, Ack, StepA
<1>4. GroundStep(t, ops) BY <1>1, <1>3 DEF GroundStep, NoAnswer
<1>5. GroundsInv' BY <1>1, <1>2, <1>4, GroundsPreserved
<1> QED BY <1>5 DEF Allowed

LEMMA ToldRun ==
  ASSUME TypeOK, TypeOK', GroundsInv, Kept, NoAnswer,
         NEW t \in Threads, NEW f, At(t, f), f # "sendSIP", timers' = timers,
         \/ Then(t, <<>>)
         \/ \E o \in PlainOps' : Then(t, <<o>>)
         \/ \E o, p \in PlainOps' : Then(t, <<o, p>>),
         [Protocol!Next]_(Protocol!vars)
  PROVE  Allowed
<1>1. \A o \in timers' : o \in timers \/ Created(o.c)' OBVIOUS
<1>2. CASE Then(t, <<>>) BY <1>1, <1>2, ToldThen, PlainFew
<1>3. ASSUME NEW o \in PlainOps', Then(t, <<o>>) PROVE Allowed
  <2>1. <<o>> \in Seq(PlainOps') BY PlainFew
  <2> QED BY <1>1, <1>3, <2>1, ToldThen
<1>4. ASSUME NEW o \in PlainOps', NEW p \in PlainOps', Then(t, <<o, p>>) PROVE Allowed
  <2>1. <<o, p>> \in Seq(PlainOps') BY PlainFew
  <2> QED BY <1>1, <1>4, <2>1, ToldThen
<1> QED BY <1>2, <1>3, <1>4

\* A step that sends something, of calls that do not change in what is told.
LEMMA ToldKept ==
  ASSUME \A d \in Calls : SameTold(call[d], call'[d]),
         \A d \in Calls : sent[d] \subseteq sent'[d], UNCHANGED pbx
  PROVE  Kept /\ NoAnswer /\ UNCHANGED Protocol!calls
<1>1. Kept /\ NoAnswer BY DEF Kept, NoAnswer, SameTold, Created, Calls
<1>2. UNCHANGED Protocol!calls BY DEF SameTold, Protocol!calls
<1> QED BY <1>1, <1>2

LEMMA ToldSame ==
  ASSUME TypeOK, UNCHANGED <<call, sent, pbx>>
  PROVE  Kept /\ NoAnswer /\ UNCHANGED Protocol!calls
BY ToldKept DEF SameTold

LEMMA InitialOnhookSendAllowed ==
  ASSUME TypeOK, TypeOK', GroundsInv, NEW t \in Threads, InitialOnhookSend(t)
  PROVE  Allowed
<1>1. At(t, "initialOnhookSend") /\ Then(t, <<>>) BY DEF InitialOnhookSend
<1>2. UNCHANGED <<call, sent, pbx, finals, onhooks, timers>>
  BY DEF InitialOnhookSend
<1>3. line'.ready = line.ready BY DEF InitialOnhookSend, TypeOK, Line
<1>4. Kept /\ NoAnswer /\ UNCHANGED Protocol!calls BY <1>2, ToldSame
<1>5. hook' = "on" \/ hook' = hook BY DEF InitialOnhookSend, HookEvent
<1>6. Protocol!InitialOnhook \/ UNCHANGED Protocol!vars
  BY <1>2, <1>3, <1>4, <1>5 DEF Protocol!InitialOnhook, Protocol!vars, Protocol!wire
<1>7. [Protocol!Next]_(Protocol!vars) BY <1>6 DEF Protocol!Next
<1> QED BY <1>1, <1>2, <1>4, <1>7, ToldRun

LEMMA LineEventSendAllowed ==
  ASSUME TypeOK, TypeOK', SafeInv, GroundsInv, NEW t \in Threads, LineEventSend(t)
  PROVE  Allowed
<1>1. At(t, "lineEventSend") /\ Then(t, <<>>) BY DEF LineEventSend
<1>2. PICK c \in Calls, phase \in LinePhases : c = Cur(t).c /\ phase = Cur(t).a
  BY <1>1, CurType
<1>3. Created(c) /\ (phase = "answer" => call[c].SIPAnswered)
  BY <1>1, <1>2, CurGround DEF Founded, Groundless, LoopSections
<1>4. UNCHANGED <<line, sent, pbx, finals, timers>> BY DEF LineEventSend
<1>5. phase = "onhook" => onhooks[c] = 0
  <2>1. phase = "onhook" => Running(t, OnhookSends(c))
    BY <1>1, <1>2, RunsCur, Members
  <2>2. Running(t, OnhookSends(c)) => Pends(OnhookSends(c))
    <3>1. todo[t] \in Seq(Op) BY DEF TypeOK
    <3>2. todo[t] # <<>> => 1 \in DOMAIN todo[t] /\ Cur(t) = todo[t][1]
      BY <3>1 DEF Cur
    <3> QED BY <3>2 DEF Running, Pends, PendsIn
  <2> QED BY <2>1, <2>2 DEF SafeInv, OnhookInv
<1>6. \/ /\ phase = "onhook" /\ hook' = "on" /\ CountOnhook(c) /\ UNCHANGED call
      \/ /\ phase = "answer" /\ hook' = "off" /\ UNCHANGED <<call, onhooks>>
      \/ /\ SetLineEventFlag(c, phase, FALSE) /\ UNCHANGED <<hook, onhooks>>
  BY <1>2 DEF LineEventSend, HookEvent, LinePhases
<1>7. CASE phase = "onhook" /\ hook' = "on" /\ CountOnhook(c) /\ UNCHANGED call
  <2>1. Kept /\ NoAnswer /\ UNCHANGED Protocol!calls BY <1>4, <1>7, ToldSame
  <2>2. onhooks' = [onhooks EXCEPT ![c] = 1] BY <1>5, <1>7 DEF CountOnhook
  <2>3. Protocol!Onhook(c)
    BY <1>3, <1>4, <1>5, <1>7, <2>1, <2>2
    DEF Protocol!Onhook, Protocol!Created, Created
  <2>4. [Protocol!Next]_(Protocol!vars)
    BY <2>3 DEF Protocol!Next, Protocol!Calls, Calls
  <2> QED BY <1>1, <1>4, <2>1, <2>4, ToldRun
<1>8. CASE phase = "answer" /\ hook' = "off" /\ UNCHANGED <<call, onhooks>>
  <2>1. Kept /\ NoAnswer /\ UNCHANGED Protocol!calls BY <1>4, <1>8, ToldSame
  <2>2. Protocol!Offhook(c) BY <1>3, <1>4, <1>8, <2>1 DEF Protocol!Offhook
  <2>3. [Protocol!Next]_(Protocol!vars)
    BY <2>2 DEF Protocol!Next, Protocol!Calls, Calls
  <2> QED BY <1>1, <1>4, <2>1, <2>3, ToldRun
<1>9. CASE SetLineEventFlag(c, phase, FALSE) /\ UNCHANGED <<hook, onhooks>>
  <2>1. call[c] \in Call BY DEF TypeOK
  <2>2. /\ SameTold(call[c], [call[c] EXCEPT !.H248Answered = FALSE])
        /\ SameTold(call[c], [call[c] EXCEPT !.H248OnhookSent = FALSE])
    BY <2>1, FALSE \in BOOLEAN, UntoldFlag, Zenon
  <2>3. \/ call' = [call EXCEPT ![c] = [call[c] EXCEPT !.H248Answered = FALSE]]
        \/ call' = [call EXCEPT ![c] = [call[c] EXCEPT !.H248OnhookSent = FALSE]]
    BY <1>9 DEF SetLineEventFlag
  <2>4. line'.ready = line.ready /\ UNCHANGED <<sent, pbx, finals, hook, onhooks>>
    BY <1>4, <1>9
  <2>5. Quiet
    <3>1. CASE call' = [call EXCEPT ![c] = [call[c] EXCEPT !.H248Answered = FALSE]]
      BY <2>2, <2>4, <3>1, QuietCall
    <3>2. CASE call' = [call EXCEPT ![c] = [call[c] EXCEPT !.H248OnhookSent = FALSE]]
      BY <2>2, <2>4, <3>2, QuietCall
    <3> QED BY <2>3, <3>1, <3>2
  <2> QED BY <1>1, <1>4, <2>5, QuietFew
<1> QED BY <1>6, <1>7, <1>8, <1>9

LEMMA SendTold ==
  ASSUME TypeOK, \A d \in Calls : SameTold(call[d], call'[d]),
         line'.ready = line.ready, NEW c \in Calls, NEW m \in Protocol!Methods,
         Protocol!MaySend(c, m), sent' = [sent EXCEPT ![c] = sent[c] \cup {m}],
         UNCHANGED <<pbx, finals, hook, onhooks>>
  PROVE  Kept /\ NoAnswer /\ [Protocol!Next]_(Protocol!vars) /\ m \in sent'[c]
<1>1. \A d \in Calls : sent[d] \subseteq sent'[d] BY DEF TypeOK
<1>2. Kept /\ NoAnswer /\ UNCHANGED Protocol!calls BY <1>1, ToldKept
<1>3. Protocol!Send(c, m) BY <1>2 DEF Protocol!Send
<1>4. Protocol!Next BY <1>3 DEF Protocol!Next, Protocol!Calls, Calls
<1>5. m \in sent'[c] BY DEF TypeOK
<1> QED BY <1>2, <1>4, <1>5

LEMMA OffhookSendAllowed ==
  ASSUME TypeOK, TypeOK', GroundsInv, NEW t \in Threads, OffhookSend(t)
  PROVE  Allowed
<1>1. At(t, "offhookSend") BY DEF OffhookSend
<1>2. PICK c \in OutCalls : c = Cur(t).c BY <1>1, CurType DEF OriginationSteps
<1>3. Created(c) /\ c \in Calls
  BY <1>1, <1>2, CurGround DEF Groundless, LoopSections, Calls
<1>4. UNCHANGED <<line, sent, pbx, finals, onhooks, timers>> BY DEF OffhookSend
<1> DEFINE r == [call[c] EXCEPT !.H248OffhookSent = FALSE]
<1>5. \/ hook' = "off" /\ Then(t, <<>>) /\ UNCHANGED call
      \/ /\ call' = [call EXCEPT ![c] = r] /\ UNCHANGED hook
         /\ Then(t, <<StepA("failSIPOriginatedCall", c, "503"), Step("releaseCall", c)>>)
  BY <1>2 DEF OffhookSend, HookEvent
<1>6. CASE hook' = "off" /\ Then(t, <<>>) /\ UNCHANGED call
  <2>1. Kept /\ NoAnswer /\ UNCHANGED Protocol!calls BY <1>4, <1>6, ToldSame
  <2>2. Protocol!Offhook(c)
    BY <1>3, <1>4, <1>6, <2>1 DEF Protocol!Offhook, Protocol!Created, Created
  <2>3. [Protocol!Next]_(Protocol!vars)
    BY <1>3, <2>2 DEF Protocol!Next, Protocol!Calls, Calls
  <2> QED BY <1>1, <1>4, <1>6, <2>1, <2>3, ToldRun
<1>7. CASE /\ call' = [call EXCEPT ![c] = r] /\ UNCHANGED hook
           /\ Then(t, <<StepA("failSIPOriginatedCall", c, "503"), Step("releaseCall", c)>>)
  <2>1. call[c] \in Call BY <1>3 DEF TypeOK
  <2>2. SameTold(call[c], r) BY <2>1, FALSE \in BOOLEAN, UntoldFlag, Zenon
  <2> HIDE DEF r
  <2>3. Quiet BY <1>3, <1>4, <1>7, <2>2, QuietCall
  <2>4. /\ StepA("failSIPOriginatedCall", c, "503") \in PlainOps
        /\ Step("releaseCall", c) \in PlainOps
    BY <1>3, PlainSteps DEF Failures, CallSteps
  <2> QED BY <1>1, <1>4, <1>7, <2>3, <2>4, QuietFew
<1> QED BY <1>5, <1>6, <1>7

LEMMA DigitsSendAllowed ==
  ASSUME TypeOK, TypeOK', GroundsInv, NEW t \in Threads, DigitsSend(t)
  PROVE  Allowed
<1>1. At(t, "digitsSend") BY DEF DigitsSend
<1>2. PICK c \in OutCalls : c = Cur(t).c BY <1>1, CurType DEF OriginationSteps
<1>3. Created(c) /\ c \in Calls
  BY <1>1, <1>2, CurGround DEF Groundless, LoopSections, Calls
<1>4. UNCHANGED <<line, pbx, finals, hook, onhooks, timers>> BY DEF DigitsSend
<1> DEFINE r == [call[c] EXCEPT !.H248DigitsSent = FALSE]
<1>5. \/ /\ sent' = [sent EXCEPT ![c] = sent[c] \cup {"digits"}]
         /\ Then(t, <<>>) /\ UNCHANGED call
      \/ /\ call' = [call EXCEPT ![c] = r] /\ UNCHANGED sent
         /\ Then(t, <<StepA("failSIPOriginatedCall", c, "503"), Step("releaseCall", c)>>)
  BY <1>2 DEF DigitsSend
<1>6. CASE /\ sent' = [sent EXCEPT ![c] = sent[c] \cup {"digits"}]
           /\ Then(t, <<>>) /\ UNCHANGED call
  <2>1. Protocol!MaySend(c, "digits")
    BY <1>3 DEF Protocol!MaySend, Protocol!Created, Created
  <2>2. \A d \in Calls : SameTold(call[d], call'[d]) BY <1>6 DEF SameTold
  <2>3. "digits" \in Protocol!Methods BY DEF Protocol!Methods
  <2>4. Kept /\ NoAnswer /\ [Protocol!Next]_(Protocol!vars)
    BY <1>3, <1>4, <1>6, <2>1, <2>2, <2>3, SendTold
  <2> QED BY <1>1, <1>4, <1>6, <2>4, ToldRun
<1>7. CASE /\ call' = [call EXCEPT ![c] = r] /\ UNCHANGED sent
           /\ Then(t, <<StepA("failSIPOriginatedCall", c, "503"), Step("releaseCall", c)>>)
  <2>1. call[c] \in Call BY <1>3 DEF TypeOK
  <2>2. SameTold(call[c], r) BY <2>1, FALSE \in BOOLEAN, UntoldFlag, Zenon
  <2> HIDE DEF r
  <2>3. Quiet BY <1>3, <1>4, <1>7, <2>2, QuietCall
  <2>4. /\ StepA("failSIPOriginatedCall", c, "503") \in PlainOps
        /\ Step("releaseCall", c) \in PlainOps
    BY <1>3, PlainSteps DEF Failures, CallSteps
  <2> QED BY <1>1, <1>4, <1>7, <2>3, <2>4, QuietFew
<1> QED BY <1>5, <1>6, <1>7

LEMMA RespondAllowed ==
  ASSUME TypeOK, TypeOK', GroundsInv, NEW t \in Threads, Respond(t)
  PROVE  Allowed
<1>1. At(t, "respond") BY DEF Respond
<1>2. PICK c \in OutCalls, status \in Statuses : c = Cur(t).c /\ status = Cur(t).a
  BY <1>1, CurType
<1>3. /\ Created(c) /\ c \in Calls
      /\ status = "200" => call[c].SIPAnswered
  BY <1>1, <1>2, CurGround DEF Founded, Groundless, LoopSections, Calls
<1>4. UNCHANGED <<line, call, sent, pbx, hook, onhooks, timers>>
  BY DEF Respond, bridgeVars
<1>5. Kept /\ NoAnswer /\ UNCHANGED Protocol!calls BY <1>4, ToldSame
<1>6. Then(t, <<>>) \/ Then(t, <<Step("markAnswered", c)>>) BY <1>2 DEF Respond
<1>7. Step("markAnswered", c) \in PlainOps'
  BY <1>3, <1>5, PlainSteps, PlainKept DEF OriginationSteps
<1>8. \/ UNCHANGED finals
      \/ /\ status \notin Provisionals
         /\ finals' = [finals EXCEPT ![c] = finals[c] \cup {status}]
  BY <1>2 DEF Respond
<1>9. [Protocol!Next]_(Protocol!vars)
  <2>1. CASE UNCHANGED finals
    BY <1>4, <1>5, <2>1 DEF Protocol!vars, Protocol!wire
  <2>2. CASE /\ status \notin Provisionals
             /\ finals' = [finals EXCEPT ![c] = finals[c] \cup {status}]
    <3>1. Protocol!Final(c, status)
      BY <1>3, <1>4, <1>5, <2>2 DEF Protocol!Final, Protocol!Created, Created
    <3>2. status \in Protocol!Statuses
      BY <2>2 DEF Statuses, Failures, Protocol!Statuses
    <3> QED BY <1>3, <3>1, <3>2 DEF Protocol!Next, Protocol!Calls, Calls
  <2> QED BY <1>8, <2>1, <2>2
<1> QED BY <1>1, <1>4, <1>5, <1>6, <1>7, <1>9, ToldRun

LEMMA InviteSendAllowed ==
  ASSUME TypeOK, TypeOK', GroundsInv, NEW t \in Threads, InviteSend(t)
  PROVE  Allowed
<1>1. At(t, "inviteSend") /\ Then(t, <<>>) BY DEF InviteSend
<1>2. PICK c \in InCalls : c = Cur(t).c BY <1>1, CurType DEF InviteSteps
<1>3. Created(c) /\ c \in Calls
  BY <1>1, <1>2, CurGround DEF Groundless, LoopSections, Calls
<1>4. UNCHANGED <<line, pbx, finals, hook, onhooks>> BY DEF InviteSend
<1> DEFINE r == [call[c] EXCEPT !.SIPCallID = Nil]
<1>5. \/ /\ sent' = [sent EXCEPT ![c] = sent[c] \cup {"INVITE"}] /\ UNCHANGED call
         /\ timers' = timers \cup {Step("retransmitInvite", c)}
      \/ call' = [call EXCEPT ![c] = r] /\ UNCHANGED <<sent, timers>>
  BY <1>2 DEF InviteSend, Put
<1>6. CASE /\ sent' = [sent EXCEPT ![c] = sent[c] \cup {"INVITE"}] /\ UNCHANGED call
           /\ timers' = timers \cup {Step("retransmitInvite", c)}
  <2>1. Protocol!MaySend(c, "INVITE")
    BY <1>3 DEF Protocol!MaySend, Protocol!Created, Created
  <2>2. \A d \in Calls : SameTold(call[d], call'[d]) BY <1>6 DEF SameTold
  <2>3. "INVITE" \in Protocol!Methods BY DEF Protocol!Methods
  <2>4. Kept /\ NoAnswer /\ [Protocol!Next]_(Protocol!vars)
    BY <1>3, <1>4, <1>6, <2>1, <2>2, <2>3, SendTold
  <2>5. \A o \in timers' : o \in timers \/ Created(o.c)'
    BY <1>3, <1>6, <2>4 DEF Kept, Step
  <2> QED BY <1>1, <2>4, <2>5, ToldThen, PlainFew
<1>7. CASE call' = [call EXCEPT ![c] = r] /\ UNCHANGED <<sent, timers>>
  <2>1. call[c] \in Call /\ Nil \in SIPKeys \cup {Nil} BY <1>3 DEF TypeOK
  <2>2. SameTold(call[c], r) BY <2>1, UntoldCallID, Zenon
  <2> HIDE DEF r
  <2>3. Quiet BY <1>3, <1>4, <1>7, <2>2, QuietCall
  <2> QED BY <1>1, <1>7, <2>3, QuietFew
<1> QED BY <1>5, <1>6, <1>7

LEMMA LateByeSendAllowed ==
  ASSUME TypeOK, TypeOK', SafeInv, GroundsInv, NEW t \in Threads, LateByeSend(t)
  PROVE  Allowed
<1>1. At(t, "lateByeSend") /\ Then(t, <<>>) BY DEF LateByeSend
<1>2. PICK c \in InCalls : c = Cur(t).c BY <1>1, CurType DEF InviteSteps
<1>3. c \in Calls /\ pbx[c] \in AnswerKinds /\ Acked(c)
  BY <1>1, <1>2, CurGround, AckedCur DEF Founded, Calls
<1>4. call[c].st = "released"
  <2>1. Running(t, LateByes(c)) BY <1>1, <1>2, RunsCur, Members
  <2>2. todo[t] \in Seq(Op) BY DEF TypeOK
  <2>3. 1 \in DOMAIN todo[t] /\ Cur(t) = todo[t][1] BY <2>1, <2>2 DEF Cur, Running
  <2>4. LateDone(c) BY <2>1, <2>3 DEF Running, LateDone, Pends, PendsIn
  <2> QED BY <2>4 DEF SafeInv, LateInv
<1>5. UNCHANGED <<line, call, pbx, finals, hook, onhooks, timers>> BY DEF LateByeSend
<1>6. CASE UNCHANGED sent
  <2>1. Quiet BY <1>5, <1>6, QuietSame
  <2> QED BY <1>1, <1>5, <2>1, QuietFew
<1>7. CASE sent' = [sent EXCEPT ![c] = sent[c] \cup {"lateBYE"}]
  <2>1. Protocol!MaySend(c, "lateBYE")
    BY <1>3, <1>4 DEF Protocol!MaySend, Protocol!AnswerKinds, Protocol!Acked,
       AnswerKinds, Acked
  <2>2. \A d \in Calls : SameTold(call[d], call'[d]) BY <1>5 DEF SameTold
  <2>3. "lateBYE" \in Protocol!Methods BY DEF Protocol!Methods
  <2>4. Kept /\ NoAnswer /\ [Protocol!Next]_(Protocol!vars)
    BY <1>3, <1>5, <1>7, <2>1, <2>2, <2>3, SendTold
  <2> QED BY <1>1, <1>5, <2>4, ToldRun
<1> QED BY <1>2, <1>6, <1>7 DEF LateByeSend, Put

----------------------------------------------------------------------------
(* The PBX responds, and the gateway answers *)

\* A step that may answer calls, and leaves any sections with their grounds.
LEMMA ToldBacked ==
  ASSUME TypeOK, TypeOK', GroundsInv, Kept, NEW t \in Threads, ~ At(t, "sendSIP"),
         NEW ops \in Seq(Op), Backed(ops), Moves(t, ops), timers' = timers,
         \A c \in Calls : call'[c].SIPAnswered =>
           \/ call[c].SIPAnswered
           \/ Created(c)' /\ (c \in InCalls => pbx'[c] = "2xx" /\ Acked(c)'),
         [Protocol!Next]_(Protocol!vars)
  PROVE  Allowed
<1>1. \A c \in InCalls : ~ Running(t, {Ack(c)})
  BY DEF Running, At, Cur, Ack, StepA
<1>2. \A o \in timers' : o \in timers \/ Created(o.c)' OBVIOUS
<1>3. GroundStep(t, ops) BY <1>1, <1>2 DEF GroundStep
<1>4. GroundsInv' BY <1>3, GroundsPreserved
<1> QED BY <1>4 DEF Allowed

\* What handleSIPResponse leaves to do, after the response of the PBX.
LEMMA ResponseBacked ==
  ASSUME Kept, NEW c \in InCalls, Created(c), NEW kind \in SIPResponses,
         kind # "1xx" => pbx'[c] = kind
  PROVE  ResponseSteps(c, kind) \in Seq(Op) /\ Backed(ResponseSteps(c, kind))
<1>1. c \in Calls /\ Created(c)' BY DEF Calls, Kept
<1>2. /\ Step("sendSIPTeardown", c) \in PlainOps'
      /\ StepA("sendCallLineEvent", c, "onhook") \in PlainOps'
      /\ Step("releaseCall", c) \in PlainOps' /\ Step("armRelease", c) \in PlainOps'
      /\ Step("retainSIPInvite", c) \in PlainOps'
  BY <1>1, PlainSteps, PlainKept DEF CallSteps, LinePhases
<1>3. ASSUME NEW m \in {"ACK", "ACK2xx"}, SIPGround(c, m)'
      PROVE  StepA("sendSIP", c, m) \in PlainOps'
  <2>1. StepA("sendSIP", c, m) \in Op BY <1>1, StepType
  <2> QED BY <1>1, <1>3, <2>1 DEF PlainOps, Founded, StepA, Groundless, LoopSections
<1>4. CASE kind = "1xx"
  <2>1. <<>> \in Seq(PlainOps') OBVIOUS
  <2> QED BY <1>4, <2>1, PlainBacked DEF ResponseSteps
<1>5. CASE kind = "2xx"
  <2> DEFINE o == Step("sipAnswered", c)
  <2>1. o \in Op BY StepType DEF InviteSteps
  <2>2. o \in Founded' BY <1>1, <1>5, <2>1 DEF Founded, Step, Groundless, LoopSections
  <2>3. Ack(c) \in Founded' BY <1>3, <1>5 DEF Ack, SIPGround, AnswerKinds, PlainOps
  <2>4. o.c = c BY DEF Step
  <2>5. ResponseSteps(c, kind) = <<Ack(c), o>> BY <1>5 DEF ResponseSteps, Ack
  <2> HIDE DEF o
  <2> QED BY <2>2, <2>3, <2>4, <2>5, AckPair
<1>6. CASE kind = "2xx-bad-sdp"
  <2>1. StepA("sendSIP", c, "ACK2xx") \in PlainOps'
    BY <1>3, <1>6 DEF SIPGround, AnswerKinds
  <2>2. ResponseSteps(c, kind) \in Seq(PlainOps') BY <1>2, <1>6, <2>1 DEF ResponseSteps
  <2> QED BY <2>2, PlainBacked
<1>7. CASE kind = "failure"
  <2>1. StepA("sendSIP", c, "ACK") \in PlainOps' BY <1>3, <1>7 DEF SIPGround
  <2>2. ResponseSteps(c, kind) \in Seq(PlainOps') BY <1>2, <1>7, <2>1 DEF ResponseSteps
  <2> QED BY <2>2, PlainBacked
<1> QED BY <1>4, <1>5, <1>6, <1>7 DEF SIPResponses

LEMMA RecvResponseAllowed ==
  ASSUME TypeOK, TypeOK', SafeInv, GroundsInv, NEW t \in Threads,
         NEW c \in InCalls, NEW kind \in Answers, RecvResponse(t, c, kind)
  PROVE  Allowed
<1> DEFINE x == call[c].SIPInviteFinal \/ kind # "1xx"
           r == [call[c] EXCEPT !.SIPInviteProvisional = TRUE, !.SIPInviteFinal = x]
           o == StepA("handleRetainedSIPInviteResponse", c, kind)
<1>1. /\ c \in Calls /\ kind \in SIPResponses /\ call[c] \in Call /\ x \in BOOLEAN
      /\ pbx[c] \in {"none"} \cup SIPResponses
  BY ConstantsDisjoint DEF TypeOK, Call, Calls
<1>2. "INVITE" \in sent[c] /\ Created(c)
  BY DEF RecvResponse, SafeInv, InviteInv, Created
<1>3. /\ UNCHANGED <<line, timers, finals, sent, hook, onhooks>>
      /\ kind = "1xx" \/ pbx[c] \in {"none", kind}
      /\ pbx' = IF kind = "1xx" THEN pbx ELSE [pbx EXCEPT ![c] = kind]
      /\ \/ call' = [call EXCEPT ![c] = r] /\ Start(t, ResponseSteps(c, kind))
         \/ UNCHANGED call /\ (Start(t, <<>>) \/ Start(t, <<o>>))
  BY DEF RecvResponse
<1>4. \A d \in Calls : SameTold(call[d], call'[d])
  <2> HIDE DEF x
  <2>1. SameTold(call[c], r) BY <1>1, UntoldFlag, Zenon
  <2> HIDE DEF r
  <2> QED BY <1>1, <1>3, <2>1 DEF SameTold, TypeOK
<1> HIDE DEF r, x
<1>5. /\ kind # "1xx" => pbx'[c] = kind
      /\ \A d \in InCalls : pbx[d] # "none" => pbx'[d] = pbx[d]
      /\ kind = "1xx" \/ pbx[c] = kind => pbx' = pbx
  BY <1>1, <1>3 DEF TypeOK
<1>6. Kept /\ NoAnswer /\ UNCHANGED Protocol!calls
  <2>1. Kept /\ NoAnswer BY <1>3, <1>4, <1>5 DEF Kept, NoAnswer, SameTold, Created, Calls
  <2> QED BY <1>4, <2>1 DEF SameTold, Protocol!calls
<1>7. [Protocol!Next]_(Protocol!vars)
  <2>1. CASE pbx' = pbx BY <1>3, <1>6, <2>1 DEF Protocol!vars, Protocol!wire
  <2>2. CASE kind # "1xx" /\ pbx[c] # kind
    <3>1. /\ pbx[c] = "none" /\ pbx' = [pbx EXCEPT ![c] = kind]
          /\ kind \in Protocol!AnswerKinds \cup {"failure"}
      BY <1>1, <1>3, <2>2 DEF SIPResponses, Protocol!AnswerKinds
    <3>2. Protocol!Respond(c, kind) BY <1>2, <1>3, <1>6, <3>1 DEF Protocol!Respond
    <3> QED BY <1>1, <3>1, <3>2 DEF Protocol!Next, Protocol!Calls, Calls
  <2> QED BY <1>5, <2>1, <2>2
<1>8. o \in PlainOps'
  <2>1. o \in Op BY <1>1, StepType
  <2>2. Created(c)' BY <1>1, <1>2, <1>6 DEF Kept
  <2> QED BY <1>5, <2>1, <2>2 DEF PlainOps, Founded, StepA, Groundless, LoopSections
<1>9. PICK ops \in Seq(Op) : Backed(ops) /\ Start(t, ops)
  <2>1. CASE Start(t, ResponseSteps(c, kind))
    BY <1>1, <1>2, <1>5, <1>6, <2>1, ResponseBacked
  <2>2. CASE Start(t, <<>>) BY <2>2, PlainFew, PlainBacked
  <2>3. CASE Start(t, <<o>>)
    <3> HIDE DEF o
    <3>1. <<o>> \in Seq(PlainOps') BY <1>8, PlainFew
    <3> QED BY <2>3, <3>1, PlainBacked
  <2> QED BY <1>3, <2>1, <2>2, <2>3
<1>10. Moves(t, ops) /\ ~ At(t, "sendSIP") BY <1>9 DEF Moves, Start, Idle, At
<1> QED BY <1>3, <1>6, <1>7, <1>9, <1>10, ToldBacked DEF NoAnswer

LEMMA SIPAnsweredAllowed ==
  ASSUME TypeOK, TypeOK', GroundsInv, NEW t \in Threads, SIPAnswered(t)
  PROVE  Allowed
<1>1. At(t, "sipAnswered") BY DEF SIPAnswered
<1>2. PICK c \in InCalls : c = Cur(t).c BY <1>1, CurType DEF InviteSteps
<1>3. /\ c \in Calls /\ Created(c) /\ pbx[c] = "2xx" /\ Acked(c) /\ call[c] \in Call
      /\ todo[t] # <<>> /\ ~ At(t, "sendSIP")
  <2>1. c \in Calls /\ call[c] \in Call BY DEF TypeOK, Calls
  <2>2. /\ todo[t] # <<>> /\ Cur(t) \in Founded /\ Cur(t).f = "sipAnswered"
        /\ Created(c) /\ ~ At(t, "sendSIP")
    BY <1>1, <1>2, CurGround DEF Groundless, LoopSections
  <2>3. Acked(c) BY <1>1, <1>2, AckedCur
  <2> QED BY <1>2, <2>1, <2>2, <2>3 DEF Founded
<1> DEFINE r == [call[c] EXCEPT !.SIPAnswered = TRUE]
           o == StepA("sendCallLineEvent", c, "answer")
<1>4. /\ call' = [call EXCEPT ![c] = r] /\ Then(t, <<o>>)
      /\ UNCHANGED <<line, timers, wireVars>>
  BY <1>2 DEF SIPAnswered
<1>5. r.st = call[c].st /\ r.SIPAnswered = TRUE BY <1>3, ZenonT(30) DEF Call
<1> HIDE DEF r
<1>6. /\ \A d \in Calls : call'[d].st = call[d].st
      /\ \A d \in Calls : call'[d].SIPAnswered = IF d = c THEN TRUE ELSE call[d].SIPAnswered
  BY <1>4, <1>5 DEF TypeOK
<1>7. Kept BY <1>4, <1>6 DEF Kept, Created, Calls, wireVars
<1>8. \A d \in Calls : call'[d].SIPAnswered =>
        \/ call[d].SIPAnswered
        \/ Created(d)' /\ (d \in InCalls => pbx'[d] = "2xx" /\ Acked(d)')
  BY <1>3, <1>4, <1>6 DEF Created, Acked, wireVars
<1>9. [Protocol!Next]_(Protocol!vars)
  <2>1. Protocol!Answer(c)
    BY ConstantsDisjoint, <1>3, <1>4, <1>6
    DEF Protocol!Answer, Protocol!Acked, Acked, Protocol!wire, wireVars
  <2> QED BY <1>3, <2>1 DEF Protocol!Next, Protocol!Calls, Calls
<1>10. o \in PlainOps' BY <1>3, <1>7, PlainSteps, PlainKept DEF LinePhases
<1> HIDE DEF o
<1>11. <<o>> \in Seq(Op) /\ Backed(<<o>>) BY <1>10, PlainFew, PlainBacked
<1>12. Moves(t, <<o>>) /\ timers' = timers BY <1>3, <1>4 DEF Moves
<1> QED BY <1>3, <1>7, <1>8, <1>9, <1>11, <1>12, ToldBacked

LEMMA SendSIPAllowed ==
  ASSUME TypeOK, TypeOK', GroundsInv, NEW t \in Threads, SendSIP(t)
  PROVE  Allowed
<1>1. At(t, "sendSIP") /\ Then(t, <<>>) BY DEF SendSIP
<1>2. PICK c \in Calls, m \in {"ACK", "ACK2xx", "BYE", "CANCEL"} :
        c = Cur(t).c /\ m = Cur(t).a
  BY <1>1, CurType
<1>3. todo[t] # <<>> /\ Created(c) /\ SIPGround(c, m)
  BY <1>1, <1>2, CurGround DEF Founded, Groundless, LoopSections
<1>4. UNCHANGED <<line, call, pbx, finals, hook, onhooks, timers>>
  BY DEF SendSIP, bridgeVars
<1>5. \/ sent' = [sent EXCEPT ![c] = sent[c] \cup {m}]
      \/ SendError /\ UNCHANGED sent
  BY <1>2 DEF SendSIP, Put
<1>6. /\ Kept /\ NoAnswer /\ [Protocol!Next]_(Protocol!vars)
      /\ SendError \/ m \in sent'[c]
  <2>1. CASE SendError /\ UNCHANGED sent
    <3>1. Kept /\ NoAnswer /\ UNCHANGED Protocol!calls BY <1>4, <2>1, ToldSame
    <3> QED BY <1>4, <2>1, <3>1 DEF Protocol!vars, Protocol!wire
  <2>2. CASE sent' = [sent EXCEPT ![c] = sent[c] \cup {m}]
    <3>1. Protocol!MaySend(c, m)
      BY <1>3 DEF SIPGround, AnswerKinds, Created, Protocol!MaySend, Protocol!Created,
         Protocol!AnswerKinds
    <3>2. m \in Protocol!Methods BY DEF Protocol!Methods
    <3>3. \A d \in Calls : SameTold(call[d], call'[d]) BY <1>4 DEF SameTold
    <3> QED BY <1>4, <2>2, <3>1, <3>2, <3>3, SendTold
  <2> QED BY <1>5, <2>1, <2>2
<1>7. \A d \in InCalls : Running(t, {Ack(d)}) => Acked(d)'
  <2> SUFFICES ASSUME NEW d \in InCalls, Cur(t) = Ack(d) PROVE Acked(d)'
    BY DEF Running
  <2>1. d = c /\ m = "ACK2xx" BY <1>2 DEF Ack, StepA
  <2> QED BY <1>6, <2>1 DEF Acked, SendError
<1>8. <<>> \in Seq(Op) /\ Backed(<<>>) /\ Moves(t, <<>>)
  BY <1>1, <1>3, PlainFew, PlainBacked DEF Moves
<1>9. GroundStep(t, <<>>) BY <1>4, <1>6, <1>7, <1>8 DEF GroundStep, NoAnswer
<1>10. GroundsInv' BY <1>8, <1>9, GroundsPreserved
<1> QED BY <1>6, <1>10 DEF Allowed

LEMMA SendSIPOriginatedResponseAllowed ==
  ASSUME TypeOK, TypeOK', GroundsInv, NEW t \in Threads, SendSIPOriginatedResponse(t)
  PROVE  Allowed
<1>1. At(t, "sendSIPOriginatedResponse") BY DEF SendSIPOriginatedResponse
<1>2. PICK c \in OutCalls, status \in Statuses : c = Cur(t).c /\ status = Cur(t).a
  BY <1>1, CurType
<1>3. c \in Calls /\ call[c] \in Call /\ c \notin InCalls
  BY ConstantsDisjoint DEF TypeOK, Calls
<1>4. todo[t] # <<>> /\ Created(c) /\ ~ At(t, "sendSIP")
  BY <1>1, <1>2, CurGround DEF Groundless, LoopSections
<1> DEFINE b == call[c].SIPAnswered \/ status = "200"
           r == [call[c] EXCEPT !.SIPAnswered = b]
           o == StepA("respond", c, status)
<1>5. /\ UNCHANGED <<line, timers, wireVars>>
      /\ \/ call' = [call EXCEPT ![c] = r] /\ Then(t, <<o>>)
         \/ UNCHANGED call /\ Then(t, <<>>)
  BY <1>2 DEF SendSIPOriginatedResponse
<1>6. CASE UNCHANGED call /\ Then(t, <<>>)
  <2>1. Quiet BY <1>5, <1>6, QuietSame DEF wireVars
  <2> QED BY <1>1, <1>5, <1>6, <2>1, QuietFew
<1>7. CASE call' = [call EXCEPT ![c] = r] /\ Then(t, <<o>>)
  <2>1. b \in BOOLEAN BY <1>3 DEF Call
  <2>2. r.st = call[c].st /\ r.SIPAnswered = b
    <3> HIDE DEF b
    <3> QED BY <1>3, <2>1, ZenonT(30) DEF Call
  <2> HIDE DEF r
  <2>3. /\ \A d \in Calls : call'[d].st = call[d].st
        /\ \A d \in Calls : call'[d].SIPAnswered = IF d = c THEN b ELSE call[d].SIPAnswered
    BY <1>7, <2>2 DEF TypeOK
  <2>4. Kept BY <1>5, <2>3 DEF Kept, Created, Calls, wireVars
  <2>5. \A d \in Calls : call'[d].SIPAnswered =>
          \/ call[d].SIPAnswered
          \/ Created(d)' /\ (d \in InCalls => pbx'[d] = "2xx" /\ Acked(d)')
    BY <1>3, <1>4, <2>3, <2>4 DEF Kept
  <2>6. [Protocol!Next]_(Protocol!vars)
    <3>1. CASE status = "200"
      <4>1. {d \in Calls : call'[d].SIPAnswered} = {d \in Calls : call[d].SIPAnswered} \cup {c}
        BY <1>3, <2>3, <3>1
      <4>2. Protocol!Answer(c)
        BY <1>3, <1>4, <1>5, <2>3, <4>1
        DEF Protocol!Answer, Protocol!Created, Created, Protocol!wire, wireVars
      <4> QED BY <1>3, <4>2 DEF Protocol!Next, Protocol!Calls, Calls
    <3>2. CASE status # "200"
      <4>1. {d \in Calls : call'[d].SIPAnswered} = {d \in Calls : call[d].SIPAnswered}
        BY <1>3, <2>3, <3>2
      <4> QED BY <1>5, <2>3, <4>1 DEF Protocol!vars, Protocol!calls, Protocol!wire, wireVars
    <3> QED BY <3>1, <3>2
  <2>7. o \in PlainOps'
    <3>1. o \in Op BY StepType
    <3>2. Created(c)' /\ (status = "200" => call'[c].SIPAnswered)
      BY <1>3, <1>4, <2>3, <2>4 DEF Kept
    <3> QED BY <3>1, <3>2 DEF PlainOps, Founded, StepA, Groundless, LoopSections
  <2> HIDE DEF o
  <2>8. <<o>> \in Seq(Op) /\ Backed(<<o>>) BY <2>7, PlainFew, PlainBacked
  <2>9. Moves(t, <<o>>) /\ timers' = timers BY <1>4, <1>5, <1>7 DEF Moves
  <2> QED BY <1>4, <2>4, <2>5, <2>6, <2>8, <2>9, ToldBacked
<1> QED BY <1>5, <1>6, <1>7

----------------------------------------------------------------------------
(* Calls begin and end *)

\* A call gets another state, and whether it is answered stays.
LEMMA StateStep ==
  ASSUME TypeOK, NEW c \in Calls, NEW r, call' = [call EXCEPT ![c] = r],
         r.st # "unused", r.SIPAnswered = call[c].SIPAnswered, UNCHANGED <<sent, pbx>>
  PROVE  /\ Kept /\ NoAnswer /\ Created(c)'
         /\ [d \in Calls |-> call'[d].st] = [[d \in Calls |-> call[d].st] EXCEPT ![c] = r.st]
         /\ {d \in Calls : call'[d].SIPAnswered} = {d \in Calls : call[d].SIPAnswered}
<1>1. /\ call'[c] = r
      /\ \A d \in Calls : d # c => call'[d] = call[d]
  BY DEF TypeOK
<1>2. \A d \in Calls : call'[d].SIPAnswered = call[d].SIPAnswered BY <1>1
<1>3. Kept /\ NoAnswer /\ Created(c)' BY <1>1, <1>2 DEF Kept, NoAnswer, Created, Calls
<1>4. [d \in Calls |-> call'[d].st] = [[d \in Calls |-> call[d].st] EXCEPT ![c] = r.st]
  <2> DEFINE f == [d \in Calls |-> call[d].st]
  <2>1. [f EXCEPT ![c] = r.st] = [d \in Calls |-> IF d = c THEN r.st ELSE f[d]] BY Zenon
  <2>2. \A d \in Calls : f[d] = call[d].st BY Zenon
  <2> HIDE DEF f
  <2> QED BY <1>1, <2>1, <2>2 DEF f
<1> QED BY <1>2, <1>3, <1>4

LEMMA InsertContextAllowed ==
  ASSUME TypeOK, TypeOK', GroundsInv, NEW t \in Threads, InsertContext(t)
  PROVE  Allowed
<1>1. At(t, "insertContext") BY DEF InsertContext
<1>2. PICK c \in InCalls : c = Cur(t).c BY <1>1, CurType
<1> DEFINE r == [NewCall EXCEPT !.st = "live",
                                !.H248ContextAllocated = TRUE,
                                !.H248EventRequestID = IF Cur(t).req THEN Cur(t).from ELSE Nil,
                                !.H248Responder = Cur(t).from,
                                !.Media = TRUE]
           o == Step("incomingAddReply", c)
<1>3. /\ call[c].st = "unused" /\ call' = [call EXCEPT ![c] = r] /\ Then(t, <<o>>)
      /\ UNCHANGED <<line, timers, wireVars>>
  BY <1>2 DEF InsertContext
<1>4. r.st = "live" /\ r.SIPAnswered = FALSE BY DEF NewCall
<1> HIDE DEF r
<1>5. /\ c \in Calls /\ call[c].SIPAnswered = FALSE
  BY <1>3 DEF GroundsInv, Created, TypeOK, Call, Calls
<1>6. /\ Kept /\ NoAnswer /\ Created(c)'
      /\ [d \in Calls |-> call'[d].st] = [[d \in Calls |-> call[d].st] EXCEPT ![c] = "live"]
      /\ {d \in Calls : call'[d].SIPAnswered} = {d \in Calls : call[d].SIPAnswered}
  <2>1. /\ call' = [call EXCEPT ![c] = r] /\ UNCHANGED <<sent, pbx>>
        /\ r.st # "unused" /\ r.SIPAnswered = call[c].SIPAnswered
    BY <1>3, <1>4, <1>5 DEF wireVars
  <2>2. /\ Kept /\ NoAnswer /\ Created(c)'
        /\ [d \in Calls |-> call'[d].st] = [[d \in Calls |-> call[d].st] EXCEPT ![c] = r.st]
        /\ {d \in Calls : call'[d].SIPAnswered} = {d \in Calls : call[d].SIPAnswered}
    BY <1>5, <2>1, StateStep
  <2> QED BY <1>4, <2>2
<1>7. Protocol!Offer(c)
  <2>1. [d \in Calls |-> call[d].st][c] = "unused" BY <1>3, <1>5
  <2>2. UNCHANGED Protocol!wire /\ line' = line BY <1>3 DEF Protocol!wire, wireVars
  <2> QED BY <1>6, <2>1, <2>2 DEF Protocol!Offer
<1>8. [Protocol!Next]_(Protocol!vars) BY <1>5, <1>7 DEF Protocol!Next, Protocol!Calls, Calls
<1>9. o \in PlainOps'
  <2>1. o \in Op BY StepType DEF InviteSteps
  <2> QED BY <1>6, <2>1 DEF PlainOps, Founded, Step, Groundless, LoopSections
<1> HIDE DEF o
<1> QED BY <1>1, <1>3, <1>6, <1>8, <1>9, ToldRun

LEMMA HandleNewSIPInviteAllowed ==
  ASSUME IInv, TypeOK', GroundsInv, NEW t \in Threads, HandleNewSIPInvite(t)
  PROVE  Allowed
<1>1. At(t, "handleNewSIPInvite") /\ TypeOK BY DEF HandleNewSIPInvite, IInv
<1>2. PICK c \in OutCalls : c = Cur(t).c BY <1>1, CurType
<1> DEFINE r == [NewCall EXCEPT !.st = "live",
                                !.H248EventRequestID = line.eventRequestID,
                                !.H248Responder = line.responder,
                                !.SIPCallID = Cur(t).id]
           o == Step("newMediaRelay", c)
<1>3. /\ UNCHANGED <<line, timers, wireVars>>
      /\ \/ UNCHANGED call /\ Then(t, <<>>)
         \/ /\ LineReady /\ ~ LineBusy /\ call[c].st = "unused"
            /\ call' = [call EXCEPT ![c] = r] /\ Then(t, <<o>>)
  BY <1>2 DEF HandleNewSIPInvite
<1>4. r.st = "live" /\ r.SIPAnswered = FALSE BY DEF NewCall
<1> HIDE DEF r
<1>5. CASE UNCHANGED call /\ Then(t, <<>>)
  <2>1. Quiet BY <1>3, <1>5, QuietSame DEF wireVars
  <2> QED BY <1>1, <1>3, <1>5, <2>1, QuietFew
<1>6. CASE /\ LineReady /\ ~ LineBusy /\ call[c].st = "unused"
           /\ call' = [call EXCEPT ![c] = r] /\ Then(t, <<o>>)
  <2>1. /\ c \in Calls /\ call[c].SIPAnswered = FALSE
    BY <1>1, <1>6 DEF GroundsInv, Created, TypeOK, Call, Calls
  <2>2. /\ Kept /\ NoAnswer /\ Created(c)'
        /\ [d \in Calls |-> call'[d].st] = [[d \in Calls |-> call[d].st] EXCEPT ![c] = "live"]
        /\ {d \in Calls : call'[d].SIPAnswered} = {d \in Calls : call[d].SIPAnswered}
    <3>1. /\ call' = [call EXCEPT ![c] = r] /\ UNCHANGED <<sent, pbx>>
          /\ r.st # "unused" /\ r.SIPAnswered = call[c].SIPAnswered
      BY <1>3, <1>4, <1>6, <2>1 DEF wireVars
    <3>2. /\ Kept /\ NoAnswer /\ Created(c)'
          /\ [d \in Calls |-> call'[d].st] = [[d \in Calls |-> call[d].st] EXCEPT ![c] = r.st]
          /\ {d \in Calls : call'[d].SIPAnswered} = {d \in Calls : call[d].SIPAnswered}
      BY <1>1, <2>1, <3>1, StateStep
    <3> QED BY <1>4, <3>2
  <2>3. line.ready /\ \A d \in Calls : ~ Live(d)
    BY ConstantsDisjoint, <1>6 DEF LineReady, LineBusy, IInv, IndexConsistent, Calls
  <2>4. Protocol!Admit(c)
    <3>1. \A d \in Calls : [e \in Calls |-> call[e].st][d] # "live" BY <2>3 DEF Live
    <3>2. [d \in Calls |-> call[d].st][c] = "unused" BY <1>6, <2>1
    <3>3. Protocol!NoCall BY <3>1 DEF Protocol!NoCall, Protocol!Calls, Calls
    <3>4. UNCHANGED <<Protocol!wire, line.ready>> BY <1>3 DEF Protocol!wire, wireVars
    <3>5. line.ready BY <2>3
    <3> QED BY <2>2, <3>2, <3>3, <3>4, <3>5, Zenon DEF Protocol!Admit
  <2>5. [Protocol!Next]_(Protocol!vars)
    BY <2>1, <2>4 DEF Protocol!Next, Protocol!Calls, Calls
  <2>6. o \in PlainOps'
    <3>1. o \in Op BY StepType DEF OriginationSteps
    <3> QED BY <2>2, <3>1 DEF PlainOps, Founded, Step, Groundless, LoopSections
  <2> HIDE DEF o
  <2> QED BY <1>1, <1>3, <1>6, <2>2, <2>5, <2>6, ToldRun
<1> QED BY <1>3, <1>5, <1>6

LEMMA ReleaseCallAllowed ==
  ASSUME TypeOK, TypeOK', GroundsInv, NEW t \in Threads, ReleaseCall(t)
  PROVE  Allowed
<1>1. At(t, "releaseCall") BY DEF ReleaseCall
<1>2. PICK c \in Calls : c = Cur(t).c BY <1>1, CurType DEF CallSteps
<1> DEFINE r == [call[c] EXCEPT !.st = "released"]
<1>3. /\ UNCHANGED <<line, timers, finals, sent, hook, onhooks, pbx>> /\ Then(t, <<>>)
      /\ UNCHANGED call \/ (Live(c) /\ call' = [call EXCEPT ![c] = r])
  BY <1>2 DEF ReleaseCall
<1>4. CASE UNCHANGED call
  <2>1. Quiet BY <1>3, <1>4, QuietSame
  <2> QED BY <1>1, <1>3, <2>1, QuietFew
<1>5. CASE Live(c) /\ call' = [call EXCEPT ![c] = r]
  <2>1. call[c] \in Call BY DEF TypeOK
  <2>2. r.st = "released" /\ r.SIPAnswered = call[c].SIPAnswered
    BY <2>1, ZenonT(30) DEF Call
  <2> HIDE DEF r
  <2>3. /\ Kept /\ NoAnswer
        /\ [d \in Calls |-> call'[d].st]
             = [[d \in Calls |-> call[d].st] EXCEPT ![c] = "released"]
        /\ {d \in Calls : call'[d].SIPAnswered} = {d \in Calls : call[d].SIPAnswered}
    <3>1. /\ call' = [call EXCEPT ![c] = r] /\ UNCHANGED <<sent, pbx>>
          /\ r.st # "unused" /\ r.SIPAnswered = call[c].SIPAnswered
      BY <1>3, <1>5, <2>2
    <3>2. /\ Kept /\ NoAnswer
          /\ [d \in Calls |-> call'[d].st] = [[d \in Calls |-> call[d].st] EXCEPT ![c] = r.st]
          /\ {d \in Calls : call'[d].SIPAnswered} = {d \in Calls : call[d].SIPAnswered}
      BY <3>1, StateStep
    <3> QED BY <2>2, <3>2
  <2>4. Protocol!Release(c)
    <3>1. [d \in Calls |-> call[d].st][c] = "live" BY <1>5 DEF Live
    <3>2. UNCHANGED Protocol!wire /\ line' = line BY <1>3 DEF Protocol!wire
    <3> QED BY <2>3, <3>1, <3>2 DEF Protocol!Release
  <2>5. [Protocol!Next]_(Protocol!vars)
    BY <2>4 DEF Protocol!Next, Protocol!Calls, Calls
  <2> QED BY <1>1, <1>3, <2>3, <2>5, ToldRun
<1> QED BY <1>3, <1>4, <1>5

----------------------------------------------------------------------------
(* The line enters and leaves service *)

LEMMA ServiceTold ==
  ASSUME TypeOK, TypeOK', UNCHANGED <<call, wireVars>>
  PROVE  Kept /\ NoAnswer /\ [Protocol!Next]_(Protocol!vars)
<1>1. Kept /\ NoAnswer /\ UNCHANGED Protocol!calls BY ToldSame DEF wireVars
<1>2. line.ready \in BOOLEAN /\ line'.ready \in BOOLEAN BY DEF TypeOK, Line
<1>3. line'.ready = line.ready \/ line'.ready = ~ line.ready BY <1>2
<1>4. UNCHANGED Protocol!wire BY DEF Protocol!wire, wireVars
<1>5. Protocol!Service \/ UNCHANGED Protocol!vars
  BY <1>1, <1>3, <1>4 DEF Protocol!Service, Protocol!vars
<1> QED BY <1>1, <1>5 DEF Protocol!Next

LEMMA HandleH248ReadyAllowed ==
  ASSUME TypeOK, TypeOK', GroundsInv, HandleH248Ready
  PROVE  Allowed
<1>1. UNCHANGED <<call, timers, wireVars>> /\ Start("reg", ReadySteps)
  BY DEF HandleH248Ready
<1>2. Kept /\ NoAnswer /\ [Protocol!Next]_(Protocol!vars) BY <1>1, ServiceTold
<1>3. LineStep("sendInitialOnhook") \in PlainOps' BY <1>2, PlainSteps, PlainKept
<1>4. ReadySteps \in Seq(PlainOps') BY <1>3, PlainFew DEF ReadySteps
<1>5. ReadySteps \in Seq(Op) /\ Backed(ReadySteps) BY <1>4, PlainBacked
<1>6. /\ "reg" \in Threads /\ ~ At("reg", "sendSIP") /\ Moves("reg", ReadySteps)
  BY <1>1 DEF Moves, Start, Idle, At, Threads
<1> QED BY <1>1, <1>2, <1>5, <1>6, ToldBacked DEF NoAnswer

LEMMA HandleH248UnavailableAllowed ==
  ASSUME IInv, TypeOK', GroundsInv, HandleH248Unavailable
  PROVE  Allowed
<1> DEFINE o == EachOf("unavailableCalls", ActiveCalls)
<1>1. UNCHANGED <<call, timers, wireVars>> /\ Start("reg", <<o>>) /\ TypeOK
  BY DEF HandleH248Unavailable, IInv
<1>2. Kept /\ NoAnswer /\ [Protocol!Next]_(Protocol!vars) BY <1>1, ServiceTold
<1>3. ActiveCalls \in SUBSET Calls BY <1>1 DEF ActiveCalls, TypeOK, Calls
<1>4. \A c \in ActiveCalls : Created(c)
  BY LiveCreated DEF ActiveCalls, IInv, IndexConsistent
<1>5. o \in PlainOps' BY <1>2, <1>3, <1>4, PlainSteps, PlainKept DEF LoopSections
<1> HIDE DEF o
<1>6. <<o>> \in Seq(Op) /\ Backed(<<o>>) BY <1>5, PlainFew, PlainBacked
<1>7. "reg" \in Threads /\ ~ At("reg", "sendSIP") /\ Moves("reg", <<o>>)
  BY <1>1 DEF Moves, Start, Idle, At, Threads
<1> QED BY <1>1, <1>2, <1>6, <1>7, ToldBacked DEF NoAnswer

----------------------------------------------------------------------------
(* Every step is allowed *)

LEMMA ReceiveAllowed ==
  ASSUME IInv, TypeOK', SafeInv, GroundsInv, NEW t \in Goroutines, Receive(t)
  PROVE  Allowed
<1>1. t \in Threads BY DEF Threads
<1>2. TypeOK BY DEF IInv
<1>3. CASE \E req \in BOOLEAN : RecvAdd(t, req) BY <1>1, <1>3, RecvAddAllowed
<1>4. CASE \E cmd \in Commands : RecvLineCommand(t, cmd)
  BY <1>1, <1>2, <1>4, RecvLineCommandAllowed
<1>5. CASE \E c \in Calls, cmd \in Commands : RecvContextCommand(t, c, cmd)
  BY <1>1, <1>5, RecvContextCommandAllowed
<1>6. CASE RecvSubtractAll(t) BY <1>1, <1>6, RecvSubtractAllAllowed
<1>7. CASE \E p \in pendingH248, isError \in BOOLEAN : RecvReply(t, p, isError)
  BY <1>1, <1>7, RecvReplyAllowed
<1>8. CASE \E id \in CallIDs : RecvInvite(t, id) BY <1>1, <1>2, <1>8, RecvInviteAllowed
<1>9. CASE \E c \in OutCalls : RecvCancel(t, c)
  BY <1>1, <1>2, <1>9, RemoteReleaseAllowed DEF Calls
<1>10. CASE \E c \in Calls : RecvBye(t, c) BY <1>1, <1>2, <1>10, RemoteReleaseAllowed
<1>11. CASE \E c \in InCalls, kind \in Answers : RecvResponse(t, c, kind)
  BY <1>1, <1>2, <1>11, RecvResponseAllowed
<1> QED BY <1>3, <1>4, <1>5, <1>6, <1>7, <1>8, <1>9, <1>10, <1>11 DEF Receive

LEMMA RunAllowed ==
  ASSUME IInv, TypeOK', SafeInv, GroundsInv, NEW t \in Threads, Run(t)
  PROVE  Allowed
<1>1. TypeOK BY DEF IInv
<1> QED
  BY <1>1, ReleaseCallAllowed, ArmReleaseAllowed, SendInitialOnhookAllowed,
     InitialOnhookSendAllowed, SendCallLineEventAllowed, LineEventSendAllowed,
     LoopAllowed, HandleIncomingCallAddAllowed, InsertContextAllowed,
     AddReplyAllowed, HandleOutboundCallAddAllowed,
     ScheduleOriginationOffhookAllowed, SendOriginationOffhookAllowed,
     OffhookSendAllowed, ScheduleOriginationDigitsAllowed,
     SendOriginationDigitsAllowed, DigitsSendAllowed, LineCommandAllowed,
     ContextCommandAllowed, HandleCarrierReleaseAllowed,
     HandleNewSIPInviteAllowed, NewMediaRelayAllowed, SetMediaAllowed,
     SendSIPOriginatedResponseAllowed, RespondAllowed, AnswerOrFailAllowed,
     MarkAnsweredAllowed, StartSIPInviteAllowed, InviteSendAllowed,
     SIPAnsweredAllowed, SendSIPTeardownAllowed, SendSIPAllowed,
     RetainSIPInviteAllowed, HandleRetainedSIPInviteResponseAllowed,
     SendLateAnswerBYEAllowed, LateByeSendAllowed
  DEF Run

LEMMA NextAllowed ==
  ASSUME IInv, SafeInv, GroundsInv, [Next]_vars
  PROVE  GroundsInv' /\ [Protocol!Next]_(Protocol!vars)
<1>1. TypeOK /\ TypeOK' BY Inductive DEF IInv
<1>2. CASE \E t \in Goroutines : Receive(t) BY <1>1, <1>2, ReceiveAllowed DEF Allowed
<1>3. CASE \E t \in Threads : Run(t) BY <1>1, <1>3, RunAllowed DEF Allowed
<1>4. CASE TimerFires \/ RetransmitDeadline \/ HandleH248Ready \/ HandleH248Unavailable
  BY <1>1, <1>4, TimerFiresAllowed, RetransmitDeadlineAllowed,
     HandleH248ReadyAllowed, HandleH248UnavailableAllowed
  DEF Allowed
<1>5. CASE \/ RetransmitTick \/ RetainedExpires \/ RegistrationStarts
           \/ RegistrationFails \/ UNCHANGED vars
  BY <1>5, BackgroundStillAllowed DEF Allowed
<1> QED BY <1>2, <1>3, <1>4, <1>5 DEF Next, Background

LEMMA InitGrounds == Init => GroundsInv /\ Protocol!Init
<1> SUFFICES ASSUME Init PROVE GroundsInv /\ Protocol!Init OBVIOUS
<1>1. \A c \in Calls : call[c].st = "unused" /\ call[c].SIPAnswered = FALSE
  BY DEF Init, NewCall
<1>2. InCalls \subseteq Calls BY DEF Calls
<1>3. GroundsInv BY <1>1, <1>2 DEF GroundsInv, Init
<1>4. /\ [c \in Calls |-> call[c].st] = [c \in Calls |-> "unused"]
      /\ {c \in Calls : call[c].SIPAnswered} = {}
      /\ line.ready = FALSE
  BY <1>1 DEF Init, IdleLine
<1>5. Protocol!Init BY <1>4 DEF Protocol!Init, Protocol!Calls, Init, Calls
<1> QED BY <1>3, <1>5

----------------------------------------------------------------------------
(* The theorems *)

LEMMA GroundsSpec == Spec => []GroundsInv
<1>1. Init => GroundsInv BY InitGrounds
<1>2. IInv /\ SafeInv /\ GroundsInv /\ [Next]_vars => GroundsInv' BY NextAllowed
<1> QED BY <1>1, <1>2, SafeSpec, PTL DEF Spec

\* bridge.go, h248.go and sip.go: whatever goroutines, timers and faults do
\* between the sections, every message to the PBX and every hook event is one
\* that CallProtocol allows at the moment it goes out: an admission when the
\* line is free and in service, a BYE in an answered dialog, a late BYE in one
\* whose ACK went out before, an al/on once for each call.
THEOREM BridgeImplementsProtocol == Spec => ImplementsProtocol
<1>1. Init => Protocol!Init BY InitGrounds
<1>2. IInv /\ SafeInv /\ GroundsInv /\ [Next]_vars => [Protocol!Next]_(Protocol!vars)
  BY NextAllowed
<1> QED BY <1>1, <1>2, SafeSpec, GroundsSpec, PTL DEF Spec, ImplementsProtocol, Protocol!Spec


\* What a step of the protocol does to the dialog of one call of the carrier.
DialogStep(d) ==
  /\ call[d].st = "released" => call'[d].st = "released"
  /\ sent[d] \subseteq sent'[d]
  /\ \A m \in sent'[d] : m \in sent[d] \/ Protocol!MaySend(d, m)
  /\ \/ pbx'[d] = pbx[d]
     \/ pbx[d] = "none" /\ "INVITE" \in sent[d] /\ sent' = sent
  /\ call[d].SIPAnswered => call'[d].SIPAnswered
  /\ call'[d].SIPAnswered => call[d].SIPAnswered \/ (pbx[d] = "2xx" /\ Acked(d))

LEMMA DialogSteps ==
  ASSUME TypeOK, TypeOK', [Protocol!Next]_(Protocol!vars), NEW d \in InCalls
  PROVE  DialogStep(d)
<1> DEFINE st == [c \in Calls |-> call[c].st]
           answered == {c \in Calls : call[c].SIPAnswered}
<1>1. /\ d \in Calls /\ st[d] = call[d].st /\ st'[d] = call'[d].st
      /\ call[d].SIPAnswered <=> d \in answered
      /\ call'[d].SIPAnswered <=> d \in answered'
  BY DEF Calls
<1>2. sent \in [Calls -> SUBSET Protocol!Methods] /\ pbx \in [InCalls -> {"none"} \cup SIPResponses]
  BY DEF TypeOK, Protocol!Methods
<1>3. Protocol!Calls = Calls BY DEF Protocol!Calls, Calls
<1> HIDE DEF st, answered
<1>4. CASE UNCHANGED <<st, answered, sent, pbx>> BY <1>1, <1>4 DEF DialogStep
<1>5. CASE \/ Protocol!Service \/ Protocol!InitialOnhook \/ UNCHANGED Protocol!vars
           \/ \E c \in Calls : Protocol!Offhook(c) \/ Protocol!Onhook(c)
           \/ \E c \in Calls, status \in Protocol!Statuses : Protocol!Final(c, status)
  BY <1>4, <1>5 DEF Protocol!Service, Protocol!InitialOnhook, Protocol!vars,
     Protocol!Offhook, Protocol!Onhook, Protocol!Final, Protocol!calls, Protocol!wire,
     st, answered
<1>6. ASSUME NEW c \in Calls, Protocol!Offer(c) \/ Protocol!Admit(c) \/ Protocol!Release(c)
      PROVE  DialogStep(d)
  <2>1. /\ UNCHANGED <<answered, sent, pbx>>
        /\ \/ st[c] = "unused" /\ st' = [st EXCEPT ![c] = "live"]
           \/ st' = [st EXCEPT ![c] = "released"]
    BY <1>6 DEF Protocol!Offer, Protocol!Admit, Protocol!Release, Protocol!wire, st, answered
  <2>2. DOMAIN st = Calls BY DEF st
  <2>3. st[d] = "released" => st'[d] = "released"
    BY <1>1, <2>1, <2>2
  <2> QED BY <1>1, <2>1, <2>3 DEF DialogStep
<1>7. ASSUME NEW c \in Calls, Protocol!Answer(c) PROVE DialogStep(d)
  <2>1. /\ UNCHANGED <<st, sent, pbx>> /\ answered' = answered \cup {c}
        /\ c \in InCalls => pbx[c] = "2xx" /\ Acked(c)
    BY <1>7 DEF Protocol!Answer, Protocol!wire, Protocol!Acked, Acked, st, answered
  <2> QED BY <1>1, <2>1 DEF DialogStep
<1>8. ASSUME NEW c \in Calls, NEW m \in Protocol!Methods, Protocol!Send(c, m)
      PROVE  DialogStep(d)
  <2>1. /\ UNCHANGED <<st, answered, pbx>> /\ Protocol!MaySend(c, m)
        /\ sent' = [sent EXCEPT ![c] = sent[c] \cup {m}]
    BY <1>8 DEF Protocol!Send, Protocol!calls, st, answered
  <2>2. sent'[d] = IF d = c THEN sent[d] \cup {m} ELSE sent[d] BY <1>1, <1>2, <2>1
  <2> QED BY <1>1, <2>1, <2>2 DEF DialogStep
<1>9. ASSUME NEW c \in Calls, NEW kind, Protocol!Respond(c, kind) PROVE DialogStep(d)
  <2>1. /\ UNCHANGED <<st, answered, sent>> /\ c \in InCalls
        /\ "INVITE" \in sent[c] /\ pbx[c] = "none" /\ pbx' = [pbx EXCEPT ![c] = kind]
    BY <1>9 DEF Protocol!Respond, Protocol!calls, st, answered
  <2>2. pbx'[d] = pbx[d] \/ d = c BY <1>2, <2>1
  <2> QED BY <1>1, <2>1, <2>2 DEF DialogStep
<1> QED BY <1>3, <1>5, <1>6, <1>7, <1>8, <1>9 DEF Protocol!Next

\* A step of the protocol keeps its dialogs in order.
LEMMA OrderKept ==
  ASSUME TypeOK, TypeOK', DialogOrder, [Protocol!Next]_(Protocol!vars)
  PROVE  DialogOrder'
<1> USE DEF DialogOrder, Protocol!DialogOrder
<1>1. InCalls \cap OutCalls = {} /\ \A c \in InCalls : c \in Calls
  BY ConstantsDisjoint DEF Calls
<1> SUFFICES ASSUME NEW c \in InCalls
             PROVE  /\ pbx'[c] # "none" => "INVITE" \in sent'[c]
                    /\ "ACK" \in sent'[c] => pbx'[c] = "failure"
                    /\ "ACK2xx" \in sent'[c] => pbx'[c] \in AnswerKinds
                    /\ call'[c].SIPAnswered => pbx'[c] = "2xx" /\ Acked(c)'
                    /\ "BYE" \in sent'[c] => call'[c].SIPAnswered
                    /\ "lateBYE" \in sent'[c] =>
                         call'[c].st = "released" /\ pbx'[c] \in AnswerKinds /\ Acked(c)'
  BY <1>1 DEF Protocol!AnswerKinds, Protocol!Acked, AnswerKinds, Acked
<1>2. /\ pbx[c] # "none" => "INVITE" \in sent[c]
      /\ "ACK" \in sent[c] => pbx[c] = "failure"
      /\ "ACK2xx" \in sent[c] => pbx[c] \in AnswerKinds
      /\ call[c].SIPAnswered => pbx[c] = "2xx" /\ Acked(c)
      /\ "BYE" \in sent[c] => call[c].SIPAnswered
      /\ "lateBYE" \in sent[c] =>
           call[c].st = "released" /\ pbx[c] \in AnswerKinds /\ Acked(c)
  BY <1>1 DEF Protocol!AnswerKinds, Protocol!Acked, AnswerKinds, Acked
<1>3. DialogStep(c) BY DialogSteps
<1>4. /\ Protocol!MaySend(c, "ACK") => pbx[c] = "failure"
      /\ Protocol!MaySend(c, "ACK2xx") => pbx[c] \in AnswerKinds
      /\ Protocol!MaySend(c, "BYE") => call[c].SIPAnswered
      /\ Protocol!MaySend(c, "lateBYE") =>
           call[c].st = "released" /\ pbx[c] \in AnswerKinds /\ Acked(c)
  BY <1>1 DEF Protocol!MaySend, Protocol!AnswerKinds, Protocol!Acked, Protocol!Created,
     AnswerKinds, Acked
<1>5. Acked(c) => Acked(c)' BY <1>3 DEF Acked, DialogStep
<1>6. CASE pbx'[c] = pbx[c] BY <1>2, <1>3, <1>4, <1>5, <1>6 DEF DialogStep
<1>7. CASE pbx[c] = "none" /\ "INVITE" \in sent[c] /\ sent' = sent
  BY <1>2, <1>3, <1>7 DEF DialogStep, AnswerKinds
<1> QED BY <1>3, <1>6, <1>7 DEF DialogStep

\* handleSIPResponse, sendSIPTeardown and handleRetainedSIPInviteResponse: the
\* messages of a call of the carrier follow each other as in one SIP dialog.
\* A refused INVITE gets no BYE and an accepted one no ACK of a refusal, and a
\* call is taken for answered only after an answer with usable SDP, which has
\* its ACK unless that was lost.
THEOREM DialogsOrdered == Spec => []DialogOrder
<1>1. Init => DialogOrder
  <2> SUFFICES ASSUME Init PROVE DialogOrder OBVIOUS
  <2>1. \A c \in InCalls : /\ c \in Calls /\ sent[c] = {} /\ pbx[c] = "none"
                           /\ call[c].SIPAnswered = FALSE
    BY DEF Init, NewCall, Calls
  <2> QED BY <2>1 DEF DialogOrder, Protocol!DialogOrder
<1>2. IInv /\ SafeInv /\ GroundsInv /\ DialogOrder /\ [Next]_vars => DialogOrder'
  <2> SUFFICES ASSUME IInv, SafeInv, GroundsInv, DialogOrder, [Next]_vars
               PROVE  DialogOrder'
    OBVIOUS
  <2>1. TypeOK /\ TypeOK' BY Inductive DEF IInv
  <2>2. [Protocol!Next]_(Protocol!vars) BY NextAllowed
  <2> QED BY <2>1, <2>2, OrderKept
<1> QED BY <1>1, <1>2, SafeSpec, GroundsSpec, PTL DEF Spec
=============================================================================
