------------------------- MODULE BridgeSafetyProofs -------------------------
(***************************************************************************)
(* The safety properties of the call bridge that relate the calls to what  *)
(* its goroutines have left to do, proved for any calls, MGCs and          *)
(* goroutines, with every fault the model has unless the theorem says      *)
(* otherwise.                                                              *)
(*                                                                         *)
(* A call has no owner: a handler that unlocks the bridge leaves sections  *)
(* to run, and what may happen to the call meanwhile depends on which      *)
(* these are.  So each invariant speaks of the sections of a kind that are *)
(* still pending in any thread (Pends, Only, for the sets Releases,        *)
(* InviteSends, LateByes, ... below) and of the flags of the Call.  XInv   *)
(* is such an invariant, XStep what a step has to do for it to survive     *)
(* (LEMMA XPreserved).  A step that changes none of what XInv reads        *)
(* (CalmX) only has to leave harmless sections behind (FlowX); PlainOp and *)
(* Fits say which are.  Every section and every goroutine then has a lemma *)
(* (...Safe) that it is a step of that kind (Stepped).                     *)
(***************************************************************************)
EXTENDS BridgeProofs

----------------------------------------------------------------------------
(* Threads *)

\* A section of the set S is still to be run, and at most one is.
PendsIn(t, S) == \E i \in DOMAIN todo[t] : todo[t][i] \in S
Pends(S)      == \E t \in Threads : PendsIn(t, S)
Only(S)       == \A t, u \in Threads :
              \A i \in DOMAIN todo[t], j \in DOMAIN todo[u] :
                todo[t][i] \in S /\ todo[u][j] \in S => t = u /\ i = j

\* The thread that takes the step has ops to run in place of the section it
\* has run, or is a new goroutine.
Running(t, S) == todo[t] # <<>> /\ Cur(t) \in S
Moves(t, ops) == \/ todo[t] # <<>> /\ Then(t, ops)
                 \/ Start(t, ops)
Adds(ops, S)  == \E i \in DOMAIN ops : ops[i] \in S

\* Where the sections of a thread come from: the new ones, then the rest.
LEMMA MovedThread ==
  ASSUME TypeOK, NEW t \in Threads, NEW ops \in Seq(Op), Moves(t, ops)
  PROVE  LET n == Len(ops)
             k == IF todo[t] = <<>> THEN 0 ELSE 1
         IN /\ \A u \in Threads \ {t} : todo'[u] = todo[u]
            /\ \A i \in DOMAIN ops : i \in DOMAIN todo'[t] /\ todo'[t][i] = ops[i]
            /\ \A i \in DOMAIN todo'[t] :
                 \/ i \in DOMAIN ops
                 \/ /\ i > n /\ i - n + k \in DOMAIN todo[t]
                    /\ todo'[t][i] = todo[t][i - n + k]
            /\ \A i \in DOMAIN todo[t] :
                 \/ i = 1 /\ k = 1
                 \/ /\ i - k + n \in DOMAIN todo'[t]
                    /\ todo'[t][i - k + n] = todo[t][i]
<1>1. todo \in [Threads -> Seq(Op)] /\ todo[t] \in Seq(Op) BY DEF TypeOK
<1>2. CASE Start(t, ops)
  <2>1. todo[t] = <<>> /\ todo' = [todo EXCEPT ![t] = ops] BY <1>2 DEF Start, Idle
  <2>2. todo'[t] = ops /\ \A u \in Threads \ {t} : todo'[u] = todo[u]
    BY <1>1, <2>1
  <2>3. DOMAIN ops = 1 .. Len(ops) /\ Len(ops) \in Nat OBVIOUS
  <2> QED BY <2>1, <2>2, <2>3
<1>3. CASE todo[t] # <<>> /\ Then(t, ops)
  <2> DEFINE rest == Tail(todo[t])
  <2>1. /\ rest \in Seq(Op) /\ Len(rest) = Len(todo[t]) - 1
        /\ \A i \in 1 .. Len(rest) : rest[i] = todo[t][i + 1]
    BY <1>1, <1>3
  <2>2. todo' = [todo EXCEPT ![t] = ops \o rest] BY <1>3 DEF Then
  <2> HIDE DEF rest
  <2>3. todo'[t] = ops \o rest /\ \A u \in Threads \ {t} : todo'[u] = todo[u]
    BY <1>1, <2>2
  <2>4. /\ ops \o rest \in Seq(Op) /\ Len(ops \o rest) = Len(ops) + Len(rest)
        /\ Len(ops) \in Nat /\ Len(rest) \in Nat
    <3>1. rest \in Seq(Op) BY <2>1
    <3>2. ops \o rest \in Seq(Op) BY <3>1
    <3>3. Len(ops \o rest) = Len(ops) + Len(rest) BY <3>1
    <3> QED BY <3>1, <3>2, <3>3
  <2>5. \A i \in 1 .. Len(ops) : (ops \o rest)[i] = ops[i]
    BY <2>1
  <2>6. \A i \in 1 .. Len(rest) : (ops \o rest)[i + Len(ops)] = rest[i]
    BY <2>1
  <2>7. /\ DOMAIN todo'[t] = 1 .. Len(ops) + Len(rest)
        /\ DOMAIN ops = 1 .. Len(ops)
    BY <2>3, <2>4
  <2>8. DOMAIN todo[t] = 1 .. Len(rest) + 1
    BY <1>1, <2>1, <2>4
  <2>9. ASSUME NEW i \in DOMAIN todo'[t], i \notin DOMAIN ops
        PROVE  /\ i > Len(ops) /\ i - Len(ops) + 1 \in DOMAIN todo[t]
               /\ todo'[t][i] = todo[t][i - Len(ops) + 1]
    <3>1. i - Len(ops) \in 1 .. Len(rest) /\ i > Len(ops) BY <2>4, <2>7, <2>9
    <3>2. todo'[t][i] = rest[i - Len(ops)] BY <2>3, <2>4, <2>6, <2>7, <3>1
    <3> QED BY SMTT(30), <2>1, <2>4, <2>8, <3>1, <3>2
  <2>10. ASSUME NEW i \in DOMAIN todo[t], i # 1
         PROVE  /\ i - 1 + Len(ops) \in DOMAIN todo'[t]
                /\ todo'[t][i - 1 + Len(ops)] = todo[t][i]
    <3>1. i - 1 \in 1 .. Len(rest) BY <2>4, <2>8, <2>10
    <3>2. rest[i - 1] = todo[t][i] BY <2>1, <2>8, <3>1
    <3>3. todo'[t][i - 1 + Len(ops)] = rest[i - 1] BY <2>3, <2>6, <3>1
    <3> QED BY <2>4, <2>7, <3>1, <3>2, <3>3
  <2>11. \A i \in DOMAIN ops : i \in DOMAIN todo'[t] /\ todo'[t][i] = ops[i]
    BY <2>3, <2>4, <2>5, <2>7
  <2> QED BY <1>3, <2>3, <2>9, <2>10, <2>11
<1> QED BY <1>2, <1>3 DEF Moves

\* What a step of a thread does to the sections of a set.
LEMMA MovedSet ==
  ASSUME TypeOK, NEW t \in Threads, NEW ops \in Seq(Op), Moves(t, ops),
         NEW CONSTANT S
  PROVE  /\ Pends(S)' => Pends(S) \/ Adds(ops, S)
         /\ Pends(S) => Pends(S)' \/ Running(t, S)
         /\ Running(t, S) => Pends(S)
         /\ \A u \in Threads : PendsIn(u, S) =>
              PendsIn(u, S)' \/ (u = t /\ Running(t, S))
         /\ Adds(ops, S) => PendsIn(t, S)' /\ Pends(S)'
         /\ Only(S) /\ ~ Adds(ops, S) =>
              Only(S)' /\ (Running(t, S) => ~ Pends(S)')
         /\ ~ Pends(S) \/ (Only(S) /\ Running(t, S)) =>
              (Len(ops) = 1 => Only(S)')
<1> DEFINE n == Len(ops)
           k == IF todo[t] = <<>> THEN 0 ELSE 1
<1>1. /\ \A u \in Threads \ {t} : todo'[u] = todo[u]
      /\ \A i \in DOMAIN ops : i \in DOMAIN todo'[t] /\ todo'[t][i] = ops[i]
      /\ \A i \in DOMAIN todo'[t] :
           \/ i \in DOMAIN ops
           \/ /\ i > n /\ i - n + k \in DOMAIN todo[t]
              /\ todo'[t][i] = todo[t][i - n + k]
      /\ \A i \in DOMAIN todo[t] :
           \/ i = 1 /\ k = 1
           \/ /\ i - k + n \in DOMAIN todo'[t]
              /\ todo'[t][i - k + n] = todo[t][i]
  BY MovedThread
<1>2. /\ \A u \in Threads : todo[u] \in Seq(Op) /\ DOMAIN todo[u] \subseteq Nat \ {0}
      /\ n \in Nat /\ DOMAIN ops = 1 .. n
  BY DEF TypeOK
<1>3. k \in {0, 1} /\ (k = 1 => todo[t] # <<>> /\ 1 \in DOMAIN todo[t])
  <2>1. todo[t] # <<>> => 1 \in DOMAIN todo[t] BY <1>2
  <2> QED BY <2>1
<1>0. \A u \in Threads : DOMAIN todo'[u] \subseteq Int
  <2>1. todo' \in [Threads -> Seq(Op)] BY ThenType, StartType DEF Moves
  <2> QED BY <2>1
<1>4. Running(t, S) <=> k = 1 /\ todo[t][1] \in S
  BY <1>2 DEF Running, Cur
<1> HIDE DEF n, k
\* Where a section of the new state was, if it is not a new one.
<1>5. \A u \in Threads : \A i \in DOMAIN todo'[u] :
        \/ u = t /\ i \in DOMAIN ops /\ todo'[u][i] = ops[i]
        \/ \E j \in DOMAIN todo[u] :
             /\ todo[u][j] = todo'[u][i] /\ (u = t => j = i - n + k /\ i > n)
             /\ u # t => j = i
  BY <1>1
<1>6. \A u \in Threads : \A i \in DOMAIN todo[u] :
        \/ u = t /\ i = 1 /\ k = 1
        \/ \E j \in DOMAIN todo'[u] : todo[u][i] = todo'[u][j]
  BY <1>1
<1>7. Pends(S)' => Pends(S) \/ Adds(ops, S) BY <1>5 DEF Pends, PendsIn, Adds
<1>8. /\ \A u \in Threads : PendsIn(u, S) =>
           PendsIn(u, S)' \/ (u = t /\ Running(t, S))
      /\ Pends(S) => Pends(S)' \/ Running(t, S)
  BY <1>4, <1>6 DEF Pends, PendsIn
<1>9. Adds(ops, S) => PendsIn(t, S)' /\ Pends(S)'
  BY <1>1 DEF Pends, PendsIn, Adds
<1>13. Running(t, S) => Pends(S) BY <1>3, <1>4 DEF Pends, PendsIn
<1>10. ASSUME NEW u \in Threads, NEW v \in Threads,
              NEW i \in DOMAIN todo'[u], NEW j \in DOMAIN todo'[v],
              todo'[u][i] \in S, todo'[v][j] \in S, Only(S), ~ Adds(ops, S)
       PROVE  u = v /\ i = j /\ (~ Running(t, S))
  <2>1. PICK a \in DOMAIN todo[u] :
          /\ todo[u][a] = todo'[u][i] /\ (u = t => a = i - n + k /\ i > n)
          /\ u # t => a = i
    BY <1>5, <1>10 DEF Adds
  <2>2. PICK b \in DOMAIN todo[v] :
          /\ todo[v][b] = todo'[v][j] /\ (v = t => b = j - n + k /\ j > n)
          /\ v # t => b = j
    BY <1>5, <1>10 DEF Adds
  <2>3. u = v /\ a = b BY <1>10, <2>1, <2>2 DEF Only
  <2>4. /\ (i \in DOMAIN todo'[u] => i \in Int) /\ (j \in DOMAIN todo'[v] => j \in Int)
    BY <1>0
  <2>5. i = j BY <1>2, <1>3, <2>1, <2>2, <2>3, <2>4
  <2>6. ~ Running(t, S)
    <3> SUFFICES ASSUME Running(t, S) PROVE FALSE OBVIOUS
    <3>1. u = t /\ a = 1 BY <1>3, <1>4, <1>10, <2>1 DEF Only
    <3> QED BY <1>2, <1>3, <1>4, <2>1, <2>4, <3>1
  <2> QED BY <2>3, <2>5, <2>6
<1>11. Only(S) /\ ~ Adds(ops, S) => Only(S)' /\ (Running(t, S) => ~ Pends(S)')
  BY <1>10 DEF Only, Pends, PendsIn
<1>12. ASSUME ~ Pends(S) \/ (Only(S) /\ Running(t, S)), n = 1
       PROVE  Only(S)'
  <2>1. \A u \in Threads : \A i \in DOMAIN todo'[u] :
          todo'[u][i] \in S => u = t /\ i = 1
    <3> SUFFICES ASSUME NEW u \in Threads, NEW i \in DOMAIN todo'[u],
                        todo'[u][i] \in S, ~ (u = t /\ i \in DOMAIN ops)
                 PROVE  FALSE
      BY <1>2, <1>12
    <3>1. PICK a \in DOMAIN todo[u] :
            todo[u][a] = todo'[u][i] /\ (u = t => a = i - n + k /\ i > n)
      BY <1>5
    <3>2. Only(S) /\ Running(t, S) BY <1>12, <3>1 DEF Pends, PendsIn
    <3>3. k = 1 /\ u = t /\ a = 1 BY <1>3, <1>4, <3>1, <3>2 DEF Only
    <3>4. i \in Int BY <1>0
    <3> QED BY <1>12, <3>1, <3>3, <3>4
  <2> QED BY <2>1 DEF Only
<1> QED BY <1>7, <1>8, <1>9, <1>11, <1>12, <1>13 DEF n

----------------------------------------------------------------------------
(* Sections by what they are for *)

Of(fs, c)    == {o \in Op : o.f \in fs /\ o.c = c}
Loops(fs, c) == {o \in Op : o.f \in fs /\ c \in o.cs}

Releases(c)     == Of({"releaseCall"}, c)
Unavailables(c) == Releases(c) \cup Loops({"unavailableCalls"}, c)
Creations(c)    == Of({"handleIncomingCallAdd", "insertContext"}, c)
Inserts(c)      == Of({"insertContext"}, c)
OnhookSends(c)  == {o \in Of({"lineEventSend"}, c) : o.a = "onhook"}
InviteSends(c)  == Of({"inviteSend"}, c)
LateAnswers(c)  == Of({"handleRetainedSIPInviteResponse", "sendLateAnswerBYE"}, c)
LateByes(c)     == Of({"lateByeSend"}, c)
DigitsSends(c)  == Of({"digitsSend"}, c)

\* What leads to retainSIPInvite.
Teardowns(c) ==
  Of({"retainSIPInvite", "sendSIPTeardown", "handleCarrierRelease",
      "contextCommand"}, c)
  \cup Loops({"releaseAllCallsFromCarrier", "unavailableCalls"}, c)

\* What leads to the 200 for the PBX's INVITE.
AnswerSteps(c) ==
  Of({"handleOutboundCallAdd", "answerSIPOriginatedCall", "contextCommand"}, c)
  \cup {o \in Of({"sendSIPOriginatedResponse", "respond"}, c) : o.a = "200"}

\* What reports the answer of an incoming call, or ends the call.
Reports(c) ==
  {o \in Of({"sendCallLineEvent"}, c) : o.a = "answer"}
  \cup Of({"handleCarrierRelease", "releaseCall"}, c)

----------------------------------------------------------------------------
(* HandleH248Unavailable releases the calls of the PBX *)

OutInv == \A c \in OutCalls :
  Live(c) /\ ~ line.ready => PendsIn("reg", Unavailables(c))

\* What a step of a thread does to the calls of the PBX and to the line.
OutStep(t, ops) ==
  /\ \A c \in OutCalls : Live(c)' => Live(c) \/ line'.ready
  /\ line.ready => \/ line'.ready
                   \/ t = "reg" /\ \A c \in OutCalls : Live(c) => Adds(ops, Unavailables(c))
  /\ \A c \in OutCalls : Running(t, Unavailables(c)) =>
       ~ Live(c)' \/ Adds(ops, Unavailables(c))

LEMMA OutPreserved ==
  ASSUME TypeOK, OutInv, NEW t \in Threads, NEW ops \in Seq(Op),
         Moves(t, ops), OutStep(t, ops)
  PROVE  OutInv'
<1> SUFFICES ASSUME NEW c \in OutCalls, Live(c)', ~ line'.ready
             PROVE  PendsIn("reg", Unavailables(c))'
  BY DEF OutInv
<1>1. "reg" \in Threads BY DEF Threads
<1>2. /\ PendsIn("reg", Unavailables(c)) =>
           \/ PendsIn("reg", Unavailables(c))'
           \/ t = "reg" /\ Running(t, Unavailables(c))
      /\ Adds(ops, Unavailables(c)) => PendsIn(t, Unavailables(c))'
  BY <1>1, MovedSet
<1>3. Live(c) BY DEF OutStep
<1>4. ~ line.ready \/ (Adds(ops, Unavailables(c)) /\ t = "reg")
  BY <1>3 DEF OutStep
<1> QED BY <1>2, <1>3, <1>4 DEF OutStep, OutInv

----------------------------------------------------------------------------
(* The digits of an origination *)

\* The digits of the call have been sent or are being sent, or the call is
\* released or about to be.
Paid(c) == /\ call[c].st # "unused"
           /\ \/ "digits" \in sent[c] \/ Pends(DigitsSends(c))
              \/ Pends(Releases(c)) \/ call[c].st = "released"

\* The call has gone on beyond its digits.
Beyond(c) == \/ c \in callsByH248 \/ call[c].H248DigitsSent
             \/ "200" \in finals[c]

\* Only calls whose digits are on their way go on.
DigitsInv == \A c \in OutCalls :
  Beyond(c) \/ Pends(AnswerSteps(c)) => Paid(c)

DigitsStep(t, ops) == \A c \in OutCalls :
  /\ call[c].st # "unused" => call'[c].st # "unused"
  /\ call[c].st = "released" => call'[c].st = "released"
  /\ "digits" \in sent[c] => "digits" \in sent'[c]
  /\ Running(t, DigitsSends(c)) =>
       "digits" \in sent'[c] \/ Adds(ops, Releases(c))
  /\ Running(t, Releases(c)) => ~ Live(c)'
  /\ Adds(ops, DigitsSends(c)) => Len(ops) = 1
  /\ Beyond(c)' \/ Adds(ops, AnswerSteps(c)) =>
       \/ Beyond(c) \/ Running(t, AnswerSteps(c))
       \/ Live(c)' /\ Adds(ops, DigitsSends(c))

LEMMA DigitsPreserved ==
  ASSUME TypeOK, TypeOK', DigitsInv, NEW t \in Threads, NEW ops \in Seq(Op),
         Moves(t, ops), DigitsStep(t, ops)
  PROVE  DigitsInv'
<1> SUFFICES ASSUME NEW c \in OutCalls, (Beyond(c) \/ Pends(AnswerSteps(c)))'
             PROVE  Paid(c)'
  BY DEF DigitsInv
<1>1. /\ Pends(AnswerSteps(c))' => Pends(AnswerSteps(c)) \/ Adds(ops, AnswerSteps(c))
      /\ Running(t, AnswerSteps(c)) => Pends(AnswerSteps(c))
  BY MovedSet
<1>2. /\ Pends(DigitsSends(c)) => Pends(DigitsSends(c))' \/ Running(t, DigitsSends(c))
      /\ Adds(ops, DigitsSends(c)) => Pends(DigitsSends(c))'
  BY MovedSet
<1>3. /\ Pends(Releases(c)) => Pends(Releases(c))' \/ Running(t, Releases(c))
      /\ Adds(ops, Releases(c)) => Pends(Releases(c))'
  BY MovedSet
<1>4. c \in Calls /\ call'[c].st \in {"unused", "live", "released"}
  BY DEF TypeOK, Call, Calls
<1>5. CASE Beyond(c) \/ Pends(AnswerSteps(c))
  <2>1. Paid(c) BY <1>5 DEF DigitsInv
  <2>2. call'[c].st # "unused" BY <2>1 DEF Paid, DigitsStep
  <2>3. Running(t, Releases(c)) => call'[c].st = "released"
    BY <1>4, <2>2 DEF DigitsStep, Live
  <2> QED BY <1>2, <1>3, <2>1, <2>2, <2>3 DEF Paid, DigitsStep
<1>6. CASE Live(c)' /\ Adds(ops, DigitsSends(c))
  BY <1>2, <1>6 DEF Paid, Live
<1> QED BY <1>1, <1>5, <1>6 DEF DigitsStep

\* The digits are sent by the section that a thread runs next.
HeadInv == \A t \in Threads : \A i \in DOMAIN todo[t] :
  todo[t][i].f = "digitsSend" => i = 1

LEMMA HeadPreserved ==
  ASSUME TypeOK, HeadInv, NEW t \in Threads, NEW ops \in Seq(Op),
         Moves(t, ops), DigitsStep(t, ops)
  PROVE  HeadInv'
<1> SUFFICES ASSUME NEW u \in Threads, NEW i \in DOMAIN todo'[u],
                    todo'[u][i].f = "digitsSend"
             PROVE  i = 1
  BY DEF HeadInv
<1>1. DOMAIN ops = 1 .. Len(ops) /\ Len(ops) \in Nat OBVIOUS
<1>2. /\ u # t => todo'[u] = todo[u]
      /\ i \in DOMAIN ops => todo'[t][i] = ops[i]
      /\ u = t /\ i \notin DOMAIN ops =>
           LET k == IF todo[t] = <<>> THEN 0 ELSE 1
           IN /\ i > Len(ops) /\ i - Len(ops) + k \in DOMAIN todo[t]
              /\ todo'[t][i] = todo[t][i - Len(ops) + k]
  BY MovedThread
<1>3. CASE u # t BY <1>2, <1>3 DEF HeadInv
<1>4. CASE u = t /\ i \in DOMAIN ops
  <2>1. ops[i] \in Op /\ ops[i].f = "digitsSend" BY <1>2, <1>4
  <2>2. ops[i].c \in OutCalls
    BY <2>1 DEF Op, CallSteps, OriginationSteps, InviteSteps
  <2>3. Adds(ops, DigitsSends(ops[i].c))
    BY <1>4, <2>1 DEF Adds, DigitsSends, Of
  <2> QED BY <1>1, <1>4, <2>2, <2>3 DEF DigitsStep
<1>5. CASE u = t /\ i \notin DOMAIN ops
  <2>1. todo[t] \in Seq(Op) BY DEF TypeOK
  <2>2. CASE todo[t] = <<>> BY <1>2, <1>5, <2>2
  <2>3. CASE todo[t] # <<>>
    <3>1. i > Len(ops) /\ i - Len(ops) + 1 = 1
      BY <1>2, <1>5, <2>3 DEF HeadInv
    <3>2. i \in Int
      <4>1. todo' \in [Threads -> Seq(Op)] BY ThenType, StartType DEF Moves
      <4> QED BY <4>1
    <3> QED BY <1>1, <3>1, <3>2
  <2> QED BY <2>2, <2>3
<1> QED BY <1>3, <1>4, <1>5

----------------------------------------------------------------------------
(* The al/on of a call *)

\* The flag stands for one al/on, on the network or about to be sent.
OnhookInv == \A c \in Calls :
  /\ call[c].H248OnhookSent => call[c].st # "unused"
  /\ Only(OnhookSends(c))
  /\ Pends(OnhookSends(c)) => call[c].H248OnhookSent /\ onhooks[c] = 0
  /\ onhooks[c] # 0 => call[c].H248OnhookSent /\ onhooks[c] = 1

OnhookStep(t, ops) == \A c \in Calls :
  /\ call[c].st # "unused" => call'[c].st # "unused"
  /\ \* the al/on is claimed,
     \/ /\ Adds(ops, OnhookSends(c)) /\ Len(ops) = 1
        /\ call'[c].st # "unused" /\ onhooks'[c] = onhooks[c]
        /\ ~ call[c].H248OnhookSent /\ call'[c].H248OnhookSent
     \* it is sent, or its claim is undone,
     \/ /\ Running(t, OnhookSends(c)) /\ ~ Adds(ops, OnhookSends(c))
        /\ \/ /\ call'[c].H248OnhookSent = call[c].H248OnhookSent
              /\ onhooks'[c] = IF onhooks[c] = 0 THEN 1 ELSE 2
           \/ ~ call'[c].H248OnhookSent /\ onhooks'[c] = onhooks[c]
     \* or the call is created, or nothing happens to it.
     \/ /\ ~ Running(t, OnhookSends(c)) /\ ~ Adds(ops, OnhookSends(c))
        /\ onhooks'[c] = onhooks[c]
        /\ \/ call'[c].H248OnhookSent = call[c].H248OnhookSent
           \/ call[c].st = "unused" /\ ~ call'[c].H248OnhookSent

LEMMA OnhookPreserved ==
  ASSUME TypeOK, TypeOK', OnhookInv, NEW t \in Threads, NEW ops \in Seq(Op),
         Moves(t, ops), OnhookStep(t, ops)
  PROVE  OnhookInv'
<1> SUFFICES ASSUME NEW c \in Calls
             PROVE  /\ call'[c].H248OnhookSent => call'[c].st # "unused"
                    /\ Only(OnhookSends(c))'
                    /\ Pends(OnhookSends(c))' => call'[c].H248OnhookSent /\ onhooks'[c] = 0
                    /\ onhooks'[c] # 0 => call'[c].H248OnhookSent /\ onhooks'[c] = 1
  BY DEF OnhookInv
<1> DEFINE S == OnhookSends(c)
<1>1. /\ Pends(S)' => Pends(S) \/ Adds(ops, S)
      /\ Running(t, S) => Pends(S)
      /\ Only(S) /\ ~ Adds(ops, S) => Only(S)' /\ (Running(t, S) => ~ Pends(S)')
      /\ ~ Pends(S) \/ (Only(S) /\ Running(t, S)) => (Len(ops) = 1 => Only(S)')
  BY MovedSet
<1>2. /\ call[c].H248OnhookSent => call[c].st # "unused"
      /\ Only(S)
      /\ Pends(S) => call[c].H248OnhookSent /\ onhooks[c] = 0
      /\ onhooks[c] # 0 => call[c].H248OnhookSent /\ onhooks[c] = 1
  BY DEF OnhookInv
<1>3. call[c] \in Call /\ call'[c] \in Call BY DEF TypeOK
<1>4. call[c].H248OnhookSent \in BOOLEAN /\ call'[c].H248OnhookSent \in BOOLEAN
  BY <1>3 DEF Call
<1> HIDE DEF S
<1>5. CASE /\ Adds(ops, S) /\ Len(ops) = 1
           /\ call'[c].st # "unused" /\ onhooks'[c] = onhooks[c]
           /\ ~ call[c].H248OnhookSent /\ call'[c].H248OnhookSent
  BY <1>1, <1>2, <1>5 DEF S
<1>6. CASE /\ Running(t, S) /\ ~ Adds(ops, S)
           /\ \/ /\ call'[c].H248OnhookSent = call[c].H248OnhookSent
                 /\ onhooks'[c] = IF onhooks[c] = 0 THEN 1 ELSE 2
              \/ ~ call'[c].H248OnhookSent /\ onhooks'[c] = onhooks[c]
  BY <1>1, <1>2, <1>4, <1>6 DEF S, OnhookStep
<1>7. CASE /\ ~ Running(t, S) /\ ~ Adds(ops, S)
           /\ onhooks'[c] = onhooks[c]
           /\ \/ call'[c].H248OnhookSent = call[c].H248OnhookSent
              \/ call[c].st = "unused" /\ ~ call'[c].H248OnhookSent
  BY <1>1, <1>2, <1>4, <1>7 DEF S, OnhookStep
<1> QED BY <1>5, <1>6, <1>7 DEF S, OnhookStep

----------------------------------------------------------------------------
(* The BYE for a late answer *)

\* The BYE of the call has been sent or is being sent.
LateDone(c) == "lateBYE" \in sent[c] \/ Pends(LateByes(c))

\* The INVITE is sent once, under the Call-ID its call was given for it.
InviteInv == \A c \in InCalls :
  /\ Only(InviteSends(c))
  /\ Pends(InviteSends(c)) => "INVITE" \notin sent[c]
  /\ Pends(InviteSends(c)) \/ "INVITE" \in sent[c] =>
       call[c].SIPCallID = c /\ call[c].st # "unused"

InviteStep(t, ops) == \A c \in InCalls :
  /\ call[c].st # "unused" => call'[c].st # "unused"
  /\ \* the INVITE is due,
     \/ /\ Adds(ops, InviteSends(c)) /\ Len(ops) = 1
        /\ call[c].SIPCallID = Nil /\ call'[c].SIPCallID = c
        /\ call'[c].st # "unused"
        /\ ("INVITE" \in sent'[c]) = ("INVITE" \in sent[c])
     \* it is sent, or its Call-ID is given up,
     \/ /\ Running(t, InviteSends(c)) /\ ~ Adds(ops, InviteSends(c))
        /\ \/ call'[c].SIPCallID = call[c].SIPCallID
           \/ ("INVITE" \in sent'[c]) = ("INVITE" \in sent[c])
     \* or the call is created, or nothing happens to it.
     \/ /\ ~ Running(t, InviteSends(c)) /\ ~ Adds(ops, InviteSends(c))
        /\ ("INVITE" \in sent'[c]) = ("INVITE" \in sent[c])
        /\ call'[c].SIPCallID = call[c].SIPCallID \/ call[c].st = "unused"

LEMMA InvitePreserved ==
  ASSUME TypeOK, InviteInv, NEW t \in Threads, NEW ops \in Seq(Op),
         Moves(t, ops), InviteStep(t, ops)
  PROVE  InviteInv'
<1> SUFFICES ASSUME NEW c \in InCalls
             PROVE  /\ Only(InviteSends(c))'
                    /\ Pends(InviteSends(c))' => "INVITE" \notin sent'[c]
                    /\ Pends(InviteSends(c))' \/ "INVITE" \in sent'[c] =>
                         call'[c].SIPCallID = c /\ call'[c].st # "unused"
  BY DEF InviteInv
<1> DEFINE S == InviteSends(c)
<1>1. /\ Pends(S)' => Pends(S) \/ Adds(ops, S)
      /\ Running(t, S) => Pends(S)
      /\ Only(S) /\ ~ Adds(ops, S) => Only(S)' /\ (Running(t, S) => ~ Pends(S)')
      /\ ~ Pends(S) \/ (Only(S) /\ Running(t, S)) => (Len(ops) = 1 => Only(S)')
  BY MovedSet
<1>2. /\ Only(S)
      /\ Pends(S) => "INVITE" \notin sent[c]
      /\ Pends(S) \/ "INVITE" \in sent[c] =>
           call[c].SIPCallID = c /\ call[c].st # "unused"
  BY DEF InviteInv
<1>3. c # Nil BY ConstantsDisjoint
<1> HIDE DEF S
<1>4. CASE /\ Adds(ops, S) /\ Len(ops) = 1
           /\ call[c].SIPCallID = Nil /\ call'[c].SIPCallID = c
           /\ call'[c].st # "unused"
           /\ ("INVITE" \in sent'[c]) = ("INVITE" \in sent[c])
  BY <1>1, <1>2, <1>3, <1>4 DEF S
<1>5. CASE /\ Running(t, S) /\ ~ Adds(ops, S)
           /\ \/ call'[c].SIPCallID = call[c].SIPCallID
              \/ ("INVITE" \in sent'[c]) = ("INVITE" \in sent[c])
  BY <1>1, <1>2, <1>5 DEF S, InviteStep
<1>6. CASE /\ ~ Running(t, S) /\ ~ Adds(ops, S)
           /\ ("INVITE" \in sent'[c]) = ("INVITE" \in sent[c])
           /\ call'[c].SIPCallID = call[c].SIPCallID \/ call[c].st = "unused"
  BY <1>1, <1>2, <1>6 DEF S, InviteStep
<1> QED BY <1>4, <1>5, <1>6 DEF S, InviteStep

\* One section at a time has claimed the BYE, of an INVITE that is retained or
\* that nothing can retain again.
LateInv == \A c \in InCalls :
  /\ Only(LateByes(c))
  /\ Pends(LateByes(c)) => "lateBYE" \notin sent[c]
  /\ Pends(LateAnswers(c)) => call[c].st = "released"
  /\ LateDone(c) =>
       /\ call[c].st = "released"
       /\ \/ retained[c] = "byeSent"
          \/ retained[c] = "none" /\ ~ Pends(Teardowns(c))

LateStep(t, ops) == \A c \in InCalls :
  /\ call[c].st = "released" => call'[c].st = "released"
  /\ Adds(ops, LateAnswers(c)) =>
       \/ Running(t, LateAnswers(c))
       \/ "INVITE" \in sent[c] /\ (callsBySIP[c] = Nil \/ ~ Live(c))
  /\ Adds(ops, Teardowns(c)) => Live(c) \/ Running(t, Teardowns(c))
  /\ \* the BYE is claimed,
     \/ /\ Adds(ops, LateByes(c)) /\ Len(ops) = 1 /\ Running(t, LateAnswers(c))
        /\ retained[c] = "kept" /\ retained'[c] = "byeSent"
        /\ ("lateBYE" \in sent'[c]) = ("lateBYE" \in sent[c])
     \* it is sent, or its claim is undone,
     \/ /\ Running(t, LateByes(c)) /\ ~ Adds(ops, LateByes(c))
        /\ \/ retained'[c] = retained[c]
           \/ ("lateBYE" \in sent'[c]) = ("lateBYE" \in sent[c])
     \* or the INVITE is retained, or nothing happens to it.
     \/ /\ ~ Running(t, LateByes(c)) /\ ~ Adds(ops, LateByes(c))
        /\ ("lateBYE" \in sent'[c]) = ("lateBYE" \in sent[c])
        /\ \/ retained'[c] = retained[c]
           \/ retained[c] = "none" /\ Running(t, Teardowns(c))

LEMMA LatePreserved ==
  ASSUME IInv, InviteInv, LateInv, NEW t \in Threads, NEW ops \in Seq(Op),
         Moves(t, ops), LateStep(t, ops)
  PROVE  LateInv'
<1> SUFFICES ASSUME NEW c \in InCalls
             PROVE  /\ Only(LateByes(c))'
                    /\ Pends(LateByes(c))' => "lateBYE" \notin sent'[c]
                    /\ Pends(LateAnswers(c))' => call'[c].st = "released"
                    /\ LateDone(c)' =>
                         /\ call'[c].st = "released"
                         /\ \/ retained'[c] = "byeSent"
                            \/ retained'[c] = "none" /\ ~ Pends(Teardowns(c))'
  BY DEF LateInv
<1> DEFINE S == LateByes(c)
           A == LateAnswers(c)
           T == Teardowns(c)
<1>0. TypeOK BY DEF IInv
<1>1. /\ Pends(S)' => Pends(S) \/ Adds(ops, S)
      /\ Running(t, S) => Pends(S)
      /\ Only(S) /\ ~ Adds(ops, S) => Only(S)' /\ (Running(t, S) => ~ Pends(S)')
      /\ ~ Pends(S) \/ (Only(S) /\ Running(t, S)) => (Len(ops) = 1 => Only(S)')
  BY <1>0, MovedSet
<1>2. /\ Pends(A)' => Pends(A) \/ Adds(ops, A)
      /\ Running(t, A) => Pends(A)
  BY <1>0, MovedSet
<1>3. /\ Pends(T)' => Pends(T) \/ Adds(ops, T)
      /\ Running(t, T) => Pends(T)
  BY <1>0, MovedSet
<1>4. /\ Only(S)
      /\ Pends(S) => "lateBYE" \notin sent[c]
      /\ Pends(A) => call[c].st = "released"
      /\ "lateBYE" \in sent[c] \/ Pends(S) =>
           /\ call[c].st = "released"
           /\ \/ retained[c] = "byeSent"
              \/ retained[c] = "none" /\ ~ Pends(T)
  BY DEF LateInv, LateDone
<1>5. /\ call[c].st = "released" => call'[c].st = "released"
      /\ Adds(ops, A) =>
           \/ Running(t, A)
           \/ "INVITE" \in sent[c] /\ (callsBySIP[c] = Nil \/ ~ Live(c))
      /\ Adds(ops, T) => Live(c) \/ Running(t, T)
  BY DEF LateStep
<1>6. "INVITE" \in sent[c] /\ (callsBySIP[c] = Nil \/ ~ Live(c)) =>
        call[c].st = "released"
  <2> SUFFICES ASSUME "INVITE" \in sent[c] PROVE Live(c) => callsBySIP[c] # Nil
    <3>1. call[c].st \in {"unused", "live", "released"}
      BY <1>0 DEF TypeOK, Call, Calls
    <3>2. "INVITE" \in sent[c] => call[c].st # "unused" BY DEF InviteInv
    <3> QED BY <3>1, <3>2 DEF Live
  <2>1. call[c].SIPCallID = c /\ c # Nil /\ c \in Calls
    BY ConstantsDisjoint DEF InviteInv, Calls
  <2> QED BY <2>1 DEF IInv, IndexConsistent
<1>7. Pends(A)' => call'[c].st = "released" BY <1>2, <1>4, <1>5, <1>6
<1>8. call[c].st = "released" => (Pends(T)' => Pends(T))
  BY <1>3, <1>5 DEF Live
<1>9. /\ Only(S)'
      /\ Pends(S)' => "lateBYE" \notin sent'[c]
      /\ "lateBYE" \in sent'[c] \/ Pends(S)' =>
           /\ call'[c].st = "released"
           /\ \/ retained'[c] = "byeSent"
              \/ retained'[c] = "none" /\ ~ Pends(T)'
  <2> HIDE DEF S, A, T
  <2>1. CASE /\ Adds(ops, S) /\ Len(ops) = 1 /\ Running(t, A)
             /\ retained[c] = "kept" /\ retained'[c] = "byeSent"
             /\ ("lateBYE" \in sent'[c]) = ("lateBYE" \in sent[c])
    BY <1>1, <1>2, <1>4, <1>5, <2>1
  <2>2. CASE /\ Running(t, S) /\ ~ Adds(ops, S)
             /\ \/ retained'[c] = retained[c]
                \/ ("lateBYE" \in sent'[c]) = ("lateBYE" \in sent[c])
    BY <1>1, <1>4, <1>5, <1>8, <2>2
  <2>3. CASE /\ ~ Running(t, S) /\ ~ Adds(ops, S)
             /\ ("lateBYE" \in sent'[c]) = ("lateBYE" \in sent[c])
             /\ \/ retained'[c] = retained[c]
                \/ retained[c] = "none" /\ Running(t, T)
    BY <1>1, <1>3, <1>4, <1>5, <1>8, <2>3
  <2> QED BY <2>1, <2>2, <2>3 DEF LateStep, S, A, T
<1> QED BY <1>7, <1>9 DEF LateDone

----------------------------------------------------------------------------
(* The answer of an incoming call *)

\* The answer can be reported and has not been.
Waiting(c) == /\ Live(c) /\ call[c].SIPAnswered
              /\ call[c].H248EventRequestID # Nil /\ ~ call[c].H248Answered

\* An answer that can be reported has a section that reports it.
AnswerInv == \A c \in InCalls :
  /\ Live(c) => call[c].H248Responder # Nil
  /\ Waiting(c) => Pends(Reports(c))

AnswerStep(t, ops) == \A c \in InCalls :
  /\ Live(c)' => \/ call'[c].H248Responder # Nil
                 \/ Live(c) /\ call'[c].H248Responder = call[c].H248Responder
  /\ Waiting(c)' =>
       \/ Adds(ops, Reports(c))
       \/ /\ Waiting(c)
          /\ Running(t, Reports(c)) => call[c].H248Responder = Nil

LEMMA AnswerPreserved ==
  ASSUME TypeOK, AnswerInv, NEW t \in Threads, NEW ops \in Seq(Op),
         Moves(t, ops), AnswerStep(t, ops)
  PROVE  AnswerInv'
<1> SUFFICES ASSUME NEW c \in InCalls
             PROVE  /\ Live(c)' => call'[c].H248Responder # Nil
                    /\ Waiting(c)' => Pends(Reports(c))'
  BY DEF AnswerInv
<1>1. /\ Pends(Reports(c)) => Pends(Reports(c))' \/ Running(t, Reports(c))
      /\ Adds(ops, Reports(c)) => Pends(Reports(c))'
  BY MovedSet
<1>2. /\ Live(c) => call[c].H248Responder # Nil
      /\ Waiting(c) => Pends(Reports(c)) /\ Live(c)
  BY DEF AnswerInv, Waiting
<1>3. Live(c)' => call'[c].H248Responder # Nil BY <1>2 DEF AnswerStep
<1>4. Waiting(c)' => Pends(Reports(c))' BY <1>1, <1>2 DEF AnswerStep
<1> QED BY <1>3, <1>4

----------------------------------------------------------------------------
(* The media relay of an incoming call *)

\* The relay is open only while the call holds it or is about to.
MediaInv == \A c \in InCalls :
  /\ Only(Creations(c))
  /\ Pends(Creations(c)) => call[c].st = "unused"
  /\ relay[c] = "open" => (Live(c) /\ call[c].Media) \/ Pends(Inserts(c))

MediaStep(t, ops) == \A c \in InCalls :
  /\ Adds(ops, Creations(c)) =>
       /\ Len(ops) = 1 /\ call'[c].st = call[c].st
       /\ Fresh(c) \/ Running(t, Creations(c))
  /\ call'[c].st # call[c].st =>
       call[c].st # "unused" \/ Running(t, Creations(c))
  /\ relay'[c] = "open" =>
       \/ Adds(ops, Inserts(c)) \/ (Live(c)' /\ call'[c].Media)
       \/ /\ relay[c] = "open" /\ ~ Running(t, Inserts(c))
          /\ ~ (Live(c) /\ call[c].Media)

LEMMA MediaPreserved ==
  ASSUME TypeOK, MediaInv, NEW t \in Threads, NEW ops \in Seq(Op),
         Moves(t, ops), MediaStep(t, ops)
  PROVE  MediaInv'
<1> SUFFICES ASSUME NEW c \in InCalls
             PROVE  /\ Only(Creations(c))'
                    /\ Pends(Creations(c))' => call'[c].st = "unused"
                    /\ relay'[c] = "open" =>
                         (Live(c)' /\ call'[c].Media) \/ Pends(Inserts(c))'
  BY DEF MediaInv
<1> DEFINE S == Creations(c)
<1>1. /\ Pends(S)' => Pends(S) \/ Adds(ops, S)
      /\ Running(t, S) => Pends(S)
      /\ Only(S) /\ ~ Adds(ops, S) => Only(S)' /\ (Running(t, S) => ~ Pends(S)')
      /\ ~ Pends(S) \/ (Only(S) /\ Running(t, S)) => (Len(ops) = 1 => Only(S)')
  BY MovedSet
<1>2. /\ Pends(Inserts(c)) => Pends(Inserts(c))' \/ Running(t, Inserts(c))
      /\ Adds(ops, Inserts(c)) => Pends(Inserts(c))'
  BY MovedSet
<1>3. Fresh(c) => ~ Pends(S) /\ call[c].st = "unused"
  BY DEF Fresh, Reserved, Pends, PendsIn, Creations, Of
<1>4. /\ Only(S)
      /\ Pends(S) => call[c].st = "unused"
      /\ relay[c] = "open" => (Live(c) /\ call[c].Media) \/ Pends(Inserts(c))
  BY DEF MediaInv
<1>5. /\ Adds(ops, S) =>
           /\ Len(ops) = 1 /\ call'[c].st = call[c].st
           /\ Fresh(c) \/ Running(t, S)
      /\ call'[c].st # call[c].st =>
           call[c].st # "unused" \/ Running(t, S)
  BY DEF MediaStep
<1>6. relay'[c] = "open" =>
        \/ Adds(ops, Inserts(c)) \/ (Live(c)' /\ call'[c].Media)
        \/ /\ relay[c] = "open" /\ ~ Running(t, Inserts(c))
           /\ ~ (Live(c) /\ call[c].Media)
  BY DEF MediaStep
<1>7. relay'[c] = "open" => (Live(c)' /\ call'[c].Media) \/ Pends(Inserts(c))'
  BY <1>2, <1>4, <1>6
<1> HIDE DEF S
<1>8. CASE Adds(ops, S) BY <1>1, <1>3, <1>4, <1>5, <1>7, <1>8 DEF S
<1>9. CASE ~ Adds(ops, S) BY <1>1, <1>4, <1>5, <1>7, <1>9 DEF S
<1> QED BY <1>8, <1>9

----------------------------------------------------------------------------
(* Steps that an invariant has nothing to do with *)

\* What a step leaves alone, invariant by invariant.
CalmStates == \A c \in Calls : call'[c].st = call[c].st
CalmLine   == line.ready => line'.ready
CalmDigits == /\ callsByH248' = callsByH248
              /\ \A c \in OutCalls :
                   /\ call'[c].H248DigitsSent = call[c].H248DigitsSent
                   /\ finals'[c] = finals[c]
                   /\ ("digits" \in sent'[c]) = ("digits" \in sent[c])
CalmOnhook == \A c \in Calls : /\ call'[c].H248OnhookSent = call[c].H248OnhookSent
                               /\ onhooks'[c] = onhooks[c]
CalmInvite == \A c \in InCalls :
                /\ call'[c].SIPCallID = call[c].SIPCallID
                /\ ("INVITE" \in sent'[c]) = ("INVITE" \in sent[c])
CalmLate   == \A c \in InCalls :
                /\ ("lateBYE" \in sent'[c]) = ("lateBYE" \in sent[c])
                /\ retained'[c] = retained[c]
CalmAnswer == \A c \in InCalls :
                /\ call'[c].SIPAnswered = call[c].SIPAnswered
                /\ call'[c].H248EventRequestID = call[c].H248EventRequestID
                /\ call'[c].H248Answered = call[c].H248Answered
                /\ call'[c].H248Responder = call[c].H248Responder
CalmMedia  == \A c \in InCalls : /\ call'[c].Media = call[c].Media
                                 /\ relay'[c] = relay[c]

\* ... and what it may then do to the threads.
FlowOut(t, ops) == \A c \in OutCalls :
  Running(t, Unavailables(c)) => Adds(ops, Unavailables(c))
FlowDigits(t, ops) == \A c \in OutCalls :
  /\ ~ Running(t, DigitsSends(c)) /\ ~ Running(t, Releases(c))
  /\ ~ Adds(ops, DigitsSends(c))
  /\ Adds(ops, AnswerSteps(c)) => Beyond(c) \/ Running(t, AnswerSteps(c))
FlowOnhook(t, ops) == \A c \in Calls :
  ~ Running(t, OnhookSends(c)) /\ ~ Adds(ops, OnhookSends(c))
FlowInvite(t, ops) == \A c \in InCalls :
  ~ Running(t, InviteSends(c)) /\ ~ Adds(ops, InviteSends(c))
FlowLate(t, ops) == \A c \in InCalls :
  /\ Adds(ops, LateAnswers(c)) =>
       \/ Running(t, LateAnswers(c))
       \/ "INVITE" \in sent[c] /\ (callsBySIP[c] = Nil \/ ~ Live(c))
  /\ Adds(ops, Teardowns(c)) => Live(c) \/ Running(t, Teardowns(c))
  /\ ~ Running(t, LateByes(c)) /\ ~ Adds(ops, LateByes(c))
FlowAnswer(t, ops) == \A c \in InCalls :
  Running(t, Reports(c)) => Adds(ops, Reports(c))
FlowMedia(t, ops) == \A c \in InCalls :
  /\ Adds(ops, Creations(c)) =>
       Len(ops) = 1 /\ (Fresh(c) \/ Running(t, Creations(c)))
  /\ ~ Running(t, Inserts(c)) /\ ~ Running(t, Releases(c))

LEMMA CalmSteps ==
  ASSUME TypeOK, CalmStates, NEW t \in Threads, NEW ops \in Seq(Op)
  PROVE  /\ CalmLine /\ FlowOut(t, ops) => OutStep(t, ops)
         /\ CalmDigits /\ FlowDigits(t, ops) => DigitsStep(t, ops)
         /\ CalmOnhook /\ FlowOnhook(t, ops) => OnhookStep(t, ops)
         /\ CalmInvite /\ FlowInvite(t, ops) => InviteStep(t, ops)
         /\ CalmLate /\ FlowLate(t, ops) => LateStep(t, ops)
         /\ CalmAnswer /\ FlowAnswer(t, ops) => AnswerStep(t, ops)
         /\ CalmMedia /\ FlowMedia(t, ops) => MediaStep(t, ops)
<1>1. \A c \in Calls : (Live(c)' <=> Live(c)) /\ call'[c].st = call[c].st
  BY DEF CalmStates, Live
<1>2. InCalls \subseteq Calls /\ OutCalls \subseteq Calls BY DEF Calls
<1>3. CalmLine /\ FlowOut(t, ops) => OutStep(t, ops)
  BY <1>1, <1>2 DEF CalmLine, FlowOut, OutStep
<1>4. CalmDigits /\ FlowDigits(t, ops) => DigitsStep(t, ops)
  BY <1>1, <1>2 DEF CalmDigits, FlowDigits, DigitsStep, Beyond
<1>5. CalmOnhook /\ FlowOnhook(t, ops) => OnhookStep(t, ops)
  BY <1>1, <1>2 DEF CalmOnhook, FlowOnhook, OnhookStep
<1>6. CalmInvite /\ FlowInvite(t, ops) => InviteStep(t, ops)
  BY <1>1, <1>2 DEF CalmInvite, FlowInvite, InviteStep
<1>7. CalmLate /\ FlowLate(t, ops) => LateStep(t, ops)
  BY <1>1, <1>2 DEF CalmLate, FlowLate, LateStep
<1>8. CalmAnswer /\ FlowAnswer(t, ops) => AnswerStep(t, ops)
  BY <1>1, <1>2 DEF CalmAnswer, FlowAnswer, AnswerStep, Waiting
<1>9. CalmMedia /\ FlowMedia(t, ops) => MediaStep(t, ops)
  BY <1>1, <1>2 DEF CalmMedia, FlowMedia, MediaStep
<1> QED BY <1>3, <1>4, <1>5, <1>6, <1>7, <1>8, <1>9

\* UDP writes do not fail and the MGC rejects nothing.
Reliable == Faults \cap {"send", "reject"} = {}

AllSteps(t, ops) ==
  /\ OutStep(t, ops) /\ DigitsStep(t, ops) /\ OnhookStep(t, ops)
  /\ InviteStep(t, ops) /\ LateStep(t, ops) /\ MediaStep(t, ops)
  /\ Reliable => AnswerStep(t, ops)
Calm == /\ CalmStates /\ CalmLine /\ CalmDigits /\ CalmOnhook
        /\ CalmInvite /\ CalmLate /\ CalmMedia /\ CalmAnswer
Flows(t, ops) ==
  /\ FlowOut(t, ops) /\ FlowDigits(t, ops) /\ FlowOnhook(t, ops)
  /\ FlowInvite(t, ops) /\ FlowLate(t, ops) /\ FlowMedia(t, ops)
  /\ FlowAnswer(t, ops)

LEMMA CalmFlows ==
  ASSUME TypeOK, Calm, NEW t \in Threads, NEW ops \in Seq(Op), Flows(t, ops)
  PROVE  AllSteps(t, ops)
BY CalmSteps DEF Calm, Flows, AllSteps

\* Sections whose end no invariant waits for, and sections that may be added
\* at any time.
PlainCur(t) == todo[t] # <<>> =>
  Cur(t).f \notin {"releaseCall", "unavailableCalls", "digitsSend",
    "lineEventSend", "inviteSend", "lateByeSend", "insertContext",
    "sendCallLineEvent", "handleCarrierRelease"}
PlainOp(o) ==
  /\ o.f \notin {"lineEventSend", "inviteSend", "lateByeSend", "digitsSend",
       "handleRetainedSIPInviteResponse", "sendLateAnswerBYE",
       "retainSIPInvite", "sendSIPTeardown", "handleCarrierRelease",
       "contextCommand", "releaseAllCallsFromCarrier", "unavailableCalls",
       "handleOutboundCallAdd", "answerSIPOriginatedCall",
       "handleIncomingCallAdd", "insertContext"}
  /\ o.f \in {"sendSIPOriginatedResponse", "respond"} => o.a # "200"

LEMMA PlainFlows ==
  ASSUME NEW t \in Threads, NEW ops \in Seq(Op), PlainCur(t),
         \A i \in DOMAIN ops : PlainOp(ops[i])
  PROVE  Flows(t, ops)
<1>1. \A c : /\ ~ Running(t, Unavailables(c)) /\ ~ Running(t, Releases(c))
             /\ ~ Running(t, DigitsSends(c)) /\ ~ Running(t, OnhookSends(c))
             /\ ~ Running(t, InviteSends(c)) /\ ~ Running(t, LateByes(c))
             /\ ~ Running(t, Reports(c)) /\ ~ Running(t, Inserts(c))
  BY DEF Running, PlainCur, Unavailables, Releases, DigitsSends, OnhookSends,
         InviteSends, LateByes, Reports, Inserts, Of, Loops
<1>2. \A c : /\ ~ Adds(ops, AnswerSteps(c)) /\ ~ Adds(ops, OnhookSends(c))
             /\ ~ Adds(ops, InviteSends(c)) /\ ~ Adds(ops, LateAnswers(c))
             /\ ~ Adds(ops, Teardowns(c)) /\ ~ Adds(ops, LateByes(c))
             /\ ~ Adds(ops, Creations(c)) /\ ~ Adds(ops, DigitsSends(c))
  BY DEF Adds, PlainOp, AnswerSteps, DigitsSends, OnhookSends, InviteSends, LateAnswers,
         Teardowns, LateByes, Creations, Of, Loops
<1> QED BY <1>1, <1>2 DEF Flows, FlowOut, FlowDigits, FlowOnhook, FlowInvite,
             FlowLate, FlowMedia, FlowAnswer

\* A step of a thread that every invariant survives.
Stepped == \E t \in Threads, ops \in Seq(Op) : Moves(t, ops) /\ AllSteps(t, ops)

LEMMA PlainStep ==
  ASSUME TypeOK, Calm, NEW t \in Threads, NEW ops \in Seq(Op), Moves(t, ops),
         PlainCur(t), \A i \in DOMAIN ops : PlainOp(ops[i])
  PROVE  Stepped
BY PlainFlows, CalmFlows DEF Stepped

\* The same for a step that has other sections to run.
LEMMA FlowStep ==
  ASSUME TypeOK, Calm, NEW t \in Threads, NEW ops \in Seq(Op), Moves(t, ops),
         Flows(t, ops)
  PROVE  Stepped
BY CalmFlows DEF Stepped

LEMMA AddsFew ==
  ASSUME NEW S, NEW a, NEW b, NEW d, NEW e
  PROVE  /\ ~ Adds(<<>>, S)
         /\ Adds(<<a>>, S) <=> a \in S
         /\ Adds(<<a, b>>, S) <=> a \in S \/ b \in S
         /\ Adds(<<a, b, d>>, S) <=> a \in S \/ b \in S \/ d \in S
         /\ Adds(<<a, b, d, e>>, S) <=> a \in S \/ b \in S \/ d \in S \/ e \in S
BY DEF Adds

\* The fields the invariants read, of every call and of an incoming one.
SameOut(r, s) == /\ s.st = r.st /\ s.SIPCallID = r.SIPCallID
                 /\ s.H248OnhookSent = r.H248OnhookSent
                 /\ s.H248DigitsSent = r.H248DigitsSent
SameIn(r, s)  == /\ s.SIPAnswered = r.SIPAnswered
                 /\ s.H248EventRequestID = r.H248EventRequestID
                 /\ s.H248Answered = r.H248Answered
                 /\ s.H248Responder = r.H248Responder /\ s.Media = r.Media
CalmRest == /\ line.ready => line'.ready
            /\ UNCHANGED <<callsByH248, retained, onhooks, finals>>
            /\ \A c \in InCalls : relay'[c] = relay[c]
            /\ \A c \in Calls : \A m \in {"digits", "INVITE", "lateBYE"} :
                 (m \in sent'[c]) = (m \in sent[c])

LEMMA CalmCalls ==
  ASSUME CalmRest, \A c \in Calls : SameOut(call[c], call'[c]),
         \A c \in InCalls : SameIn(call[c], call'[c])
  PROVE  Calm
<1>1. InCalls \subseteq Calls /\ OutCalls \subseteq Calls BY DEF Calls
<1> QED BY <1>1 DEF Calm, CalmStates, CalmLine, CalmDigits, CalmOnhook, CalmInvite, CalmLate,
             CalmAnswer, CalmMedia, CalmRest, SameOut, SameIn

LEMMA CalmSame ==
  ASSUME CalmRest, UNCHANGED call
  PROVE  Calm
BY CalmCalls DEF SameOut, SameIn

LEMMA CalmCall ==
  ASSUME TypeOK, CalmRest, NEW c \in Calls, NEW r, call' = [call EXCEPT ![c] = r],
         SameOut(call[c], r), c \in InCalls => SameIn(call[c], r)
  PROVE  Calm
<1>1. call'[c] = r /\ \A d \in Calls : d # c => call'[d] = call[d] BY DEF TypeOK
<1>2. \A d \in Calls : SameOut(call[d], call'[d]) BY <1>1 DEF SameOut
<1>3. \A d \in InCalls : SameIn(call[d], call'[d]) BY <1>1 DEF SameIn, Calls
<1> QED BY <1>2, <1>3, CalmCalls

\* Updates of fields that no invariant reads.
LEMMA QuietUpdate ==
  ASSUME NEW r \in Call, NEW b \in BOOLEAN
  PROVE
    LET Same(s) == SameOut(r, s) /\ SameIn(r, s)
    IN /\ Same([r EXCEPT !.H248ContextAllocated = b])
       /\ Same([r EXCEPT !.H248OffhookSent = b])
       /\ Same([r EXCEPT !.H248DigitsScheduled = b])
       /\ Same([r EXCEPT !.SIPRemoteReleased = b])
       /\ Same([r EXCEPT !.SIPInviteProvisional = TRUE, !.SIPInviteFinal = b])
BY ZenonT(30) DEF Call, SameOut, SameIn

\* Updates of fields they read of incoming calls only.
LEMMA OutboundUpdate ==
  ASSUME NEW r \in Call, NEW b \in BOOLEAN, NEW m \in OptionalMGC, NEW e \in OptionalMGC
  PROVE
    /\ SameOut(r, [r EXCEPT !.H248Answered = b])
    /\ SameOut(r, [r EXCEPT !.SIPAnswered = b])
    /\ SameOut(r, [r EXCEPT !.Media = b])
    /\ SameOut(r, [r EXCEPT !.H248Responder = m, !.H248EventRequestID = e])
    /\ SameOut(r, [r EXCEPT !.H248EventRequestID = e, !.H248Responder = m])
    /\ SameOut(r, [r EXCEPT !.H248ContextAllocated = TRUE,
                            !.H248Responder = m, !.H248EventRequestID = e])
    /\ SameOut(r, [r EXCEPT !.H248Responder = m, !.H248EventRequestID = e,
                            !.H248OffhookSent = TRUE])
BY ZenonT(30) DEF Call, SameOut

----------------------------------------------------------------------------
(* Sections that leave the Call objects alone *)

\* Sections that are plain, by what they do to the threads.
LEMMA PlainSections ==
  ASSUME TypeOK, NEW t \in Threads, Calm,
         NEW f, At(t, f),
         f \notin {"releaseCall", "unavailableCalls", "digitsSend",
           "lineEventSend", "inviteSend", "lateByeSend", "insertContext",
           "sendCallLineEvent", "handleCarrierRelease"},
         NEW ops \in Seq(Op), Then(t, ops), \A i \in DOMAIN ops : PlainOp(ops[i])
  PROVE  Stepped
<1>1. todo[t] # <<>> /\ Cur(t).f = f BY CurOp
<1> QED BY <1>1, PlainStep DEF PlainCur, Moves

LEMMA PlainNone == <<>> \in Seq(Op) /\ \A i \in DOMAIN <<>> : PlainOp(<<>>[i])
OBVIOUS

LEMMA PlainOne ==
  ASSUME NEW a \in Op, PlainOp(a)
  PROVE  <<a>> \in Seq(Op) /\ \A i \in DOMAIN <<a>> : PlainOp(<<a>>[i])
OBVIOUS

LEMMA PlainTwo ==
  ASSUME NEW a \in Op, PlainOp(a), NEW b \in Op, PlainOp(b)
  PROVE  <<a, b>> \in Seq(Op) /\ \A i \in DOMAIN <<a, b>> : PlainOp(<<a, b>>[i])
OBVIOUS

LEMMA ArmReleaseSafe ==
  ASSUME TypeOK, NEW t \in Threads, ArmRelease(t)
  PROVE  Stepped
<1>1. Calm
  BY CalmSame DEF ArmRelease, CalmRest, bridgeVars, indexVars, wireVars
<1>2. At(t, "armRelease") /\ Then(t, <<>>) BY DEF ArmRelease
<1> QED BY <1>1, <1>2, PlainNone, PlainSections

LEMMA SendInitialOnhookSafe ==
  ASSUME TypeOK, NEW t \in Threads, SendInitialOnhook(t) \/ InitialOnhookSend(t)
  PROVE  Stepped
<1>1. line.ready => line'.ready
  BY DEF SendInitialOnhook, InitialOnhookSend, TypeOK, Line
<1>2. Calm
  BY <1>1, CalmSame DEF SendInitialOnhook, InitialOnhookSend, CalmRest, indexVars,
     wireVars
<1> DEFINE o == LineStep("initialOnhookSend")
<1>3. o \in Op /\ PlainOp(o) BY StepType DEF PlainOp, LineStep
<1>4. <<o>> \in Seq(Op) /\ \A i \in DOMAIN <<o>> : PlainOp(<<o>>[i])
  BY <1>3, PlainOne
<1>5. CASE SendInitialOnhook(t)
  <2>1. At(t, "sendInitialOnhook") /\ (Then(t, <<>>) \/ Then(t, <<o>>))
    BY <1>5 DEF SendInitialOnhook
  <2> HIDE DEF o
  <2> QED BY <1>2, <1>4, <2>1, PlainNone, PlainSections
<1>6. CASE InitialOnhookSend(t)
  <2>1. At(t, "initialOnhookSend") /\ Then(t, <<>>) BY <1>6 DEF InitialOnhookSend
  <2> QED BY <1>2, <2>1, PlainNone, PlainSections
<1> QED BY <1>5, <1>6

LEMMA AddReplySafe ==
  ASSUME TypeOK, NEW t \in Threads, IncomingAddReply(t) \/ OutboundAddReply(t)
  PROVE  Stepped
<1> DEFINE c == Cur(t).c
           a == Step("releaseCall", c)
           b == StepA("failSIPOriginatedCall", c, "503")
           d == StepA("sendSIPOriginatedResponse", c, "183")
<1>1. Calm
  BY CalmSame DEF IncomingAddReply, OutboundAddReply, CalmRest, bridgeVars,
     indexVars, wireVars
<1>2. PlainOp(a) /\ PlainOp(b) /\ PlainOp(d) BY DEF PlainOp, Step, StepA
<1>3. CASE IncomingAddReply(t)
  <2>1. /\ At(t, "incomingAddReply") /\ c \in Calls
        /\ Then(t, <<>>) \/ Then(t, <<a>>)
    BY <1>3, CurType DEF IncomingAddReply, InviteSteps, Calls
  <2>2. a \in Op BY <2>1, StepType DEF CallSteps
  <2> HIDE DEF a
  <2> QED BY <1>1, <1>2, <2>1, <2>2, PlainNone, PlainOne, PlainSections
<1>4. CASE OutboundAddReply(t)
  <2>1. /\ At(t, "outboundAddReply") /\ c \in OutCalls /\ c \in Calls
        /\ Then(t, <<d>>) \/ Then(t, <<b, a>>)
    BY <1>4, CurType DEF OutboundAddReply, OriginationSteps, Calls
  <2>2. a \in Op /\ b \in Op /\ d \in Op
    BY <2>1, StepType DEF CallSteps, Statuses, Provisionals, Failures
  <2> HIDE DEF a, b, d
  <2>3. /\ <<d>> \in Seq(Op) /\ \A i \in DOMAIN <<d>> : PlainOp(<<d>>[i])
        /\ <<b, a>> \in Seq(Op) /\ \A i \in DOMAIN <<b, a>> : PlainOp(<<b, a>>[i])
    BY <1>2, <2>2, PlainOne, PlainTwo
  <2> QED BY <1>1, <2>1, <2>3, PlainSections
<1> QED BY <1>3, <1>4

LEMMA ScheduleOriginationOffhookSafe ==
  ASSUME TypeOK, NEW t \in Threads, ScheduleOriginationOffhook(t)
  PROVE  Stepped
<1>1. Calm
  BY CalmSame DEF ScheduleOriginationOffhook, CalmRest, bridgeVars, indexVars,
     wireVars
<1>2. At(t, "scheduleOriginationOffhook") /\ Then(t, <<>>)
  BY DEF ScheduleOriginationOffhook
<1> QED BY <1>1, <1>2, PlainNone, PlainSections

\* The sections that end a call being originated.
LEMMA PlainFail ==
  ASSUME NEW c \in OutCalls, NEW a \in Failures
  PROVE  LET ops == <<StepA("failSIPOriginatedCall", c, a), Step("releaseCall", c)>>
         IN ops \in Seq(Op) /\ \A i \in DOMAIN ops : PlainOp(ops[i])
<1>1. c \in Calls BY DEF Calls
<1>2. /\ StepA("failSIPOriginatedCall", c, a) \in Op
      /\ Step("releaseCall", c) \in Op
  BY <1>1, StepType DEF CallSteps
<1>3. /\ PlainOp(StepA("failSIPOriginatedCall", c, a))
      /\ PlainOp(Step("releaseCall", c))
  BY DEF PlainOp, Step, StepA
<1> QED BY <1>2, <1>3, PlainTwo

LEMMA NewMediaRelaySafe ==
  ASSUME TypeOK, NEW t \in Threads, NewMediaRelay(t)
  PROVE  Stepped
<1> DEFINE c == Cur(t).c
           a == Step("setMedia", c)
<1>1. At(t, "newMediaRelay") /\ c \in OutCalls
  BY CurType DEF NewMediaRelay, OriginationSteps
<1>2. \A d \in InCalls : relay'[d] = relay[d]
  BY <1>1, ConstantsDisjoint DEF NewMediaRelay, TypeOK, Calls
<1>3. Calm
  BY <1>2, CalmSame DEF NewMediaRelay, CalmRest, bridgeVars, indexVars
<1>4. a \in Op /\ PlainOp(a)
  BY <1>1, StepType DEF OriginationSteps, PlainOp, Step
<1>5. \/ Then(t, <<a>>)
      \/ Then(t, <<StepA("failSIPOriginatedCall", c, "500"), Step("releaseCall", c)>>)
  BY DEF NewMediaRelay
<1>6. CASE Then(t, <<a>>)
  <2> HIDE DEF a
  <2> QED BY <1>1, <1>3, <1>4, <1>6, PlainOne, PlainSections
<1>7. CASE Then(t, <<StepA("failSIPOriginatedCall", c, "500"), Step("releaseCall", c)>>)
  <2>1. "500" \in Failures BY DEF Failures
  <2> QED BY <1>1, <1>3, <1>7, <2>1, PlainFail, PlainSections
<1> QED BY <1>5, <1>6, <1>7

LEMMA FailSIPOriginatedCallSafe ==
  ASSUME TypeOK, NEW t \in Threads, FailSIPOriginatedCall(t)
  PROVE  Stepped
<1> DEFINE a == StepA("sendSIPOriginatedResponse", Cur(t).c, Cur(t).a)
<1>1. /\ At(t, "failSIPOriginatedCall")
      /\ Cur(t).c \in OutCalls /\ Cur(t).a \in Failures
  BY CurType DEF FailSIPOriginatedCall
<1>2. Calm
  BY CalmSame DEF FailSIPOriginatedCall, CalmRest, bridgeVars, indexVars, wireVars
<1>3. a \in Op /\ PlainOp(a)
  BY <1>1, StepType DEF Statuses, Failures, PlainOp, StepA
<1>4. Then(t, <<>>) \/ Then(t, <<a>>) BY DEF FailSIPOriginatedCall
<1> HIDE DEF a
<1> QED BY <1>1, <1>2, <1>3, <1>4, PlainNone, PlainOne, PlainSections

LEMMA SendSIPSafe ==
  ASSUME TypeOK, NEW t \in Threads, SendSIP(t)
  PROVE  Stepped
<1>1. /\ At(t, "sendSIP") /\ Then(t, <<>>) /\ Cur(t).c \in Calls
      /\ Cur(t).a \in {"ACK", "ACK2xx", "BYE", "CANCEL"}
  BY CurType DEF SendSIP
<1>2. \A d \in Calls : \A m \in {"digits", "INVITE", "lateBYE"} :
        (m \in sent'[d]) = (m \in sent[d])
  BY SMTT(30), <1>1 DEF SendSIP, Put, TypeOK
<1>3. Calm BY <1>2, CalmSame DEF SendSIP, CalmRest, bridgeVars, indexVars
<1> QED BY <1>1, <1>3, PlainNone, PlainSections

----------------------------------------------------------------------------
(* New goroutines *)

LEMMA PlainStart ==
  ASSUME TypeOK, NEW t \in Threads, Calm, NEW ops \in Seq(Op), Start(t, ops),
         \A i \in DOMAIN ops : PlainOp(ops[i])
  PROVE  Stepped
<1>1. PlainCur(t) BY DEF Start, Idle, PlainCur
<1> QED BY <1>1, PlainStep DEF Moves

LEMMA TimerFiresSafe ==
  ASSUME TypeOK, TimerFires
  PROVE  Stepped
<1>1. PICK o \in timers : o.f # "retransmitInvite" /\ Start("timer", <<o>>)
  BY DEF TimerFires
<1>2. o \in Timer BY DEF TypeOK
<1>3. o \in Op /\ PlainOp(o)
  BY <1>1, <1>2 DEF Timer, Op, CallSteps, OriginationSteps, PlainOp
<1>4. Calm BY CalmSame DEF TimerFires, CalmRest, bridgeVars, indexVars, wireVars
<1>5. "timer" \in Threads BY DEF Threads
<1> QED BY <1>1, <1>3, <1>4, <1>5, PlainOne, PlainStart

LEMMA HandleH248ReadySafe ==
  ASSUME TypeOK, HandleH248Ready
  PROVE  Stepped
<1> DEFINE o == LineStep("sendInitialOnhook")
<1>1. "reg" \in Threads BY DEF Threads
<1>2. Start("reg", <<>>) \/ Start("reg", <<o>>) BY DEF HandleH248Ready, ReadySteps
<1>3. o \in Op /\ PlainOp(o) BY StepType DEF PlainOp, LineStep
<1>4. line'.ready BY DEF HandleH248Ready, TypeOK, Line
<1>5. Calm BY <1>4, CalmSame DEF HandleH248Ready, CalmRest, indexVars, wireVars
<1> HIDE DEF o
<1> QED BY <1>1, <1>2, <1>3, <1>5, PlainNone, PlainOne, PlainStart

LEMMA RetransmitDeadlineSafe ==
  ASSUME TypeOK, RetransmitDeadline
  PROVE  Stepped
<1>1. PICK c \in InCalls : Start("timer", DeadlineSteps(c))
  BY DEF RetransmitDeadline
<1> DEFINE a == StepA("sendCallLineEvent", c, "onhook")
           b == Step("releaseCall", c)
<1>2. Start("timer", <<>>) \/ Start("timer", <<a, b>>) BY <1>1 DEF DeadlineSteps
<1>3. a \in Op /\ b \in Op
  BY StepType DEF CallSteps, LinePhases, Calls
<1>4. PlainOp(a) /\ PlainOp(b) BY DEF PlainOp, Step, StepA
<1>5. Calm
  BY CalmSame DEF RetransmitDeadline, CalmRest, bridgeVars, indexVars, wireVars
<1>6. "timer" \in Threads BY DEF Threads
<1> HIDE DEF a, b
<1> QED BY <1>2, <1>3, <1>4, <1>5, <1>6, PlainNone, PlainTwo, PlainStart

\* The sections of two sequences run one after the other.
LEMMA Concat ==
  ASSUME NEW p \in Seq(Op), NEW q \in Seq(Op)
  PROVE  /\ p \o q \in Seq(Op)
         /\ \A S : Adds(p \o q, S) <=> Adds(p, S) \/ Adds(q, S)
         /\ (\A i \in DOMAIN p : PlainOp(p[i])) /\ (\A i \in DOMAIN q : PlainOp(q[i]))
              => \A i \in DOMAIN (p \o q) : PlainOp((p \o q)[i])
<1>1. p \o q \in Seq(Op) OBVIOUS
<1>2. Len(p \o q) = Len(p) + Len(q) /\ Len(p) \in Nat /\ Len(q) \in Nat OBVIOUS
<1>3. /\ DOMAIN (p \o q) = 1 .. Len(p) + Len(q)
      /\ DOMAIN p = 1 .. Len(p) /\ DOMAIN q = 1 .. Len(q)
  BY <1>1, <1>2
<1>4. \A i \in DOMAIN p : i \in DOMAIN (p \o q) /\ (p \o q)[i] = p[i]
  BY <1>2, <1>3
<1>5. \A i \in DOMAIN q : i + Len(p) \in DOMAIN (p \o q) /\ (p \o q)[i + Len(p)] = q[i]
  BY <1>2, <1>3
<1>6. ASSUME NEW i \in DOMAIN (p \o q), i \notin DOMAIN p
      PROVE  i - Len(p) \in DOMAIN q /\ (p \o q)[i] = q[i - Len(p)]
  <2>1. i - Len(p) \in DOMAIN q BY <1>2, <1>3, <1>6
  <2>2. (i - Len(p)) + Len(p) = i BY <1>2, <1>3, <1>6
  <2> QED BY <1>5, <2>1, <2>2
<1>7. \A S : Adds(p \o q, S) <=> Adds(p, S) \/ Adds(q, S)
  BY <1>4, <1>5, <1>6 DEF Adds
<1>8. (\A i \in DOMAIN p : PlainOp(p[i])) /\ (\A i \in DOMAIN q : PlainOp(q[i]))
        => \A i \in DOMAIN (p \o q) : PlainOp((p \o q)[i])
  BY <1>4, <1>6
<1> QED BY <1>1, <1>7, <1>8

LEMMA RecvLineCommandSafe ==
  ASSUME TypeOK, NEW t \in Threads, NEW cmd \in Commands, RecvLineCommand(t, cmd)
  PROVE  Stepped
<1> DEFINE a == LineStep("sendInitialOnhook")
           b == [f |-> "lineCommand", from |-> mgc, cmd |-> cmd]
           p == IF cmd.req /\ line.ready THEN <<a>> ELSE <<>>
<1>1. mgc \in MGCs BY DEF RecvLineCommand, TypeOK, OptionalMGC
<1>2. a \in Op /\ b \in Op BY <1>1, StepType DEF Op
<1>3. PlainOp(a) /\ PlainOp(b) BY DEF PlainOp, LineStep
<1>4. line.ready => line'.ready BY DEF RecvLineCommand, TypeOK, Line
<1>5. Calm
  BY <1>4, CalmSame DEF RecvLineCommand, CalmRest, indexVars, wireVars
<1>6. Start(t, p \o <<b>>) BY DEF RecvLineCommand
<1> HIDE DEF a, b
<1>7. p \in Seq(Op) /\ \A i \in DOMAIN p : PlainOp(p[i])
  BY <1>2, <1>3, PlainNone, PlainOne
<1>8. <<b>> \in Seq(Op) /\ \A i \in DOMAIN <<b>> : PlainOp(<<b>>[i])
  BY <1>2, <1>3, PlainOne
<1> HIDE DEF p
<1> QED BY <1>5, <1>6, <1>7, <1>8, Concat, PlainStart

LEMMA RecvInviteSafe ==
  ASSUME TypeOK, NEW t \in Threads, NEW id \in CallIDs, RecvInvite(t, id)
  PROVE  Stepped
<1>1. PICK c \in OutCalls :
        Start(t, <<[f |-> "handleNewSIPInvite", c |-> c, id |-> id]>>)
  BY DEF RecvInvite
<1> DEFINE o == [f |-> "handleNewSIPInvite", c |-> c, id |-> id]
<1>2. o \in Op /\ PlainOp(o) BY DEF Op, PlainOp
<1>3. Calm BY CalmSame DEF RecvInvite, CalmRest, bridgeVars, indexVars, wireVars
<1>4. Start(t, <<o>>) BY <1>1
<1> HIDE DEF o
<1> QED BY <1>2, <1>3, <1>4, PlainOne, PlainStart

\* A BYE or CANCEL marks the call and starts its release.
LEMMA RemoteReleaseSafe ==
  ASSUME TypeOK, NEW t \in Threads, NEW c \in Calls,
         RecvBye(t, c) \/ RecvCancel(t, c)
  PROVE  Stepped
<1> DEFINE r == [call[c] EXCEPT !.SIPRemoteReleased = TRUE]
           e == StepA("failSIPOriginatedCall", c, "487")
           a == StepA("sendCallLineEvent", c, "onhook")
           b == Step("armRelease", c)
<1>1. call[c] \in Call BY DEF TypeOK
<1>2. call' = [call EXCEPT ![c] = r] BY DEF RecvBye, RecvCancel
<1>3. SameOut(call[c], r) /\ SameIn(call[c], r) BY ZenonT(30), <1>1, QuietUpdate
<1>4. CalmRest BY DEF RecvBye, RecvCancel, CalmRest, indexVars, wireVars
<1>5. a \in Op /\ b \in Op BY StepType DEF CallSteps, LinePhases
<1>6. PlainOp(a) /\ PlainOp(b) /\ PlainOp(e) BY DEF PlainOp, Step, StepA
<1>7. Calm
  <2> HIDE DEF r
  <2> QED BY <1>2, <1>3, <1>4, CalmCall
<1>8. CASE RecvBye(t, c)
  <2>1. Start(t, <<a, b>>) BY <1>8 DEF RecvBye
  <2> HIDE DEF a, b
  <2> QED BY <1>5, <1>6, <1>7, <2>1, PlainTwo, PlainStart
<1>9. CASE RecvCancel(t, c)
  <2>1. Start(t, <<e, a, b>>) /\ c \in OutCalls BY <1>9 DEF RecvCancel
  <2>2. e \in Op BY <2>1, StepType DEF Failures
  <2> HIDE DEF a, b, e
  <2>3. <<e, a, b>> \in Seq(Op) /\ \A i \in DOMAIN <<e, a, b>> : PlainOp(<<e, a, b>>[i])
    BY <1>5, <1>6, <2>2
  <2> QED BY <1>7, <2>1, <2>3, PlainStart
<1> QED BY <1>8, <1>9

----------------------------------------------------------------------------
(* Sections that change what no invariant reads of a Call object *)

\* The fields of an outbound call that only the answer of an incoming one
\* depends on.
LEMMA CalmOutbound ==
  ASSUME TypeOK, CalmRest, NEW c \in OutCalls, NEW r, call' = [call EXCEPT ![c] = r],
         SameOut(call[c], r)
  PROVE  Calm
<1>1. c \in Calls /\ c \notin InCalls BY ConstantsDisjoint DEF Calls
<1> QED BY <1>1, CalmCall

LEMMA SendOriginationOffhookSafe ==
  ASSUME TypeOK, NEW t \in Threads, SendOriginationOffhook(t)
  PROVE  Stepped
<1> DEFINE c == Cur(t).c
           m == line.responder
           e == line.eventRequestID
           r == [call[c] EXCEPT !.H248Responder = m, !.H248EventRequestID = e,
                                !.H248OffhookSent = TRUE]
           o == Step("offhookSend", c)
           fail == <<StepA("failSIPOriginatedCall", c, "503"), Step("releaseCall", c)>>
<1>1. At(t, "sendOriginationOffhook") /\ c \in OutCalls /\ c \in Calls
  BY CurType DEF SendOriginationOffhook, OriginationSteps, Calls
<1>2. UNCHANGED call \/ call' = [call EXCEPT ![c] = r]
  BY DEF SendOriginationOffhook
<1>3. call[c] \in Call /\ m \in OptionalMGC /\ e \in OptionalMGC
  BY <1>1 DEF TypeOK, Line
<1>4. CalmRest BY DEF SendOriginationOffhook, CalmRest, indexVars, wireVars
<1>5. Then(t, <<o>>) \/ Then(t, fail) BY DEF SendOriginationOffhook
<1>6. o \in Op /\ PlainOp(o)
  BY <1>1, StepType DEF OriginationSteps, PlainOp, Step
<1>7. fail \in Seq(Op) /\ \A i \in DOMAIN fail : PlainOp(fail[i])
  BY <1>1, PlainFail DEF Failures
<1> HIDE DEF o, fail, m, e, c
<1>8. SameOut(call[c], r) BY ZenonT(30), <1>3, OutboundUpdate
<1> HIDE DEF r
<1>9. Calm BY <1>1, <1>2, <1>4, <1>8, CalmOutbound, CalmSame
<1> QED BY <1>1, <1>5, <1>6, <1>7, <1>9, PlainOne, PlainSections

LEMMA OffhookSendSafe ==
  ASSUME TypeOK, NEW t \in Threads, OffhookSend(t)
  PROVE  Stepped
<1> DEFINE c == Cur(t).c
           r == [call[c] EXCEPT !.H248OffhookSent = FALSE]
           fail == <<StepA("failSIPOriginatedCall", c, "503"), Step("releaseCall", c)>>
<1>1. At(t, "offhookSend") /\ c \in OutCalls /\ c \in Calls
  BY CurType DEF OffhookSend, OriginationSteps, Calls
<1>2. UNCHANGED call \/ call' = [call EXCEPT ![c] = r] BY DEF OffhookSend
<1>3. call[c] \in Call BY <1>1 DEF TypeOK
<1>4. CalmRest BY DEF OffhookSend, CalmRest, indexVars
<1>5. Then(t, <<>>) \/ Then(t, fail) BY DEF OffhookSend
<1>6. fail \in Seq(Op) /\ \A i \in DOMAIN fail : PlainOp(fail[i])
  BY <1>1, PlainFail DEF Failures
<1> HIDE DEF fail, c
<1>7. SameOut(call[c], r) BY ZenonT(30), <1>3, QuietUpdate
<1> HIDE DEF r
<1>8. Calm BY <1>1, <1>2, <1>4, <1>7, CalmOutbound, CalmSame
<1> QED BY <1>1, <1>5, <1>6, <1>8, PlainNone, PlainSections

LEMMA ScheduleOriginationDigitsSafe ==
  ASSUME TypeOK, NEW t \in Threads, ScheduleOriginationDigits(t)
  PROVE  Stepped
<1> DEFINE c == Cur(t).c
           r == [call[c] EXCEPT !.H248DigitsScheduled = TRUE]
<1>1. /\ At(t, "scheduleOriginationDigits") /\ c \in OutCalls /\ c \in Calls
      /\ Then(t, <<>>)
  BY CurType DEF ScheduleOriginationDigits, OriginationSteps, Calls
<1>2. UNCHANGED call \/ call' = [call EXCEPT ![c] = r]
  BY DEF ScheduleOriginationDigits
<1>3. call[c] \in Call BY <1>1 DEF TypeOK
<1>4. CalmRest BY DEF ScheduleOriginationDigits, CalmRest, indexVars, wireVars
<1> HIDE DEF c
<1>5. SameOut(call[c], r) BY ZenonT(30), <1>3, QuietUpdate
<1> HIDE DEF r
<1>6. Calm BY <1>1, <1>2, <1>4, <1>5, CalmOutbound, CalmSame
<1> QED BY <1>1, <1>6, PlainNone, PlainSections

LEMMA LineCommandSafe ==
  ASSUME TypeOK, NEW t \in Threads, LineCommand(t)
  PROVE  Stepped
<1> DEFINE c == outboundCall
           m == Cur(t).from
           r == [call[c] EXCEPT !.H248EventRequestID = m, !.H248Responder = m]
           o == Step("scheduleOriginationDigits", c)
<1>1. At(t, "lineCommand") /\ m \in MGCs BY CurType DEF LineCommand
<1>2. \/ UNCHANGED call
      \/ outboundCall # Nil /\ call' = [call EXCEPT ![c] = r]
  BY DEF LineCommand
<1>3. outboundCall # Nil => c \in OutCalls /\ c \in Calls BY DEF TypeOK, Calls
<1>4. CalmRest BY DEF LineCommand, CalmRest, indexVars, wireVars
<1>5. Then(t, <<>>) \/ (outboundCall # Nil /\ Then(t, <<o>>)) BY DEF LineCommand
<1>6. outboundCall # Nil => o \in Op /\ PlainOp(o)
  BY <1>3, StepType DEF OriginationSteps, PlainOp, Step
<1> HIDE DEF c, o
<1>7. outboundCall # Nil => SameOut(call[c], r)
  <2> SUFFICES ASSUME outboundCall # Nil PROVE SameOut(call[c], r) OBVIOUS
  <2>1. call[c] \in Call /\ m \in OptionalMGC BY <1>1, <1>3 DEF TypeOK, OptionalMGC
  <2> HIDE DEF m
  <2> QED BY ZenonT(30), <2>1, OutboundUpdate
<1> HIDE DEF r
<1>8. Calm BY <1>2, <1>3, <1>4, <1>7, CalmOutbound, CalmSame
<1> QED BY <1>1, <1>5, <1>6, <1>8, PlainNone, PlainOne, PlainSections

LEMMA SetMediaSafe ==
  ASSUME TypeOK, NEW t \in Threads, SetMedia(t)
  PROVE  Stepped
<1> DEFINE c == Cur(t).c
           r == [call[c] EXCEPT !.Media = TRUE]
           a == StepA("sendSIPOriginatedResponse", c, "100")
           b == Step("scheduleOriginationOffhook", c)
<1>1. At(t, "setMedia") /\ c \in OutCalls /\ c \in Calls
  BY CurType DEF SetMedia, OriginationSteps, Calls
<1>2. call' = [call EXCEPT ![c] = r] /\ Then(t, <<a, b>>) BY DEF SetMedia
<1>3. call[c] \in Call BY <1>1 DEF TypeOK
<1>4. CalmRest BY DEF SetMedia, CalmRest, indexVars, wireVars
<1>5. a \in Op /\ b \in Op
  BY <1>1, StepType DEF OriginationSteps, Statuses, Provisionals
<1>6. PlainOp(a) /\ PlainOp(b) BY DEF PlainOp, Step, StepA
<1> HIDE DEF c, a, b
<1>7. SameOut(call[c], r)
  <2>1. OptionalMGC # {} BY DEF OptionalMGC
  <2> QED BY ZenonT(30), <1>3, <2>1, OutboundUpdate
<1> HIDE DEF r
<1>8. Calm BY <1>1, <1>2, <1>4, <1>7, CalmOutbound
<1> QED BY <1>1, <1>2, <1>5, <1>6, <1>8, PlainTwo, PlainSections

LEMMA MarkAnsweredSafe ==
  ASSUME TypeOK, NEW t \in Threads, MarkAnswered(t)
  PROVE  Stepped
<1> DEFINE c == Cur(t).c
           r == [call[c] EXCEPT !.H248Answered = TRUE]
<1>1. At(t, "markAnswered") /\ c \in OutCalls /\ c \in Calls
  BY CurType DEF MarkAnswered, OriginationSteps, Calls
<1>2. call' = [call EXCEPT ![c] = r] /\ Then(t, <<>>) BY DEF MarkAnswered
<1>3. call[c] \in Call BY <1>1 DEF TypeOK
<1>4. CalmRest BY DEF MarkAnswered, CalmRest, indexVars, wireVars
<1> HIDE DEF c
<1>5. SameOut(call[c], r)
  <2>1. OptionalMGC # {} BY DEF OptionalMGC
  <2> QED BY ZenonT(30), <1>3, <2>1, OutboundUpdate
<1> HIDE DEF r
<1>6. Calm BY <1>1, <1>2, <1>4, <1>5, CalmOutbound
<1> QED BY <1>1, <1>2, <1>6, PlainNone, PlainSections

----------------------------------------------------------------------------
(* Sections and goroutines with other sections to run *)

\* The sets of sections, by the name and the call of a section.
LEMMA Members ==
  ASSUME NEW o \in Op, NEW c
  PROVE
    /\ o \in Releases(c) <=> o.f = "releaseCall" /\ o.c = c
    /\ o \in Unavailables(c) <=> \/ o.f = "releaseCall" /\ o.c = c
                                 \/ o.f = "unavailableCalls" /\ c \in o.cs
    /\ o \in Creations(c) <=>
         o.f \in {"handleIncomingCallAdd", "insertContext"} /\ o.c = c
    /\ o \in Inserts(c) <=> o.f = "insertContext" /\ o.c = c
    /\ o \in OnhookSends(c) <=> o.f = "lineEventSend" /\ o.c = c /\ o.a = "onhook"
    /\ o \in InviteSends(c) <=> o.f = "inviteSend" /\ o.c = c
    /\ o \in LateAnswers(c) <=>
         o.f \in {"handleRetainedSIPInviteResponse", "sendLateAnswerBYE"} /\ o.c = c
    /\ o \in LateByes(c) <=> o.f = "lateByeSend" /\ o.c = c
    /\ o \in DigitsSends(c) <=> o.f = "digitsSend" /\ o.c = c
    /\ o \in Teardowns(c) <=>
         \/ o.f \in {"retainSIPInvite", "sendSIPTeardown", "handleCarrierRelease",
                     "contextCommand"} /\ o.c = c
         \/ o.f \in {"releaseAllCallsFromCarrier", "unavailableCalls"} /\ c \in o.cs
    /\ o \in AnswerSteps(c) <=>
         \/ o.f \in {"handleOutboundCallAdd", "answerSIPOriginatedCall",
                     "contextCommand"} /\ o.c = c
         \/ o.f \in {"sendSIPOriginatedResponse", "respond"} /\ o.c = c /\ o.a = "200"
    /\ o \in Reports(c) <=>
         \/ o.f = "sendCallLineEvent" /\ o.c = c /\ o.a = "answer"
         \/ o.f \in {"handleCarrierRelease", "releaseCall"} /\ o.c = c
BY DEF Releases, Unavailables, Creations, Inserts, OnhookSends, InviteSends,
       LateAnswers, LateByes, DigitsSends, Teardowns, AnswerSteps, Reports, Of, Loops


\* A section that thread t may leave behind: it claims nothing, and what it
\* leads to is allowed by what the thread has found or has just run.
Fits(t, o) ==
  /\ o.f \notin {"lineEventSend", "inviteSend", "lateByeSend", "digitsSend",
                 "handleIncomingCallAdd", "insertContext"}
  /\ o.f \in {"handleOutboundCallAdd", "answerSIPOriginatedCall", "contextCommand"}
       /\ o.c \in OutCalls => Beyond(o.c) \/ Running(t, AnswerSteps(o.c))
  /\ o.f \in {"sendSIPOriginatedResponse", "respond"} /\ o.a = "200"
       => Beyond(o.c) \/ Running(t, AnswerSteps(o.c))
  /\ o.f \in {"handleRetainedSIPInviteResponse", "sendLateAnswerBYE"} =>
       \/ Running(t, LateAnswers(o.c))
       \/ "INVITE" \in sent[o.c] /\ (callsBySIP[o.c] = Nil \/ ~ Live(o.c))
  /\ o.f \in {"retainSIPInvite", "sendSIPTeardown", "handleCarrierRelease",
              "contextCommand"}
       /\ o.c \in InCalls => Live(o.c) \/ Running(t, Teardowns(o.c))
  /\ o.f \in {"releaseAllCallsFromCarrier", "unavailableCalls"} =>
       \A c \in o.cs \cap InCalls : Live(c) \/ Running(t, Teardowns(c))
FitsAt(t, ops) == \A i \in DOMAIN ops : Fits(t, ops[i])

LEMMA PlainFits ==
  ASSUME NEW t, NEW o \in Op, PlainOp(o)
  PROVE  Fits(t, o)
BY DEF PlainOp, Fits

LEMMA FitsAdds ==
  ASSUME NEW t, NEW ops \in Seq(Op), FitsAt(t, ops)
  PROVE  /\ \A c : /\ ~ Adds(ops, OnhookSends(c)) /\ ~ Adds(ops, InviteSends(c))
                   /\ ~ Adds(ops, LateByes(c)) /\ ~ Adds(ops, Creations(c))
                   /\ ~ Adds(ops, Inserts(c)) /\ ~ Adds(ops, DigitsSends(c))
         /\ \A c \in OutCalls : Adds(ops, AnswerSteps(c)) =>
              Beyond(c) \/ Running(t, AnswerSteps(c))
         /\ \A c \in InCalls :
              /\ Adds(ops, LateAnswers(c)) =>
                   \/ Running(t, LateAnswers(c))
                   \/ "INVITE" \in sent[c] /\ (callsBySIP[c] = Nil \/ ~ Live(c))
              /\ Adds(ops, Teardowns(c)) => Live(c) \/ Running(t, Teardowns(c))
<1>1. \A i \in DOMAIN ops : ops[i] \in Op /\ Fits(t, ops[i]) BY DEF FitsAt
<1>2. ASSUME NEW o \in Op, Fits(t, o), NEW c
      PROVE  /\ o \notin OnhookSends(c) /\ o \notin InviteSends(c)
             /\ o \notin LateByes(c) /\ o \notin Creations(c) /\ o \notin Inserts(c)
             /\ o \notin DigitsSends(c)
  BY <1>2, Members DEF Fits
<1>3. ASSUME NEW o \in Op, Fits(t, o), NEW c \in OutCalls, o \in AnswerSteps(c)
      PROVE  Beyond(c) \/ Running(t, AnswerSteps(c))
  BY <1>3, Members DEF Fits
<1>4. ASSUME NEW o \in Op, Fits(t, o), NEW c \in InCalls, o \in LateAnswers(c)
      PROVE  \/ Running(t, LateAnswers(c))
             \/ "INVITE" \in sent[c] /\ (callsBySIP[c] = Nil \/ ~ Live(c))
  BY <1>4, Members DEF Fits
<1>5. ASSUME NEW o \in Op, Fits(t, o), NEW c \in InCalls, o \in Teardowns(c)
      PROVE  Live(c) \/ Running(t, Teardowns(c))
  BY <1>5, Members DEF Fits
<1>6. \A c : /\ ~ Adds(ops, OnhookSends(c)) /\ ~ Adds(ops, InviteSends(c))
             /\ ~ Adds(ops, LateByes(c)) /\ ~ Adds(ops, Creations(c))
             /\ ~ Adds(ops, Inserts(c)) /\ ~ Adds(ops, DigitsSends(c))
  BY <1>1, <1>2 DEF Adds
<1>7. \A c \in OutCalls : Adds(ops, AnswerSteps(c)) =>
        Beyond(c) \/ Running(t, AnswerSteps(c))
  BY <1>1, <1>3 DEF Adds
<1>8. \A c \in InCalls : Adds(ops, LateAnswers(c)) =>
        \/ Running(t, LateAnswers(c))
        \/ "INVITE" \in sent[c] /\ (callsBySIP[c] = Nil \/ ~ Live(c))
  BY <1>1, <1>4 DEF Adds
<1>9. \A c \in InCalls : Adds(ops, Teardowns(c)) => Live(c) \/ Running(t, Teardowns(c))
  BY <1>1, <1>5 DEF Adds
<1> QED BY <1>6, <1>7, <1>8, <1>9

\* No invariant waits for the end of the section that has been run.
RunsPlain(t) == \A c :
  /\ ~ Running(t, Unavailables(c)) /\ ~ Running(t, Releases(c))
  /\ ~ Running(t, DigitsSends(c)) /\ ~ Running(t, OnhookSends(c))
  /\ ~ Running(t, InviteSends(c)) /\ ~ Running(t, LateByes(c))
  /\ ~ Running(t, Reports(c)) /\ ~ Running(t, Inserts(c))

LEMMA PlainRuns ==
  ASSUME NEW t \in Threads, PlainCur(t)
  PROVE  RunsPlain(t)
BY DEF RunsPlain, Running, PlainCur, Unavailables, Releases, DigitsSends, OnhookSends,
       InviteSends, LateByes, Reports, Inserts, Of, Loops

LEMMA FitsFlows ==
  ASSUME NEW t \in Threads, NEW ops \in Seq(Op), FitsAt(t, ops), RunsPlain(t)
  PROVE  Flows(t, ops)
<1>1. /\ FlowDigits(t, ops) /\ FlowOnhook(t, ops) /\ FlowInvite(t, ops)
      /\ FlowLate(t, ops) /\ FlowMedia(t, ops)
  BY FitsAdds DEF RunsPlain, FlowDigits, FlowOnhook, FlowInvite, FlowLate, FlowMedia
<1>2. FlowOut(t, ops) /\ FlowAnswer(t, ops) BY DEF RunsPlain, FlowOut, FlowAnswer
<1> QED BY <1>1, <1>2 DEF Flows

\* Sections of a thread, and new goroutines, that leave such sections.
LEMMA FitsThen ==
  ASSUME TypeOK, NEW t \in Threads, Calm, NEW f, At(t, f),
         f \notin {"releaseCall", "unavailableCalls", "digitsSend",
           "lineEventSend", "inviteSend", "lateByeSend", "insertContext",
           "sendCallLineEvent", "handleCarrierRelease"},
         NEW ops \in Seq(Op), Then(t, ops), FitsAt(t, ops)
  PROVE  Stepped
<1>1. todo[t] # <<>> /\ Cur(t).f = f BY CurOp
<1>2. RunsPlain(t) BY <1>1, PlainRuns DEF PlainCur
<1> QED BY <1>1, <1>2, FitsFlows, FlowStep DEF Moves

LEMMA FitsStart ==
  ASSUME TypeOK, NEW t \in Threads, Calm, NEW ops \in Seq(Op), Start(t, ops),
         FitsAt(t, ops)
  PROVE  Stepped
<1>1. RunsPlain(t) BY PlainRuns DEF PlainCur, Start, Idle
<1> QED BY <1>1, FitsFlows, FlowStep DEF Moves

LEMMA FitsFew ==
  ASSUME NEW t, NEW a \in Op, Fits(t, a), NEW b \in Op, Fits(t, b),
         NEW d \in Op, Fits(t, d), NEW e \in Op, Fits(t, e)
  PROVE  /\ <<>> \in Seq(Op) /\ FitsAt(t, <<>>)
         /\ <<a>> \in Seq(Op) /\ FitsAt(t, <<a>>)
         /\ <<a, b>> \in Seq(Op) /\ FitsAt(t, <<a, b>>)
         /\ <<a, b, d>> \in Seq(Op) /\ FitsAt(t, <<a, b, d>>)
         /\ <<a, b, d, e>> \in Seq(Op) /\ FitsAt(t, <<a, b, d, e>>)
BY OpSeq DEF FitsAt

LEMMA FitsConcat ==
  ASSUME NEW t, NEW p \in Seq(Op), NEW q \in Seq(Op), FitsAt(t, p), FitsAt(t, q)
  PROVE  p \o q \in Seq(Op) /\ FitsAt(t, p \o q)
<1>1. p \o q \in Seq(Op) BY Concat
<1>2. ASSUME NEW i \in DOMAIN (p \o q) PROVE Fits(t, (p \o q)[i])
  <2>1. Adds(p \o q, {(p \o q)[i]}) BY DEF Adds
  <2>2. Adds(p, {(p \o q)[i]}) \/ Adds(q, {(p \o q)[i]}) BY <2>1, Concat
  <2> QED BY <2>2 DEF Adds, FitsAt
<1> QED BY <1>1, <1>2 DEF FitsAt

LEMMA FitsOne ==
  ASSUME NEW t, NEW a \in Op, Fits(t, a)
  PROVE  <<a>> \in Seq(Op) /\ FitsAt(t, <<a>>)
BY FitsFew

LEMMA FitsTwo ==
  ASSUME NEW t, NEW a \in Op, Fits(t, a), NEW b \in Op, Fits(t, b)
  PROVE  <<a, b>> \in Seq(Op) /\ FitsAt(t, <<a, b>>)
BY FitsFew

LEMMA AddsOne ==
  ASSUME NEW a, NEW S
  PROVE  Adds(<<a>>, S) <=> a \in S
BY DEF Adds

LEMMA RecvAddSafe ==
  ASSUME TypeOK, NEW t \in Threads, NEW req \in BOOLEAN, RecvAdd(t, req)
  PROVE  Stepped
<1>1. mgc \in MGCs BY DEF RecvAdd, TypeOK, OptionalMGC
<1>2. Calm BY CalmSame DEF RecvAdd, CalmRest, bridgeVars, indexVars, wireVars
<1>3. CASE AddIsOutbound
  <2> DEFINE o == [f |-> "handleOutboundCallAdd", c |-> outboundCall,
                   from |-> mgc, req |-> req]
  <2>1. Start(t, <<o>>) BY <1>3 DEF RecvAdd
  <2>2. outboundCall \in OutCalls BY <1>3 DEF AddIsOutbound, TypeOK
  <2>3. o \in Op BY <1>1, <2>2 DEF Op
  <2>4. Beyond(outboundCall) BY <1>3 DEF AddIsOutbound, Beyond
  <2>5. Fits(t, o) BY <2>4 DEF Fits
  <2> HIDE DEF o
  <2> QED BY <1>2, <2>1, <2>3, <2>5, FitsOne, FitsStart
<1>4. CASE ~ AddIsOutbound
  <2>1. PICK c \in InCalls :
          /\ Fresh(c)
          /\ Start(t, <<[f |-> "handleIncomingCallAdd", c |-> c,
                         from |-> mgc, req |-> req]>>)
    BY <1>4 DEF RecvAdd
  <2> DEFINE o == [f |-> "handleIncomingCallAdd", c |-> c,
                   from |-> mgc, req |-> req]
             ops == <<o>>
  <2>2. o \in Op BY <1>1 DEF Op
  <2>3. o.f = "handleIncomingCallAdd" /\ o.c = c OBVIOUS
  <2>4. Start(t, ops) /\ Fresh(c) BY <2>1
  <2> HIDE DEF o
  <2>5. ops \in Seq(Op) /\ Len(ops) = 1 BY <2>2, OpSeq
  <2>6. \A d : /\ o \notin OnhookSends(d) /\ o \notin InviteSends(d)
               /\ o \notin LateByes(d) /\ o \notin LateAnswers(d)
               /\ o \notin Teardowns(d) /\ o \notin AnswerSteps(d)
               /\ o \notin DigitsSends(d)
               /\ o \in Creations(d) => d = c
    BY <2>2, <2>3, Members
  <2>7. \A d : /\ ~ Adds(ops, OnhookSends(d)) /\ ~ Adds(ops, InviteSends(d))
               /\ ~ Adds(ops, LateByes(d)) /\ ~ Adds(ops, LateAnswers(d))
               /\ ~ Adds(ops, Teardowns(d)) /\ ~ Adds(ops, AnswerSteps(d))
               /\ ~ Adds(ops, DigitsSends(d))
               /\ Adds(ops, Creations(d)) => d = c
    BY <2>6, AddsOne
  <2>8. RunsPlain(t) BY <2>4, PlainRuns DEF PlainCur, Start, Idle
  <2> HIDE DEF ops
  <2>9. Flows(t, ops)
    BY <2>4, <2>5, <2>7, <2>8 DEF RunsPlain, Flows, FlowOut, FlowDigits, FlowOnhook,
       FlowInvite, FlowLate, FlowMedia, FlowAnswer
  <2> QED BY <1>2, <2>4, <2>5, <2>9, FlowStep DEF Moves
<1> QED BY <1>3, <1>4

LEMMA RecvContextCommandSafe ==
  ASSUME IInv, NEW t \in Threads, NEW c \in Calls, NEW cmd \in Commands,
         RecvContextCommand(t, c, cmd)
  PROVE  Stepped
<1> PICK from \in Senders(cmd) :
      Start(t, <<[f |-> "contextCommand", c |-> c, from |-> from, cmd |-> cmd]>>)
  BY DEF RecvContextCommand
<1> DEFINE o == [f |-> "contextCommand", c |-> c, from |-> from, cmd |-> cmd]
<1>1. TypeOK /\ from \in MGCs BY DEF Senders, IInv
<1>2. Calm
  BY CalmSame DEF RecvContextCommand, CalmRest, bridgeVars, indexVars, wireVars
<1>3. o \in Op BY <1>1 DEF Op
<1>4. Start(t, <<o>>) /\ c \in callsByH248 BY DEF RecvContextCommand
<1>5. Live(c) /\ Beyond(c) BY <1>4 DEF IInv, IndexConsistent, Beyond
<1>6. Fits(t, o) BY <1>5 DEF Fits
<1> HIDE DEF o
<1> QED BY <1>1, <1>2, <1>3, <1>4, <1>6, FitsOne, FitsStart

LEMMA RecvSubtractAllSafe ==
  ASSUME IInv, NEW t \in Threads, RecvSubtractAll(t)
  PROVE  Stepped
<1> DEFINE o == EachOf("releaseAllCallsFromCarrier", callsByH248)
<1>1. TypeOK /\ callsByH248 \in SUBSET Calls BY DEF IInv, TypeOK
<1>2. Calm
  BY CalmSame DEF RecvSubtractAll, CalmRest, bridgeVars, indexVars, wireVars
<1>3. o \in Op BY <1>1, StepType
<1>4. Start(t, <<o>>) BY DEF RecvSubtractAll
<1>5. \A c \in callsByH248 : Live(c) BY DEF IInv, IndexConsistent
<1>6. Fits(t, o) BY <1>5 DEF Fits, EachOf
<1> HIDE DEF o
<1> QED BY <1>1, <1>2, <1>3, <1>4, <1>6, FitsOne, FitsStart

\* What the section of the thread is, as a member of the sets of sections.
LEMMA RunsCur ==
  ASSUME TypeOK, NEW t \in Threads, NEW f, At(t, f)
  PROVE  /\ Cur(t) \in Op /\ Cur(t).f = f
         /\ \A S : Running(t, S) <=> Cur(t) \in S
BY CurOp DEF Running

LEMMA ReleaseAllCallsFromCarrierSafe ==
  ASSUME TypeOK, NEW t \in Threads, ReleaseAllCallsFromCarrier(t)
  PROVE  Stepped
<1> DEFINE cs == Cur(t).cs
<1>1. At(t, "releaseAllCallsFromCarrier") /\ cs \in SUBSET Calls
  BY CurType DEF ReleaseAllCallsFromCarrier
<1>2. Calm
  BY CalmSame DEF ReleaseAllCallsFromCarrier, CalmRest, bridgeVars, indexVars, wireVars
<1>3. CASE Then(t, <<>>) BY <1>1, <1>2, <1>3, PlainNone, PlainSections
<1>4. ASSUME NEW c \in cs,
             Then(t, <<StepA("handleCarrierRelease", c, TRUE),
                       EachOf("releaseAllCallsFromCarrier", cs \ {c})>>)
      PROVE  Stepped
  <2> DEFINE a == StepA("handleCarrierRelease", c, TRUE)
             b == EachOf("releaseAllCallsFromCarrier", cs \ {c})
  <2>1. c \in Calls /\ cs \ {c} \in SUBSET Calls BY <1>1
  <2>2. a \in Op /\ b \in Op BY <2>1, StepType
  <2>3. \A d \in cs : Running(t, Teardowns(d)) BY <1>1, RunsCur, Members
  <2>4. Fits(t, a) /\ Fits(t, b) BY <2>3 DEF Fits, StepA, EachOf
  <2>5. Then(t, <<a, b>>) BY <1>4
  <2> HIDE DEF a, b
  <2> QED BY <1>1, <1>2, <2>2, <2>4, <2>5, FitsTwo, FitsThen
<1> QED BY <1>3, <1>4 DEF ReleaseAllCallsFromCarrier

LEMMA UnavailableCallsSafe ==
  ASSUME TypeOK, NEW t \in Threads, UnavailableCalls(t)
  PROVE  Stepped
<1> DEFINE cs == Cur(t).cs
<1>1. At(t, "unavailableCalls") /\ cs \in SUBSET Calls /\ todo[t] # <<>>
  BY CurType DEF UnavailableCalls
<1>2. Calm
  BY CalmSame DEF UnavailableCalls, CalmRest, bridgeVars, indexVars, wireVars
<1>3. \A c : /\ Running(t, Unavailables(c)) <=> c \in cs
             /\ Running(t, Teardowns(c)) <=> c \in cs
             /\ ~ Running(t, Releases(c)) /\ ~ Running(t, DigitsSends(c))
             /\ ~ Running(t, OnhookSends(c)) /\ ~ Running(t, InviteSends(c))
             /\ ~ Running(t, LateByes(c)) /\ ~ Running(t, Reports(c))
             /\ ~ Running(t, Inserts(c))
  BY <1>1, RunsCur, Members
<1>4. ASSUME NEW ops \in Seq(Op), Then(t, ops), FitsAt(t, ops),
             \A c \in cs : Adds(ops, Unavailables(c))
      PROVE  Stepped
  <2>1. Flows(t, ops)
    BY <1>3, <1>4, FitsAdds DEF Flows, FlowOut, FlowDigits, FlowOnhook, FlowInvite,
       FlowLate, FlowMedia, FlowAnswer
  <2> QED BY <1>1, <1>2, <1>4, <2>1, FlowStep DEF Moves
<1>5. CASE cs = {} /\ Then(t, <<>>)
  <2>1. <<>> \in Seq(Op) /\ FitsAt(t, <<>>) BY PlainNone DEF FitsAt
  <2>2. \A c \in cs : Adds(<<>>, Unavailables(c)) BY <1>5
  <2> QED BY <1>4, <1>5, <2>1, <2>2
<1>6. ASSUME NEW c \in cs,
             Then(t, <<Step("sendSIPTeardown", c), Step("releaseCall", c),
                       EachOf("unavailableCalls", cs \ {c})>>)
      PROVE  Stepped
  <2> DEFINE a == Step("sendSIPTeardown", c)
             b == Step("releaseCall", c)
             e == EachOf("unavailableCalls", cs \ {c})
             ops == <<a, b, e>>
  <2>1. c \in Calls /\ cs \ {c} \in SUBSET Calls BY <1>1
  <2>2. a \in Op /\ b \in Op /\ e \in Op BY <2>1, StepType DEF CallSteps
  <2>3. Fits(t, a) /\ Fits(t, b) /\ Fits(t, e) BY <1>3 DEF Fits, Step, EachOf
  <2>4. b \in Unavailables(c) /\ \A d \in cs \ {c} : e \in Unavailables(d)
    BY <2>2, Members DEF Step, EachOf
  <2>5. Then(t, ops) BY <1>6
  <2> HIDE DEF a, b, e
  <2>6. ops \in Seq(Op) /\ FitsAt(t, ops) BY <2>2, <2>3, FitsFew
  <2>7. \A d \in cs : Adds(ops, Unavailables(d)) BY <2>4, AddsFew
  <2> QED BY <1>4, <2>5, <2>6, <2>7
<1> QED BY <1>5, <1>6 DEF UnavailableCalls

LEMMA SendSIPTeardownSafe ==
  ASSUME TypeOK, NEW t \in Threads, SendSIPTeardown(t)
  PROVE  Stepped
<1> DEFINE c == Cur(t).c
           a == StepA("sendSIP", c, "BYE")
           b == StepA("failSIPOriginatedCall", c, "503")
           d == Step("retainSIPInvite", c)
           e == StepA("sendSIP", c, "CANCEL")
<1>1. At(t, "sendSIPTeardown") /\ c \in Calls
  BY CurType DEF SendSIPTeardown, CallSteps
<1>2. Calm
  BY CalmSame DEF SendSIPTeardown, CalmRest, bridgeVars, indexVars, wireVars
<1>3. \/ Then(t, <<>>)
      \/ Then(t, <<a>>)
      \/ c \in OutCalls /\ Then(t, <<b>>)
      \/ c \in InCalls /\ Then(t, <<d, e>>)
  BY <1>1 DEF SendSIPTeardown, TeardownSteps, Calls
<1>4. a \in Op /\ e \in Op BY <1>1, StepType
<1>5. c \in OutCalls => b \in Op BY StepType DEF Failures
<1>6. c \in InCalls => d \in Op BY StepType DEF InviteSteps
<1>7. Running(t, Teardowns(c)) BY <1>1, RunsCur, Members
<1>8. Fits(t, a) /\ Fits(t, b) /\ Fits(t, d) /\ Fits(t, e)
  BY <1>7 DEF Fits, Step, StepA
<1> HIDE DEF a, b, d, e
<1>9. <<>> \in Seq(Op) /\ FitsAt(t, <<>>) BY PlainNone DEF FitsAt
<1> QED BY <1>1, <1>2, <1>3, <1>4, <1>5, <1>6, <1>8, <1>9, FitsOne, FitsTwo, FitsThen

LEMMA HandleRetainedSIPInviteResponseSafe ==
  ASSUME TypeOK, NEW t \in Threads, HandleRetainedSIPInviteResponse(t)
  PROVE  Stepped
<1> DEFINE c == Cur(t).c
           a == StepA("sendSIP", c, "ACK")
           b == StepA("sendSIP", c, "ACK2xx")
           d == Step("sendLateAnswerBYE", c)
<1>1. At(t, "handleRetainedSIPInviteResponse") /\ c \in InCalls /\ c \in Calls
  BY CurType DEF HandleRetainedSIPInviteResponse, Calls
<1>2. Calm
  BY CalmSame DEF HandleRetainedSIPInviteResponse, CalmRest, bridgeVars, indexVars,
     wireVars
<1>3. Then(t, <<>>) \/ Then(t, <<a>>) \/ Then(t, <<b, d>>)
  BY DEF HandleRetainedSIPInviteResponse
<1>4. a \in Op /\ b \in Op /\ d \in Op BY <1>1, StepType DEF InviteSteps
<1>5. Running(t, LateAnswers(c)) BY <1>1, RunsCur, Members
<1>6. Fits(t, a) /\ Fits(t, b) /\ Fits(t, d) BY <1>5 DEF Fits, Step, StepA
<1> HIDE DEF a, b, d
<1>7. <<>> \in Seq(Op) /\ FitsAt(t, <<>>) BY PlainNone DEF FitsAt
<1> QED BY <1>1, <1>2, <1>3, <1>4, <1>6, <1>7, FitsOne, FitsTwo, FitsThen

LEMMA AnswerSIPOriginatedCallSafe ==
  ASSUME TypeOK, NEW t \in Threads, AnswerSIPOriginatedCall(t)
  PROVE  Stepped
<1> DEFINE c == Cur(t).c
           a == StepA("sendSIPOriginatedResponse", c, "200")
<1>1. At(t, "answerSIPOriginatedCall") /\ c \in OutCalls
  BY CurType DEF AnswerSIPOriginatedCall, OriginationSteps
<1>2. Calm
  BY CalmSame DEF AnswerSIPOriginatedCall, CalmRest, bridgeVars, indexVars, wireVars
<1>3. Then(t, <<>>) \/ Then(t, <<a>>) BY DEF AnswerSIPOriginatedCall
<1>4. a \in Op BY <1>1, StepType DEF Statuses
<1>5. Running(t, AnswerSteps(c)) BY <1>1, RunsCur, Members
<1>6. Fits(t, a) BY <1>5 DEF Fits, StepA
<1> HIDE DEF a
<1> QED BY <1>1, <1>2, <1>3, <1>4, <1>6, PlainNone, PlainSections, FitsOne, FitsThen

LEMMA SendSIPOriginatedResponseSafe ==
  ASSUME TypeOK, NEW t \in Threads, SendSIPOriginatedResponse(t)
  PROVE  Stepped
<1> DEFINE c == Cur(t).c
           a == Cur(t).a
           b == call[c].SIPAnswered \/ a = "200"
           r == [call[c] EXCEPT !.SIPAnswered = b]
           o == StepA("respond", c, a)
<1>1. /\ At(t, "sendSIPOriginatedResponse")
      /\ c \in OutCalls /\ c \in Calls /\ a \in Statuses
  BY CurType DEF SendSIPOriginatedResponse, Calls
<1>2. UNCHANGED call \/ call' = [call EXCEPT ![c] = r]
  BY DEF SendSIPOriginatedResponse
<1>3. call[c] \in Call /\ b \in BOOLEAN BY <1>1 DEF TypeOK, Call
<1>4. CalmRest BY DEF SendSIPOriginatedResponse, CalmRest, indexVars, wireVars
<1>5. Then(t, <<>>) \/ Then(t, <<o>>) BY DEF SendSIPOriginatedResponse
<1>6. o \in Op BY <1>1, StepType
<1>7. a = "200" => Running(t, AnswerSteps(c)) BY <1>1, RunsCur, Members
<1>8. Fits(t, o) BY <1>7 DEF Fits, StepA
<1> HIDE DEF o, c, b
<1>9. SameOut(call[c], r)
  <2>1. OptionalMGC # {} BY DEF OptionalMGC
  <2> QED BY ZenonT(30), <1>3, <2>1, OutboundUpdate
<1> HIDE DEF r
<1>10. Calm BY <1>1, <1>2, <1>4, <1>9, CalmOutbound, CalmSame
<1> QED BY <1>1, <1>5, <1>6, <1>8, <1>10, PlainNone, PlainSections, FitsOne, FitsThen

LEMMA HandleCarrierReleaseSafe ==
  ASSUME TypeOK, NEW t \in Threads, HandleCarrierRelease(t)
  PROVE  Stepped
<1> DEFINE c == Cur(t).c
           x == call[c].H248ContextAllocated /\ ~ Cur(t).a
           r == [call[c] EXCEPT !.H248ContextAllocated = x]
           a == StepA("sendCallLineEvent", c, "onhook")
           b == Step("sendSIPTeardown", c)
           d == Step("releaseCall", c)
           p == IF /\ ~ call[c].H248OnhookSent
                   /\ call[c].H248OffhookSent \/ call[c].H248Answered
                THEN <<a>> ELSE <<>>
           ops == p \o <<b, d>>
<1>1. /\ At(t, "handleCarrierRelease") /\ c \in Calls /\ Cur(t).a \in BOOLEAN
      /\ todo[t] # <<>>
  BY CurType DEF HandleCarrierRelease
<1>2. call' = [call EXCEPT ![c] = r] /\ Then(t, ops)
  BY DEF HandleCarrierRelease
<1>3. call[c] \in Call /\ x \in BOOLEAN BY <1>1 DEF TypeOK, Call
<1>4. line.ready => line'.ready BY DEF HandleCarrierRelease, TypeOK, Line
<1>5. CalmRest BY <1>4 DEF HandleCarrierRelease, CalmRest, indexVars, wireVars
<1>6. a \in Op /\ b \in Op /\ d \in Op BY <1>1, StepType DEF CallSteps, LinePhases
<1>7. \A e : /\ ~ Running(t, Releases(e)) /\ ~ Running(t, DigitsSends(e))
             /\ ~ Running(t, OnhookSends(e)) /\ ~ Running(t, InviteSends(e))
             /\ ~ Running(t, LateByes(e)) /\ ~ Running(t, Inserts(e))
             /\ ~ Running(t, Unavailables(e))
             /\ Running(t, Reports(e)) => e = c
  BY <1>1, RunsCur, Members
<1>8. Running(t, Teardowns(c)) BY <1>1, RunsCur, Members
<1>9. Fits(t, a) /\ Fits(t, b) /\ Fits(t, d) BY <1>8 DEF Fits, Step, StepA
<1>10. d \in Reports(c) BY <1>6, Members DEF Step
<1> HIDE DEF a, b, d, c, x
<1>11. SameOut(call[c], r) /\ SameIn(call[c], r) BY ZenonT(30), <1>3, QuietUpdate
<1> HIDE DEF r
<1>12. Calm BY <1>1, <1>2, <1>5, <1>11, CalmCall
<1>13. p \in Seq(Op) /\ FitsAt(t, p)
  BY <1>6, <1>9, FitsOne, PlainNone DEF FitsAt
<1>14. <<b, d>> \in Seq(Op) /\ FitsAt(t, <<b, d>>) /\ Adds(<<b, d>>, Reports(c))
  BY <1>6, <1>9, <1>10, FitsTwo, AddsFew
<1> HIDE DEF p
<1>15. ops \in Seq(Op) /\ FitsAt(t, ops) /\ Adds(ops, Reports(c))
  BY <1>13, <1>14, FitsConcat, Concat
<1> HIDE DEF ops
<1>16. Flows(t, ops)
  BY <1>7, <1>15, FitsAdds DEF Flows, FlowOut, FlowDigits, FlowOnhook, FlowInvite,
     FlowLate, FlowMedia, FlowAnswer
<1> QED BY <1>1, <1>2, <1>12, <1>15, <1>16, FlowStep DEF Moves

LEMMA RecvResponseSafe ==
  ASSUME TypeOK, NEW t \in Threads, NEW c \in InCalls, NEW kind \in Answers,
         RecvResponse(t, c, kind)
  PROVE  Stepped
<1> DEFINE x == call[c].SIPInviteFinal \/ kind # "1xx"
           r == [call[c] EXCEPT !.SIPInviteProvisional = TRUE, !.SIPInviteFinal = x]
           ops == ResponseSteps(c, kind)
           o == StepA("handleRetainedSIPInviteResponse", c, kind)
<1>1. c \in Calls /\ kind \in SIPResponses /\ call[c] \in Call /\ x \in BOOLEAN
  BY ConstantsDisjoint DEF TypeOK, Call, Calls
<1>2. CalmRest BY DEF RecvResponse, CalmRest, indexVars
<1>3. CASE Live(c) /\ call' = [call EXCEPT ![c] = r] /\ Start(t, ops)
  <2>1. SameOut(call[c], r) /\ SameIn(call[c], r)
    <3> HIDE DEF x
    <3> QED BY ZenonT(30), <1>1, QuietUpdate
  <2>2. Calm
    <3> HIDE DEF r
    <3> QED BY <1>1, <1>2, <1>3, <2>1, CalmCall
  <2> DEFINE a1 == StepA("sendSIP", c, "ACK2xx")
             a2 == StepA("sendSIP", c, "ACK")
             b1 == Step("sipAnswered", c)
             b2 == Step("sendSIPTeardown", c)
             b3 == Step("retainSIPInvite", c)
             d  == StepA("sendCallLineEvent", c, "onhook")
             e1 == Step("releaseCall", c)
             e2 == Step("armRelease", c)
  <2>3. /\ a1 \in Op /\ a2 \in Op /\ b1 \in Op /\ b2 \in Op /\ b3 \in Op
        /\ d \in Op /\ e1 \in Op /\ e2 \in Op
    BY <1>1, StepType DEF InviteSteps, CallSteps, LinePhases
  <2>4. /\ Fits(t, a1) /\ Fits(t, a2) /\ Fits(t, b1) /\ Fits(t, b2) /\ Fits(t, b3)
        /\ Fits(t, d) /\ Fits(t, e1) /\ Fits(t, e2)
    BY <1>3 DEF Fits, Step, StepA
  <2>5. \/ ops = <<>> \/ ops = <<a1, b1>> \/ ops = <<a1, b2, d, e1>>
        \/ ops = <<a2, b3, d, e2>>
    BY <1>1 DEF ResponseSteps, SIPResponses
  <2> HIDE DEF a1, a2, b1, b2, b3, d, e1, e2, ops
  <2>6. ops \in Seq(Op) /\ FitsAt(t, ops)
    <3>1. CASE ops = <<>> BY <3>1, PlainNone DEF FitsAt
    <3>2. CASE ops = <<a1, b1>> BY <2>3, <2>4, <3>2, FitsTwo
    <3>3. CASE ops = <<a1, b2, d, e1>> BY <2>3, <2>4, <3>3, FitsFew
    <3>4. CASE ops = <<a2, b3, d, e2>> BY <2>3, <2>4, <3>4, FitsFew
    <3> QED BY <2>5, <3>1, <3>2, <3>3, <3>4
  <2> QED BY <1>3, <2>2, <2>6, FitsStart
<1>4. CASE /\ callsBySIP[c] = Nil \/ ~ Live(c)
           /\ Start(t, IF retained[c] = "none" THEN <<>> ELSE <<o>>)
           /\ UNCHANGED call
  <2>1. Calm BY <1>2, <1>4, CalmSame
  <2>2. o \in Op BY <1>1, StepType
  <2>3. "INVITE" \in sent[c] BY DEF RecvResponse
  <2>4. Fits(t, o) BY <1>4, <2>3 DEF Fits, StepA
  <2> HIDE DEF o
  <2> QED BY <1>4, <2>1, <2>2, <2>4, FitsOne, FitsStart, PlainNone, PlainStart
<1> QED BY <1>3, <1>4 DEF RecvResponse

----------------------------------------------------------------------------
(* Sections that one of the invariants is about *)

LEMMA CallField ==
  ASSUME TypeOK, NEW c \in Calls, NEW r, call' = [call EXCEPT ![c] = r]
  PROVE  /\ call'[c] = r
         /\ \A d \in Calls : d # c => call'[d] = call[d]
BY DEF TypeOK

\* What a step that leaves the Call objects alone may leave to one invariant.
LEMMA CalmSameBut ==
  ASSUME UNCHANGED call
  PROVE  /\ CalmStates /\ CalmAnswer
         /\ CalmRest => CalmLine /\ CalmDigits /\ CalmOnhook /\ CalmInvite
                        /\ CalmLate /\ CalmMedia
         /\ UNCHANGED <<callsByH248, retained, onhooks, finals, relay, sent>> =>
              CalmDigits /\ CalmOnhook /\ CalmInvite /\ CalmLate /\ CalmMedia
         /\ UNCHANGED <<line, callsByH248, onhooks, finals, relay, sent>> =>
              CalmLine /\ CalmDigits /\ CalmOnhook /\ CalmInvite /\ CalmMedia
         /\ UNCHANGED <<line, callsByH248, retained, onhooks, finals, sent>> =>
              CalmLine /\ CalmDigits /\ CalmOnhook /\ CalmInvite /\ CalmLate
         /\ UNCHANGED <<line, retained, onhooks, sent, relay>> =>
              CalmLine /\ CalmOnhook /\ CalmInvite /\ CalmLate /\ CalmMedia
<1>1. InCalls \subseteq Calls /\ OutCalls \subseteq Calls BY DEF Calls
<1> QED BY <1>1 DEF CalmRest, CalmStates, CalmLine, CalmDigits, CalmOnhook, CalmInvite,
             CalmLate, CalmAnswer, CalmMedia

LEMMA HandleH248UnavailableSafe ==
  ASSUME IInv, HandleH248Unavailable
  PROVE  Stepped
<1> DEFINE t == "reg"
           o == EachOf("unavailableCalls", ActiveCalls)
           ops == <<o>>
<1>1. /\ TypeOK /\ t \in Threads /\ ActiveCalls \in SUBSET Calls
      /\ \A c \in ActiveCalls : Live(c)
      /\ \A c \in OutCalls : Live(c) => c \in ActiveCalls
  BY ConstantsDisjoint DEF IInv, TypeOK, IndexConsistent, ActiveCalls, Threads, Calls
<1>2. Start(t, ops) BY DEF HandleH248Unavailable
<1>3. o \in Op BY <1>1, StepType
<1>4. Fits(t, o) BY <1>1 DEF Fits, EachOf
<1>5. \A c \in ActiveCalls : o \in Unavailables(c) BY <1>3, Members DEF EachOf
<1> HIDE DEF o
<1>6. /\ ops \in Seq(Op) /\ FitsAt(t, ops)
      /\ \A c \in ActiveCalls : Adds(ops, Unavailables(c))
  BY <1>3, <1>4, <1>5, FitsOne, AddsOne
<1> HIDE DEF ops
<1>7. RunsPlain(t) BY <1>1, <1>2, PlainRuns DEF PlainCur, Start, Idle
<1>8. Flows(t, ops) BY <1>1, <1>6, <1>7, FitsFlows
<1>9. /\ CalmStates /\ CalmAnswer /\ CalmDigits /\ CalmOnhook /\ CalmInvite
      /\ CalmLate /\ CalmMedia
  BY CalmSameBut DEF HandleH248Unavailable, indexVars, wireVars
<1>10. OutStep(t, ops)
  BY <1>1, <1>6, <1>7, <1>9 DEF OutStep, RunsPlain, CalmStates, Live, Calls
<1>11. AllSteps(t, ops)
  BY <1>1, <1>6, <1>8, <1>9, <1>10, CalmSteps DEF Flows, AllSteps
<1> QED BY <1>1, <1>2, <1>6, <1>11 DEF Stepped, Moves

LEMMA HandleIncomingCallAddSafe ==
  ASSUME TypeOK, NEW t \in Threads, HandleIncomingCallAdd(t)
  PROVE  Stepped
<1> DEFINE c == Cur(t).c
           o == [f |-> "insertContext", c |-> c, from |-> Cur(t).from,
                 req |-> Cur(t).req]
           ops == <<o>>
<1>1. /\ At(t, "handleIncomingCallAdd") /\ todo[t] # <<>> /\ c \in InCalls
      /\ c \in Calls /\ Cur(t).from \in MGCs /\ Cur(t).req \in BOOLEAN
  BY CurType DEF HandleIncomingCallAdd, Calls
<1>2. CASE Then(t, <<>>) /\ UNCHANGED relay
  <2>1. Calm
    BY <1>2, CalmSame DEF HandleIncomingCallAdd, CalmRest, bridgeVars, indexVars
  <2> QED BY <1>1, <1>2, <2>1, PlainNone, PlainSections
<1>3. CASE relay' = [relay EXCEPT ![c] = "open"] /\ Then(t, ops)
  <2>1. o \in Op BY <1>1 DEF Op
  <2>2. o.f = "insertContext" /\ o.c = c OBVIOUS
  <2> HIDE DEF o
  <2>3. ops \in Seq(Op) /\ Len(ops) = 1 BY <2>1, OpSeq
  <2>4. \A d : /\ o \notin OnhookSends(d) /\ o \notin InviteSends(d)
               /\ o \notin LateByes(d) /\ o \notin LateAnswers(d)
               /\ o \notin Teardowns(d) /\ o \notin AnswerSteps(d)
               /\ o \notin DigitsSends(d)
               /\ o \in Creations(d) => d = c
               /\ o \in Inserts(d) <=> d = c
    BY <2>1, <2>2, Members
  <2>5. \A d : /\ ~ Adds(ops, OnhookSends(d)) /\ ~ Adds(ops, InviteSends(d))
               /\ ~ Adds(ops, LateByes(d)) /\ ~ Adds(ops, LateAnswers(d))
               /\ ~ Adds(ops, Teardowns(d)) /\ ~ Adds(ops, AnswerSteps(d))
               /\ ~ Adds(ops, DigitsSends(d))
               /\ Adds(ops, Creations(d)) => d = c
               /\ Adds(ops, Inserts(d)) <=> d = c
    BY <2>4, AddsOne
  <2>6. RunsPlain(t) BY <1>1, CurOp, PlainRuns DEF PlainCur
  <2>7. Running(t, Creations(c)) BY <1>1, RunsCur, Members
  <2>8. CalmStates /\ CalmAnswer /\ CalmLine /\ CalmDigits /\ CalmOnhook
        /\ CalmInvite /\ CalmLate
    BY CalmSameBut DEF HandleIncomingCallAdd, bridgeVars, indexVars
  <2>9. UNCHANGED call BY DEF HandleIncomingCallAdd, bridgeVars
  <2>10. \A d \in InCalls : d # c => relay'[d] = relay[d]
    BY <1>1, <1>3 DEF TypeOK, Calls
  <2> HIDE DEF ops
  <2>11. MediaStep(t, ops)
    BY <2>3, <2>5, <2>6, <2>7, <2>9, <2>10 DEF MediaStep, RunsPlain, Live
  <2>12. FlowOut(t, ops) /\ FlowDigits(t, ops) /\ FlowOnhook(t, ops)
         /\ FlowInvite(t, ops) /\ FlowLate(t, ops) /\ FlowAnswer(t, ops)
    BY <2>5, <2>6 DEF RunsPlain, FlowOut, FlowDigits, FlowOnhook,
       FlowInvite, FlowLate, FlowAnswer
  <2>13. AllSteps(t, ops) BY <2>3, <2>8, <2>11, <2>12, CalmSteps DEF AllSteps
  <2> QED BY <1>1, <1>3, <2>3, <2>13 DEF Stepped, Moves
<1> QED BY <1>2, <1>3 DEF HandleIncomingCallAdd

LEMMA RetainSIPInviteSafe ==
  ASSUME TypeOK, NEW t \in Threads, RetainSIPInvite(t)
  PROVE  Stepped
<1> DEFINE c == Cur(t).c
<1>1. At(t, "retainSIPInvite") /\ todo[t] # <<>> /\ c \in InCalls /\ Then(t, <<>>)
  BY CurType DEF RetainSIPInvite, InviteSteps
<1>2. \A d \in InCalls : retained'[d] = retained[d] \/ (d = c /\ retained[d] = "none")
  BY <1>1 DEF RetainSIPInvite, TypeOK
<1>3. Running(t, Teardowns(c)) BY <1>1, RunsCur, Members
<1>4. RunsPlain(t) BY <1>1, CurOp, PlainRuns DEF PlainCur
<1>5. <<>> \in Seq(Op) /\ FitsAt(t, <<>>) BY PlainNone DEF FitsAt
<1>6. Flows(t, <<>>) BY <1>4, <1>5, FitsFlows
<1>7. UNCHANGED <<line, call, callsByH248, onhooks, finals, relay, sent>>
  BY DEF RetainSIPInvite, indexVars, wireVars
<1>8. /\ CalmStates /\ CalmAnswer /\ CalmLine /\ CalmDigits /\ CalmOnhook
      /\ CalmInvite /\ CalmMedia
  BY <1>7, CalmSameBut
<1>9. LateStep(t, <<>>)
  BY <1>2, <1>3, <1>6, <1>7 DEF Flows, FlowLate, LateStep
<1>10. AllSteps(t, <<>>) BY <1>5, <1>6, <1>8, <1>9, CalmSteps DEF Flows, AllSteps
<1> QED BY <1>1, <1>5, <1>10 DEF Stepped, Moves

LEMMA RespondSafe ==
  ASSUME TypeOK, NEW t \in Threads, Respond(t)
  PROVE  Stepped
<1> DEFINE c == Cur(t).c
           o == Step("markAnswered", c)
<1>1. At(t, "respond") /\ todo[t] # <<>> /\ c \in OutCalls
  BY CurType DEF Respond
<1>2. o \in Op /\ PlainOp(o)
  BY <1>1, StepType DEF OriginationSteps, PlainOp, Step
<1>3. Then(t, <<>>) \/ Then(t, <<o>>) BY DEF Respond
<1>4. \A d \in OutCalls : "200" \in finals'[d] =>
        "200" \in finals[d] \/ Running(t, AnswerSteps(d))
  <2>1. \A d \in OutCalls : "200" \in finals'[d] =>
          "200" \in finals[d] \/ (d = c /\ Cur(t).a = "200")
    BY <1>1 DEF Respond, TypeOK
  <2>2. Cur(t).a = "200" => Running(t, AnswerSteps(c)) BY <1>1, RunsCur, Members
  <2> QED BY <2>1, <2>2
<1>5. UNCHANGED <<line, call, callsByH248, retained, onhooks, sent, relay>>
  BY DEF Respond, bridgeVars, indexVars
<1>6. /\ CalmStates /\ CalmAnswer /\ CalmLine /\ CalmOnhook /\ CalmInvite
      /\ CalmLate /\ CalmMedia
  BY <1>5, CalmSameBut
<1>7. RunsPlain(t) BY <1>1, CurOp, PlainRuns DEF PlainCur
<1>8. ASSUME NEW ops \in Seq(Op), FitsAt(t, ops), Then(t, ops)
      PROVE  Stepped
  <2>1. Flows(t, ops) BY <1>7, <1>8, FitsFlows
  <2>2. DigitsStep(t, ops)
    BY <1>4, <1>5, <2>1 DEF Flows, FlowDigits, DigitsStep, Beyond
  <2>3. AllSteps(t, ops) BY <1>6, <2>1, <2>2, CalmSteps DEF Flows, AllSteps
  <2> QED BY <1>1, <1>8, <2>3 DEF Stepped, Moves
<1>9. Fits(t, o) BY <1>2, PlainFits
<1> HIDE DEF o
<1>10. <<>> \in Seq(Op) /\ FitsAt(t, <<>>) BY PlainNone DEF FitsAt
<1>11. <<o>> \in Seq(Op) /\ FitsAt(t, <<o>>) BY <1>2, <1>9, FitsOne
<1> QED BY <1>3, <1>8, <1>10, <1>11

LEMMA CallIDUpdate ==
  ASSUME NEW r \in Call, NEW k
  PROVE  LET s == [r EXCEPT !.SIPCallID = k]
         IN /\ s.st = r.st /\ s.SIPCallID = k
            /\ s.H248OnhookSent = r.H248OnhookSent
            /\ s.H248DigitsSent = r.H248DigitsSent /\ SameIn(r, s)
BY ZenonT(30) DEF Call, SameIn

\* A message that reaches the network, or does not.
LEMMA PutSent ==
  ASSUME TypeOK, NEW c \in Calls, NEW m, Put(c, m) \/ UNCHANGED sent
  PROVE  \A d \in Calls : \A n : (n \in sent'[d]) = (n \in sent[d]) \/ (d = c /\ n = m)
<1>1. \A d \in Calls : sent'[d] = sent[d] \/ (d = c /\ sent'[d] = sent[d] \cup {m})
  BY DEF Put, TypeOK
<1> QED BY <1>1

LEMMA SendLateAnswerBYESafe ==
  ASSUME TypeOK, NEW t \in Threads, SendLateAnswerBYE(t)
  PROVE  Stepped
<1> DEFINE c == Cur(t).c
           o == Step("lateByeSend", c)
           ops == <<o>>
<1>1. /\ At(t, "sendLateAnswerBYE") /\ todo[t] # <<>> /\ c \in InCalls
  BY CurType DEF SendLateAnswerBYE, InviteSteps
<1>2. UNCHANGED <<line, call, callsByH248, onhooks, finals, relay, sent>>
  BY DEF SendLateAnswerBYE, indexVars, wireVars
<1>3. CASE UNCHANGED retained /\ Then(t, <<>>)
  <2>1. Calm BY <1>2, <1>3, CalmSame DEF CalmRest
  <2> QED BY <1>1, <1>3, <2>1, PlainNone, PlainSections
<1>4. CASE /\ retained[c] = "kept" /\ retained' = [retained EXCEPT ![c] = "byeSent"]
           /\ Then(t, ops)
  <2>1. o \in Op /\ o.f = "lateByeSend" /\ o.c = c
    BY <1>1, StepType DEF InviteSteps, Step
  <2> HIDE DEF o
  <2>2. ops \in Seq(Op) /\ Len(ops) = 1 BY <2>1, OpSeq
  <2>3. \A d : /\ o \notin OnhookSends(d) /\ o \notin InviteSends(d)
               /\ o \notin Creations(d) /\ o \notin LateAnswers(d)
               /\ o \notin Teardowns(d) /\ o \notin AnswerSteps(d)
               /\ o \notin DigitsSends(d)
               /\ o \in LateByes(d) <=> d = c
    BY <2>1, Members
  <2>4. \A d : /\ ~ Adds(ops, OnhookSends(d)) /\ ~ Adds(ops, InviteSends(d))
               /\ ~ Adds(ops, Creations(d)) /\ ~ Adds(ops, LateAnswers(d))
               /\ ~ Adds(ops, Teardowns(d)) /\ ~ Adds(ops, AnswerSteps(d))
               /\ ~ Adds(ops, DigitsSends(d))
               /\ Adds(ops, LateByes(d)) <=> d = c
    BY <2>3, AddsOne
  <2>5. RunsPlain(t) BY <1>1, CurOp, PlainRuns DEF PlainCur
  <2>6. Running(t, LateAnswers(c)) BY <1>1, RunsCur, Members
  <2>7. /\ CalmStates /\ CalmAnswer /\ CalmLine /\ CalmDigits /\ CalmOnhook
        /\ CalmInvite /\ CalmMedia
    BY <1>2, CalmSameBut
  <2>8. /\ retained'[c] = "byeSent"
        /\ \A d \in InCalls : d # c => retained'[d] = retained[d]
    BY <1>1, <1>4 DEF TypeOK
  <2> HIDE DEF ops
  <2>9. LateStep(t, ops)
    BY <1>2, <1>4, <2>2, <2>4, <2>5, <2>6, <2>8 DEF LateStep, RunsPlain
  <2>10. FlowOut(t, ops) /\ FlowDigits(t, ops) /\ FlowOnhook(t, ops)
         /\ FlowInvite(t, ops) /\ FlowMedia(t, ops) /\ FlowAnswer(t, ops)
    BY <2>4, <2>5 DEF RunsPlain, FlowOut, FlowDigits, FlowOnhook,
       FlowInvite, FlowMedia, FlowAnswer
  <2>11. AllSteps(t, ops) BY <2>2, <2>7, <2>9, <2>10, CalmSteps DEF AllSteps
  <2> QED BY <1>1, <1>4, <2>2, <2>11 DEF Stepped, Moves
<1> QED BY <1>3, <1>4 DEF SendLateAnswerBYE, LateByeDue

LEMMA LateByeSendSafe ==
  ASSUME TypeOK, NEW t \in Threads, LateByeSend(t)
  PROVE  Stepped
<1> DEFINE c == Cur(t).c
<1>1. /\ At(t, "lateByeSend") /\ todo[t] # <<>> /\ c \in InCalls /\ c \in Calls
      /\ Then(t, <<>>)
  BY CurType DEF LateByeSend, InviteSteps, Calls
<1>2. UNCHANGED <<line, call, callsByH248, onhooks, finals, relay>>
  BY DEF LateByeSend, indexVars
<1>3. \A d \in InCalls : d # c => retained'[d] = retained[d]
  BY <1>1 DEF LateByeSend, TypeOK
<1>4. retained'[c] = retained[c] \/ ("lateBYE" \in sent'[c]) = ("lateBYE" \in sent[c])
  BY DEF LateByeSend
<1>5. \A d \in Calls : \A m : (m \in sent'[d]) = (m \in sent[d])
                              \/ (d = c /\ m = "lateBYE")
  BY <1>1, PutSent DEF LateByeSend
<1>6. \A d : /\ ~ Running(t, Unavailables(d)) /\ ~ Running(t, Releases(d))
             /\ ~ Running(t, DigitsSends(d)) /\ ~ Running(t, OnhookSends(d))
             /\ ~ Running(t, InviteSends(d)) /\ ~ Running(t, Reports(d))
             /\ ~ Running(t, Inserts(d)) /\ ~ Running(t, LateAnswers(d))
             /\ Running(t, LateByes(d)) <=> d = c
  BY <1>1, RunsCur, Members
<1>7. <<>> \in Seq(Op) /\ FitsAt(t, <<>>) BY PlainNone DEF FitsAt
<1>8. \A d : ~ Adds(<<>>, d) BY DEF Adds
<1>9. /\ CalmStates /\ CalmAnswer /\ CalmLine /\ CalmDigits /\ CalmOnhook
      /\ CalmInvite /\ CalmMedia
  BY <1>2, <1>5 DEF CalmStates, CalmAnswer, CalmLine, CalmDigits, CalmOnhook,
     CalmInvite, CalmMedia, Calls
<1>10. LateStep(t, <<>>)
  BY <1>1, <1>2, <1>3, <1>4, <1>5, <1>6, <1>8 DEF LateStep, Calls
<1>11. FlowOut(t, <<>>) /\ FlowDigits(t, <<>>) /\ FlowOnhook(t, <<>>)
       /\ FlowInvite(t, <<>>) /\ FlowMedia(t, <<>>) /\ FlowAnswer(t, <<>>)
  BY <1>6, <1>8 DEF FlowOut, FlowDigits, FlowOnhook, FlowInvite, FlowMedia, FlowAnswer
<1>12. AllSteps(t, <<>>) BY <1>7, <1>9, <1>10, <1>11, CalmSteps DEF AllSteps
<1> QED BY <1>1, <1>7, <1>12 DEF Stepped, Moves

LEMMA StartSIPInviteSafe ==
  ASSUME TypeOK, NEW t \in Threads, StartSIPInvite(t)
  PROVE  Stepped
<1> DEFINE c == Cur(t).c
           r == [call[c] EXCEPT !.SIPCallID = c]
           o == Step("inviteSend", c)
           ops == <<o>>
<1>1. /\ At(t, "startSIPInvite") /\ todo[t] # <<>> /\ c \in InCalls /\ c \in Calls
  BY CurType DEF StartSIPInvite, InviteSteps, Calls
<1>2. CalmRest BY DEF StartSIPInvite, CalmRest, wireVars
<1>3. CASE UNCHANGED call /\ Then(t, <<>>)
  <2>1. Calm BY <1>2, <1>3, CalmSame
  <2> QED BY <1>1, <1>3, <2>1, PlainNone, PlainSections
<1>4. CASE InviteDue(c) /\ call' = [call EXCEPT ![c] = r] /\ Then(t, ops)
  <2>1. call[c] \in Call BY <1>1 DEF TypeOK
  <2>2. /\ r.st = call[c].st /\ r.SIPCallID = c
        /\ r.H248OnhookSent = call[c].H248OnhookSent
        /\ r.H248DigitsSent = call[c].H248DigitsSent /\ SameIn(call[c], r)
    BY ZenonT(30), <2>1, CallIDUpdate
  <2> HIDE DEF r
  <2>3. call'[c] = r /\ \A d \in Calls : d # c => call'[d] = call[d]
    BY <1>1, <1>4, CallField
  <2>4. /\ CalmStates /\ CalmAnswer /\ CalmLine /\ CalmDigits /\ CalmOnhook
        /\ CalmLate /\ CalmMedia
    BY <1>2, <2>2, <2>3 DEF CalmRest, CalmStates, CalmAnswer, CalmLine, CalmDigits,
       CalmOnhook, CalmLate, CalmMedia, SameIn, Calls
  <2>5. o \in Op /\ o.f = "inviteSend" /\ o.c = c
    BY <1>1, StepType DEF InviteSteps, Step
  <2> HIDE DEF o
  <2>6. ops \in Seq(Op) /\ Len(ops) = 1 BY <2>5, OpSeq
  <2>7. \A d : /\ o \notin OnhookSends(d) /\ o \notin LateByes(d)
               /\ o \notin Creations(d) /\ o \notin LateAnswers(d)
               /\ o \notin Teardowns(d) /\ o \notin AnswerSteps(d)
               /\ o \notin DigitsSends(d)
               /\ o \in InviteSends(d) <=> d = c
    BY <2>5, Members
  <2>8. \A d : /\ ~ Adds(ops, OnhookSends(d)) /\ ~ Adds(ops, LateByes(d))
               /\ ~ Adds(ops, Creations(d)) /\ ~ Adds(ops, LateAnswers(d))
               /\ ~ Adds(ops, Teardowns(d)) /\ ~ Adds(ops, AnswerSteps(d))
               /\ ~ Adds(ops, DigitsSends(d))
               /\ Adds(ops, InviteSends(d)) <=> d = c
    BY <2>7, AddsOne
  <2>9. RunsPlain(t) BY <1>1, CurOp, PlainRuns DEF PlainCur
  <2>10. call[c].SIPCallID = Nil /\ call[c].st = "live" BY <1>4 DEF InviteDue, Live
  <2> HIDE DEF ops
  <2>11. InviteStep(t, ops)
    BY <1>2, <2>2, <2>3, <2>6, <2>8, <2>9, <2>10 DEF CalmRest, InviteStep, RunsPlain, Calls
  <2>12. FlowOut(t, ops) /\ FlowDigits(t, ops) /\ FlowOnhook(t, ops)
         /\ FlowLate(t, ops) /\ FlowMedia(t, ops) /\ FlowAnswer(t, ops)
    BY <2>8, <2>9 DEF RunsPlain, FlowOut, FlowDigits, FlowOnhook,
       FlowLate, FlowMedia, FlowAnswer
  <2>13. AllSteps(t, ops) BY <2>4, <2>6, <2>11, <2>12, CalmSteps DEF AllSteps
  <2> QED BY <1>1, <1>4, <2>6, <2>13 DEF Stepped, Moves
<1> QED BY <1>3, <1>4 DEF StartSIPInvite

LEMMA InviteSendSafe ==
  ASSUME TypeOK, NEW t \in Threads, InviteSend(t)
  PROVE  Stepped
<1> DEFINE c == Cur(t).c
           r == [call[c] EXCEPT !.SIPCallID = Nil]
<1>1. /\ At(t, "inviteSend") /\ todo[t] # <<>> /\ c \in InCalls /\ c \in Calls
      /\ Then(t, <<>>)
  BY CurType DEF InviteSend, InviteSteps, Calls
<1>2. UNCHANGED <<line, callsByH248, retained, onhooks, finals, relay>>
  BY DEF InviteSend
<1>3. UNCHANGED call \/ (call' = [call EXCEPT ![c] = r] /\ UNCHANGED sent)
  BY DEF InviteSend
<1>4. \A d \in Calls : \A m : (m \in sent'[d]) = (m \in sent[d])
                              \/ (d = c /\ m = "INVITE")
  BY <1>1, PutSent DEF InviteSend
<1>5. /\ r.st = call[c].st
      /\ r.H248OnhookSent = call[c].H248OnhookSent
      /\ r.H248DigitsSent = call[c].H248DigitsSent /\ SameIn(call[c], r)
  <2>1. call[c] \in Call BY <1>1 DEF TypeOK
  <2> QED BY ZenonT(30), <2>1, CallIDUpdate
<1> HIDE DEF r
<1>6. /\ \A d \in Calls : d # c => call'[d] = call[d]
      /\ call'[c] = call[c] \/ (call'[c] = r /\ UNCHANGED sent)
  BY <1>1, <1>3, CallField
<1>7. /\ CalmStates /\ CalmAnswer /\ CalmLine /\ CalmDigits /\ CalmOnhook
      /\ CalmLate /\ CalmMedia
  BY <1>2, <1>4, <1>5, <1>6 DEF CalmStates, CalmAnswer, CalmLine, CalmDigits,
     CalmOnhook, CalmLate, CalmMedia, SameIn, Calls
<1>8. \A d : /\ ~ Running(t, Unavailables(d)) /\ ~ Running(t, Releases(d))
             /\ ~ Running(t, DigitsSends(d)) /\ ~ Running(t, OnhookSends(d))
             /\ ~ Running(t, LateByes(d)) /\ ~ Running(t, Reports(d))
             /\ ~ Running(t, Inserts(d))
             /\ Running(t, InviteSends(d)) <=> d = c
  BY <1>1, RunsCur, Members
<1>9. <<>> \in Seq(Op) BY PlainNone
<1>10. \A d : ~ Adds(<<>>, d) BY DEF Adds
<1>11. InviteStep(t, <<>>)
  BY <1>1, <1>4, <1>5, <1>6, <1>8, <1>10 DEF InviteStep, Calls
<1>12. FlowOut(t, <<>>) /\ FlowDigits(t, <<>>) /\ FlowOnhook(t, <<>>)
       /\ FlowLate(t, <<>>) /\ FlowMedia(t, <<>>) /\ FlowAnswer(t, <<>>)
  BY <1>8, <1>10 DEF FlowOut, FlowDigits, FlowOnhook, FlowLate, FlowMedia, FlowAnswer
<1>13. AllSteps(t, <<>>) BY <1>7, <1>9, <1>11, <1>12, CalmSteps DEF AllSteps
<1> QED BY <1>1, <1>9, <1>13 DEF Stepped, Moves

LEMMA DigitsUpdate ==
  ASSUME NEW r \in Call, NEW b \in BOOLEAN
  PROVE
    LET Is(s) == /\ s.st = r.st /\ s.SIPCallID = r.SIPCallID
                 /\ s.H248OnhookSent = r.H248OnhookSent /\ s.H248DigitsSent = b
    IN /\ Is([r EXCEPT !.H248DigitsScheduled = FALSE, !.H248DigitsSent = b])
       /\ Is([r EXCEPT !.H248DigitsSent = b])
BY ZenonT(30) DEF Call

\* A step on an outbound call, but for its digits.
LEMMA CalmOutboundBut ==
  ASSUME TypeOK, NEW c \in OutCalls, NEW r, call' = [call EXCEPT ![c] = r],
         r.st = call[c].st, r.H248OnhookSent = call[c].H248OnhookSent,
         UNCHANGED <<line, retained, onhooks, relay>>,
         \A d \in Calls : \A m : (m \in sent'[d]) = (m \in sent[d])
                                 \/ (d = c /\ m = "digits")
  PROVE  /\ CalmStates /\ CalmLine /\ CalmOnhook /\ CalmInvite /\ CalmLate
         /\ CalmAnswer /\ CalmMedia
         /\ \A d \in Calls : d # c => call'[d] = call[d]
         /\ call'[c] = r
<1>1. c \in Calls /\ c \notin InCalls /\ InCalls \subseteq Calls
  BY ConstantsDisjoint DEF Calls
<1>2. call'[c] = r /\ \A d \in Calls : d # c => call'[d] = call[d]
  BY <1>1, CallField
<1> QED BY <1>1, <1>2 DEF CalmStates, CalmLine, CalmOnhook, CalmInvite, CalmLate,
             CalmAnswer, CalmMedia

LEMMA SendOriginationDigitsSafe ==
  ASSUME TypeOK, NEW t \in Threads, SendOriginationDigits(t)
  PROVE  Stepped
<1> DEFINE c == Cur(t).c
           due == /\ Live(c) /\ ~ call[c].H248DigitsSent
                  /\ call[c].H248Responder # Nil
                  /\ call[c].H248EventRequestID # Nil
           b == call[c].H248DigitsSent \/ due
           r == [call[c] EXCEPT !.H248DigitsScheduled = FALSE, !.H248DigitsSent = b]
           o == Step("digitsSend", c)
<1>1. /\ At(t, "sendOriginationDigits") /\ todo[t] # <<>> /\ c \in OutCalls /\ c \in Calls
  BY CurType DEF SendOriginationDigits, OriginationSteps, Calls
<1>2. call' = [call EXCEPT ![c] = r] BY DEF SendOriginationDigits
<1>3. call[c] \in Call /\ b \in BOOLEAN BY <1>1 DEF TypeOK, Call
<1>4. UNCHANGED <<line, callsByH248, finals, sent, retained, onhooks, relay>>
  BY DEF SendOriginationDigits, indexVars, wireVars
<1>5. (due /\ Then(t, <<o>>)) \/ (~ due /\ Then(t, <<>>))
  BY DEF SendOriginationDigits
<1>6. due => Live(c) OBVIOUS
<1>7. /\ r.st = call[c].st /\ r.H248OnhookSent = call[c].H248OnhookSent
      /\ r.H248DigitsSent => call[c].H248DigitsSent \/ due
  <2> HIDE DEF due
  <2>1. b => call[c].H248DigitsSent \/ due OBVIOUS
  <2> HIDE DEF b
  <2>2. /\ r.st = call[c].st /\ r.H248OnhookSent = call[c].H248OnhookSent
        /\ r.H248DigitsSent = b
    BY ZenonT(30), <1>3, DigitsUpdate
  <2> QED BY <2>1, <2>2
<1> HIDE DEF r
<1>8. /\ CalmStates /\ CalmLine /\ CalmOnhook /\ CalmInvite /\ CalmLate
      /\ CalmAnswer /\ CalmMedia
      /\ \A d \in Calls : d # c => call'[d] = call[d]
      /\ call'[c] = r
  BY <1>1, <1>2, <1>4, <1>7, CalmOutboundBut
<1>9. RunsPlain(t) BY <1>1, CurOp, PlainRuns DEF PlainCur
<1>10. o \in Op BY <1>1, StepType DEF OriginationSteps
<1>11. \A d : /\ o \notin LateByes(d) /\ o \notin InviteSends(d)
              /\ o \notin Creations(d) /\ o \notin LateAnswers(d)
              /\ o \notin Teardowns(d) /\ o \notin AnswerSteps(d)
              /\ o \notin OnhookSends(d)
  BY <1>10, Members DEF Step
<1>12. o \in DigitsSends(c) BY <1>10, Members DEF Step
<1> HIDE DEF o, b, due
<1>13. /\ <<o>> \in Seq(Op) /\ Adds(<<o>>, DigitsSends(c)) /\ Len(<<o>>) = 1
       /\ <<>> \in Seq(Op) /\ \A S : ~ Adds(<<>>, S)
  <2>1. <<o>> \in Seq(Op) /\ Len(<<o>>) = 1 /\ <<>> \in Seq(Op) BY <1>10, OpSeq
  <2>2. Adds(<<o>>, DigitsSends(c)) BY <1>12, AddsOne
  <2>3. \A S : ~ Adds(<<>>, S) BY DEF Adds
  <2> QED BY <2>1, <2>2, <2>3
<1>14. \A q \in {<<o>>, <<>>} : \A d :
         /\ ~ Adds(q, LateByes(d)) /\ ~ Adds(q, InviteSends(d))
         /\ ~ Adds(q, Creations(d)) /\ ~ Adds(q, LateAnswers(d))
         /\ ~ Adds(q, Teardowns(d)) /\ ~ Adds(q, AnswerSteps(d))
         /\ ~ Adds(q, OnhookSends(d))
  BY <1>11, <1>13, AddsOne
<1>15. ASSUME NEW ops \in {<<o>>, <<>>}, Then(t, ops),
              due => Adds(ops, DigitsSends(c))
       PROVE  Stepped
  <2>1. /\ FlowOut(t, ops) /\ FlowOnhook(t, ops) /\ FlowInvite(t, ops)
        /\ FlowLate(t, ops) /\ FlowMedia(t, ops) /\ FlowAnswer(t, ops)
        /\ ops \in Seq(Op)
    BY <1>9, <1>13, <1>14 DEF RunsPlain, FlowOut, FlowOnhook, FlowInvite, FlowLate,
       FlowMedia, FlowAnswer
  <2>2. DigitsStep(t, ops)
    <3> SUFFICES ASSUME NEW d \in OutCalls
                 PROVE  /\ call[d].st # "unused" => call'[d].st # "unused"
                        /\ call[d].st = "released" => call'[d].st = "released"
                        /\ "digits" \in sent[d] => "digits" \in sent'[d]
                        /\ Running(t, DigitsSends(d)) =>
                             "digits" \in sent'[d] \/ Adds(ops, Releases(d))
                        /\ Running(t, Releases(d)) => ~ Live(d)'
                        /\ Adds(ops, DigitsSends(d)) => Len(ops) = 1
                        /\ Beyond(d)' \/ Adds(ops, AnswerSteps(d)) =>
                             \/ Beyond(d) \/ Running(t, AnswerSteps(d))
                             \/ Live(d)' /\ Adds(ops, DigitsSends(d))
      BY DEF DigitsStep
    <3>1. d \in Calls BY DEF Calls
    <3>2. call'[d].st = call[d].st BY <1>8, <3>1 DEF CalmStates
    <3>3. ~ Adds(ops, AnswerSteps(d)) /\ (Adds(ops, DigitsSends(d)) => Len(ops) = 1)
      BY <1>13, <1>14, <1>15
    <3>4. call'[d].H248DigitsSent => call[d].H248DigitsSent \/ (d = c /\ due)
      BY <1>7, <1>8, <3>1
    <3>5. Beyond(d)' => Beyond(d) \/ (d = c /\ due) BY <1>4, <3>4 DEF Beyond
    <3>6. due => call'[c].st = "live" BY <1>6, <1>7, <1>8 DEF Live
    <3>7. Beyond(d)' => Beyond(d) \/ (Live(d)' /\ Adds(ops, DigitsSends(d)))
      BY <1>15, <3>5, <3>6 DEF Live
    <3> QED BY <1>4, <1>9, <3>2, <3>3, <3>7 DEF RunsPlain
  <2>3. AllSteps(t, ops) BY <1>8, <2>1, <2>2, CalmSteps DEF AllSteps
  <2> QED BY <1>1, <1>15, <2>1, <2>3 DEF Stepped, Moves
<1> QED BY <1>5, <1>13, <1>15

LEMMA DigitsSendSafe ==
  ASSUME TypeOK, NEW t \in Threads, DigitsSend(t)
  PROVE  Stepped
<1> DEFINE c == Cur(t).c
           r == [call[c] EXCEPT !.H248DigitsSent = FALSE]
           a == StepA("failSIPOriginatedCall", c, "503")
           b == Step("releaseCall", c)
<1>1. /\ At(t, "digitsSend") /\ todo[t] # <<>> /\ c \in OutCalls /\ c \in Calls
  BY CurType DEF DigitsSend, OriginationSteps, Calls
<1>2. UNCHANGED <<line, callsByH248, finals, retained, onhooks, relay>>
  BY DEF DigitsSend, indexVars
<1>3. call[c] \in Call BY <1>1 DEF TypeOK
<1>4. \/ "digits" \in sent'[c] /\ UNCHANGED call /\ Then(t, <<>>)
      \/ call' = [call EXCEPT ![c] = r] /\ Then(t, <<a, b>>)
  BY <1>1 DEF DigitsSend, TypeOK
<1>5. \A d \in Calls : \A m : (m \in sent'[d]) = (m \in sent[d])
                              \/ (d = c /\ m = "digits")
  BY ZenonT(30), <1>1, PutSent DEF DigitsSend, Put
<1>6. "digits" \in sent[c] => "digits" \in sent'[c]
  BY <1>1 DEF DigitsSend, TypeOK
<1>7. /\ r.st = call[c].st /\ r.H248OnhookSent = call[c].H248OnhookSent
      /\ ~ r.H248DigitsSent
  BY ZenonT(30), <1>3, DigitsUpdate
<1> HIDE DEF r
<1>8. /\ CalmStates /\ CalmLine /\ CalmOnhook /\ CalmInvite /\ CalmLate
      /\ CalmAnswer /\ CalmMedia
      /\ \A d \in Calls : call'[d].H248DigitsSent => call[d].H248DigitsSent
  <2>1. CASE call' = [call EXCEPT ![c] = r]
    <3>1. /\ CalmStates /\ CalmLine /\ CalmOnhook /\ CalmInvite /\ CalmLate
          /\ CalmAnswer /\ CalmMedia
          /\ \A d \in Calls : d # c => call'[d] = call[d]
          /\ call'[c] = r
      BY <1>1, <1>2, <1>5, <1>7, <2>1, CalmOutboundBut
    <3>2. \A d \in Calls : call'[d].H248DigitsSent => call[d].H248DigitsSent
      BY <1>7, <3>1
    <3> QED BY <3>1, <3>2
  <2>2. CASE UNCHANGED call
    <3>1. c \notin InCalls /\ InCalls \subseteq Calls BY <1>1, ConstantsDisjoint DEF Calls
    <3> QED BY <1>2, <1>5, <2>2, <3>1 DEF CalmStates, CalmLine, CalmOnhook, CalmInvite,
       CalmLate, CalmAnswer, CalmMedia
  <2> QED BY <1>4, <2>1, <2>2
<1>9. \A d : /\ ~ Running(t, Unavailables(d)) /\ ~ Running(t, Releases(d))
             /\ ~ Running(t, OnhookSends(d)) /\ ~ Running(t, InviteSends(d))
             /\ ~ Running(t, LateByes(d)) /\ ~ Running(t, Reports(d))
             /\ ~ Running(t, Inserts(d))
             /\ Running(t, DigitsSends(d)) => d = c
  BY <1>1, RunsCur, Members
<1>10. a \in Op /\ b \in Op BY <1>1, StepType DEF Failures, CallSteps
<1>11. Fits(t, a) /\ Fits(t, b) BY DEF Fits, Step, StepA
<1>12. b \in Releases(c) BY <1>10, Members DEF Step
<1> HIDE DEF a, b
<1>13. <<>> \in Seq(Op) /\ FitsAt(t, <<>>) BY PlainNone DEF FitsAt
<1>14. <<a, b>> \in Seq(Op) /\ FitsAt(t, <<a, b>>) /\ Adds(<<a, b>>, Releases(c))
  BY <1>10, <1>11, <1>12, FitsTwo, AddsFew
<1>15. ASSUME NEW ops \in Seq(Op), FitsAt(t, ops), Then(t, ops),
              "digits" \in sent'[c] \/ Adds(ops, Releases(c))
       PROVE  Stepped
  <2>1. FlowOut(t, ops) /\ FlowOnhook(t, ops) /\ FlowInvite(t, ops)
        /\ FlowLate(t, ops) /\ FlowMedia(t, ops) /\ FlowAnswer(t, ops)
    BY <1>9, <1>15, FitsAdds DEF FlowOut, FlowOnhook, FlowInvite, FlowLate, FlowMedia,
       FlowAnswer
  <2>2. DigitsStep(t, ops)
    <3> SUFFICES ASSUME NEW d \in OutCalls
                 PROVE  /\ call[d].st # "unused" => call'[d].st # "unused"
                        /\ call[d].st = "released" => call'[d].st = "released"
                        /\ "digits" \in sent[d] => "digits" \in sent'[d]
                        /\ Running(t, DigitsSends(d)) =>
                             "digits" \in sent'[d] \/ Adds(ops, Releases(d))
                        /\ Running(t, Releases(d)) => ~ Live(d)'
                        /\ ~ Adds(ops, DigitsSends(d))
                        /\ Beyond(d)' \/ Adds(ops, AnswerSteps(d)) =>
                             Beyond(d) \/ Running(t, AnswerSteps(d))
      BY DEF DigitsStep
    <3>1. d \in Calls BY DEF Calls
    <3>2. call'[d].st = call[d].st BY <1>8, <3>1 DEF CalmStates
    <3>3. (Adds(ops, AnswerSteps(d)) => Beyond(d) \/ Running(t, AnswerSteps(d)))
          /\ ~ Adds(ops, DigitsSends(d))
      BY <1>15, FitsAdds
    <3>4. Beyond(d)' => Beyond(d) BY <1>2, <1>8, <3>1 DEF Beyond
    <3> QED BY <1>5, <1>6, <1>9, <1>15, <3>1, <3>2, <3>3, <3>4
  <2>3. AllSteps(t, ops) BY <1>8, <1>15, <2>1, <2>2, CalmSteps DEF AllSteps
  <2> QED BY <1>1, <1>15, <2>3 DEF Stepped, Moves
<1> QED BY <1>4, <1>13, <1>14, <1>15

LEMMA HandleOutboundCallAddSafe ==
  ASSUME TypeOK, NEW t \in Threads, HandleOutboundCallAdd(t)
  PROVE  Stepped
<1> DEFINE c == Cur(t).c
           m == Cur(t).from
           e == RequestID(c, m, Cur(t).req)
           r == [call[c] EXCEPT !.H248ContextAllocated = TRUE,
                                !.H248Responder = m, !.H248EventRequestID = e]
           o == Step("outboundAddReply", c)
<1>1. /\ At(t, "handleOutboundCallAdd") /\ todo[t] # <<>> /\ c \in OutCalls
      /\ c \in Calls /\ m \in MGCs /\ m \in OptionalMGC
  BY CurType DEF HandleOutboundCallAdd, Calls, OptionalMGC
<1>2. UNCHANGED <<line, finals, sent, retained, onhooks, relay>>
  BY DEF HandleOutboundCallAdd, wireVars
<1>3. CASE UNCHANGED <<call, callsByH248>> /\ Then(t, <<>>)
  <2>1. Calm BY <1>2, <1>3, CalmSame DEF CalmRest
  <2> QED BY <1>1, <1>3, <2>1, PlainNone, PlainSections
<1>4. CASE /\ call' = [call EXCEPT ![c] = r] /\ callsByH248' = callsByH248 \cup {c}
           /\ Then(t, <<o>>)
  <2>1. call[c] \in Call /\ e \in OptionalMGC
    BY <1>1 DEF TypeOK, Call, RequestID
  <2> HIDE DEF m, e, c
  <2>2. SameOut(call[c], r) BY ZenonT(30), <1>1, <2>1, OutboundUpdate
  <2> HIDE DEF r
  <2>3. /\ CalmStates /\ CalmLine /\ CalmOnhook /\ CalmInvite /\ CalmLate
        /\ CalmAnswer /\ CalmMedia
        /\ \A d \in Calls : d # c => call'[d] = call[d]
        /\ call'[c] = r
    BY <1>1, <1>2, <1>4, <2>2, CalmOutboundBut DEF SameOut
  <2>4. RunsPlain(t) BY <1>1, CurOp, PlainRuns DEF PlainCur
  <2>5. o \in Op /\ Fits(t, o) BY <1>1, StepType DEF OriginationSteps, Fits, Step
  <2>6. Running(t, AnswerSteps(c)) BY <1>1, RunsCur, Members DEF c
  <2> DEFINE ops == <<o>>
  <2> HIDE DEF o
  <2>7. ops \in Seq(Op) /\ FitsAt(t, ops) BY <2>5, FitsOne
  <2>8. Then(t, ops) BY <1>4
  <2> HIDE DEF ops
  <2>9. Flows(t, ops) BY <2>4, <2>7, FitsFlows
  <2>10. \A d \in OutCalls : call'[d].H248DigitsSent = call[d].H248DigitsSent
    BY <2>2, <2>3 DEF SameOut, Calls
  <2>11. \A d \in OutCalls : Beyond(d)' => Beyond(d) \/ Running(t, AnswerSteps(d))
    BY <1>2, <1>4, <2>6, <2>10 DEF Beyond
  <2>12. DigitsStep(t, ops)
    BY <1>2, <2>3, <2>4, <2>9, <2>11 DEF DigitsStep, RunsPlain, Flows, FlowDigits,
       CalmStates, Calls
  <2>13. AllSteps(t, ops) BY <2>3, <2>7, <2>9, <2>12, CalmSteps DEF Flows, AllSteps
  <2> QED BY <1>1, <2>7, <2>8, <2>13 DEF Stepped, Moves
<1> QED BY <1>3, <1>4 DEF HandleOutboundCallAdd

\* A step on a call that moves the reports of its answer only.
LEMMA CalmCallBut ==
  ASSUME TypeOK, CalmRest, NEW c \in Calls, NEW r, call' = [call EXCEPT ![c] = r],
         SameOut(call[c], r), r.Media = call[c].Media
  PROVE  /\ CalmStates /\ CalmLine /\ CalmDigits /\ CalmOnhook /\ CalmInvite
         /\ CalmLate /\ CalmMedia
         /\ \A d \in Calls : d # c => call'[d] = call[d]
         /\ call'[c] = r
<1>1. InCalls \subseteq Calls /\ OutCalls \subseteq Calls BY DEF Calls
<1>2. call'[c] = r /\ \A d \in Calls : d # c => call'[d] = call[d] BY CallField
<1> QED BY <1>1, <1>2 DEF CalmRest, SameOut, CalmStates, CalmLine, CalmDigits,
             CalmOnhook, CalmInvite, CalmLate, CalmMedia

LEMMA AnswerUpdate ==
  ASSUME NEW r \in Call, NEW b \in BOOLEAN
  PROVE
    /\ LET s == [r EXCEPT !.SIPAnswered = b]
       IN SameOut(r, s) /\ s.Media = r.Media /\ s.H248Responder = r.H248Responder
    /\ LET s == [r EXCEPT !.H248Answered = b]
       IN /\ SameOut(r, s) /\ s.Media = r.Media /\ s.H248Responder = r.H248Responder
          /\ s.H248Answered = b
BY ZenonT(30) DEF Call, SameOut

Requested(r, s, m, e) ==
  /\ SameOut(r, s) /\ s.Media = r.Media /\ s.SIPAnswered = r.SIPAnswered
  /\ s.H248Answered = r.H248Answered
  /\ s.H248Responder = m /\ s.H248EventRequestID = e

LEMMA RequestUpdate ==
  ASSUME NEW r \in Call, NEW m \in OptionalMGC, NEW e \in OptionalMGC
  PROVE  Requested(r, [r EXCEPT !.H248Responder = m, !.H248EventRequestID = e], m, e)
BY ZenonT(30) DEF Call, SameOut, Requested

LEMMA SIPAnsweredSafe ==
  ASSUME TypeOK, NEW t \in Threads, SIPAnswered(t)
  PROVE  Stepped
<1> DEFINE c == Cur(t).c
           r == [call[c] EXCEPT !.SIPAnswered = TRUE]
           o == StepA("sendCallLineEvent", c, "answer")
           ops == <<o>>
<1>1. /\ At(t, "sipAnswered") /\ todo[t] # <<>> /\ c \in InCalls /\ c \in Calls
  BY CurType DEF SIPAnswered, InviteSteps, Calls
<1>2. call' = [call EXCEPT ![c] = r] /\ Then(t, ops) BY DEF SIPAnswered
<1>3. call[c] \in Call BY <1>1 DEF TypeOK
<1>4. CalmRest BY DEF SIPAnswered, CalmRest, indexVars, wireVars
<1>5. o \in Op /\ Fits(t, o) BY <1>1, StepType DEF LinePhases, Fits, StepA
<1>6. o \in Reports(c) BY <1>5, Members DEF StepA
<1> HIDE DEF o
<1>7. ops \in Seq(Op) /\ FitsAt(t, ops) /\ Adds(ops, Reports(c))
  BY <1>5, <1>6, FitsOne, AddsOne
<1>8. RunsPlain(t) BY <1>1, CurOp, PlainRuns DEF PlainCur
<1>9. Flows(t, ops) BY <1>7, <1>8, FitsFlows
<1> HIDE DEF ops, c
<1>10. SameOut(call[c], r) /\ r.Media = call[c].Media
       /\ r.H248Responder = call[c].H248Responder
  BY ZenonT(30), <1>3, AnswerUpdate
<1> HIDE DEF r
<1>11. /\ CalmStates /\ CalmLine /\ CalmDigits /\ CalmOnhook /\ CalmInvite
       /\ CalmLate /\ CalmMedia
       /\ \A d \in Calls : d # c => call'[d] = call[d]
       /\ call'[c] = r
  BY <1>1, <1>2, <1>4, <1>10, CalmCallBut
<1>12. AnswerStep(t, ops)
  <2>1. \A d \in InCalls : Live(d)' =>
          Live(d) /\ call'[d].H248Responder = call[d].H248Responder
    BY <1>10, <1>11 DEF CalmStates, Live, Calls
  <2>2. \A d \in InCalls : d # c /\ Waiting(d)' => Waiting(d)
    BY <1>11 DEF Waiting, Live, Calls
  <2> QED BY <1>7, <1>8, <2>1, <2>2 DEF AnswerStep, RunsPlain
<1>13. AllSteps(t, ops) BY <1>7, <1>9, <1>11, <1>12, CalmSteps DEF Flows, AllSteps
<1> QED BY <1>1, <1>2, <1>7, <1>13 DEF Stepped, Moves

LEMMA ContextCommandSafe ==
  ASSUME TypeOK, NEW t \in Threads, ContextCommand(t)
  PROVE  Stepped
<1> DEFINE c == Cur(t).c
           m == Cur(t).from
           cmd == Cur(t).cmd
           given == cmd.req /\ cmd.act # "media"
           e == RequestID(c, m, given)
           r == [call[c] EXCEPT !.H248Responder = m, !.H248EventRequestID = e]
           o1 == Step("answerSIPOriginatedCall", c)
           o2 == Step("startSIPInvite", c)
           o3 == StepA("handleCarrierRelease", c, cmd.act = "Subtract")
           o4 == StepA("sendCallLineEvent", c, "answer")
           p1 == IF c \in OutCalls /\ cmd.act = "media" THEN <<o1>> ELSE <<>>
           p2 == IF c \in InCalls /\ cmd.act = "ring" THEN <<o2>> ELSE <<>>
           p3 == IF cmd.act \in {"Subtract", "clear"} THEN <<o3>>
                 ELSE IF cmd.req THEN <<o4>> ELSE <<>>
           ops == CommandSteps(c, cmd)
<1>1. /\ At(t, "contextCommand") /\ todo[t] # <<>> /\ c \in Calls
      /\ m \in MGCs /\ m \in OptionalMGC /\ m # Nil /\ cmd \in Commands
  BY CurType, ConstantsDisjoint DEF ContextCommand, OptionalMGC
<1>2. call' = [call EXCEPT ![c] = r] /\ Then(t, ops) BY DEF ContextCommand
<1>3. call[c] \in Call /\ e \in OptionalMGC
      /\ (~ given => e = call[c].H248EventRequestID)
  BY <1>1 DEF TypeOK, Call, RequestID
<1>4. CalmRest BY DEF ContextCommand, CalmRest, indexVars, wireVars
<1>5. o3 \in Op /\ o4 \in Op /\ (c \in OutCalls => o1 \in Op)
      /\ (c \in InCalls => o2 \in Op)
  BY <1>1, StepType DEF LinePhases, OriginationSteps, InviteSteps
<1>6. Running(t, Teardowns(c)) /\ Running(t, AnswerSteps(c)) BY <1>1, RunsCur, Members
<1>7. Fits(t, o1) /\ Fits(t, o2) /\ Fits(t, o3) /\ Fits(t, o4)
  BY <1>6 DEF Fits, Step, StepA
<1>8. o3 \in Reports(c) /\ o4 \in Reports(c) BY <1>5, Members DEF StepA
<1>9. ops = (p1 \o p2) \o p3 BY DEF CommandSteps
<1> HIDE DEF ops, o1, o2, o3, o4
<1>10. <<>> \in Seq(Op) /\ FitsAt(t, <<>>) BY PlainNone DEF FitsAt
<1>11. /\ p1 \in Seq(Op) /\ FitsAt(t, p1) /\ p2 \in Seq(Op) /\ FitsAt(t, p2)
       /\ p3 \in Seq(Op) /\ FitsAt(t, p3)
  BY <1>5, <1>7, <1>10, FitsOne
<1>12. given => Adds(p3, Reports(c)) BY <1>8, AddsOne
<1> HIDE DEF p1, p2, p3
<1>13. ops \in Seq(Op) /\ FitsAt(t, ops) /\ (given => Adds(ops, Reports(c)))
  <2>1. p1 \o p2 \in Seq(Op) /\ FitsAt(t, p1 \o p2) BY <1>11, FitsConcat
  <2> QED BY <1>9, <1>11, <1>12, <2>1, FitsConcat, Concat
<1>14. RunsPlain(t) BY <1>1, CurOp, PlainRuns DEF PlainCur
<1>15. Flows(t, ops) BY <1>13, <1>14, FitsFlows
<1> HIDE DEF c, m, e, given
<1>16. Requested(call[c], r, m, e)
  <2>1. call[c] \in Call /\ m \in OptionalMGC /\ e \in OptionalMGC BY <1>1, <1>3
  <2> QED BY ZenonT(30), <2>1, RequestUpdate
<1> HIDE DEF r
<1>17. /\ CalmStates /\ CalmLine /\ CalmDigits /\ CalmOnhook /\ CalmInvite
       /\ CalmLate /\ CalmMedia
       /\ \A d \in Calls : d # c => call'[d] = call[d]
       /\ call'[c] = r
  BY <1>1, <1>2, <1>4, <1>16, CalmCallBut DEF Requested
<1>18. AnswerStep(t, ops)
  <2>1. ASSUME NEW d \in InCalls, Live(d)'
        PROVE  \/ call'[d].H248Responder # Nil
               \/ Live(d) /\ call'[d].H248Responder = call[d].H248Responder
    <3>1. d \in Calls BY DEF Calls
    <3> QED BY <1>1, <1>16, <1>17, <2>1, <3>1 DEF Requested, CalmStates, Live
  <2>2. ASSUME NEW d \in InCalls, Waiting(d)'
        PROVE  Waiting(d) \/ Adds(ops, Reports(d))
    <3>1. d \in Calls BY DEF Calls
    <3>2. CASE d # c BY <1>17, <2>2, <3>1, <3>2 DEF Waiting, Live
    <3>3. CASE d = c
      <4>1. CASE given BY <1>13, <3>3, <4>1
      <4>2. CASE ~ given
        BY <1>3, <1>16, <1>17, <2>2, <3>1, <3>3, <4>2 DEF Requested, Waiting, Live,
           CalmStates
      <4> QED BY <4>1, <4>2
    <3> QED BY <3>2, <3>3
  <2> QED BY <1>14, <2>1, <2>2 DEF AnswerStep, RunsPlain
<1>19. AllSteps(t, ops) BY <1>13, <1>15, <1>17, <1>18, CalmSteps DEF Flows, AllSteps
<1> QED BY <1>1, <1>2, <1>13, <1>19 DEF Stepped, Moves

LEMMA LineEventFlag ==
  ASSUME NEW r \in Call, NEW b \in BOOLEAN
  PROVE
    LET s == [r EXCEPT !.H248OnhookSent = b]
    IN /\ s.st = r.st /\ s.SIPCallID = r.SIPCallID /\ SameIn(r, s)
       /\ s.H248DigitsSent = r.H248DigitsSent /\ s.H248OnhookSent = b
BY ZenonT(30) DEF Call, SameIn

\* A step on a call that moves its al/on flag only.
LEMMA CalmOnhookBut ==
  ASSUME TypeOK, NEW c \in Calls, NEW r, call' = [call EXCEPT ![c] = r],
         UNCHANGED <<line, callsByH248, retained, finals, relay, sent>>,
         r.st = call[c].st, r.SIPCallID = call[c].SIPCallID, SameIn(call[c], r),
         r.H248DigitsSent = call[c].H248DigitsSent
  PROVE  /\ CalmStates /\ CalmLine /\ CalmDigits /\ CalmInvite /\ CalmLate
         /\ CalmAnswer /\ CalmMedia
         /\ \A d \in Calls : d # c => call'[d] = call[d]
         /\ call'[c] = r
<1>1. InCalls \subseteq Calls /\ OutCalls \subseteq Calls BY DEF Calls
<1>2. call'[c] = r /\ \A d \in Calls : d # c => call'[d] = call[d] BY CallField
<1> QED BY <1>1, <1>2 DEF SameIn, CalmStates, CalmLine, CalmDigits, CalmInvite,
             CalmLate, CalmAnswer, CalmMedia

LEMMA SendCallLineEventSafe ==
  ASSUME TypeOK, NEW t \in Threads, SendCallLineEvent(t)
  PROVE  Stepped
<1> DEFINE c == Cur(t).c
           phase == Cur(t).a
           o == StepA("lineEventSend", c, phase)
           ops == <<o>>
           ra == [call[c] EXCEPT !.H248Answered = TRUE]
           ro == [call[c] EXCEPT !.H248OnhookSent = TRUE]
<1>1. /\ At(t, "sendCallLineEvent") /\ todo[t] # <<>> /\ c \in Calls
      /\ phase \in LinePhases
  BY CurType DEF SendCallLineEvent
<1>2. call[c] \in Call BY <1>1 DEF TypeOK
<1>3. UNCHANGED <<line, callsByH248, retained, finals, relay, sent, onhooks>>
  BY DEF SendCallLineEvent, indexVars, wireVars
<1>4. CalmRest BY <1>3 DEF CalmRest
<1>5. o \in Op /\ o.f = "lineEventSend" /\ o.c = c /\ o.a = phase
  BY <1>1, StepType DEF StepA
<1>6. /\ \A d : /\ ~ Running(t, Unavailables(d)) /\ ~ Running(t, Releases(d))
                /\ ~ Running(t, DigitsSends(d)) /\ ~ Running(t, OnhookSends(d))
                /\ ~ Running(t, InviteSends(d)) /\ ~ Running(t, LateByes(d))
                /\ ~ Running(t, Inserts(d))
                /\ Running(t, Reports(d)) <=> d = c /\ phase = "answer"
  BY <1>1, RunsCur, Members
<1>7. /\ LineEventDue(c, phase) =>
           /\ SetLineEventFlag(c, phase, TRUE) /\ Then(t, ops)
      /\ ~ LineEventDue(c, phase) => UNCHANGED call /\ Then(t, <<>>)
  BY DEF SendCallLineEvent
<1> HIDE DEF o
<1>8. /\ ops \in Seq(Op) /\ Len(ops) = 1 /\ <<>> \in Seq(Op)
      /\ \A S : ~ Adds(<<>>, S)
  BY <1>5, OpSeq DEF Adds
<1>9. \A d : /\ o \notin LateByes(d) /\ o \notin InviteSends(d)
             /\ o \notin Creations(d) /\ o \notin LateAnswers(d)
             /\ o \notin Teardowns(d) /\ o \notin AnswerSteps(d)
             /\ o \notin DigitsSends(d)
             /\ o \in OnhookSends(d) <=> d = c /\ phase = "onhook"
  BY <1>5, Members
<1>10. \A d : /\ ~ Adds(ops, LateByes(d)) /\ ~ Adds(ops, InviteSends(d))
              /\ ~ Adds(ops, Creations(d)) /\ ~ Adds(ops, LateAnswers(d))
              /\ ~ Adds(ops, Teardowns(d)) /\ ~ Adds(ops, AnswerSteps(d))
              /\ ~ Adds(ops, DigitsSends(d))
              /\ Adds(ops, OnhookSends(d)) <=> d = c /\ phase = "onhook"
  BY <1>9, AddsOne
<1> HIDE DEF ops, c, phase
<1>11. \A q \in {ops, <<>>} :
         /\ FlowOut(t, q) /\ FlowDigits(t, q) /\ FlowInvite(t, q)
         /\ FlowLate(t, q) /\ FlowMedia(t, q)
  BY <1>6, <1>8, <1>10 DEF FlowOut, FlowDigits, FlowInvite, FlowLate, FlowMedia
<1>12. CASE LineEventDue(c, phase) /\ phase = "onhook"
  <2>1. call' = [call EXCEPT ![c] = ro] /\ Then(t, ops)
    BY <1>7, <1>12 DEF SetLineEventFlag
  <2>2. /\ ro.st = call[c].st /\ ro.SIPCallID = call[c].SIPCallID
        /\ SameIn(call[c], ro) /\ ro.H248DigitsSent = call[c].H248DigitsSent
        /\ ro.H248OnhookSent
    BY ZenonT(30), <1>2, LineEventFlag
  <2> HIDE DEF ro
  <2>3. /\ CalmStates /\ CalmLine /\ CalmDigits /\ CalmInvite /\ CalmLate
        /\ CalmAnswer /\ CalmMedia
        /\ \A d \in Calls : d # c => call'[d] = call[d]
        /\ call'[c] = ro
    BY <1>1, <1>3, <2>1, <2>2, CalmOnhookBut
  <2>4. call[c].st = "live" /\ ~ call[c].H248OnhookSent
    BY <1>12 DEF LineEventDue, Live
  <2>5. OnhookStep(t, ops)
    <3> SUFFICES ASSUME NEW d \in Calls
                 PROVE  /\ call[d].st # "unused" => call'[d].st # "unused"
                        /\ \/ /\ Adds(ops, OnhookSends(d)) /\ Len(ops) = 1
                              /\ call'[d].st # "unused" /\ onhooks'[d] = onhooks[d]
                              /\ ~ call[d].H248OnhookSent /\ call'[d].H248OnhookSent
                           \/ /\ ~ Running(t, OnhookSends(d)) /\ ~ Adds(ops, OnhookSends(d))
                              /\ onhooks'[d] = onhooks[d]
                              /\ call'[d].H248OnhookSent = call[d].H248OnhookSent
      BY DEF OnhookStep
    <3>1. CASE d = c BY <1>3, <1>8, <1>10, <1>12, <2>2, <2>3, <2>4, <3>1
    <3>2. CASE d # c BY <1>3, <1>6, <1>10, <2>3, <3>2
    <3> QED BY <3>1, <3>2
  <2>6. FlowAnswer(t, ops) BY <1>6, <1>12 DEF FlowAnswer
  <2>7. AllSteps(t, ops) BY <1>8, <1>11, <2>3, <2>5, <2>6, CalmSteps DEF AllSteps
  <2> QED BY <1>1, <1>8, <2>1, <2>7 DEF Stepped, Moves
<1>13. CASE LineEventDue(c, phase) /\ phase = "answer"
  <2>1. call' = [call EXCEPT ![c] = ra] /\ Then(t, ops)
    BY <1>7, <1>13 DEF SetLineEventFlag
  <2>2. /\ SameOut(call[c], ra) /\ ra.Media = call[c].Media
        /\ ra.H248Responder = call[c].H248Responder /\ ra.H248Answered
    BY ZenonT(30), <1>2, AnswerUpdate
  <2> HIDE DEF ra
  <2>3. /\ CalmStates /\ CalmLine /\ CalmDigits /\ CalmOnhook /\ CalmInvite
        /\ CalmLate /\ CalmMedia
        /\ \A d \in Calls : d # c => call'[d] = call[d]
        /\ call'[c] = ra
    BY <1>1, <1>4, <2>1, <2>2, CalmCallBut
  <2>4. FlowOnhook(t, ops) BY <1>6, <1>10, <1>13 DEF FlowOnhook
  <2>5. AnswerStep(t, ops)
    <3>1. \A d \in InCalls : Live(d)' =>
            Live(d) /\ call'[d].H248Responder = call[d].H248Responder
      BY <2>2, <2>3 DEF CalmStates, Live, Calls
    <3>2. \A d \in InCalls : Waiting(d)' => d # c /\ Waiting(d)
      BY <2>2, <2>3 DEF Waiting, Live, Calls
    <3> QED BY <1>6, <3>1, <3>2 DEF AnswerStep
  <2>6. AllSteps(t, ops) BY <1>8, <1>11, <2>3, <2>4, <2>5, CalmSteps DEF AllSteps
  <2> QED BY <1>1, <1>8, <2>1, <2>6 DEF Stepped, Moves
<1>14. CASE ~ LineEventDue(c, phase)
  <2>1. UNCHANGED call /\ Then(t, <<>>) BY <1>7, <1>14
  <2>2. /\ CalmStates /\ CalmAnswer /\ CalmLine /\ CalmDigits /\ CalmOnhook
        /\ CalmInvite /\ CalmLate /\ CalmMedia
    BY <1>4, <2>1, CalmSameBut
  <2>3. FlowOnhook(t, <<>>) BY <1>6, <1>8 DEF FlowOnhook
  <2>4. Waiting(c) /\ phase = "answer" => call[c].H248Responder = Nil
    BY <1>14 DEF Waiting, LineEventDue
  <2>5. AnswerStep(t, <<>>)
    BY <1>6, <2>1, <2>4 DEF AnswerStep, Waiting, Live
  <2>6. AllSteps(t, <<>>) BY <1>8, <1>11, <2>2, <2>3, <2>5, CalmSteps DEF AllSteps
  <2> QED BY <1>1, <1>8, <2>1, <2>6 DEF Stepped, Moves
<1> QED BY <1>1, <1>12, <1>13, <1>14 DEF LinePhases

LEMMA LineEventSendSafe ==
  ASSUME TypeOK, NEW t \in Threads, LineEventSend(t)
  PROVE  Stepped
<1> DEFINE c == Cur(t).c
           phase == Cur(t).a
           ra == [call[c] EXCEPT !.H248Answered = FALSE]
           ro == [call[c] EXCEPT !.H248OnhookSent = FALSE]
<1>1. /\ At(t, "lineEventSend") /\ todo[t] # <<>> /\ c \in Calls
      /\ phase \in LinePhases /\ Then(t, <<>>)
  BY CurType DEF LineEventSend
<1>2. call[c] \in Call BY <1>1 DEF TypeOK
<1>3. UNCHANGED <<line, callsByH248, retained, finals, relay, sent>>
  BY DEF LineEventSend, indexVars
<1>4. \A d : /\ ~ Running(t, Unavailables(d)) /\ ~ Running(t, Releases(d))
             /\ ~ Running(t, DigitsSends(d)) /\ ~ Running(t, Reports(d))
             /\ ~ Running(t, InviteSends(d)) /\ ~ Running(t, LateByes(d))
             /\ ~ Running(t, Inserts(d))
             /\ Running(t, OnhookSends(d)) <=> d = c /\ phase = "onhook"
  BY <1>1, RunsCur, Members
<1>5. \/ /\ phase = "onhook" /\ CountOnhook(c) /\ UNCHANGED call
      \/ phase # "onhook" /\ UNCHANGED <<onhooks, call>>
      \/ /\ SendError /\ SetLineEventFlag(c, phase, FALSE)
         /\ UNCHANGED onhooks
  BY DEF LineEventSend
<1>6. <<>> \in Seq(Op) /\ \A S : ~ Adds(<<>>, S) BY PlainNone DEF Adds
<1> HIDE DEF c, phase
<1>7. /\ FlowOut(t, <<>>) /\ FlowDigits(t, <<>>) /\ FlowInvite(t, <<>>)
      /\ FlowLate(t, <<>>) /\ FlowMedia(t, <<>>) /\ FlowAnswer(t, <<>>)
  BY <1>4, <1>6 DEF FlowOut, FlowDigits, FlowInvite, FlowLate, FlowMedia, FlowAnswer
<1>8. CASE phase = "onhook" /\ CountOnhook(c) /\ UNCHANGED call
  <2>1. /\ CalmStates /\ CalmLine /\ CalmDigits /\ CalmInvite /\ CalmLate
        /\ CalmAnswer /\ CalmMedia
    BY <1>3, <1>8 DEF CalmStates, CalmLine, CalmDigits, CalmInvite, CalmLate,
       CalmAnswer, CalmMedia
  <2>2. /\ onhooks'[c] = (IF onhooks[c] = 0 THEN 1 ELSE 2)
        /\ \A d \in Calls : d # c => onhooks'[d] = onhooks[d]
    BY <1>1, <1>8 DEF CountOnhook, TypeOK
  <2>3. OnhookStep(t, <<>>) BY <1>4, <1>6, <1>8, <2>2 DEF OnhookStep
  <2>4. AllSteps(t, <<>>) BY <1>6, <1>7, <2>1, <2>3, CalmSteps DEF AllSteps
  <2> QED BY <1>1, <1>6, <2>4 DEF Stepped, Moves
<1>9. CASE phase # "onhook" /\ UNCHANGED <<onhooks, call>>
  <2>1. Calm BY <1>3, <1>9, CalmSame DEF CalmRest
  <2>2. Flows(t, <<>>) BY <1>4, <1>6, <1>7, <1>9 DEF Flows, FlowOnhook
  <2> QED BY <1>1, <1>6, <2>1, <2>2, FlowStep DEF Moves
<1>10. CASE phase = "onhook" /\ SetLineEventFlag(c, phase, FALSE) /\ UNCHANGED onhooks
  <2>1. call' = [call EXCEPT ![c] = ro] BY <1>10 DEF SetLineEventFlag
  <2>2. /\ ro.st = call[c].st /\ ro.SIPCallID = call[c].SIPCallID
        /\ SameIn(call[c], ro) /\ ro.H248DigitsSent = call[c].H248DigitsSent
        /\ ro.H248OnhookSent = FALSE
    BY ZenonT(30), <1>2, LineEventFlag
  <2> HIDE DEF ro
  <2>3. /\ CalmStates /\ CalmLine /\ CalmDigits /\ CalmInvite /\ CalmLate
        /\ CalmAnswer /\ CalmMedia
        /\ \A d \in Calls : d # c => call'[d] = call[d]
        /\ call'[c] = ro
    BY <1>1, <1>3, <2>1, <2>2, CalmOnhookBut
  <2>4. ASSUME NEW d \in Calls
        PROVE  /\ call'[d].st = call[d].st /\ onhooks'[d] = onhooks[d]
               /\ d # c => call'[d].H248OnhookSent = call[d].H248OnhookSent
               /\ d = c => ~ call'[d].H248OnhookSent
    <3>1. CASE d = c BY <1>10, <2>2, <2>3, <3>1
    <3>2. CASE d # c BY <1>10, <2>3, <3>2
    <3> QED BY <3>1, <3>2
  <2>5. OnhookStep(t, <<>>) BY <1>4, <1>6, <1>10, <2>4 DEF OnhookStep
  <2>6. AllSteps(t, <<>>) BY <1>6, <1>7, <2>3, <2>5, CalmSteps DEF AllSteps
  <2> QED BY <1>1, <1>6, <2>6 DEF Stepped, Moves
<1>11. CASE /\ phase # "onhook" /\ SendError /\ SetLineEventFlag(c, phase, FALSE)
            /\ UNCHANGED onhooks
  <2>1. call' = [call EXCEPT ![c] = ra]
    BY <1>1, <1>11 DEF SetLineEventFlag, LinePhases
  <2>2. SameOut(call[c], ra) /\ ra.Media = call[c].Media
    BY ZenonT(30), <1>2, AnswerUpdate
  <2> HIDE DEF ra
  <2>3. /\ CalmStates /\ CalmLine /\ CalmDigits /\ CalmOnhook /\ CalmInvite
        /\ CalmLate /\ CalmMedia
    <3>1. CalmRest BY <1>3, <1>11 DEF CalmRest
    <3> QED BY <1>1, <2>1, <2>2, <3>1, CalmCallBut
  <2>4. FlowOnhook(t, <<>>) BY <1>4, <1>6, <1>11 DEF FlowOnhook
  <2>5. ~ Reliable BY <1>11 DEF SendError, Reliable
  <2>6. AllSteps(t, <<>>) BY <1>6, <1>7, <2>3, <2>4, <2>5, CalmSteps DEF AllSteps
  <2> QED BY <1>1, <1>6, <2>6 DEF Stepped, Moves
<1> QED BY <1>5, <1>8, <1>9, <1>10, <1>11

LEMMA RecvReplySafe ==
  ASSUME IInv, NEW t \in Threads, NEW p \in pendingH248, NEW isError \in BOOLEAN,
         RecvReply(t, p, isError)
  PROVE  Stepped
<1>1. TypeOK /\ KeysOK BY DEF IInv
<1>2. CalmRest BY DEF RecvReply, CalmRest, indexVars, wireVars
<1>3. /\ <<>> \in Seq(Op) /\ FitsAt(t, <<>>) /\ \A S : ~ Adds(<<>>, S)
      /\ \A i \in DOMAIN <<>> : PlainOp(<<>>[i])
  BY PlainNone DEF FitsAt, Adds
<1>4. CASE UNCHANGED call /\ Start(t, <<>>)
  <2>1. Calm BY <1>2, <1>4, CalmSame
  <2> QED BY <1>1, <1>3, <1>4, <2>1, FitsStart
<1>5. ASSUME NEW c \in PendingCalls(p), isError,
             call' = [call EXCEPT ![c].H248Answered = FALSE], Start(t, <<>>)
      PROVE  Stepped
  <2> DEFINE r == [call[c] EXCEPT !.H248Answered = FALSE]
  <2>1. c \in Calls BY <1>1 DEF PendingCalls, ActiveCalls, TypeOK, Calls
  <2>2. call[c] \in Call BY <1>1, <2>1 DEF TypeOK
  <2>3. call' = [call EXCEPT ![c] = r] BY <1>5
  <2>4. SameOut(call[c], r) /\ r.Media = call[c].Media
    BY ZenonT(30), <2>2, AnswerUpdate
  <2> HIDE DEF r
  <2>5. /\ CalmStates /\ CalmLine /\ CalmDigits /\ CalmOnhook /\ CalmInvite
        /\ CalmLate /\ CalmMedia
    BY <1>1, <1>2, <2>1, <2>3, <2>4, CalmCallBut
  <2>6. RunsPlain(t) BY <1>5, PlainRuns DEF PlainCur, Start, Idle
  <2>7. Flows(t, <<>>) BY <1>3, <2>6, FitsFlows
  <2>8. ~ Reliable BY <1>5 DEF RecvReply, Reliable
  <2>9. AllSteps(t, <<>>) BY <1>1, <1>3, <2>5, <2>7, <2>8, CalmSteps DEF Flows, AllSteps
  <2> QED BY <1>3, <1>5, <2>9 DEF Stepped, Moves
<1>6. ASSUME NEW c \in PendingCalls(p), UNCHANGED call,
             p.phase \in {"origination-offhook", "origination-digits"},
             Start(t, <<StepA("failSIPOriginatedCall", c, "503"), Step("releaseCall", c)>>)
      PROVE  Stepped
  <2>1. c \in OutCalls BY <1>1, <1>6, PendingOrigination
  <2>2. Calm BY <1>2, <1>6, CalmSame
  <2> QED BY <1>1, <1>6, <2>1, <2>2, PlainFail, PlainStart DEF Failures
<1> QED BY <1>4, <1>5, <1>6 DEF RecvReply

----------------------------------------------------------------------------
(* Sections that create or release a call *)

LEMMA PlainAdds ==
  ASSUME NEW ops \in Seq(Op), \A i \in DOMAIN ops : PlainOp(ops[i])
  PROVE  \A c : /\ ~ Adds(ops, AnswerSteps(c)) /\ ~ Adds(ops, OnhookSends(c))
                /\ ~ Adds(ops, InviteSends(c)) /\ ~ Adds(ops, LateAnswers(c))
                /\ ~ Adds(ops, Teardowns(c)) /\ ~ Adds(ops, LateByes(c))
                /\ ~ Adds(ops, Creations(c)) /\ ~ Adds(ops, DigitsSends(c))
BY DEF Adds, PlainOp, AnswerSteps, OnhookSends, InviteSends, LateAnswers,
       Teardowns, LateByes, Creations, DigitsSends, Of, Loops

LEMMA InsertContextSafe ==
  ASSUME TypeOK, NEW t \in Threads, InsertContext(t)
  PROVE  Stepped
<1> DEFINE c == Cur(t).c
           m == Cur(t).from
           e == IF Cur(t).req THEN m ELSE Nil
           r == [NewCall EXCEPT !.st = "live", !.H248ContextAllocated = TRUE,
                                !.H248EventRequestID = e, !.H248Responder = m,
                                !.Media = TRUE]
           o == Step("incomingAddReply", c)
           ops == <<o>>
<1>1. /\ At(t, "insertContext") /\ todo[t] # <<>> /\ Then(t, ops)
      /\ c \in InCalls /\ c \in Calls /\ m \in MGCs
  BY CurType DEF InsertContext, Calls
<1>2. call[c].st = "unused" /\ call' = [call EXCEPT ![c] = r]
  BY DEF InsertContext
<1>3. UNCHANGED <<line, callsBySIP, retained, relay, finals, sent, onhooks>>
  BY DEF InsertContext, wireVars
<1>4. callsByH248' = callsByH248 \cup {c} BY DEF InsertContext
<1>5. /\ r.st = "live" /\ r.H248OnhookSent = FALSE /\ r.SIPAnswered = FALSE
      /\ r.H248Responder = m /\ r.Media = TRUE
  BY DEF NewCall
<1>6. ops \in Seq(Op) /\ \A i \in DOMAIN ops : PlainOp(ops[i])
  <2>1. o \in Op /\ PlainOp(o) BY <1>1, StepType DEF InviteSteps, PlainOp, Step
  <2> HIDE DEF o
  <2> QED BY <2>1, PlainOne
<1>7. /\ \A d : /\ ~ Running(t, Unavailables(d)) /\ ~ Running(t, Releases(d))
                /\ ~ Running(t, DigitsSends(d)) /\ ~ Running(t, OnhookSends(d))
                /\ ~ Running(t, InviteSends(d)) /\ ~ Running(t, LateByes(d))
                /\ ~ Running(t, Reports(d))
                /\ Running(t, Inserts(d)) => d = c
      /\ Running(t, Creations(c))
  BY <1>1, RunsCur, Members
<1>8. m # Nil /\ c \notin OutCalls BY <1>1, ConstantsDisjoint
<1> HIDE DEF ops, r, c, m
<1>9. /\ \A d : /\ ~ Adds(ops, AnswerSteps(d)) /\ ~ Adds(ops, OnhookSends(d))
                /\ ~ Adds(ops, InviteSends(d)) /\ ~ Adds(ops, LateAnswers(d))
                /\ ~ Adds(ops, Teardowns(d)) /\ ~ Adds(ops, LateByes(d))
                /\ ~ Adds(ops, Creations(d)) /\ ~ Adds(ops, DigitsSends(d))
  BY <1>6, PlainAdds
<1>10. call'[c] = r /\ \A d \in Calls : d # c => call'[d] = call[d]
  BY <1>1, <1>2, CallField
<1>11. /\ \A d \in OutCalls : d \in Calls /\ call'[d] = call[d] /\ (Live(d)' <=> Live(d))
       /\ \A d \in InCalls : d \in Calls
  BY <1>8, <1>10 DEF Calls, Live
<1>12. OutStep(t, ops) BY <1>3, <1>7, <1>11 DEF OutStep
<1>13. DigitsStep(t, ops)
  <2>1. \A d \in OutCalls : Beyond(d)' => Beyond(d)
    BY <1>3, <1>4, <1>8, <1>11 DEF Beyond
  <2> QED BY <1>3, <1>7, <1>9, <1>11, <2>1 DEF DigitsStep
<1>14. OnhookStep(t, ops)
  BY <1>2, <1>3, <1>5, <1>7, <1>9, <1>10 DEF OnhookStep
<1>15. InviteStep(t, ops)
  BY <1>2, <1>3, <1>7, <1>9, <1>10, <1>11 DEF InviteStep
<1>16. LateStep(t, ops)
  BY <1>2, <1>3, <1>7, <1>9, <1>10, <1>11 DEF LateStep
<1>17. AnswerStep(t, ops)
  <2>1. /\ \A d \in InCalls : d # c => call'[d] = call[d] /\ (Live(d)' <=> Live(d))
        /\ call'[c].SIPAnswered = FALSE /\ call'[c].H248Responder # Nil
    BY <1>5, <1>8, <1>10, <1>11 DEF Live
  <2>2. \A d \in InCalls : Waiting(d)' => d # c /\ Waiting(d) BY <2>1 DEF Waiting
  <2> QED BY <1>7, <2>1, <2>2 DEF AnswerStep
<1>18. MediaStep(t, ops)
  <2>1. \A d \in InCalls : d # c => call'[d] = call[d] /\ (Live(d)' <=> Live(d))
    BY <1>10, <1>11 DEF Live
  <2>2. \A d \in InCalls : d = c => Live(d)' /\ call'[d].Media
    BY <1>5, <1>10 DEF Live
  <2>3. Running(t, Creations(c)) BY <1>7
  <2>4. \A d \in InCalls : call'[d].st # call[d].st => Running(t, Creations(d))
    BY <2>1, <2>3
  <2>5. \A d \in InCalls : relay'[d] = "open" =>
          \/ Live(d)' /\ call'[d].Media
          \/ relay[d] = "open" /\ ~ Running(t, Inserts(d)) /\ ~ (Live(d) /\ call[d].Media)
    BY <1>3, <1>7, <2>1, <2>2
  <2> QED BY <1>9, <2>4, <2>5 DEF MediaStep
<1>19. AllSteps(t, ops)
  BY <1>12, <1>13, <1>14, <1>15, <1>16, <1>17, <1>18 DEF AllSteps
<1> QED BY <1>1, <1>6, <1>19 DEF Stepped, Moves

LEMMA HandleNewSIPInviteSafe ==
  ASSUME TypeOK, NEW t \in Threads, HandleNewSIPInvite(t)
  PROVE  Stepped
<1> DEFINE c == Cur(t).c
           k == Cur(t).id
           m == line.responder
           e == line.eventRequestID
           r == [NewCall EXCEPT !.st = "live", !.H248EventRequestID = e,
                                !.H248Responder = m, !.SIPCallID = k]
           o == Step("newMediaRelay", c)
           ops == <<o>>
<1>1. /\ At(t, "handleNewSIPInvite") /\ todo[t] # <<>>
      /\ c \in OutCalls /\ c \in Calls
  BY CurType DEF HandleNewSIPInvite, Calls
<1>2. UNCHANGED <<line, callsByH248, retained, relay, finals, sent, onhooks>>
  BY DEF HandleNewSIPInvite, wireVars
<1>3. CASE ~ LineReady \/ LineBusy
  <2>1. UNCHANGED call /\ Then(t, <<>>) BY <1>3 DEF HandleNewSIPInvite
  <2>2. Calm BY <1>2, <2>1, CalmSame DEF CalmRest
  <2> QED BY <1>1, <2>1, <2>2, PlainNone, PlainSections
<1>4. CASE ~ (~ LineReady \/ LineBusy)
  <2>1. /\ call[c].st = "unused" /\ call' = [call EXCEPT ![c] = r] /\ Then(t, ops)
    BY <1>4 DEF HandleNewSIPInvite
  <2>2. line.ready BY <1>4 DEF LineReady
  <2>3. /\ r.st = "live" /\ r.H248OnhookSent = FALSE /\ r.H248DigitsSent = FALSE
    BY DEF NewCall
  <2>4. ops \in Seq(Op) /\ \A i \in DOMAIN ops : PlainOp(ops[i])
    <3>1. o \in Op /\ PlainOp(o)
      BY <1>1, StepType DEF OriginationSteps, PlainOp, Step
    <3> HIDE DEF o
    <3> QED BY <3>1, PlainOne
  <2>5. \A d : /\ ~ Running(t, Unavailables(d)) /\ ~ Running(t, Releases(d))
               /\ ~ Running(t, DigitsSends(d)) /\ ~ Running(t, OnhookSends(d))
               /\ ~ Running(t, InviteSends(d)) /\ ~ Running(t, LateByes(d))
               /\ ~ Running(t, Reports(d)) /\ ~ Running(t, Inserts(d))
    BY <1>1, RunsCur, Members
  <2>6. c \notin InCalls BY <1>1, ConstantsDisjoint
  <2> HIDE DEF ops, r, c
  <2>7. \A d : /\ ~ Adds(ops, AnswerSteps(d)) /\ ~ Adds(ops, OnhookSends(d))
               /\ ~ Adds(ops, InviteSends(d)) /\ ~ Adds(ops, LateAnswers(d))
               /\ ~ Adds(ops, Teardowns(d)) /\ ~ Adds(ops, LateByes(d))
               /\ ~ Adds(ops, Creations(d)) /\ ~ Adds(ops, DigitsSends(d))
    BY <2>4, PlainAdds
  <2>8. call'[c] = r /\ \A d \in Calls : d # c => call'[d] = call[d]
    BY <1>1, <2>1, CallField
  <2>9. /\ \A d \in InCalls : d \in Calls /\ call'[d] = call[d] /\ (Live(d)' <=> Live(d))
        /\ \A d \in OutCalls : d \in Calls
    BY <2>6, <2>8 DEF Calls, Live
  <2>10. OutStep(t, ops) BY <1>2, <2>2, <2>5 DEF OutStep
  <2>11. DigitsStep(t, ops)
    <3>1. \A d \in OutCalls : Beyond(d)' => Beyond(d)
      BY <1>2, <2>3, <2>8, <2>9 DEF Beyond
    <3> QED BY <1>2, <2>1, <2>5, <2>7, <2>8, <2>9, <3>1 DEF DigitsStep
  <2>12. OnhookStep(t, ops)
    BY <1>2, <2>1, <2>3, <2>5, <2>7, <2>8 DEF OnhookStep
  <2>13. InviteStep(t, ops) BY <1>2, <2>5, <2>7, <2>9 DEF InviteStep
  <2>14. LateStep(t, ops) BY <1>2, <2>5, <2>7, <2>9 DEF LateStep
  <2>15. AnswerStep(t, ops) BY <2>5, <2>9 DEF AnswerStep, Waiting
  <2>16. MediaStep(t, ops) BY <1>2, <2>5, <2>7, <2>9 DEF MediaStep
  <2>17. AllSteps(t, ops)
    BY <2>10, <2>11, <2>12, <2>13, <2>14, <2>15, <2>16 DEF AllSteps
  <2> QED BY <1>1, <2>1, <2>4, <2>17 DEF Stepped, Moves
<1> QED BY <1>3, <1>4

LEMMA ReleaseUpdate ==
  ASSUME NEW s \in Call
  PROVE  LET r == [s EXCEPT !.st = "released"]
         IN /\ r.st = "released" /\ r.SIPCallID = s.SIPCallID
            /\ r.H248OnhookSent = s.H248OnhookSent
            /\ r.H248DigitsSent = s.H248DigitsSent
BY ZenonT(30) DEF Call

LEMMA ReleaseCallSafe ==
  ASSUME TypeOK, NEW t \in Threads, ReleaseCall(t)
  PROVE  Stepped
<1> DEFINE c == Cur(t).c
           r == [call[c] EXCEPT !.st = "released"]
<1>1. /\ At(t, "releaseCall") /\ todo[t] # <<>> /\ Then(t, <<>>) /\ c \in Calls
  BY CurType DEF ReleaseCall, CallSteps
<1>2. UNCHANGED <<line, retained, finals, sent, onhooks>> BY DEF ReleaseCall
<1>3. /\ Live(c) => /\ call' = [call EXCEPT ![c] = r]
                    /\ callsByH248' = callsByH248 \ {c} /\ CloseRelay(c)
      /\ ~ Live(c) => UNCHANGED <<call, callsByH248, relay>>
  BY DEF ReleaseCall, indexVars
<1>4. /\ \A d : /\ ~ Running(t, DigitsSends(d)) /\ ~ Running(t, OnhookSends(d))
                /\ ~ Running(t, InviteSends(d)) /\ ~ Running(t, LateByes(d))
                /\ ~ Running(t, Inserts(d)) /\ ~ Running(t, Creations(d))
                /\ Running(t, Unavailables(d)) => d = c
                /\ Running(t, Releases(d)) => d = c
                /\ Running(t, Reports(d)) => d = c
  BY <1>1, RunsCur, Members
<1>5. <<>> \in Seq(Op) /\ \A S : ~ Adds(<<>>, S) BY PlainNone DEF Adds
<1>6. call[c] \in Call BY <1>1 DEF TypeOK
<1>7. /\ r.st = "released" /\ r.SIPCallID = call[c].SIPCallID
      /\ r.H248OnhookSent = call[c].H248OnhookSent
      /\ r.H248DigitsSent = call[c].H248DigitsSent
  BY ZenonT(30), <1>6, ReleaseUpdate
<1> HIDE DEF r, c
<1>8. /\ \A d \in Calls : d # c => call'[d] = call[d]
      /\ call'[c].st # "live"
      /\ \A d \in Calls : /\ call'[d].SIPCallID = call[d].SIPCallID
                          /\ call'[d].H248OnhookSent = call[d].H248OnhookSent
                          /\ call'[d].H248DigitsSent = call[d].H248DigitsSent
                          /\ call'[d].st # call[d].st =>
                               d = c /\ Live(c) /\ call'[d].st = "released"
  <2>1. CASE Live(c)
    <3>1. call'[c] = r /\ \A d \in Calls : d # c => call'[d] = call[d]
      BY <1>1, <1>3, <2>1, CallField
    <3>2. call'[c].st # "live" BY <1>7, <3>1
    <3>3. ASSUME NEW d \in Calls
          PROVE  /\ call'[d].SIPCallID = call[d].SIPCallID
                 /\ call'[d].H248OnhookSent = call[d].H248OnhookSent
                 /\ call'[d].H248DigitsSent = call[d].H248DigitsSent
                 /\ call'[d].st # call[d].st =>
                      d = c /\ Live(c) /\ call'[d].st = "released"
      <4>1. CASE d = c BY <1>7, <2>1, <3>1, <4>1
      <4>2. CASE d # c BY <3>1, <4>2
      <4> QED BY <4>1, <4>2
    <3> QED BY <3>1, <3>2, <3>3
  <2>2. CASE ~ Live(c) BY <1>3, <2>2 DEF Live
  <2> QED BY <2>1, <2>2
<1>9. /\ \A d \in Calls : Live(d)' => d # c /\ Live(d)
      /\ InCalls \subseteq Calls /\ OutCalls \subseteq Calls
  BY <1>8 DEF Live, Calls
<1>10. \A d \in callsByH248' : d \in callsByH248 BY <1>3
<1>11. OutStep(t, <<>>) BY <1>2, <1>4, <1>9 DEF OutStep
<1>12. DigitsStep(t, <<>>)
  <2>1. \A d \in OutCalls : Beyond(d)' => Beyond(d)
    BY <1>2, <1>8, <1>9, <1>10 DEF Beyond
  <2>2. \A d \in OutCalls : /\ call[d].st # "unused" => call'[d].st # "unused"
                            /\ call[d].st = "released" => call'[d].st = "released"
    BY <1>8, <1>9
  <2>3. \A d \in OutCalls : Running(t, Releases(d)) => ~ Live(d)'
    BY <1>4, <1>9
  <2> QED BY <1>2, <1>4, <1>5, <2>1, <2>2, <2>3 DEF DigitsStep
<1>13. \A d \in Calls : /\ call[d].st # "unused" => call'[d].st # "unused"
                        /\ call[d].st = "released" => call'[d].st = "released"
  BY <1>8
<1>14. OnhookStep(t, <<>>) BY <1>2, <1>4, <1>5, <1>8, <1>13 DEF OnhookStep
<1>15. InviteStep(t, <<>>) BY <1>2, <1>4, <1>5, <1>8, <1>9, <1>13 DEF InviteStep
<1>16. LateStep(t, <<>>) BY <1>2, <1>4, <1>5, <1>9, <1>13 DEF LateStep
<1>17. AnswerStep(t, <<>>)
  <2>1. \A d \in InCalls : Live(d)' => Live(d) /\ call'[d] = call[d] /\ d # c
    BY <1>8, <1>9
  <2>2. \A d \in InCalls : Waiting(d)' => Waiting(d) /\ ~ Running(t, Reports(d))
    BY <1>4, <2>1 DEF Waiting
  <2> QED BY <2>1, <2>2 DEF AnswerStep
<1>18. MediaStep(t, <<>>)
  <2> SUFFICES ASSUME NEW d \in InCalls
               PROVE  /\ call'[d].st # call[d].st => call[d].st # "unused"
                      /\ relay'[d] = "open" =>
                           \/ Live(d)' /\ call'[d].Media
                           \/ relay[d] = "open" /\ ~ (Live(d) /\ call[d].Media)
    BY <1>4, <1>5 DEF MediaStep
  <2>1. d \in Calls BY <1>9
  <2>2. call'[d].st # call[d].st => call[d].st # "unused"
    BY <1>8, <2>1 DEF Live
  <2>3. relay'[d] = "open" => relay[d] = "open"
    BY <1>1, <1>3, <2>1 DEF CloseRelay, TypeOK
  <2>4. CASE d # c
    <3>1. call'[d] = call[d] /\ (Live(d)' <=> Live(d)) BY <1>8, <2>1, <2>4 DEF Live
    <3> QED BY <2>2, <2>3, <3>1
  <2>5. CASE d = c
    <3>1. Live(c) /\ call[c].Media => relay'[c] # "open"
      BY <1>1, <1>3 DEF CloseRelay, TypeOK
    <3> QED BY <2>2, <2>3, <2>5, <3>1
  <2> QED BY <2>4, <2>5
<1>19. AllSteps(t, <<>>)
  BY <1>11, <1>12, <1>14, <1>15, <1>16, <1>17, <1>18 DEF AllSteps
<1> QED BY <1>1, <1>5, <1>19 DEF Stepped, Moves

----------------------------------------------------------------------------
(* Every step keeps every invariant *)

\* Together with IInv this is inductive, with any faults.
SafeInv == /\ OutInv /\ DigitsInv /\ HeadInv /\ OnhookInv /\ InviteInv
           /\ LateInv /\ MediaInv

LEMMA SteppedKeeps ==
  ASSUME IInv, TypeOK', SafeInv, Stepped
  PROVE  SafeInv' /\ (Reliable /\ AnswerInv => AnswerInv')
<1>1. PICK t \in Threads, ops \in Seq(Op) : Moves(t, ops) /\ AllSteps(t, ops)
  BY DEF Stepped
<1>2. TypeOK BY DEF IInv
<1>3. /\ OutInv /\ DigitsInv /\ HeadInv /\ OnhookInv /\ InviteInv
      /\ LateInv /\ MediaInv
  BY DEF SafeInv
<1>4. /\ OutStep(t, ops) /\ DigitsStep(t, ops) /\ OnhookStep(t, ops)
      /\ InviteStep(t, ops) /\ LateStep(t, ops) /\ MediaStep(t, ops)
      /\ Reliable => AnswerStep(t, ops)
  BY <1>1 DEF AllSteps
<1>5. OutInv' BY <1>1, <1>2, <1>3, <1>4, OutPreserved
<1>6. DigitsInv' BY <1>1, <1>2, <1>3, <1>4, DigitsPreserved
<1>7. HeadInv' BY <1>1, <1>2, <1>3, <1>4, HeadPreserved
<1>8. OnhookInv' BY <1>1, <1>2, <1>3, <1>4, OnhookPreserved
<1>9. InviteInv' BY <1>1, <1>2, <1>3, <1>4, InvitePreserved
<1>10. LateInv' BY <1>1, <1>3, <1>4, LatePreserved
<1>11. MediaInv' BY <1>1, <1>2, <1>3, <1>4, MediaPreserved
<1>12. Reliable /\ AnswerInv => AnswerInv' BY <1>1, <1>2, <1>4, AnswerPreserved
<1> QED BY <1>5, <1>6, <1>7, <1>8, <1>9, <1>10, <1>11, <1>12 DEF SafeInv

\* A section of one of the sets that name a call works on the call.
LEMMA MembersRefer ==
  ASSUME NEW o \in Op, NEW c
  PROVE  /\ o \in Teardowns(c) \cup Unavailables(c) \cup Reports(c)
                  \cup Inserts(c) => Refers(o, c)
<1>1. o.f \in {"releaseCall", "insertContext", "retainSIPInvite", "sendSIPTeardown",
               "handleCarrierRelease", "contextCommand", "sendCallLineEvent"}
        => "c" \in DOMAIN o
  BY SMTT(30) DEF Op, CallSteps, OriginationSteps, InviteSteps
<1>2. o.f \in {"releaseAllCallsFromCarrier", "unavailableCalls"} => "cs" \in DOMAIN o
  BY SMTT(30) DEF Op, CallSteps, OriginationSteps, InviteSteps
<1> QED BY <1>1, <1>2, Members DEF Refers

\* A step that leaves the threads and what the invariants read alone, except
\* for an INVITE whose time to be retained is over.
LEMMA QuietKeeps ==
  ASSUME SafeInv, NEW r, retained' = r,
         UNCHANGED <<line, call, callsByH248, todo, wireVars>>,
         \A c \in InCalls : r[c] # retained[c] =>
           r[c] = "none" /\ ~ Pends(Teardowns(c))
  PROVE  SafeInv' /\ (AnswerInv => AnswerInv')
<1>1. \A S : /\ \A u \in Threads : PendsIn(u, S)' <=> PendsIn(u, S)
             /\ Pends(S)' <=> Pends(S)
             /\ Only(S) => Only(S)'
  BY DEF Pends, PendsIn, Only
<1>2. UNCHANGED <<relay, finals, sent, onhooks>> BY DEF wireVars
<1>3. \A c : (Live(c)' <=> Live(c)) /\ (Beyond(c)' <=> Beyond(c))
  BY <1>2 DEF Live, Beyond
<1>4. OutInv'
  <2>1. "reg" \in Threads BY DEF Threads
  <2> QED BY <1>1, <1>3, <2>1 DEF SafeInv, OutInv
<1>5. DigitsInv'
  <2>1. \A c : Paid(c) => Paid(c)' BY <1>1, <1>2 DEF Paid
  <2> QED BY <1>1, <1>3, <2>1 DEF SafeInv, DigitsInv
<1>6. HeadInv' BY DEF SafeInv, HeadInv
<1>7. OnhookInv' BY <1>1, <1>2 DEF SafeInv, OnhookInv
<1>8. InviteInv' BY <1>1, <1>2 DEF SafeInv, InviteInv
<1>9. LateInv'
  <2>1. \A c : LateDone(c)' <=> LateDone(c) BY <1>1, <1>2 DEF LateDone
  <2> QED BY <1>1, <1>2, <2>1 DEF SafeInv, LateInv
<1>10. MediaInv' BY <1>1, <1>2, <1>3 DEF SafeInv, MediaInv
<1>11. AnswerInv => AnswerInv' BY <1>1, <1>3 DEF AnswerInv, Waiting
<1> QED BY <1>4, <1>5, <1>6, <1>7, <1>8, <1>9, <1>10, <1>11 DEF SafeInv

LEMMA SameKeeps ==
  ASSUME SafeInv, UNCHANGED <<bridgeVars, todo, wireVars>>
  PROVE  SafeInv' /\ (AnswerInv => AnswerInv')
<1>1. UNCHANGED <<line, call, callsByH248, retained>> BY DEF bridgeVars, indexVars
<1> QED BY <1>1, QuietKeeps

\* The expiry waits for everything that could retain the INVITE again.
LEMMA RetainedExpiresKeeps ==
  ASSUME TypeOK, SafeInv, RetainedExpires
  PROVE  SafeInv' /\ (AnswerInv => AnswerInv')
<1>1. PICK c \in InCalls :
        /\ \A t \in Threads : \A i \in DOMAIN todo[t] :
             Refers(todo[t][i], c) => todo[t][i].f \in LateResponseSteps
        /\ retained' = [retained EXCEPT ![c] = "none"]
  BY DEF RetainedExpires
<1>2. ~ Pends(Teardowns(c))
  <2> SUFFICES ASSUME NEW t \in Threads, NEW i \in DOMAIN todo[t],
                      todo[t][i] \in Teardowns(c)
               PROVE  FALSE
    BY DEF Pends, PendsIn
  <2>1. todo[t][i] \in Op BY DEF TypeOK
  <2>2. todo[t][i].f \in LateResponseSteps BY <1>1, <2>1, MembersRefer
  <2> QED BY <2>1, <2>2, Members DEF LateResponseSteps
<1>3. retained'[c] = "none" /\ \A d \in InCalls : d # c => retained'[d] = retained[d]
  BY <1>1 DEF TypeOK
<1>4. UNCHANGED <<line, call, callsByH248, todo, wireVars>>
  BY DEF RetainedExpires, indexVars
<1> QED BY <1>2, <1>3, <1>4, QuietKeeps

LEMMA InitSafe == Init => SafeInv /\ AnswerInv
<1> SUFFICES ASSUME Init PROVE SafeInv /\ AnswerInv OBVIOUS
<1>1. \A S : ~ Pends(S) /\ Only(S) BY DEF Init, Pends, PendsIn, Only
<1>2. \A c \in Calls : call[c] = NewCall /\ ~ Live(c) BY DEF Init, NewCall, Live
<1>3. InCalls \subseteq Calls /\ OutCalls \subseteq Calls BY DEF Calls
<1>4. OutInv /\ HeadInv BY <1>2, <1>3 DEF OutInv, HeadInv, Init
<1>5. DigitsInv BY <1>1, <1>2, <1>3 DEF DigitsInv, Beyond, Init, NewCall
<1>6. OnhookInv BY <1>1, <1>2 DEF OnhookInv, Init, NewCall
<1>7. InviteInv BY <1>1, <1>3 DEF InviteInv, Init
<1>8. LateInv BY <1>1, <1>3 DEF LateInv, LateDone, Init
<1>9. MediaInv BY <1>1, <1>3 DEF MediaInv, Init
<1>10. AnswerInv BY <1>2, <1>3 DEF AnswerInv, Waiting
<1> QED BY <1>4, <1>5, <1>6, <1>7, <1>8, <1>9, <1>10 DEF SafeInv

LEMMA ReceiveSafe ==
  ASSUME IInv, NEW t \in Goroutines, Receive(t)
  PROVE  Stepped
<1>1. t \in Threads BY DEF Threads
<1>2. TypeOK BY DEF IInv
<1>3. CASE \E req \in BOOLEAN : RecvAdd(t, req) BY <1>1, <1>2, <1>3, RecvAddSafe
<1>4. CASE \E cmd \in Commands : RecvLineCommand(t, cmd)
  BY <1>1, <1>2, <1>4, RecvLineCommandSafe
<1>5. CASE \E c \in Calls, cmd \in Commands : RecvContextCommand(t, c, cmd)
  BY <1>1, <1>5, RecvContextCommandSafe
<1>6. CASE RecvSubtractAll(t) BY <1>1, <1>6, RecvSubtractAllSafe
<1>7. CASE \E p \in pendingH248, isError \in BOOLEAN : RecvReply(t, p, isError)
  BY <1>1, <1>7, RecvReplySafe
<1>8. CASE \E id \in CallIDs : RecvInvite(t, id) BY <1>1, <1>2, <1>8, RecvInviteSafe
<1>9. CASE \E c \in OutCalls : RecvCancel(t, c)
  BY <1>1, <1>2, <1>9, RemoteReleaseSafe DEF Calls
<1>10. CASE \E c \in Calls : RecvBye(t, c) BY <1>1, <1>2, <1>10, RemoteReleaseSafe
<1>11. CASE \E c \in InCalls, kind \in Answers : RecvResponse(t, c, kind)
  BY <1>1, <1>2, <1>11, RecvResponseSafe
<1> QED BY <1>3, <1>4, <1>5, <1>6, <1>7, <1>8, <1>9, <1>10, <1>11 DEF Receive

LEMMA RunSafe ==
  ASSUME TypeOK, NEW t \in Threads, Run(t)
  PROVE  Stepped
BY ReleaseCallSafe, ArmReleaseSafe, SendInitialOnhookSafe, SendCallLineEventSafe,
   LineEventSendSafe, UnavailableCallsSafe, HandleIncomingCallAddSafe,
   InsertContextSafe, AddReplySafe, HandleOutboundCallAddSafe,
   ScheduleOriginationOffhookSafe, SendOriginationOffhookSafe, OffhookSendSafe,
   ScheduleOriginationDigitsSafe, SendOriginationDigitsSafe, DigitsSendSafe,
   LineCommandSafe, ContextCommandSafe, ReleaseAllCallsFromCarrierSafe,
   HandleCarrierReleaseSafe, HandleNewSIPInviteSafe, NewMediaRelaySafe,
   SetMediaSafe, SendSIPOriginatedResponseSafe, RespondSafe,
   AnswerSIPOriginatedCallSafe, MarkAnsweredSafe, FailSIPOriginatedCallSafe,
   StartSIPInviteSafe, InviteSendSafe, SIPAnsweredSafe, SendSIPTeardownSafe,
   SendSIPSafe, RetainSIPInviteSafe, HandleRetainedSIPInviteResponseSafe,
   SendLateAnswerBYESafe, LateByeSendSafe
DEF Run

LEMMA SafetyInductive ==
  ASSUME IInv, SafeInv, [Next]_vars
  PROVE  IInv' /\ SafeInv' /\ (Reliable /\ AnswerInv => AnswerInv')
<1>1. TypeOK /\ IInv' BY Inductive DEF IInv
<1>2. TypeOK' BY <1>1 DEF IInv
<1>3. CASE Stepped BY <1>1, <1>2, <1>3, SteppedKeeps
<1>4. CASE \E t \in Goroutines : Receive(t) BY <1>3, <1>4, ReceiveSafe
<1>5. CASE \E t \in Threads : Run(t) BY <1>1, <1>3, <1>5, RunSafe
<1>6. CASE TimerFires \/ RetransmitDeadline \/ HandleH248Ready \/ HandleH248Unavailable
  BY <1>1, <1>3, <1>6, TimerFiresSafe, RetransmitDeadlineSafe, HandleH248ReadySafe,
     HandleH248UnavailableSafe
<1>7. CASE RetransmitTick \/ RegistrationStarts \/ RegistrationFails \/ UNCHANGED vars
  <2>1. UNCHANGED <<bridgeVars, todo, wireVars>>
    BY <1>7 DEF RetransmitTick, RegistrationStarts, RegistrationFails, vars
  <2> QED BY <1>1, <2>1, SameKeeps
<1>8. CASE RetainedExpires BY <1>1, <1>8, RetainedExpiresKeeps
<1> QED BY <1>4, <1>5, <1>6, <1>7, <1>8 DEF Next, Background

----------------------------------------------------------------------------
(* The theorems *)

LEMMA SafeSpec == Spec => [](IInv /\ SafeInv)
<1>1. Init => IInv /\ SafeInv BY InitIInv, InitSafe
<1>2. IInv /\ SafeInv /\ [Next]_vars => (IInv /\ SafeInv)' BY SafetyInductive
<1> QED BY <1>1, <1>2, PTL DEF Spec

\* HandleH248Unavailable: from the moment the line loses the MGC, the
\* registration loop has left to release every call the PBX made; none is
\* admitted and none is skipped in between.
THEOREM OutboundReleased == Spec => []OutboundReleasedFirst
<1>1. IInv /\ SafeInv => OutboundReleasedFirst
  <2> SUFFICES ASSUME IInv, SafeInv, NEW c \in OutCalls, Live(c), ~ line.ready
               PROVE  \E i \in DOMAIN todo["reg"] : Refers(todo["reg"][i], c)
    BY DEF OutboundReleasedFirst
  <2>1. "reg" \in Threads /\ TypeOK BY DEF Threads, IInv
  <2>2. PICK i \in DOMAIN todo["reg"] : todo["reg"][i] \in Unavailables(c)
    BY DEF SafeInv, OutInv, PendsIn
  <2>3. todo["reg"][i] \in Op BY <2>1, <2>2 DEF TypeOK
  <2> QED BY <2>2, <2>3, MembersRefer
<1> QED BY <1>1, SafeSpec, PTL

\* answerSIPOriginatedCall and sendOriginationDigits: no interleaving of the
\* digit timer, a failing send and the carrier's commands answers the PBX's
\* INVITE before the digits are on their way, unless the call is being ended.
THEOREM AnswerAfterDigits == Spec => []DigitsBeforeAnswer
<1>1. IInv /\ SafeInv => DigitsBeforeAnswer
  <2> SUFFICES ASSUME IInv, SafeInv, NEW c \in OutCalls, "200" \in finals[c]
               PROVE  \/ "digits" \in sent[c]
                      \/ \E t \in Threads : At(t, "digitsSend") /\ Cur(t).c = c
                      \/ \E t \in Threads : \E i \in DOMAIN todo[t] :
                           todo[t][i].f = "releaseCall" /\ todo[t][i].c = c
                      \/ call[c].st = "released"
    BY DEF DigitsBeforeAnswer
  <2>1. Paid(c) BY DEF SafeInv, DigitsInv, Beyond
  <2>2. TypeOK BY DEF IInv
  <2>3. ASSUME Pends(DigitsSends(c))
        PROVE  \E t \in Threads : At(t, "digitsSend") /\ Cur(t).c = c
    <3>1. PICK t \in Threads : \E i \in DOMAIN todo[t] : todo[t][i] \in DigitsSends(c)
      BY <2>3 DEF Pends, PendsIn
    <3>2. PICK i \in DOMAIN todo[t] : todo[t][i] \in DigitsSends(c) BY <3>1
    <3>3. todo[t][i].f = "digitsSend" /\ todo[t][i].c = c
      BY <3>2 DEF DigitsSends, Of
    <3>4. i = 1 BY <3>3 DEF SafeInv, HeadInv
    <3>5. todo[t] \in Seq(Op) /\ todo[t] # <<>> BY <2>2, <3>2 DEF TypeOK
    <3>6. Head(todo[t]) = todo[t][1] BY <3>5
    <3> QED BY <3>3, <3>4, <3>5, <3>6 DEF At, Cur
  <2>4. ASSUME Pends(Releases(c))
        PROVE  \E t \in Threads : \E i \in DOMAIN todo[t] :
                 todo[t][i].f = "releaseCall" /\ todo[t][i].c = c
    BY <2>4 DEF Pends, PendsIn, Releases, Of
  <2> QED BY <2>1, <2>3, <2>4 DEF Paid
<1> QED BY <1>1, SafeSpec, PTL

\* sendCallLineEvent: the MGC gets at most one al/on for a call, although a
\* BYE, a CANCEL, a failure response, the INVITE deadline and the carrier may
\* all ask for it and a send that failed is claimed again.
THEOREM OneOnhook == Spec => []OnhookAtMostOnce
<1>1. IInv /\ SafeInv => OnhookAtMostOnce
  <2> SUFFICES ASSUME SafeInv, NEW c \in Calls PROVE onhooks[c] <= 1
    BY DEF OnhookAtMostOnce
  <2>1. onhooks[c] = 0 \/ onhooks[c] = 1 BY DEF SafeInv, OnhookInv
  <2> QED BY <2>1
<1> QED BY <1>1, SafeSpec, PTL

\* sendLateAnswerBYE: of all the goroutines that handle a 2xx and its
\* retransmissions after the call is over, one sends the BYE, once.
THEOREM OneLateBye == Spec => []LateByeOnce
<1>1. IInv /\ SafeInv => LateByeOnce
  <2> SUFFICES ASSUME IInv, SafeInv, NEW t \in Threads, At(t, "lateByeSend")
               PROVE  /\ "lateBYE" \notin sent[Cur(t).c]
                      /\ \A u \in Threads \ {t} :
                           At(u, "lateByeSend") => Cur(u).c # Cur(t).c
    BY DEF LateByeOnce
  <2>1. TypeOK BY DEF IInv
  <2>2. \A u \in Threads : At(u, "lateByeSend") =>
          /\ Cur(u).c \in InCalls /\ 1 \in DOMAIN todo[u]
          /\ todo[u][1] \in LateByes(Cur(u).c)
    <3> SUFFICES ASSUME NEW u \in Threads, At(u, "lateByeSend")
                 PROVE  /\ Cur(u).c \in InCalls /\ 1 \in DOMAIN todo[u]
                        /\ todo[u][1] \in LateByes(Cur(u).c)
      OBVIOUS
    <3>1. Cur(u).c \in InCalls BY <2>1, CurType DEF InviteSteps
    <3>2. Cur(u) \in LateByes(Cur(u).c) BY <2>1, RunsCur, Members
    <3>3. todo[u] \in Seq(Op) /\ todo[u] # <<>> BY <2>1 DEF TypeOK, At
    <3> QED BY <3>1, <3>2, <3>3 DEF Cur
  <2>3. \A c \in InCalls : /\ Only(LateByes(c))
                           /\ Pends(LateByes(c)) => "lateBYE" \notin sent[c]
    BY DEF SafeInv, LateInv
  <2>4. "lateBYE" \notin sent[Cur(t).c]
    BY <2>2, <2>3 DEF Pends, PendsIn
  <2>5. \A u \in Threads \ {t} : At(u, "lateByeSend") => Cur(u).c # Cur(t).c
    BY <2>2, <2>3 DEF Only
  <2> QED BY <2>4, <2>5
<1> QED BY <1>1, SafeSpec, PTL

\* tryAnswerH248: when no datagram of the gateway is lost on sending and the
\* MGC rejects nothing, an answered incoming call with a request ID has been
\* reported by the time no goroutine works on it, in whichever order the
\* answer and the request ID came.
THEOREM AnswersReported == Reliable => (Spec => []AnswerReported)
<1> SUFFICES ASSUME Reliable PROVE Spec => []AnswerReported OBVIOUS
<1>1. Init => IInv /\ SafeInv /\ AnswerInv BY InitIInv, InitSafe
<1>2. IInv /\ SafeInv /\ AnswerInv /\ [Next]_vars => (IInv /\ SafeInv /\ AnswerInv)'
  BY SafetyInductive
<1>3. IInv /\ SafeInv /\ AnswerInv => AnswerReported
  <2> SUFFICES ASSUME IInv, AnswerInv, NEW c \in InCalls, Live(c), Settled(c),
                      call[c].SIPAnswered, call[c].H248EventRequestID # Nil,
                      ~ call[c].H248Answered
               PROVE  FALSE
    BY DEF AnswerReported
  <2>1. Pends(Reports(c)) BY DEF AnswerInv, Waiting
  <2>2. PICK t \in Threads : \E i \in DOMAIN todo[t] : todo[t][i] \in Reports(c)
    BY <2>1 DEF Pends, PendsIn
  <2>3. PICK i \in DOMAIN todo[t] : todo[t][i] \in Reports(c) BY <2>2
  <2>4. todo[t][i] \in Op BY DEF IInv, TypeOK
  <2> QED BY <2>3, <2>4, MembersRefer DEF Settled
<1> QED BY <1>1, <1>2, <1>3, PTL DEF Spec

\* handleIncomingCallAdd and releaseCall: the relay of a call of the carrier
\* is closed when nothing works on the released call any more.
IncomingMediaReclaimed == \A c \in InCalls : Gone(c) => relay[c] # "open"

THEOREM IncomingReclaimed == Spec => []IncomingMediaReclaimed
<1>1. IInv /\ SafeInv => IncomingMediaReclaimed
  <2> SUFFICES ASSUME IInv, SafeInv, NEW c \in InCalls, Gone(c), relay[c] = "open"
               PROVE  FALSE
    BY DEF IncomingMediaReclaimed
  <2>1. ~ Live(c) BY DEF Gone, Live
  <2>2. Pends(Inserts(c)) BY <2>1 DEF SafeInv, MediaInv
  <2>3. PICK t \in Threads : \E i \in DOMAIN todo[t] : todo[t][i] \in Inserts(c)
    BY <2>2 DEF Pends, PendsIn
  <2>4. PICK i \in DOMAIN todo[t] : todo[t][i] \in Inserts(c) BY <2>3
  <2>5. todo[t][i] \in Op BY DEF IInv, TypeOK
  <2> QED BY <2>4, <2>5, MembersRefer DEF Gone, Settled
<1> QED BY <1>1, SafeSpec, PTL

\* handleIncomingCallAdd and releaseCall: a released call leaves no relay
\* open, in a gateway that makes no calls of its own.
THEOREM RelaysReclaimed == OutCalls = {} => (Spec => []MediaReclaimed)
<1> SUFFICES ASSUME OutCalls = {} PROVE Spec => []MediaReclaimed OBVIOUS
<1>1. IncomingMediaReclaimed => MediaReclaimed
  BY DEF IncomingMediaReclaimed, MediaReclaimed, Calls
<1> QED BY <1>1, IncomingReclaimed, PTL
=============================================================================
