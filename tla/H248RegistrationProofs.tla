----------------------- MODULE H248RegistrationProofs ----------------------
(***************************************************************************)
(* Proofs about H248Registration for any MGCs, Transaction IDs, goroutines *)
(* and limits: types, the service it implements (MGCService), and that an  *)
(* MGC only becomes active once it has accepted this registration.         *)
(***************************************************************************)
EXTENDS H248Registration, TLAPS

Loops == [at : {"register", "send", "wait", "pause", "activate", "ready",
                "active", "lost"},
          startIndex : 0..N-1, offset : 0..N-1, term : Terminations,
          attempt : 1..MaxAttempts, tid : TIDs \cup {Nil}]

\* Where a ServiceChange is out, or its acceptance is being carried out.
InTransaction == loop.at \in {"send", "wait", "activate", "ready"}

\* The Transaction the loop is in is its own, and its candidate is the MGC that
\* is let through, from the registration until the loss.
Current ==
  /\ InTransaction =>
       /\ loop.tid \in TIDs /\ serviceChangeRemote = Candidate
       /\ loop.term = "ROOT" => rootTID = loop.tid
  /\ loop.at \in {"register", "send", "wait", "pause", "activate"} => activeMGC = Nil
  /\ loop.at \in {"ready", "active", "lost"} => activeMGC = Candidate
  /\ loop.at \in {"active", "lost"} => serviceChangeRemote = Nil
  /\ loop.at \in {"activate", "ready", "active", "lost"} => loop.term = "line"

----------------------------------------------------------------------------
(* Helpers *)

LEMMA NType == N \in Nat \ {0} /\ MaxAttempts \in Nat \ {0} /\ ChannelCap \in Nat \ {0}
               /\ Nil \notin TIDs /\ Nil \notin MGCs
BY H248RegistrationAssumption

LEMMA Modulo == \A a \in Nat : a % N \in 0..N-1
BY NType

LEMMA CandidateType ==
  ASSUME loop \in Loops
  PROVE  Candidate \in MGCs /\ Candidate # Nil
<1>1. loop.startIndex + loop.offset \in Nat BY NType DEF Loops
<1>2. (loop.startIndex + loop.offset) % N \in 0..N-1 BY <1>1, Modulo
<1>3. ((loop.startIndex + loop.offset) % N) + 1 \in 1..N
  BY <1>2, NType
<1> QED BY <1>3, NType DEF Candidate, MGCs

LEMMA LoopInit == Init => loop \in Loops
BY NType DEF Init, Loops, Terminations

\* The loop after a failure or a success.
LEMMA LoopOutcomes ==
  ASSUME loop \in Loops
  PROVE  /\ CandidateFailed \in Loops /\ CandidateFailed.at \in {"register", "pause"}
         /\ CandidateFailed.at = "register" => CandidateFailed.term = "ROOT"
         /\ AttemptFailed \in Loops
         /\ \/ AttemptFailed = CandidateFailed
            \/ AttemptFailed = [loop EXCEPT !.at = "send", !.attempt = loop.attempt + 1]
         /\ Accepted \in Loops
         /\ AfterPause \in Loops
<1>0. /\ 0 \in 0..N-1
      /\ loop.offset + 1 < N => loop.offset + 1 \in 0..N-1
      /\ loop.attempt < MaxAttempts => loop.attempt + 1 \in 1..MaxAttempts
  BY NType DEF Loops
<1>1. CandidateFailed \in Loops BY <1>0 DEF Loops, CandidateFailed, Terminations
<1>2. CandidateFailed.at \in {"register", "pause"} BY DEF Loops, CandidateFailed
<1>3. CandidateFailed.at = "register" => CandidateFailed.term = "ROOT"
  BY DEF Loops, CandidateFailed
<1>4. [loop EXCEPT !.at = "send", !.attempt = loop.attempt + 1] \in Loops
        \/ ~ (loop.attempt < MaxAttempts)
  BY <1>0 DEF Loops
<1>5. AttemptFailed \in Loops BY <1>1, <1>4 DEF AttemptFailed
<1>6. Accepted \in Loops BY DEF Loops, Accepted, Terminations
<1>7. AfterPause \in Loops BY <1>0 DEF Loops, AfterPause, Terminations
<1> QED BY <1>1, <1>2, <1>3, <1>5, <1>6, <1>7 DEF AttemptFailed

----------------------------------------------------------------------------
(* The loop and what is let through *)

LInv == loop \in Loops /\ Current

LEMMA LInit == Init => LInv
BY LoopInit DEF Init, LInv, Current, InTransaction

LEMMA LRegisterTermination ==
  ASSUME LInv, RegisterTermination
  PROVE  LInv'
<1>1. (CHOOSE tid \in TIDs : ~ InUse(tid)) \in TIDs BY DEF RegisterTermination
<1>2. loop' \in Loops
  <2>1. 1 \in 1..MaxAttempts BY NType
  <2> QED BY <1>1, <2>1 DEF LInv, Loops, RegisterTermination
<1>3. loop'.at = "send" /\ Candidate' = Candidate /\ loop'.term = loop.term
  BY DEF LInv, Loops, RegisterTermination, Candidate
<1> QED BY <1>1, <1>2, <1>3 DEF LInv, Loops, Current, InTransaction, RegisterTermination

LEMMA LTakeReply ==
  ASSUME LInv, TakeReply \/ RetryTimeout
  PROVE  LInv'
<1>1. loop' \in {AttemptFailed, Accepted, CandidateFailed} /\ loop.at = "wait"
  BY DEF TakeReply, RetryTimeout
<1>2. UNCHANGED <<serviceChangeRemote, activeMGC, rootTID>>
  BY DEF TakeReply, RetryTimeout, serverVars
<1>3. loop' \in Loops BY <1>1, LoopOutcomes DEF LInv
<1>4. CASE loop' = CandidateFailed
  BY <1>1, <1>2, <1>3, <1>4, LoopOutcomes DEF LInv, Current, InTransaction
<1>5. CASE loop' = [loop EXCEPT !.at = "send", !.attempt = loop.attempt + 1]
  <2>1. Candidate' = Candidate /\ loop'.at = "send" /\ loop'.tid = loop.tid
        /\ loop'.term = loop.term
    BY <1>5 DEF LInv, Loops, Candidate
  <2> QED BY <1>1, <1>2, <1>3, <2>1 DEF LInv, Current, InTransaction
<1>6. CASE loop' = Accepted
  <2>1. /\ Candidate' = Candidate /\ loop'.tid = loop.tid
        /\ \/ loop'.at = "register"
           \/ loop'.at = "activate" /\ loop'.term = "line" /\ loop.term = "line"
    BY <1>6 DEF LInv, Loops, Candidate, Accepted, Terminations
  <2> QED BY <1>1, <1>2, <1>3, <2>1 DEF LInv, Current, InTransaction
<1> QED BY <1>1, <1>4, <1>5, <1>6, LoopOutcomes DEF LInv

LEMMA LLoop ==
  ASSUME LInv, Loop \/ MGCFailure
  PROVE  LInv'
<1>1. CASE SendServiceChange
  <2>1. loop' \in Loops /\ Candidate' = Candidate /\ loop'.at = "wait"
        /\ loop'.tid = loop.tid /\ loop'.term = loop.term
    BY <1>1 DEF LInv, Loops, Candidate, SendServiceChange
  <2> QED BY <1>1, <2>1 DEF LInv, Current, InTransaction, SendServiceChange, serverVars
<1>2. CASE PauseEnds
  <2>1. loop' \in Loops /\ loop'.at = "register"
    <3>1. loop' = AfterPause /\ AfterPause \in Loops BY <1>2, LoopOutcomes DEF LInv, PauseEnds
    <3>2. AfterPause.at = "register" BY DEF LInv, Loops, AfterPause
    <3> QED BY <3>1, <3>2
  <2> QED BY <1>2, <2>1 DEF LInv, Current, InTransaction, PauseEnds, serverVars
<1>3. CASE SetActiveMGC
  <2>1. loop' \in Loops /\ Candidate' = Candidate /\ loop'.at = "ready"
        /\ loop'.tid = loop.tid /\ loop'.term = loop.term
    BY <1>3 DEF LInv, Loops, Candidate, SetActiveMGC
  <2> QED BY <1>3, <2>1 DEF LInv, Current, InTransaction, SetActiveMGC
<1>4. CASE Ready
  <2>1. loop' \in Loops /\ Candidate' = Candidate /\ loop'.at = "active"
        /\ loop'.term = loop.term
    BY <1>4 DEF LInv, Loops, Candidate, Ready
  <2> QED BY <1>4, <2>1 DEF LInv, Current, InTransaction, Ready
<1>5. CASE MGCFailure
  <2>1. loop' \in Loops /\ Candidate' = Candidate /\ loop'.at = "lost"
        /\ loop'.term = loop.term
    BY <1>5 DEF LInv, Loops, Candidate, MGCFailure
  <2> QED BY <1>5, <2>1 DEF LInv, Current, InTransaction, MGCFailure, serverVars
<1>6. CASE Unavailable
  <2>1. NextIndex \in 0..N-1
    <3>1. loop.startIndex + loop.offset + 1 \in Nat BY NType DEF LInv, Loops
    <3> QED BY <3>1, Modulo DEF NextIndex
  <2>2. loop' \in Loops /\ loop'.at = "register"
    <3>1. 0 \in 0..N-1 BY NType
    <3>2. loop' = [loop EXCEPT !.at = "register", !.term = "ROOT",
                               !.startIndex = NextIndex, !.offset = 0]
      BY <1>6 DEF Unavailable
    <3> QED BY <2>1, <3>1, <3>2 DEF LInv, Loops, Terminations
  <2> QED BY <1>6, <2>2 DEF LInv, Current, InTransaction, Unavailable
<1> QED BY <1>1, <1>2, <1>3, <1>4, <1>5, <1>6, LRegisterTermination, LTakeReply DEF Loop

\* Everybody else leaves the loop and the two addresses alone.
Elsewhere ==
  \/ \E g \in Goroutines : ReceiveReply(g) \/ Handle(g)
  \/ Answer \/ Lose \/ Traffic \/ TimePasses \/ GoDown

LEMMA ElsewhereFrame ==
  ASSUME Elsewhere \/ UNCHANGED vars
  PROVE  UNCHANGED <<loop, serviceChangeTID, serviceChangeRemote, activeMGC, rootTID>>
BY DEF Elsewhere, Handle, ReceiveReply, NoteMGCActivity, MatchReply, PushReply, Answer,
       Lose, Traffic, TimePasses, GoDown, vars, serverVars, netVars

LEMMA LNext == LInv /\ [Next]_vars => LInv'
<1> SUFFICES ASSUME LInv, [Next]_vars PROVE LInv' OBVIOUS
<1>1. CASE Loop \/ MGCFailure BY <1>1, LLoop
<1>2. CASE Elsewhere \/ UNCHANGED vars
  BY <1>2, ElsewhereFrame DEF LInv, Current, InTransaction, Candidate
<1> QED BY <1>1, <1>2 DEF Next, Elsewhere

----------------------------------------------------------------------------
(* The service *)

LEMMA ServiceStep ==
  ASSUME LInv, LInv', [Next]_vars
  PROVE  [Service!Next]_(Service!vars)
<1> USE DEF Service!Next, Service!Try, Service!Serve, Service!Lose, Service!vars
<1>1. Candidate \in MGCs /\ Candidate # Nil BY CandidateType DEF LInv
<1>2. CASE RegisterTermination
  <2>1. ExpectedMGC' = Candidate
    BY <1>2 DEF LInv, Current, ExpectedMGC, RegisterTermination
  <2>2. loop.at = "register" /\ loop'.at = "send"
    BY <1>2 DEF LInv, Loops, RegisterTermination
  <2> QED BY <1>1, <2>1, <2>2
<1>3. CASE SetActiveMGC
  <2>1. ExpectedMGC' = Candidate /\ ExpectedMGC = Candidate
    BY <1>1, <1>3 DEF LInv, Current, InTransaction, ExpectedMGC, SetActiveMGC
  <2>2. loop.at = "activate" /\ loop'.at = "ready" BY <1>3 DEF LInv, Loops, SetActiveMGC
  <2> QED BY <2>1, <2>2
<1>4. CASE Ready
  <2>1. ExpectedMGC' = Candidate /\ ExpectedMGC = Candidate
    BY <1>1, <1>4 DEF LInv, Current, ExpectedMGC, Ready
  <2>2. loop.at = "ready" /\ loop'.at = "active" BY <1>4 DEF LInv, Loops, Ready
  <2> QED BY <1>1, <2>1, <2>2
<1>5. CASE Unavailable
  <2>1. ExpectedMGC' = Nil
    BY <1>1, <1>5 DEF LInv, Current, ExpectedMGC, Unavailable
  <2>2. loop.at = "lost" /\ loop'.at = "register" BY <1>5 DEF LInv, Loops, Unavailable
  <2> QED BY <2>1, <2>2
<1>6. CASE SendServiceChange \/ TakeReply \/ RetryTimeout \/ PauseEnds \/ MGCFailure
  <2>1. UNCHANGED ExpectedMGC
    BY <1>6 DEF SendServiceChange, TakeReply, RetryTimeout, PauseEnds, MGCFailure,
                serverVars, ExpectedMGC
  <2>2. (loop.at \in {"active", "lost"}) = (loop'.at \in {"active", "lost"})
    <3>1. CASE TakeReply \/ RetryTimeout
      <4>1. loop.at = "wait" /\ loop' \in {AttemptFailed, Accepted, CandidateFailed}
        BY <3>1 DEF TakeReply, RetryTimeout
      <4>2. AttemptFailed.at \notin {"active", "lost"} /\ CandidateFailed.at \notin {"active", "lost"}
        BY LoopOutcomes DEF LInv, Loops
      <4>3. Accepted.at \notin {"active", "lost"} BY DEF LInv, Loops, Accepted
      <4> QED BY <4>1, <4>2, <4>3
    <3>2. CASE SendServiceChange \/ PauseEnds \/ MGCFailure
      <4>1. CASE SendServiceChange BY <4>1 DEF LInv, Loops, SendServiceChange
      <4>2. CASE PauseEnds BY <4>2 DEF LInv, Loops, PauseEnds, AfterPause
      <4>3. CASE MGCFailure BY <4>3 DEF LInv, Loops, MGCFailure
      <4> QED BY <3>2, <4>1, <4>2, <4>3
    <3> QED BY <1>6, <3>1, <3>2
  <2> QED BY <2>1, <2>2
<1>7. CASE Elsewhere \/ UNCHANGED vars
  BY <1>7, ElsewhereFrame DEF ExpectedMGC
<1> QED BY <1>2, <1>3, <1>4, <1>5, <1>6, <1>7 DEF Next, Loop, Elsewhere

\* registrationLoop with its handlers implements the service the bridge is
\* modelled on, for any number of MGCs and whatever the network does.
THEOREM RegistrationImplementsService == Spec => ImplementsService
<1>1. Init => Service!Init BY DEF Init, Service!Init, ExpectedMGC
<1> QED BY <1>1, LInit, LNext, ServiceStep, PTL DEF Spec, ImplementsService, Service!Spec

----------------------------------------------------------------------------
(* Types *)

LEMMA TypeInit == Init => TypeOK
<1> SUFFICES ASSUME Init PROVE TypeOK OBVIOUS
<1>1. loop \in Loops BY LoopInit
<1>2. <<>> \in Seq(Result) /\ Len(<<>>) <= ChannelCap
  <2>1. <<>> \in Seq(Result) /\ Len(<<>>) = 0 BY SMT
  <2> QED BY <2>1, NType
<1>3. handlers \in [Goroutines -> {IdleHandler} \cup [at : {"note", "match", "push"}, reply : Reply]]
  BY DEF Init
<1> QED BY <1>1, <1>2, <1>3 DEF Init, TypeOK, Loops

LEMMA LoopTypes ==
  ASSUME TypeOK, LInv, LInv', Loop \/ MGCFailure
  PROVE  TypeOK'
<1>1. Candidate \in MGCs BY CandidateType DEF LInv
<1>2. loop' \in Loops /\ loop \in Loops BY DEF LInv
<1>3. CASE RegisterTermination
  BY <1>1, <1>2, <1>3 DEF TypeOK, Loops, RegisterTermination
<1>4. CASE SendServiceChange
  <2>1. [tid |-> loop.tid, to |-> Candidate, term |-> loop.term] \in Request
    BY <1>1, <1>2, <1>4 DEF LInv, Current, InTransaction, Loops, Request, SendServiceChange
  <2> QED BY <1>2, <1>4, <2>1 DEF TypeOK, Loops, SendServiceChange, serverVars
<1>5. CASE TakeReply
  <2>1. Tail(serviceChangeReply) \in Seq(Result)
        /\ Len(Tail(serviceChangeReply)) = Len(serviceChangeReply) - 1
    BY <1>5 DEF TypeOK, TakeReply
  <2>2. Len(Tail(serviceChangeReply)) <= ChannelCap
    BY <2>1, NType DEF TypeOK
  <2> QED BY <1>2, <1>5, <2>1, <2>2 DEF TypeOK, Loops, TakeReply, serverVars, netVars
<1>6. CASE RetryTimeout \/ PauseEnds \/ MGCFailure
  BY <1>2, <1>6 DEF TypeOK, Loops, RetryTimeout, PauseEnds, MGCFailure, serverVars, netVars
<1>7. CASE SetActiveMGC \/ Ready \/ Unavailable
  BY <1>1, <1>2, <1>7 DEF TypeOK, Loops, SetActiveMGC, Ready, Unavailable, netVars
<1> QED BY <1>3, <1>4, <1>5, <1>6, <1>7 DEF Loop

LEMMA HandlerTypes ==
  ASSUME TypeOK, NEW g \in Goroutines, ReceiveReply(g) \/ Handle(g)
  PROVE  TypeOK'
<1>1. CASE ReceiveReply(g)
  BY <1>1 DEF TypeOK, ReceiveReply, serverVars
<1>2. CASE NoteMGCActivity(g)
  BY <1>2 DEF TypeOK, NoteMGCActivity, SilentAfter, netVars, IdleHandler
<1>3. CASE MatchReply(g)
  BY <1>3 DEF TypeOK, MatchReply, serverVars, netVars, IdleHandler
<1>4. CASE PushReply(g)
  <2>1. handlers[g].reply \in Reply BY <1>4 DEF TypeOK, PushReply, IdleHandler
  <2>2. [tid |-> handlers[g].reply.tid, accepted |-> handlers[g].reply.accepted] \in Result
    BY <2>1 DEF Reply, Result
  <2>3. serviceChangeReply' \in Seq(Result) /\ Len(serviceChangeReply') <= ChannelCap
    BY <1>4, <2>2, NType DEF TypeOK, PushReply
  <2> QED BY <1>4, <2>3 DEF TypeOK, PushReply, serverVars, netVars
<1> QED BY <1>1, <1>2, <1>3, <1>4 DEF Handle

LEMMA OutsideTypes ==
  ASSUME TypeOK, Answer \/ Lose \/ Traffic \/ TimePasses \/ GoDown \/ UNCHANGED vars
  PROVE  TypeOK'
<1>1. CASE Answer BY <1>1 DEF TypeOK, Answer, serverVars, Reply, Request
<1>2. CASE Lose BY <1>2 DEF TypeOK, Lose, serverVars
<1>3. CASE Traffic \/ TimePasses \/ GoDown
  BY <1>3 DEF TypeOK, Traffic, TimePasses, GoDown, SilentAfter, serverVars, netVars
<1>4. CASE UNCHANGED vars BY <1>4 DEF TypeOK, vars, serverVars, netVars
<1> QED BY <1>1, <1>2, <1>3, <1>4

LEMMA TypeNext == TypeOK /\ LInv /\ LInv' /\ [Next]_vars => TypeOK'
BY LoopTypes, HandlerTypes, OutsideTypes DEF Next

\* Every variable of server.go the registration touches keeps its type.
THEOREM TypesKept == Spec => []TypeOK
BY TypeInit, TypeNext, LInit, LNext, PTL DEF Spec

----------------------------------------------------------------------------
(* Acceptances *)

\* An MGC's acceptance of the Transaction is on its way, in the hands of a
\* goroutine, or in the channel.
AcceptanceOf(tid) ==
  \/ \E r \in replies : r.tid = tid /\ r.accepted
  \/ \E g \in Goroutines :
       handlers[g].at # "idle" /\ handlers[g].reply.tid = tid /\ handlers[g].reply.accepted
  \/ \E i \in DOMAIN serviceChangeReply :
       serviceChangeReply[i].tid = tid /\ serviceChangeReply[i].accepted

Transaction == [tid |-> loop.tid, to |-> Candidate, term |-> loop.term]
RootTransaction == [tid |-> rootTID, to |-> Candidate, term |-> "ROOT"]

\* Nothing but the loop's own ServiceChange bears its Transaction ID, an
\* acceptance that bears it was given, and what the loop has passed was accepted.
Confirmed ==
  /\ loop.at \in {"send", "wait"} => \A r \in requests : r.tid = loop.tid => r = Transaction
  /\ loop.at \in {"send", "wait"} /\ AcceptanceOf(loop.tid) => Transaction \in granted
  /\ loop.at \in {"activate", "ready", "active"} => Transaction \in granted
  /\ loop.term = "line" /\ loop.at # "pause" => RootTransaction \in granted

KInv == TypeOK /\ LInv /\ Confirmed

\* Only an answer of an MGC makes an acceptance.
LEMMA HandlersMakeNone ==
  ASSUME TypeOK, NEW g \in Goroutines, ReceiveReply(g) \/ Handle(g),
         NEW tid, AcceptanceOf(tid)'
  PROVE  AcceptanceOf(tid)
<1>1. CASE ReceiveReply(g)
  BY <1>1 DEF TypeOK, ReceiveReply, AcceptanceOf, IdleHandler
<1>2. CASE NoteMGCActivity(g)
  BY <1>2 DEF TypeOK, NoteMGCActivity, AcceptanceOf, IdleHandler, netVars
<1>3. CASE MatchReply(g)
  BY <1>3 DEF TypeOK, MatchReply, AcceptanceOf, IdleHandler, netVars
<1>4. CASE PushReply(g)
  <2>1. handlers[g].reply \in Reply BY <1>4 DEF TypeOK, PushReply, IdleHandler
  <2>2. ASSUME NEW i \in DOMAIN serviceChangeReply',
               serviceChangeReply'[i].tid = tid, serviceChangeReply'[i].accepted
        PROVE  AcceptanceOf(tid)
    <3>1. CASE Len(serviceChangeReply) < ChannelCap
      <4>1. serviceChangeReply' = Append(serviceChangeReply,
              [tid |-> handlers[g].reply.tid, accepted |-> handlers[g].reply.accepted])
        BY <1>4, <3>1 DEF PushReply
      <4>2. CASE i \in DOMAIN serviceChangeReply
        BY <2>2, <4>1, <4>2 DEF TypeOK, AcceptanceOf
      <4>3. CASE i = Len(serviceChangeReply) + 1
        BY <1>4, <2>1, <2>2, <4>1, <4>3 DEF TypeOK, AcceptanceOf, PushReply
      <4> QED BY <2>2, <4>1, <4>2, <4>3 DEF TypeOK
    <3>2. CASE ~ (Len(serviceChangeReply) < ChannelCap)
      BY <1>4, <2>2, <3>2 DEF AcceptanceOf, PushReply
    <3> QED BY <3>1, <3>2
  <2> QED BY <1>4, <2>2 DEF TypeOK, PushReply, AcceptanceOf, IdleHandler, netVars
<1> QED BY <1>1, <1>2, <1>3, <1>4 DEF Handle

LEMMA LoopMakesNone ==
  ASSUME TypeOK, Loop \/ MGCFailure, NEW tid, AcceptanceOf(tid)'
  PROVE  AcceptanceOf(tid)
<1>1. CASE TakeReply
  <2>1. ASSUME NEW i \in DOMAIN serviceChangeReply'
        PROVE  i + 1 \in DOMAIN serviceChangeReply
               /\ serviceChangeReply'[i] = serviceChangeReply[i + 1]
    BY <1>1, <2>1 DEF TypeOK, TakeReply
  <2> QED BY <1>1, <2>1 DEF TakeReply, AcceptanceOf, netVars
<1>2. CASE RegisterTermination \/ SendServiceChange \/ RetryTimeout \/ PauseEnds
           \/ SetActiveMGC \/ Ready \/ MGCFailure \/ Unavailable
  BY <1>2 DEF RegisterTermination, SendServiceChange, RetryTimeout, PauseEnds,
              SetActiveMGC, Ready, MGCFailure, Unavailable, AcceptanceOf, netVars
<1> QED BY <1>1, <1>2 DEF Loop

LEMMA ConfirmedRegisterTermination ==
  ASSUME KInv, RegisterTermination
  PROVE  Confirmed'
<1>1. PICK tid \in TIDs : ~ InUse(tid) /\ loop'.tid = tid
  BY DEF RegisterTermination, KInv, LInv, Loops
<1>2. loop'.at = "send" /\ Candidate' = Candidate /\ loop'.term = loop.term
  BY DEF KInv, LInv, Loops, RegisterTermination, Candidate
<1>3. \A r \in requests' : r.tid # loop'.tid
  BY <1>1 DEF InUse, RegisterTermination
<1>4. ~ AcceptanceOf(loop'.tid) BY <1>1 DEF InUse, AcceptanceOf
<1>5. ~ AcceptanceOf(loop.tid)'
  BY <1>4 DEF AcceptanceOf, RegisterTermination
<1>6. loop.term = "line" => RootTransaction' \in granted'
  <2>1. ASSUME loop.term = "line" PROVE RootTransaction \in granted /\ RootTransaction' = RootTransaction
    BY <1>2, <2>1 DEF KInv, Confirmed, RegisterTermination, RootTransaction
  <2> QED BY <2>1 DEF RegisterTermination, RootTransaction
<1> QED BY <1>2, <1>3, <1>5, <1>6 DEF Confirmed

\* A result from the channel, or none in time.
LEMMA ConfirmedTakeReply ==
  ASSUME KInv, TakeReply \/ RetryTimeout
  PROVE  Confirmed'
<1>1. /\ loop.at = "wait" /\ loop \in Loops
      /\ UNCHANGED <<requests, granted, rootTID>>
  BY DEF TakeReply, RetryTimeout, serverVars, netVars, KInv, LInv
<1>2. AcceptanceOf(loop.tid)' => AcceptanceOf(loop'.tid)
  <2>1. ASSUME NEW tid, AcceptanceOf(tid)' PROVE AcceptanceOf(tid)
    BY <2>1, LoopMakesNone DEF Loop, KInv
  <2> QED BY <2>1 DEF AcceptanceOf
<1>3. CASE loop' = CandidateFailed
  <2>1. loop'.at = "pause" \/ (loop'.at = "register" /\ loop'.term = "ROOT")
    BY <1>1, <1>3, LoopOutcomes
  <2> QED BY <2>1 DEF Confirmed
<1>4. CASE loop' = [loop EXCEPT !.at = "send", !.attempt = loop.attempt + 1]
  <2>1. /\ loop'.at = "send" /\ loop'.tid = loop.tid /\ loop'.term = loop.term
        /\ Candidate' = Candidate
    BY <1>1, <1>4 DEF Loops, Candidate
  <2> QED BY <1>1, <1>2, <2>1 DEF KInv, Confirmed, Transaction, RootTransaction
<1>5. CASE loop' = Accepted /\ TakeReply /\ serviceChangeReply # <<>>
            /\ Awaited(Head(serviceChangeReply)) /\ Head(serviceChangeReply).accepted
  <2>1. AcceptanceOf(loop.tid)
    <3>1. 1 \in DOMAIN serviceChangeReply /\ Head(serviceChangeReply) = serviceChangeReply[1]
      BY <1>5 DEF KInv, TypeOK
    <3> QED BY <1>5, <3>1 DEF AcceptanceOf, Awaited
  <2>2. Transaction \in granted BY <1>1, <2>1 DEF KInv, Confirmed
  <2>3. loop'.tid = loop.tid /\ Candidate' = Candidate
    BY <1>1, <1>5 DEF Loops, Accepted, Candidate
  <2>4. CASE loop.term = "ROOT"
    <3>1. loop'.at = "register" /\ loop'.term = "line" BY <1>1, <1>5, <2>4 DEF Loops, Accepted
    <3>2. RootTransaction = Transaction
      BY <1>1, <2>4 DEF KInv, LInv, Current, InTransaction, RootTransaction, Transaction
    <3> QED BY <1>1, <2>2, <2>3, <3>1, <3>2 DEF Confirmed, RootTransaction
  <2>5. CASE loop.term = "line"
    <3>1. loop'.at = "activate" /\ loop'.term = "line" BY <1>1, <1>5, <2>5 DEF Loops, Accepted
    <3>2. Transaction' = Transaction /\ RootTransaction' = RootTransaction
      BY <1>1, <2>3, <2>5, <3>1 DEF Transaction, RootTransaction
    <3> QED BY <1>1, <2>2, <2>5, <3>1, <3>2 DEF KInv, Confirmed
  <2> QED BY <1>1, <2>4, <2>5 DEF Loops, Terminations
<1>6. loop' \in {AttemptFailed, CandidateFailed}
      \/ (loop' = Accepted /\ TakeReply /\ serviceChangeReply # <<>>
            /\ Awaited(Head(serviceChangeReply)) /\ Head(serviceChangeReply).accepted)
  BY DEF TakeReply, RetryTimeout
<1> QED BY <1>1, <1>3, <1>4, <1>5, <1>6, LoopOutcomes

LEMMA ConfirmedLoop ==
  ASSUME KInv, Loop \/ MGCFailure
  PROVE  Confirmed'
<1>0. loop \in Loops BY DEF KInv, LInv
<1>1. CASE SendServiceChange
  <2>1. /\ loop'.at = "wait" /\ loop'.tid = loop.tid /\ loop'.term = loop.term
        /\ Candidate' = Candidate /\ loop.at = "send"
    BY <1>0, <1>1 DEF Loops, SendServiceChange, Candidate
  <2>2. Transaction' = Transaction /\ RootTransaction' = RootTransaction /\ granted' = granted
    BY <1>1, <2>1 DEF Transaction, RootTransaction, SendServiceChange
  <2>3. requests' \subseteq requests \cup {Transaction}
    BY <1>1 DEF SendServiceChange, Transaction
  <2>4. AcceptanceOf(loop.tid)' => AcceptanceOf(loop.tid)
    BY <1>1, <2>1 DEF SendServiceChange, AcceptanceOf
  <2> QED BY <2>1, <2>2, <2>3, <2>4 DEF KInv, Confirmed
<1>2. CASE PauseEnds
  <2>1. loop'.at = "register" /\ loop'.term = "ROOT"
    BY <1>0, <1>2 DEF Loops, PauseEnds, AfterPause
  <2> QED BY <2>1 DEF Confirmed
<1>3. CASE SetActiveMGC \/ Ready \/ MGCFailure
  <2>1. /\ loop'.tid = loop.tid /\ loop'.term = loop.term /\ Candidate' = Candidate
        /\ \/ loop.at = "activate" /\ loop'.at = "ready"
           \/ loop.at = "ready" /\ loop'.at = "active"
           \/ loop.at = "active" /\ loop'.at = "lost"
    BY <1>0, <1>3 DEF Loops, SetActiveMGC, Ready, MGCFailure, Candidate
  <2>2. UNCHANGED <<granted, rootTID>>
    BY <1>3 DEF SetActiveMGC, Ready, MGCFailure, netVars
  <2>3. Transaction' = Transaction /\ RootTransaction' = RootTransaction
    BY <2>1, <2>2 DEF Transaction, RootTransaction
  <2> QED BY <2>1, <2>2, <2>3 DEF KInv, Confirmed
<1>4. CASE Unavailable
  <2>1. loop'.at = "register" /\ loop'.term = "ROOT" BY <1>0, <1>4 DEF Loops, Unavailable
  <2> QED BY <2>1 DEF Confirmed
<1> QED BY <1>1, <1>2, <1>3, <1>4, ConfirmedRegisterTermination, ConfirmedTakeReply DEF Loop

\* What the MGC, the network and the goroutines do.
LEMMA ConfirmedElsewhere ==
  ASSUME KInv, Elsewhere \/ UNCHANGED vars
  PROVE  Confirmed'
<1>1. UNCHANGED <<loop, rootTID, Candidate, Transaction, RootTransaction>>
  BY ElsewhereFrame DEF Candidate, Transaction, RootTransaction
<1>2. CASE Answer
  <2>1. PICK r \in requests, ok \in BOOLEAN :
          /\ replies' = replies \cup {[tid |-> r.tid, from |-> r.to, accepted |-> ok]}
          /\ requests' = requests \ {r}
          /\ granted' = IF ok /\ r.tid \in {rootTID, loop.tid}
                        THEN granted \cup {r} ELSE granted
    BY <1>2 DEF Answer
  <2>2. AcceptanceOf(loop.tid)' => AcceptanceOf(loop.tid) \/ (ok /\ r.tid = loop.tid)
    BY <1>1, <1>2, <2>1 DEF AcceptanceOf, Answer
  <2>3. granted \subseteq granted' BY <2>1
  <2> QED BY <1>1, <2>1, <2>2, <2>3 DEF KInv, Confirmed
<1>3. ASSUME NEW g \in Goroutines, ReceiveReply(g) \/ Handle(g) PROVE Confirmed'
  <2>1. AcceptanceOf(loop.tid)' => AcceptanceOf(loop.tid)
    <3>1. ASSUME NEW tid, AcceptanceOf(tid)' PROVE AcceptanceOf(tid)
      BY <1>3, <3>1, HandlersMakeNone DEF KInv
    <3> QED BY <1>1, <3>1 DEF AcceptanceOf
  <2>2. UNCHANGED <<requests, granted>>
    BY <1>3 DEF Handle, ReceiveReply, NoteMGCActivity, MatchReply, PushReply, netVars
  <2> QED BY <1>1, <2>1, <2>2 DEF KInv, Confirmed
<1>4. CASE Lose \/ Traffic \/ TimePasses \/ GoDown \/ UNCHANGED vars
  <2>1. requests' \subseteq requests /\ replies' \subseteq replies
        /\ UNCHANGED <<granted, handlers, serviceChangeReply>>
    BY <1>4 DEF Lose, Traffic, TimePasses, GoDown, vars, netVars
  <2>2. AcceptanceOf(loop.tid)' => AcceptanceOf(loop.tid)
    BY <1>1, <2>1 DEF AcceptanceOf
  <2> QED BY <1>1, <2>1, <2>2 DEF KInv, Confirmed
<1> QED BY <1>2, <1>3, <1>4 DEF Elsewhere

LEMMA KInit == Init => KInv
BY TypeInit, LInit DEF Init, KInv, Confirmed

LEMMA KNext == KInv /\ [Next]_vars => KInv'
<1> SUFFICES ASSUME KInv, [Next]_vars PROVE KInv' OBVIOUS
<1>1. LInv' /\ TypeOK' BY LNext, TypeNext DEF KInv
<1>2. Confirmed' BY ConfirmedLoop, ConfirmedElsewhere DEF Next, Elsewhere
<1> QED BY <1>1, <1>2 DEF KInv

LEMMA KConfirms == KInv => ReadyConfirmed
<1> SUFFICES ASSUME KInv, loop.at \in {"activate", "ready", "active"}, NEW term \in Terminations
             PROVE  [tid |-> IF term = "ROOT" THEN rootTID ELSE loop.tid,
                     to |-> Candidate, term |-> term] \in granted
  BY DEF ReadyConfirmed
<1>1. loop.term = "line" BY DEF KInv, LInv, Current, Loops, Terminations
<1> QED BY <1>1 DEF KInv, Confirmed, Transaction, RootTransaction, Terminations

\* serviceChangeLoop: an MGC becomes the active one only once it has accepted
\* the ServiceChange of ROOT and of the line of this very registration, however
\* late and in whatever order the Replies of earlier attempts come.
THEOREM ActiveMGCAccepted == Spec => []ReadyConfirmed
BY KInit, KNext, KConfirms, PTL DEF Spec

----------------------------------------------------------------------------
(* Failover *)

\* The configuration names no MGC twice.
DistinctRemotes == \A i, j \in 1..N : Remotes[i] = Remotes[j] => i = j

LEMMA NextDiffers == \A a \in Nat : N > 1 => ((a + 1) % N) # (a % N)
<1> SUFFICES ASSUME NEW a \in Nat, N > 1, ((a + 1) % N) = (a % N) PROVE FALSE BY NType
<1>1. /\ a = N * (a \div N) + (a % N)
      /\ a + 1 = N * ((a + 1) \div N) + ((a + 1) % N)
  BY NType, SMTT(20)
<1>2. a \div N \in Int /\ (a + 1) \div N \in Int /\ a % N \in Int /\ (a + 1) % N \in Int
  BY NType, SMTT(20)
<1>3. N * ((a + 1) \div N - (a \div N)) = 1 BY <1>1, <1>2, NType, SMTT(20)
<1>4. \A k \in Int : N * k # 1
  <2> SUFFICES ASSUME NEW k \in Int, N * k = 1 PROVE FALSE OBVIOUS
  <2>1. CASE k <= 0
    <3>1. N * k <= 0 BY NType, <2>1, SMTT(20)
    <3> QED BY <3>1
  <2>2. CASE k >= 1
    <3>1. N * k >= N BY NType, <2>2, SMTT(20)
    <3> QED BY <3>1, NType
  <2> QED BY <2>1, <2>2
<1> QED BY <1>2, <1>3, <1>4

LEMMA LossTriesAnother ==
  ASSUME DistinctRemotes, LInv, Unavailable, N > 1
  PROVE  Candidate' # Candidate
<1> DEFINE a == loop.startIndex + loop.offset
<1>1. loop \in Loops /\ a \in Nat BY NType DEF LInv, Loops
<1>2. (a + 1) % N \in 0..N-1 /\ a % N \in 0..N-1 BY <1>1, Modulo
<1>3. ((a + 1) % N) # (a % N) BY <1>1, NextDiffers
<1>4. loop'.startIndex = (a + 1) % N /\ loop'.offset = 0
  BY <1>1 DEF Unavailable, NextIndex, Loops
<1> HIDE DEF a
<1>5. \A i \in 0..N-1 : i % N = i BY NType, SMTT(20)
<1>6. (loop'.startIndex + loop'.offset) % N = (a + 1) % N BY <1>2, <1>4, <1>5
<1>7. Candidate' = Remotes[((a + 1) % N) + 1] BY <1>6 DEF Candidate
<1>8. Candidate = Remotes[(a % N) + 1] BY DEF Candidate, a
<1>9. ((a + 1) % N) + 1 \in 1..N /\ (a % N) + 1 \in 1..N /\ ((a + 1) % N) + 1 # (a % N) + 1
  BY <1>2, <1>3, NType
<1> QED BY <1>7, <1>8, <1>9 DEF DistinctRemotes

LEMMA OnlyLossRestarts ==
  ASSUME LInv, [Next]_vars, loop.at = "lost", loop'.at = "register"
  PROVE  Unavailable
<1>1. CASE Elsewhere \/ UNCHANGED vars BY <1>1, ElsewhereFrame
<1>2. ~ (RegisterTermination \/ SendServiceChange \/ TakeReply \/ RetryTimeout \/ PauseEnds
         \/ SetActiveMGC \/ Ready \/ MGCFailure)
  BY DEF RegisterTermination, SendServiceChange, TakeReply, RetryTimeout, PauseEnds,
         SetActiveMGC, Ready, MGCFailure
<1> QED BY <1>1, <1>2 DEF Next, Loop, Elsewhere

\* registrationLoop: when the configuration names its MGCs once each, the
\* first one tried after a loss is another than the lost one.
THEOREM LossFailsOver ==
  ASSUME DistinctRemotes
  PROVE  Spec => FailsOver
<1>1. ASSUME LInv, [Next]_vars
      PROVE  [loop.at = "lost" /\ loop'.at = "register" /\ N > 1 => Candidate' # Candidate]_vars
  BY <1>1, OnlyLossRestarts, LossTriesAnother
<1> QED BY <1>1, LInit, LNext, PTL DEF Spec, FailsOver
=============================================================================
