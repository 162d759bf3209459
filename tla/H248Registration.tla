-------------------------- MODULE H248Registration --------------------------
(***************************************************************************)
(* The registration of the gateway with its MGCs (src/internal/h248/       *)
(* server.go): the registration loop with its ServiceChange transactions,  *)
(* the goroutines that hand it the MGCs' Replies, and the watch over the   *)
(* MGC in service.                                                         *)
(*                                                                         *)
(* registrationMu guards serviceChangeTID, serviceChangeRemote, activeMGC  *)
(* and lastMGCActivity; each step is one section held under it, one        *)
(* operation on the channel serviceChangeReply, or one send.  Timers may   *)
(* expire at any moment: a late Reply races every one of them.  Requests   *)
(* and Replies may be lost or late, and an MGC answers each repetition.    *)
(* Commands of the MGC are only of interest as a sign of life.             *)
(***************************************************************************)
EXTENDS Integers, Sequences, FiniteSets

CONSTANTS
  Remotes,       \* the MGCs in the order of the configuration, a sequence
  TIDs,          \* Transaction IDs; one that nobody knows any more is reused
  Goroutines,    \* bound: Replies in work at the same time
  MaxAttempts,   \* ServiceChangeMaxAttempts
  ChannelCap,    \* capacity of serviceChangeReply
  MaxMessages,   \* bound: ServiceChanges and Replies on their way
  Mortal,        \* the MGCs that may go down for good
  Nil            \* the empty string

N    == Len(Remotes)
MGCs == {Remotes[i] : i \in 1..N}

ASSUME H248RegistrationAssumption ==
  /\ N \in Nat \ {0} /\ MaxAttempts \in Nat \ {0} /\ ChannelCap \in Nat \ {0}
  /\ MaxMessages \in Nat /\ Mortal \subseteq MGCs
  /\ Nil \notin TIDs /\ Nil \notin MGCs

VARIABLES
  loop,                 \* the registration loop
  serviceChangeTID,
  serviceChangeRemote,
  serviceChangeReply,   \* the channel
  activeMGC,
  silent,               \* lastMGCActivity is MGCFailureTimeout ago
  handlers,             \* per goroutine, the Reply it handles and how far it is
  replies,              \* Replies on their way
  requests,             \* ServiceChanges an MGC has got and may answer
  \* What the outside knows; no section reads these.
  granted,              \* ServiceChanges of this registration an MGC has accepted
  rootTID,              \* Transaction ID of ROOT in this registration
  up                    \* the MGCs that still send

serverVars == <<serviceChangeTID, serviceChangeRemote, activeMGC, silent>>
netVars    == <<replies, requests, granted, up>>
vars == <<loop, serverVars, serviceChangeReply, handlers, netVars, rootTID>>

\* The terminations serviceChangeLoop registers, one after the other.
Terminations == {"ROOT", "line"}

Request == [tid : TIDs, to : MGCs, term : Terminations]
Reply   == [tid : TIDs, from : MGCs, accepted : BOOLEAN]
Result  == [tid : TIDs, accepted : BOOLEAN]

IdleHandler == [at |-> "idle"]

\* index of the candidate counted from 0 as in the code
Candidate == Remotes[((loop.startIndex + loop.offset) % N) + 1]

Init ==
  /\ loop = [at |-> "register", startIndex |-> 0, offset |-> 0,
             term |-> "ROOT", attempt |-> 1, tid |-> Nil]
  /\ serviceChangeTID = Nil /\ serviceChangeRemote = Nil
  /\ serviceChangeReply = <<>>
  /\ activeMGC = Nil /\ silent = FALSE
  /\ handlers = [g \in Goroutines |-> IdleHandler]
  /\ replies = {} /\ requests = {}
  /\ granted = {} /\ rootTID = Nil
  /\ up = MGCs

----------------------------------------------------------------------------
(* registrationLoop, serviceChangeLoop, registerTermination *)

\* Somebody may still know the Transaction ID.
InUse(tid) ==
  \/ \E i \in DOMAIN serviceChangeReply : serviceChangeReply[i].tid = tid
  \/ \E r \in replies \cup requests : r.tid = tid
  \/ \E g \in Goroutines : handlers[g].at # "idle" /\ handlers[g].reply.tid = tid
  \/ tid = serviceChangeTID
  \/ tid = rootTID /\ loop.term = "line"

\* registerTermination: a new Transaction ID, whichever; from now on the
\* candidate is the MGC whose messages are accepted.
RegisterTermination ==
  /\ loop.at = "register"
  /\ \E tid \in TIDs : ~ InUse(tid)
  /\ LET tid == CHOOSE tid \in TIDs : ~ InUse(tid)
     IN /\ serviceChangeTID' = tid
        /\ loop' = [loop EXCEPT !.at = "send", !.attempt = 1, !.tid = tid]
        /\ rootTID' = IF loop.term = "ROOT" THEN tid ELSE rootTID
  /\ serviceChangeRemote' = Candidate
  /\ granted' = {r \in granted : loop.term = "line" /\ r.tid = rootTID}
  /\ UNCHANGED <<serviceChangeReply, activeMGC, silent, handlers, replies,
                 requests, up>>

\* The ServiceChange is sent; it may get lost or not be sent at all.
SendServiceChange ==
  /\ loop.at = "send"
  /\ loop' = [loop EXCEPT !.at = "wait"]
  /\ \/ /\ Cardinality(requests) + Cardinality(replies) < MaxMessages
        /\ requests' = requests \cup
             {[tid |-> loop.tid, to |-> Candidate, term |-> loop.term]}
     \/ UNCHANGED requests
  /\ UNCHANGED <<serverVars, serviceChangeReply, handlers, replies, granted,
                 up, rootTID>>

\* Mutant: the loop over the candidates goes one too far.
CandidateFailedOverrun ==
  IF loop.offset + 1 <= N
  THEN [loop EXCEPT !.at = "register", !.term = "ROOT", !.offset = loop.offset + 1]
  ELSE [loop EXCEPT !.at = "pause"]

\* The loop after one more candidate has failed: the next one, or a pause.
CandidateFailed ==
  IF loop.offset + 1 < N
  THEN [loop EXCEPT !.at = "register", !.term = "ROOT", !.offset = loop.offset + 1]
  ELSE [loop EXCEPT !.at = "pause"]

\* ... and after one more attempt has.
AttemptFailed ==
  IF loop.attempt < MaxAttempts
  THEN [loop EXCEPT !.at = "send", !.attempt = loop.attempt + 1]
  ELSE CandidateFailed

\* ... and after the ServiceChange has been accepted.
Accepted ==
  IF loop.term = "ROOT" THEN [loop EXCEPT !.at = "register", !.term = "line"]
  ELSE [loop EXCEPT !.at = "activate"]

\* Mutant: any Reply is taken for the one that is awaited.
AwaitedAny(result) == TRUE

Awaited(result) == result.tid = loop.tid

\* registerTermination takes a result from the channel; one of an earlier
\* transaction costs an attempt.
TakeReply ==
  /\ loop.at = "wait"
  /\ serviceChangeReply # <<>>
  /\ LET result == Head(serviceChangeReply)
     IN loop' = IF ~ Awaited(result) THEN AttemptFailed
                ELSE IF result.accepted THEN Accepted
                ELSE CandidateFailed
  /\ serviceChangeReply' = Tail(serviceChangeReply)
  /\ UNCHANGED <<serverVars, handlers, netVars, rootTID>>

\* The retry timer expires.
RetryTimeout ==
  /\ loop.at = "wait"
  /\ loop' = AttemptFailed
  /\ UNCHANGED <<serverVars, serviceChangeReply, handlers, netVars, rootTID>>

\* Mutant: the pause is not followed by another round.
AfterPauseStop == loop

AfterPause == [loop EXCEPT !.at = "register", !.term = "ROOT", !.offset = 0]

\* 30 seconds after every candidate has failed the loop starts again.
PauseEnds ==
  /\ loop.at = "pause"
  /\ loop' = AfterPause
  /\ UNCHANGED <<serverVars, serviceChangeReply, handlers, netVars, rootTID>>

\* serviceChangeLoop: setActiveMGC
SetActiveMGC ==
  /\ loop.at = "activate"
  /\ activeMGC' = Candidate /\ silent' = FALSE
  /\ loop' = [loop EXCEPT !.at = "ready"]
  /\ UNCHANGED <<serviceChangeTID, serviceChangeRemote, serviceChangeReply,
                 handlers, netVars, rootTID>>

\* Mutant: the candidate is not forgotten; it is let through again after a loss.
ReadyKeepsRemote ==
  /\ loop.at = "ready"
  /\ serviceChangeTID' = Nil
  /\ loop' = [loop EXCEPT !.at = "active"]
  /\ UNCHANGED <<serviceChangeRemote, activeMGC, silent, serviceChangeReply,
                 handlers, netVars, rootTID>>

\* clearRegistrationTransaction and HandleH248Ready
Ready ==
  /\ loop.at = "ready"
  /\ serviceChangeTID' = Nil /\ serviceChangeRemote' = Nil
  /\ loop' = [loop EXCEPT !.at = "active"]
  /\ UNCHANGED <<activeMGC, silent, serviceChangeReply, handlers, netVars,
                 rootTID>>

\* waitForMGCFailure: a tick finds the MGC silent for too long.
MGCFailure ==
  /\ loop.at = "active"
  /\ activeMGC # Candidate \/ silent
  /\ loop' = [loop EXCEPT !.at = "lost"]
  /\ UNCHANGED <<serverVars, serviceChangeReply, handlers, netVars, rootTID>>

\* Mutant: the loop starts again with the MGC that failed.
NextIndexSame == (loop.startIndex + loop.offset) % N

NextIndex == (loop.startIndex + loop.offset + 1) % N

\* clearActiveMGC, HandleH248Unavailable, and on to the next MGC.
Unavailable ==
  /\ loop.at = "lost"
  /\ IF activeMGC = Candidate THEN activeMGC' = Nil /\ silent' = FALSE
     ELSE UNCHANGED <<activeMGC, silent>>
  /\ loop' = [loop EXCEPT !.at = "register", !.term = "ROOT",
                          !.startIndex = NextIndex, !.offset = 0]
  /\ UNCHANGED <<serviceChangeTID, serviceChangeRemote, serviceChangeReply,
                 handlers, netVars, rootTID>>

----------------------------------------------------------------------------
(* handle, for a Reply *)

ExpectedMGC == IF activeMGC = Nil THEN serviceChangeRemote ELSE activeMGC

\* A Reply arrives: expectedMGCAddress lets it pass, or it is dropped.
ReceiveReply(g) ==
  /\ handlers[g].at = "idle"
  /\ \E r \in replies :
       /\ replies' = replies \ {r}
       /\ handlers' = IF r.from = ExpectedMGC
                      THEN [handlers EXCEPT ![g] = [at |-> "note", reply |-> r]]
                      ELSE handlers
  /\ UNCHANGED <<loop, serverVars, serviceChangeReply, requests, granted, up,
                 rootTID>>

\* Mutant: a message of any MGC counts as a sign of life.
SilentAfterAny(m) == FALSE

\* noteMGCActivity
SilentAfter(m) == silent /\ activeMGC # m

NoteMGCActivity(g) ==
  /\ handlers[g].at = "note"
  /\ silent' = SilentAfter(handlers[g].reply.from)
  /\ handlers' = [handlers EXCEPT ![g].at = "match"]
  /\ UNCHANGED <<loop, serviceChangeTID, serviceChangeRemote, activeMGC,
                 serviceChangeReply, netVars, rootTID>>

\* The Reply is for the ServiceChange that is out, or for the bridge.
MatchReply(g) ==
  /\ handlers[g].at = "match"
  /\ LET r == handlers[g].reply
     IN handlers' = IF r.tid = serviceChangeTID /\ r.from = serviceChangeRemote
                    THEN [handlers EXCEPT ![g].at = "push"]
                    ELSE [handlers EXCEPT ![g] = IdleHandler]
  /\ UNCHANGED <<loop, serverVars, serviceChangeReply, netVars, rootTID>>

\* The result goes into the channel, or is dropped when the channel is full.
PushReply(g) ==
  /\ handlers[g].at = "push"
  /\ LET r == handlers[g].reply
     IN serviceChangeReply' =
          IF Len(serviceChangeReply) < ChannelCap
          THEN Append(serviceChangeReply, [tid |-> r.tid, accepted |-> r.accepted])
          ELSE serviceChangeReply
  /\ handlers' = [handlers EXCEPT ![g] = IdleHandler]
  /\ UNCHANGED <<loop, serverVars, netVars, rootTID>>

----------------------------------------------------------------------------
(* The MGCs and time *)

\* An MGC answers a ServiceChange it has got, and every repetition of it.
Answer ==
  /\ \E r \in requests, ok \in BOOLEAN :
       /\ r.to \in up
       /\ replies' = replies \cup {[tid |-> r.tid, from |-> r.to, accepted |-> ok]}
       /\ requests' = requests \ {r}
       /\ granted' = IF ok /\ r.tid \in {rootTID, loop.tid}
                     THEN granted \cup {r} ELSE granted
  /\ UNCHANGED <<loop, serverVars, serviceChangeReply, handlers, up, rootTID>>

Lose ==
  /\ \E r \in replies \cup requests :
       replies' = replies \ {r} /\ requests' = requests \ {r}
  /\ UNCHANGED <<loop, serverVars, serviceChangeReply, handlers, granted, up,
                 rootTID>>

\* A command of an MGC: an audit passes the gate whoever sends it.
Traffic ==
  /\ \E m \in up : silent' = SilentAfter(m)
  /\ UNCHANGED <<loop, serviceChangeTID, serviceChangeRemote, activeMGC,
                 serviceChangeReply, handlers, netVars, rootTID>>

\* MGCFailureTimeout passes without a sign of life.
TimePasses ==
  /\ activeMGC # Nil
  /\ silent' = TRUE
  /\ UNCHANGED <<loop, serviceChangeTID, serviceChangeRemote, activeMGC,
                 serviceChangeReply, handlers, netVars, rootTID>>

\* An MGC goes down for good.
GoDown ==
  /\ \E m \in up \cap Mortal : up' = up \ {m}
  /\ UNCHANGED <<loop, serverVars, serviceChangeReply, handlers, replies,
                 requests, granted, rootTID>>

----------------------------------------------------------------------------

Loop ==
  \/ RegisterTermination \/ SendServiceChange \/ TakeReply \/ RetryTimeout
  \/ PauseEnds \/ SetActiveMGC \/ Ready \/ Unavailable

Handle(g) == NoteMGCActivity(g) \/ MatchReply(g) \/ PushReply(g)

Next ==
  \/ Loop \/ MGCFailure
  \/ \E g \in Goroutines : ReceiveReply(g) \/ Handle(g)
  \/ Answer \/ Lose \/ Traffic \/ TimePasses \/ GoDown

Spec == Init /\ [][Next]_vars

\* The loop goes on and its timers expire, the ticker of waitForMGCFailure sees
\* an MGC that stays silent; goroutines run, time passes, and a message on its
\* way is delivered or lost.
Fairness ==
  /\ WF_vars(Loop)
  /\ WF_vars(MGCFailure)
  /\ \A g \in Goroutines : WF_vars(Handle(g))
  /\ WF_vars((\E g \in Goroutines : ReceiveReply(g)) \/ Lose)
  /\ WF_vars(TimePasses)

FairSpec == Spec /\ Fairness

----------------------------------------------------------------------------
(* Properties *)

\* Type invariant.
TypeOK ==
  /\ loop \in [at : {"register", "send", "wait", "pause", "activate", "ready",
                     "active", "lost"},
               startIndex : 0..N-1, offset : 0..N-1, term : Terminations,
               attempt : 1..MaxAttempts, tid : TIDs \cup {Nil}]
  /\ serviceChangeTID \in TIDs \cup {Nil}
  /\ serviceChangeRemote \in MGCs \cup {Nil}
  /\ serviceChangeReply \in Seq(Result) /\ Len(serviceChangeReply) <= ChannelCap
  /\ activeMGC \in MGCs \cup {Nil} /\ silent \in BOOLEAN
  /\ handlers \in [Goroutines -> {IdleHandler} \cup
                     [at : {"note", "match", "push"}, reply : Reply]]
  /\ replies \subseteq Reply /\ requests \subseteq Request /\ granted \subseteq Request
  /\ rootTID \in TIDs \cup {Nil} /\ up \subseteq MGCs

\* serviceChangeLoop: an MGC becomes the active one only when it has accepted
\* the ServiceChange of ROOT and of the line of this very registration,
\* although Replies of earlier ones and of the other MGC may come at any time.
ReadyConfirmed ==
  loop.at \in {"activate", "ready", "active"} =>
    \A term \in Terminations :
      [tid |-> IF term = "ROOT" THEN rootTID ELSE loop.tid,
       to |-> Candidate, term |-> term] \in granted

\* registrationLoop: the first MGC that is tried after one was lost is another
\* one, if there is another.
FailsOver ==
  [][loop.at = "lost" /\ loop'.at = "register" /\ N > 1 => Candidate' # Candidate]_vars

\* registrationLoop: as long as no MGC is active, every MGC is tried again
\* and again.
EveryMGCTried ==
  \A m \in MGCs : []<>(serviceChangeRemote = m \/ activeMGC # Nil)

Service == INSTANCE MGCService WITH
             mgc        <- ExpectedMGC,
             registered <- loop.at \in {"active", "lost"}

\* expectedMGCAddress, as the sections of registrationLoop leave it between
\* them: the registration implements the service the bridge is built on.
ImplementsService == Service!Spec

\* waitForMGCFailure and noteMGCActivity: an MGC that has gone down does not
\* stay the active one, although the other MGC still sends audits.
DeadMGCDropped ==
  \A m \in MGCs : m \notin up ~> activeMGC # m
=============================================================================
