-------------------------- MODULE SIPTransactions ---------------------------
(***************************************************************************)
(* The server transactions of the SIP endpoint (src/internal/sip/          *)
(* server.go): the responses it keeps for requests that are delivered      *)
(* again, and the requests it knows to be in work.                         *)
(*                                                                         *)
(* Every datagram has a goroutine of its own.  cachedResponse,             *)
(* beginTransaction and cacheResponse each hold cacheMu, and nothing holds *)
(* it from one to the next.  A request is its transaction key (source,     *)
(* method, Call-ID, CSeq, branch); ACK and responses have none and go      *)
(* straight to the handler.  The text of a response is left out.           *)
(***************************************************************************)
EXTENDS Integers, Sequences, FiniteSets, SequencesExt

CONSTANTS
  Keys,          \* transaction keys of the requests that arrive
  Goroutines,    \* bound: datagrams in work at the same time
  MaxCached,     \* maxCachedTransactions
  MaxResponses   \* bound: responses of one transaction

ASSUME SIPTransactionsAssumption ==
  /\ MaxCached \in Nat \ {0} /\ MaxResponses \in Nat \ {0}
  /\ "none" \notin Keys

VARIABLES
  responseCache,  \* per key: no entry, one that is valid, one past expiresAt
  cacheOrder,     \* keys in the order in which they were first answered
  inFlight,       \* per key: no entry, one that is valid, one past its TTL
  pc,             \* per goroutine: the key it looked up and not found, or none
  \* What the handler and the peer see.
  handled,        \* requests given to the handler (0, 1, many)
  responses,      \* responses given by the handler
  forgotten       \* keys whose entry expired or was evicted

cacheVars == <<responseCache, cacheOrder, inFlight>>
vars == <<cacheVars, pc, handled, responses, forgotten>>

\* A goroutine waits for a datagram.
None == "none"

Cached == {k \in Keys : responseCache[k] # "none"}

Init ==
  /\ responseCache = [k \in Keys |-> "none"]
  /\ cacheOrder = <<>>
  /\ inFlight = [k \in Keys |-> "none"]
  /\ pc = [g \in Goroutines |-> None]
  /\ handled = [k \in Keys |-> 0]
  /\ responses = [k \in Keys |-> 0]
  /\ forgotten = {}

----------------------------------------------------------------------------

\* Mutant: an expired response leaves its key in cacheOrder.
RemoveCachedKeyForgotten(k) == cacheOrder

\* removeCachedKeyLocked; others[n] is what the loop leaves of the first n keys.
RemoveCachedKey(k) ==
  LET others[n \in 0..Len(cacheOrder)] ==
        IF n = 0 THEN <<>>
        ELSE IF cacheOrder[n] = k THEN others[n - 1]
        ELSE Append(others[n - 1], cacheOrder[n])
  IN others[Len(cacheOrder)]

\* A datagram arrives, perhaps again: cachedResponse.  A hit sends the
\* response again and the goroutine is done.
Lookup(g, k) ==
  /\ pc[g] = None
  /\ \/ responseCache[k] = "valid" /\ UNCHANGED <<responseCache, cacheOrder, pc>>
     \/ /\ responseCache[k] = "expired"
        /\ responseCache' = [responseCache EXCEPT ![k] = "none"]
        /\ cacheOrder' = RemoveCachedKey(k)
        /\ pc' = [pc EXCEPT ![g] = k]
     \/ /\ responseCache[k] = "none"
        /\ pc' = [pc EXCEPT ![g] = k]
        /\ UNCHANGED <<responseCache, cacheOrder>>
  /\ UNCHANGED <<inFlight, handled, responses, forgotten>>

\* Mutant: a request in work does not stop its duplicates.
AdmittedAlways(k) == TRUE

Admitted(k) == inFlight[k] # "valid"

\* beginTransaction, and HandleSIP if it agrees.  The handler answers when it
\* likes, from this goroutine or from another that has kept the responder.
Begin(g) ==
  /\ pc[g] # None
  /\ LET k == pc[g]
     IN IF Admitted(k)
        THEN /\ inFlight' = [inFlight EXCEPT ![k] = "valid"]
             /\ handled' = [handled EXCEPT ![k] = IF @ = 0 THEN 1 ELSE 2]
        ELSE UNCHANGED <<inFlight, handled>>
  /\ pc' = [pc EXCEPT ![g] = None]
  /\ UNCHANGED <<responseCache, cacheOrder, responses, forgotten>>

\* cacheResponse: a key keeps the place of its first response.
Appended(k) == IF k \in Cached THEN cacheOrder ELSE Append(cacheOrder, k)

\* Respond: cacheResponse, with the eviction of the oldest keys, and the send.
Respond(k) ==
  /\ handled[k] > 0 /\ responses[k] < MaxResponses
  /\ LET order == Appended(k)
         kept  == IF Len(order) > MaxCached
                  THEN SubSeq(order, Len(order) - MaxCached + 1, Len(order))
                  ELSE order
         lost  == ToSet(order) \ ToSet(kept)
     IN /\ cacheOrder' = kept
        /\ responseCache' = [j \in Keys |-> IF j \in lost THEN "none"
                                            ELSE IF j = k THEN "valid"
                                            ELSE responseCache[j]]
        /\ forgotten' = forgotten \cup lost
  /\ inFlight' = [inFlight EXCEPT ![k] = "none"]
  /\ responses' = [responses EXCEPT ![k] = @ + 1]
  /\ UNCHANGED <<pc, handled>>

\* sipResponseCacheTTL and sipInFlightTTL pass.
Expire(k) ==
  /\ \/ /\ responseCache[k] = "valid"
        /\ responseCache' = [responseCache EXCEPT ![k] = "expired"]
        /\ UNCHANGED inFlight
     \/ /\ inFlight[k] = "valid"
        /\ inFlight' = [inFlight EXCEPT ![k] = "expired"]
        /\ UNCHANGED responseCache
  /\ forgotten' = forgotten \cup {k}
  /\ UNCHANGED <<cacheOrder, pc, handled, responses>>

Next ==
  \/ \E g \in Goroutines, k \in Keys : Lookup(g, k)
  \/ \E g \in Goroutines : Begin(g)
  \/ \E k \in Keys : Respond(k)
  \/ \E k \in Keys : Expire(k)

Spec == Init /\ [][Next]_vars

----------------------------------------------------------------------------

\* cacheOrder lists every key of responseCache exactly once and no other, and
\* never more than maxCachedTransactions: an eviction always frees an entry
\* and none is lost by being listed twice, whatever order lookups, repeated
\* responses and expiries come in.
CacheOrdered ==
  /\ ToSet(cacheOrder) = Cached
  /\ Len(cacheOrder) = Cardinality(Cached)
  /\ Len(cacheOrder) <= MaxCached

\* beginTransaction: while a request has not been answered and its in-flight
\* mark has not expired, no duplicate of it reaches the handler.
InFlightSuppressed ==
  \A k \in Keys : handled[k] > 1 => responses[k] > 0 \/ k \in forgotten

\* handle: a request reaches the handler once as long as the endpoint
\* remembers it.
DuplicateSuppressed ==
  \A k \in Keys : handled[k] > 1 => k \in forgotten
=============================================================================
