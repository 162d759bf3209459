-------------------------- MODULE H248Transactions --------------------------
(***************************************************************************)
(* The Transaction Replies the H.248 endpoint keeps for requests that are  *)
(* delivered again (src/internal/h248/server.go: handle, cachedReply,      *)
(* cacheReply, Respond).                                                   *)
(*                                                                         *)
(* Every datagram has a goroutine of its own; cachedReply and cacheReply   *)
(* hold cacheMu, HandleH248 runs between them and holds nothing.  Nothing  *)
(* marks a request as being in work.  A request is its key (source and     *)
(* Transaction ID); replies do not expire.                                 *)
(***************************************************************************)
EXTENDS Integers, Sequences, FiniteSets, SequencesExt

CONSTANTS
  Keys,         \* keys of the requests that arrive
  Goroutines,   \* bound: datagrams in work at the same time
  MaxCached     \* maxCachedTransactions

H248TransactionsAssumption ==
  /\ MaxCached \in Nat \ {0}
  /\ "none" \notin Keys

VARIABLES
  replyCache,   \* keys with a reply
  cacheOrder,   \* keys in the order in which they were first replied to
  pc,           \* per goroutine: the key the handler works on, or none
  handled,      \* requests given to the handler (0, 1, many)
  evicted       \* keys whose reply was dropped

vars == <<replyCache, cacheOrder, pc, handled, evicted>>

\* A goroutine waits for a datagram.
None == "none"

Init ==
  /\ replyCache = {}
  /\ cacheOrder = <<>>
  /\ pc = [g \in Goroutines |-> None]
  /\ handled = [k \in Keys |-> 0]
  /\ evicted = {}

\* A request arrives, perhaps again: cachedReply.  A hit sends the reply
\* again; otherwise HandleH248 begins.
Receive(g, k) ==
  /\ pc[g] = None
  /\ IF k \in replyCache THEN UNCHANGED <<pc, handled>>
     ELSE /\ pc' = [pc EXCEPT ![g] = k]
          /\ handled' = [handled EXCEPT ![k] = IF @ = 0 THEN 1 ELSE 2]
  /\ UNCHANGED <<replyCache, cacheOrder, evicted>>

\* Mutant: the second reply to a key appends it again.
AppendedAlways(k) == Append(cacheOrder, k)

\* cacheReply: a key keeps the place of its first reply.
Appended(k) == IF k \in replyCache THEN cacheOrder ELSE Append(cacheOrder, k)

\* HandleH248 replies: Respond calls cacheReply, which drops at most one key,
\* and sends.  What the handler does after it is of no concern here.
Respond(g) ==
  /\ pc[g] # None
  /\ LET order == Appended(pc[g])
     IN IF Len(order) > MaxCached
        THEN /\ cacheOrder' = Tail(order)
             /\ replyCache' = (replyCache \cup {pc[g]}) \ {Head(order)}
             /\ evicted' = evicted \cup {Head(order)}
        ELSE /\ cacheOrder' = order
             /\ replyCache' = replyCache \cup {pc[g]}
             /\ UNCHANGED evicted
  /\ pc' = [pc EXCEPT ![g] = None]
  /\ UNCHANGED handled

Next ==
  \/ \E g \in Goroutines, k \in Keys : Receive(g, k)
  \/ \E g \in Goroutines : Respond(g)

Spec == Init /\ [][Next]_vars

----------------------------------------------------------------------------

\* cacheReply: cacheOrder lists every key with a reply exactly once and no
\* other, and never more than maxCachedTransactions, although two goroutines
\* may handle and reply to the same request.
CacheOrdered ==
  /\ ToSet(cacheOrder) = replyCache
  /\ Len(cacheOrder) = Cardinality(replyCache)
  /\ Len(cacheOrder) <= MaxCached

\* handle: a request reaches HandleH248 once as long as its reply has not
\* been dropped.
DuplicateSuppressed ==
  \A k \in Keys : handled[k] > 1 => k \in evicted
=============================================================================
