------------------------- MODULE TransactionsProofs -------------------------
(***************************************************************************)
(* Proofs about SIPTransactions for any keys, goroutines, cache size and   *)
(* number of responses: the in-flight marks, and the order of eviction;    *)
(* and about H248Transactions, as MCTransactions instantiates it.          *)
(*                                                                         *)
(* The loop that removes a key is a recursive function.  UpFromZero is     *)
(* induction for a set of numbers: were some m not in it, then n |-> n - 1 *)
(* would map the numbers up to m that are not in it into fewer (the pigeon *)
(* hole principle of FiniteSetTheorems).                                   *)
(***************************************************************************)
EXTENDS MCTransactions, SequenceTheorems, FiniteSetTheorems, TLAPS

\* The types of what the proof reads.  A goroutine may only begin with a key.
Typed ==
  /\ inFlight \in [Keys -> {"none", "valid", "expired"}]
  /\ pc \in [Goroutines -> Keys \cup {None}]
  /\ handled \in [Keys -> 0..2]
  /\ responses \in [Keys -> Nat]

\* A request that is with the handler keeps its mark until it is answered or
\* the mark expires.
Marked ==
  \A k \in Keys : handled[k] > 0 =>
    inFlight[k] = "valid" \/ responses[k] > 0 \/ k \in forgotten

IInv == Typed /\ Marked /\ InFlightSuppressed

LEMMA InitIInv == Init => IInv
BY DEF Init, IInv, Typed, Marked, InFlightSuppressed, None

LEMMA LookupIInv ==
  ASSUME IInv, NEW g \in Goroutines, NEW k \in Keys, Lookup(g, k)
  PROVE  IInv'
BY DEF IInv, Typed, Marked, InFlightSuppressed, Lookup

\* A request that is admitted again has lost its mark: it has been answered or
\* forgotten.
LEMMA BeginIInv ==
  ASSUME IInv, NEW g \in Goroutines, Begin(g)
  PROVE  IInv'
<1>1. pc[g] \in Keys BY DEF IInv, Typed, Begin
<1>2. Typed' BY <1>1 DEF IInv, Typed, Begin
<1>3. ASSUME NEW k \in Keys
      PROVE  /\ handled'[k] > 0 =>
                  inFlight'[k] = "valid" \/ responses'[k] > 0 \/ k \in forgotten'
             /\ handled'[k] > 1 => responses'[k] > 0 \/ k \in forgotten'
  <2>1. CASE k = pc[g] /\ Admitted(k)
    BY <1>1, <2>1 DEF IInv, Typed, Marked, InFlightSuppressed, Begin, Admitted
  <2>2. CASE ~ (k = pc[g] /\ Admitted(k))
    <3>1. handled'[k] = handled[k] /\ inFlight'[k] = inFlight[k]
      BY <1>1, <2>2 DEF IInv, Typed, Begin
    <3> QED BY <3>1 DEF IInv, Marked, InFlightSuppressed, Begin
  <2> QED BY <2>1, <2>2
<1> QED BY <1>2, <1>3 DEF IInv, Marked, InFlightSuppressed

LEMMA RespondIInv ==
  ASSUME IInv, NEW k \in Keys, Respond(k)
  PROVE  IInv'
<1>1. Typed' BY DEF IInv, Typed, Respond
<1>2. forgotten \subseteq forgotten' BY DEF Respond
<1>3. ASSUME NEW j \in Keys
      PROVE  /\ responses'[j] >= responses[j]
             /\ j = k => responses'[j] > 0
             /\ j # k => inFlight'[j] = inFlight[j]
  BY DEF IInv, Typed, Respond
<1>4. handled' = handled BY DEF Respond
<1>5. ASSUME NEW j \in Keys PROVE responses[j] \in Nat /\ responses'[j] \in Nat
  BY <1>1 DEF IInv, Typed
<1> QED BY <1>1, <1>2, <1>3, <1>4, <1>5 DEF IInv, Marked, InFlightSuppressed

LEMMA ExpireIInv ==
  ASSUME IInv, NEW k \in Keys, Expire(k)
  PROVE  IInv'
BY DEF IInv, Typed, Marked, InFlightSuppressed, Expire

LEMMA NextIInv == IInv /\ [Next]_vars => IInv'
<1> SUFFICES ASSUME IInv, [Next]_vars PROVE IInv' OBVIOUS
<1>1. CASE UNCHANGED vars
  BY <1>1 DEF IInv, Typed, Marked, InFlightSuppressed, vars, cacheVars
<1> QED BY <1>1, LookupIInv, BeginIInv, RespondIInv, ExpireIInv DEF Next

\* beginTransaction: no duplicate of a request that is with the handler reaches
\* it, unless the request has been answered or its mark has expired, for any
\* number of requests and goroutines.
THEOREM DuplicatesWait == Spec => []InFlightSuppressed
<1>1. IInv => InFlightSuppressed BY DEF IInv
<1> QED BY InitIInv, NextIInv, <1>1, PTL DEF Spec

----------------------------------------------------------------------------
(* The loop of removeCachedKeyLocked *)

LEMMA UpFromZero ==
  ASSUME NEW T, 0 \in T, \A n \in Nat : n \in T => n + 1 \in T
  PROVE  Nat \subseteq T
<1> SUFFICES ASSUME NEW m \in Nat, m \notin T PROVE FALSE OBVIOUS
<1> DEFINE U == {n \in 0..m : n \notin T}
           down == [n \in U |-> n - 1]
<1>1. IsFiniteSet(0..m) BY FS_Interval
<1>2. IsFiniteSet(U) BY <1>1, FS_Subset
<1>3. m \in U OBVIOUS
<1>4. ASSUME NEW n \in U PROVE n - 1 \in U \ {m}
  <2>1. n \in Nat \ {0} /\ n <= m /\ n \notin T OBVIOUS
  <2>2. n - 1 \in Nat /\ n - 1 + 1 = n /\ n - 1 < m BY <2>1
  <2>3. n - 1 \notin T BY <2>1, <2>2
  <2> QED BY <2>2, <2>3
<1>5. down \in [U -> U \ {m}] BY <1>4
<1>6. IsFiniteSet(U \ {m}) /\ Cardinality(U \ {m}) < Cardinality(U)
  <2> HIDE DEF U
  <2>1. /\ IsFiniteSet(U \ {m})
        /\ Cardinality(U \ {m}) = Cardinality(U) - 1
    BY <1>2, <1>3, FS_RemoveElement
  <2>2. Cardinality(U) \in Nat BY <1>2, FS_CardinalityType
  <2> QED BY <2>1, <2>2
<1>7. PICK x, y \in U : x # y /\ down[x] = down[y]
  <2> HIDE DEF U, down
  <2> QED BY <1>2, <1>5, <1>6, FS_PigeonHole
<1>8. down[x] = x - 1 /\ down[y] = y - 1 /\ x \in Int /\ y \in Int BY <1>7
<1> QED BY <1>7, <1>8

\* What f[i] has to be, and f as the loop's record of its first n steps.
Rest(f, k, i) == IF i = 0 THEN <<>>
                 ELSE IF cacheOrder[i] = k THEN f[i - 1]
                 ELSE Append(f[i - 1], cacheOrder[i])
Loop(f, k, n) == f = [i \in 0..n |-> Rest(f, k, i)]

LEMMA LoopEnds ==
  ASSUME cacheOrder \in Seq(Keys), NEW k
  PROVE  \E f : Loop(f, k, Len(cacheOrder)) /\ RemoveCachedKey(k) = f[Len(cacheOrder)]
<1> DEFINE T == {n \in Nat : \E f : Loop(f, k, n)}
<1>1. 0 \in T
  <2>1. Loop([i \in 0..0 |-> <<>>], k, 0) BY DEF Loop, Rest
  <2> QED BY <2>1
<1>2. ASSUME NEW n \in Nat, n \in T PROVE n + 1 \in T
  <2>1. PICK f : Loop(f, k, n) BY <1>2
  <2> DEFINE last == IF cacheOrder[n + 1] = k THEN f[n]
                     ELSE Append(f[n], cacheOrder[n + 1])
             g == [i \in 0..(n + 1) |-> IF i = n + 1 THEN last ELSE f[i]]
  <2>2. ASSUME NEW i \in 0..(n + 1) PROVE g[i] = Rest(g, k, i)
    <3>1. CASE i = n + 1
      <4>1. i # 0 /\ i - 1 = n /\ n \in 0..(n + 1) /\ n # n + 1 BY <3>1
      <4>2. g[n] = f[n] BY <4>1
      <4> QED BY <3>1, <4>1, <4>2 DEF Rest
    <3>2. CASE i # n + 1
      <4>1. i \in 0..n /\ (i = 0 \/ i - 1 \in 0..n) BY <3>2
      <4>2. f[i] = Rest(f, k, i) BY <2>1, <4>1 DEF Loop
      <4>3. i # 0 => g[i - 1] = f[i - 1] BY <4>1
      <4> QED BY <3>2, <4>2, <4>3 DEF Rest
    <3> QED BY <3>1, <3>2
  <2>3. g = [i \in 0..(n + 1) |-> g[i]] OBVIOUS
  <2>4. Loop(g, k, n + 1)
    <3> HIDE DEF g
    <3> QED BY <2>2, <2>3 DEF Loop
  <2> QED BY <2>4
<1>3. Nat \subseteq T
  <2> HIDE DEF T
  <2> QED BY <1>1, <1>2, UpFromZero
<1>4. Len(cacheOrder) \in Nat OBVIOUS
<1>5. \E f : Loop(f, k, Len(cacheOrder)) BY <1>3, <1>4
<1> DEFINE others == CHOOSE f : Loop(f, k, Len(cacheOrder))
<1>6. Loop(others, k, Len(cacheOrder))
  <2> HIDE DEF Loop
  <2> QED BY ZenonT(30), <1>5
<1>7. RemoveCachedKey(k) = others[Len(cacheOrder)]
  BY ZenonT(30) DEF RemoveCachedKey, Loop, Rest
<1> QED BY <1>6, <1>7

Distinct(s) == \A i, j \in 1..Len(s) : s[i] = s[j] => i = j

\* Appending a key that is not listed.
LEMMA AppendNew ==
  ASSUME NEW s \in Seq(Keys), Distinct(s), NEW x \in Keys \ ToSet(s)
  PROVE  LET t == Append(s, x)
         IN /\ t \in Seq(Keys) /\ Len(t) = Len(s) + 1
            /\ Distinct(t) /\ ToSet(t) = ToSet(s) \cup {x}
<1> DEFINE t == Append(s, x)
<1>1. /\ t \in Seq(Keys) /\ Len(t) = Len(s) + 1 /\ Len(s) \in Nat
      /\ t[Len(t)] = x /\ \A i \in 1..Len(s) : t[i] = s[i]
  OBVIOUS
<1>2. \A i \in 1..Len(t) : i \in 1..Len(s) \/ i = Len(t) BY <1>1
<1>3. DOMAIN t = 1..Len(t) /\ DOMAIN s = 1..Len(s) BY <1>1
<1>4. \A i \in 1..Len(s) : s[i] # x BY <1>3 DEF ToSet
<1>5. 1..Len(s) \subseteq 1..Len(t) /\ Len(t) \in 1..Len(t) BY <1>1
<1> HIDE DEF t
<1>6. Distinct(t) BY <1>1, <1>2, <1>4 DEF Distinct
<1>7. ToSet(t) = ToSet(s) \cup {x} BY <1>1, <1>2, <1>3, <1>5 DEF ToSet
<1> QED BY <1>1, <1>6, <1>7 DEF t

\* The loop keeps the other keys, each once.
LEMMA KeyRemoved ==
  ASSUME cacheOrder \in Seq(Keys), Distinct(cacheOrder), NEW k \in Keys
  PROVE  LET r == RemoveCachedKey(k)
         IN /\ r \in Seq(Keys) /\ Len(r) <= Len(cacheOrder)
            /\ Distinct(r) /\ ToSet(r) = ToSet(cacheOrder) \ {k}
<1>1. PICK f : /\ Loop(f, k, Len(cacheOrder))
               /\ RemoveCachedKey(k) = f[Len(cacheOrder)]
  BY LoopEnds
<1> DEFINE Upto(n) == {cacheOrder[i] : i \in 1..n}
           Right(n) == /\ f[n] \in Seq(Keys) /\ Len(f[n]) <= n
                       /\ Distinct(f[n]) /\ ToSet(f[n]) = Upto(n) \ {k}
           T == {n \in Nat : n <= Len(cacheOrder) => Right(n)}
<1>2. 0 \in T
  <2>1. f[0] = <<>> BY <1>1 DEF Loop, Rest
  <2>2. Upto(0) = {} OBVIOUS
  <2> HIDE DEF Upto
  <2>3. f[0] \in Seq(Keys) /\ Len(f[0]) = 0 /\ DOMAIN f[0] = {} BY <2>1
  <2>4. Distinct(f[0]) /\ ToSet(f[0]) = {} BY <2>3 DEF Distinct, ToSet
  <2> QED BY <2>2, <2>3, <2>4
<1>3. ASSUME NEW n \in Nat, n \in T, n + 1 <= Len(cacheOrder) PROVE Right(n + 1)
  <2> DEFINE x == cacheOrder[n + 1]
  <2>1. n + 1 \in 0..Len(cacheOrder) /\ n + 1 # 0 /\ n + 1 - 1 = n
    BY <1>3
  <2>2. f[n + 1] = IF x = k THEN f[n] ELSE Append(f[n], x)
    <3>1. f[n + 1] = Rest(f, k, n + 1) BY <1>1, <2>1 DEF Loop
    <3> QED BY <2>1, <3>1 DEF Rest
  <2>3. Right(n) BY <1>3
  <2>4. x \in Keys /\ x \notin Upto(n)
    <3>1. n + 1 \in 1..Len(cacheOrder) BY <1>3
    <3>2. \A i \in 1..n : i \in 1..Len(cacheOrder) /\ i # n + 1 BY <1>3
    <3> QED BY <3>1, <3>2 DEF Distinct
  <2>5. Upto(n + 1) = Upto(n) \cup {x}
    <3>1. 1..(n + 1) = (1..n) \cup {n + 1} OBVIOUS
    <3> QED BY <3>1
  <2> HIDE DEF x, Upto
  <2>6. CASE x = k
    <3>1. f[n + 1] = f[n] BY <2>2, <2>6
    <3>2. Len(f[n]) \in Nat /\ Len(f[n]) <= n BY <2>3
    <3>3. Len(f[n]) <= n + 1 BY <3>2
    <3> QED BY <2>3, <2>5, <2>6, <3>1, <3>3
  <2>7. CASE x # k
    <3>1. f[n + 1] = Append(f[n], x) BY <2>2, <2>7
    <3>2. x \in Keys \ ToSet(f[n]) BY <2>3, <2>4
    <3>3. /\ f[n + 1] \in Seq(Keys) /\ Len(f[n + 1]) = Len(f[n]) + 1
          /\ Distinct(f[n + 1]) /\ ToSet(f[n + 1]) = ToSet(f[n]) \cup {x}
      BY <2>3, <3>1, <3>2, AppendNew
    <3>4. Len(f[n + 1]) <= n + 1
      <4>1. Len(f[n]) \in Nat /\ Len(f[n]) <= n BY <2>3
      <4> QED BY <3>3, <4>1
    <3> QED BY <2>3, <2>5, <2>7, <3>3, <3>4
  <2> QED BY <2>6, <2>7
<1>4. Nat \subseteq T
  <2> HIDE DEF Right
  <2>1. \A n \in Nat : n \in T => n + 1 \in T
    <3> SUFFICES ASSUME NEW n \in Nat, n \in T, n + 1 <= Len(cacheOrder)
                 PROVE  Right(n + 1)
      OBVIOUS
    <3> QED BY <1>3
  <2> HIDE DEF T
  <2> QED BY <1>2, <2>1, UpFromZero
<1>5. Right(Len(cacheOrder))
  <2> HIDE DEF Right
  <2>1. Len(cacheOrder) \in Nat /\ Len(cacheOrder) \in T BY <1>4
  <2> QED BY <2>1
<1>6. Upto(Len(cacheOrder)) = ToSet(cacheOrder) BY DEF ToSet
<1> QED BY <1>1, <1>5, <1>6

----------------------------------------------------------------------------
(* The order of eviction *)

\* CacheOrdered with the lists it is about: without Distinct(cacheOrder) an
\* eviction could leave the key it drops in the list.
CacheInv ==
  /\ cacheOrder \in Seq(Keys)
  /\ responseCache \in [Keys -> {"none", "valid", "expired"}]
  /\ Distinct(cacheOrder) /\ ToSet(cacheOrder) = Cached
  /\ Len(cacheOrder) <= MaxCached

LEMMA InitCacheInv ==
  ASSUME Init
  PROVE  CacheInv
<1>1. /\ cacheOrder \in Seq(Keys) /\ Len(cacheOrder) = 0
      /\ DOMAIN cacheOrder = {}
  BY DEF Init
<1>2. Cached = {} BY DEF Init, Cached
<1>3. ToSet(cacheOrder) = {} BY <1>1 DEF ToSet
<1>4. Distinct(cacheOrder) BY <1>1 DEF Distinct
<1>5. Len(cacheOrder) <= MaxCached BY <1>1, SIPTransactionsAssumption
<1> QED BY <1>1, <1>2, <1>3, <1>4, <1>5 DEF Init, CacheInv

LEMMA LookupCacheInv ==
  ASSUME CacheInv, NEW g \in Goroutines, NEW k \in Keys, Lookup(g, k)
  PROVE  CacheInv'
<1>1. CASE UNCHANGED <<responseCache, cacheOrder>>
  BY <1>1 DEF CacheInv, Cached, Distinct
<1>2. CASE /\ responseCache' = [responseCache EXCEPT ![k] = "none"]
           /\ cacheOrder' = RemoveCachedKey(k)
  <2>1. /\ cacheOrder' \in Seq(Keys) /\ Len(cacheOrder') <= Len(cacheOrder)
        /\ Distinct(cacheOrder') /\ ToSet(cacheOrder') = ToSet(cacheOrder) \ {k}
    BY <1>2, KeyRemoved DEF CacheInv
  <2>2. responseCache' \in [Keys -> {"none", "valid", "expired"}]
    BY <1>2 DEF CacheInv
  <2>3. Cached' = Cached \ {k} BY <1>2 DEF CacheInv, Cached
  <2>4. Len(cacheOrder') <= MaxCached
    <3>1. /\ Len(cacheOrder') \in Nat /\ Len(cacheOrder) \in Nat
          /\ MaxCached \in Nat /\ Len(cacheOrder) <= MaxCached
      BY <2>1, SIPTransactionsAssumption DEF CacheInv
    <3> QED BY <2>1, <3>1
  <2> QED BY <2>1, <2>2, <2>3, <2>4 DEF CacheInv, Distinct
<1> QED BY <1>1, <1>2 DEF Lookup

\* The newest keys of a list.
LEMMA NewestKept ==
  ASSUME NEW s \in Seq(Keys), Distinct(s),
         Len(s) > MaxCached
  PROVE  LET r == SubSeq(s, Len(s) - MaxCached + 1, Len(s))
         IN /\ r \in Seq(Keys) /\ Len(r) = MaxCached
            /\ Distinct(r) /\ ToSet(r) \subseteq ToSet(s)
<1> DEFINE d == Len(s) - MaxCached
           r == SubSeq(s, d + 1, Len(s))
<1>1. d \in Nat /\ MaxCached \in Nat \ {0} /\ Len(s) = d + MaxCached
  BY SIPTransactionsAssumption
<1> HIDE DEF d
<1>2. /\ r \in Seq(Keys) /\ Len(r) = MaxCached
      /\ \A i \in 1..Len(r) : r[i] = s[d + i]
  BY <1>1
<1> HIDE DEF r
<1>3. \A i \in 1..Len(r) : d + i \in 1..Len(s) BY <1>1, <1>2
<1>4. Distinct(r)
  <2> SUFFICES ASSUME NEW i \in 1..Len(r), NEW j \in 1..Len(r), r[i] = r[j]
               PROVE  i = j
    BY DEF Distinct
  <2>1. d + i = d + j BY <1>2, <1>3 DEF Distinct
  <2> QED BY <1>1, <2>1
<1>5. ToSet(r) \subseteq ToSet(s)
  <2>1. DOMAIN r = 1..Len(r) /\ DOMAIN s = 1..Len(s) BY <1>2
  <2> QED BY <1>2, <1>3, <2>1 DEF ToSet
<1> QED BY <1>2, <1>4, <1>5 DEF r, d

LEMMA RespondCacheInv ==
  ASSUME CacheInv, NEW k \in Keys, Respond(k)
  PROVE  CacheInv'
<1> DEFINE order == Appended(k)
           kept  == IF Len(order) > MaxCached
                    THEN SubSeq(order, Len(order) - MaxCached + 1, Len(order))
                    ELSE order
           lost  == ToSet(order) \ ToSet(kept)
<1>1. /\ order \in Seq(Keys) /\ Distinct(order)
      /\ ToSet(order) = Cached \cup {k}
  <2>1. CASE k \in Cached BY <2>1 DEF Appended, CacheInv
  <2>2. CASE k \notin Cached
    <3>1. order = Append(cacheOrder, k) BY <2>2 DEF Appended
    <3>2. k \in Keys \ ToSet(cacheOrder) BY <2>2 DEF CacheInv
    <3> QED BY <3>1, <3>2, AppendNew DEF CacheInv
  <2> QED BY <2>1, <2>2
<1>2. /\ cacheOrder' = kept
      /\ responseCache' = [j \in Keys |-> IF j \in lost THEN "none"
                                          ELSE IF j = k THEN "valid"
                                          ELSE responseCache[j]]
  BY DEF Respond
<1> HIDE DEF order
<1>3. /\ kept \in Seq(Keys) /\ Distinct(kept) /\ Len(kept) <= MaxCached
      /\ ToSet(kept) \subseteq ToSet(order)
  <2>1. MaxCached \in Nat /\ Len(order) \in Nat
    BY <1>1, SIPTransactionsAssumption
  <2>2. CASE Len(order) > MaxCached
    <3>1. kept = SubSeq(order, Len(order) - MaxCached + 1, Len(order)) BY <2>2
    <3> HIDE DEF kept
    <3>2. /\ kept \in Seq(Keys) /\ Len(kept) = MaxCached
          /\ Distinct(kept) /\ ToSet(kept) \subseteq ToSet(order)
      BY <1>1, <2>2, <3>1, NewestKept
    <3> QED BY <2>1, <3>2
  <2>3. CASE ~ (Len(order) > MaxCached)
    <3>1. kept = order BY <2>3
    <3> HIDE DEF kept
    <3> QED BY <1>1, <2>1, <2>3, <3>1
  <2> QED BY <2>2, <2>3
<1> HIDE DEF kept
<1>4. responseCache' \in [Keys -> {"none", "valid", "expired"}]
  BY <1>2 DEF CacheInv
<1>5. Cached' = ToSet(kept)
  <2>1. Cached' = (Cached \cup {k}) \ lost BY <1>2 DEF Cached
  <2> QED BY <1>1, <1>3, <2>1
<1> QED BY <1>2, <1>3, <1>4, <1>5 DEF CacheInv, Distinct

LEMMA NextCacheInv == CacheInv /\ [Next]_vars => CacheInv'
<1> SUFFICES ASSUME CacheInv, [Next]_vars PROVE CacheInv' OBVIOUS
<1>1. CASE UNCHANGED <<responseCache, cacheOrder>>
  BY <1>1 DEF CacheInv, Cached, Distinct
<1>2. ASSUME NEW g \in Goroutines, Begin(g) PROVE CacheInv'
  BY <1>1, <1>2 DEF Begin
<1>3. ASSUME NEW k \in Keys, Expire(k) PROVE CacheInv'
  <2>1. UNCHANGED cacheOrder BY <1>3 DEF Expire
  <2>2. responseCache' \in [Keys -> {"none", "valid", "expired"}]
    BY <1>3 DEF Expire, CacheInv
  <2>3. Cached' = Cached BY <1>3 DEF Expire, CacheInv, Cached
  <2> QED BY <2>1, <2>2, <2>3 DEF CacheInv, Distinct
<1> QED
  BY <1>1, <1>2, <1>3, LookupCacheInv, RespondCacheInv DEF Next, vars, cacheVars

\* A list without repetitions is as long as its set of elements is large.
LEMMA DistinctLength ==
  ASSUME NEW s \in Seq(Keys), Distinct(s)
  PROVE  Len(s) = Cardinality(ToSet(s))
<1>1. Len(s) \in Nat /\ DOMAIN s = 1..Len(s) BY DEF Distinct
<1>2. s \in Bijection(1..Len(s), ToSet(s))
  BY <1>1 DEF Distinct, ToSet, Bijection, Injection, Surjection, IsInjective
<1>3. ExistsBijection(1..Len(s), ToSet(s)) BY <1>2 DEF ExistsBijection
<1> QED BY <1>1, <1>3, FS_CountingElements

\* cacheResponse, cachedResponse and removeCachedKeyLocked: the list of keys
\* and the map of responses stay in step and within the limit, for any limit
\* and any interleaving of lookups, responses and expiries.
THEOREM CacheStaysOrdered == Spec => []CacheOrdered
<1>1. Init => CacheInv BY InitCacheInv
<1>2. CacheInv => CacheOrdered BY DistinctLength DEF CacheInv, CacheOrdered
<1>3. CacheInv /\ [Next]_vars => CacheInv' BY NextCacheInv
<1> QED BY <1>1, <1>2, <1>3, PTL DEF Spec

----------------------------------------------------------------------------
(* The replies of the H.248 endpoint: what it keeps, as for the SIP endpoint *)

H248Typed ==
  /\ h248CacheOrder \in Seq(H248Keys)
  /\ replyCache \in SUBSET H248Keys
  /\ IsFiniteSet(replyCache)
  /\ h248PC \in [H248Goroutines -> H248Keys \cup {H248!None}]

\* No key is listed twice: dropping the head drops a key.
H248Distinct ==
  \A i, j \in 1..Len(h248CacheOrder) : h248CacheOrder[i] = h248CacheOrder[j] => i = j

\* CacheOrdered of H248Transactions.
H248Ordered ==
  /\ ToSet(h248CacheOrder) = replyCache
  /\ Len(h248CacheOrder) = Cardinality(replyCache)
  /\ Len(h248CacheOrder) <= H248MaxCached

\* The assumption on the constants is carried along.
H248IInv ==
  H248!H248TransactionsAssumption /\ H248Typed /\ H248Distinct /\ H248Ordered

LEMMA H248InitIInv ==
  ASSUME H248!H248TransactionsAssumption, H248!Init
  PROVE  H248IInv
<1>1. Len(h248CacheOrder) = 0 /\ ToSet(h248CacheOrder) = {} BY DEF H248!Init, ToSet
<1>2. IsFiniteSet({}) /\ Cardinality({}) = 0 BY FS_EmptySet
<1>3. H248MaxCached \in Nat BY DEF H248!H248TransactionsAssumption
<1> QED BY <1>1, <1>2, <1>3 DEF H248!Init, H248IInv, H248Typed, H248Distinct, H248Ordered,
                                 H248!None, ToSet

\* What appending a new key does to the list and the cache.
LEMMA AppendKey ==
  ASSUME H248IInv, NEW k \in H248Keys \ replyCache
  PROVE  LET order == Append(h248CacheOrder, k)
         IN /\ order \in Seq(H248Keys) /\ order # <<>>
            /\ Len(order) = Len(h248CacheOrder) + 1
            /\ \A i, j \in 1..Len(order) : order[i] = order[j] => i = j
            /\ {order[i] : i \in 1..Len(order)} = replyCache \cup {k}
            /\ IsFiniteSet(replyCache \cup {k})
            /\ Cardinality(replyCache \cup {k}) = Len(order)
<1> DEFINE order == Append(h248CacheOrder, k)
<1>1. h248CacheOrder \in Seq(H248Keys) BY DEF H248IInv, H248Typed
<1>2. /\ order \in Seq(H248Keys) /\ order # <<>> /\ Len(order) = Len(h248CacheOrder) + 1
      /\ \A i \in 1..Len(h248CacheOrder) : order[i] = h248CacheOrder[i]
      /\ order[Len(order)] = k
  BY <1>1
<1>3. \A i \in 1..Len(h248CacheOrder) : h248CacheOrder[i] \in replyCache
  BY <1>1 DEF H248IInv, H248Ordered, ToSet
<1>4. Len(h248CacheOrder) \in Nat BY <1>1
<1>5. \A i \in 1..Len(order) : i \in 1..Len(h248CacheOrder) \/ i = Len(order) BY <1>2, <1>4
<1>6. \A i, j \in 1..Len(order) : order[i] = order[j] => i = j
  BY <1>2, <1>3, <1>5 DEF H248IInv, H248Distinct
<1>7. replyCache = {h248CacheOrder[i] : i \in 1..Len(h248CacheOrder)}
  BY <1>1 DEF H248IInv, H248Ordered, ToSet
<1>8. {order[i] : i \in 1..Len(order)} = replyCache \cup {k}
  <2>1. Len(order) \in 1..Len(order) /\ 1..Len(h248CacheOrder) \subseteq 1..Len(order)
    BY <1>2, <1>4
  <2> QED BY <1>2, <1>5, <1>7, <2>1
<1>9. IsFiniteSet(replyCache) BY DEF H248IInv, H248Typed
<1>10. /\ IsFiniteSet(replyCache \cup {k})
       /\ Cardinality(replyCache \cup {k}) = Cardinality(replyCache) + 1
  BY <1>9, FS_AddElement
<1> QED BY <1>2, <1>6, <1>8, <1>10 DEF H248IInv, H248Ordered

\* What dropping the oldest key does to a list without repetitions.
LEMMA DropOldest ==
  ASSUME NEW order \in Seq(H248Keys), order # <<>>,
         \A i, j \in 1..Len(order) : order[i] = order[j] => i = j
  PROVE  LET all == {order[i] : i \in 1..Len(order)}
         IN /\ Tail(order) \in Seq(H248Keys) /\ Len(Tail(order)) = Len(order) - 1
            /\ \A i, j \in 1..Len(Tail(order)) : Tail(order)[i] = Tail(order)[j] => i = j
            /\ {Tail(order)[i] : i \in 1..Len(Tail(order))} = all \ {Head(order)}
            /\ Head(order) \in all
<1> DEFINE rest == Tail(order)
<1>1. /\ rest \in Seq(H248Keys) /\ Len(rest) = Len(order) - 1 /\ Head(order) = order[1]
      /\ Len(order) \in Nat \ {0}
      /\ \A i \in 1..Len(rest) : rest[i] = order[i + 1]
  OBVIOUS
<1>2. \A i \in 1..Len(rest) : i + 1 \in 1..Len(order) /\ i + 1 # 1 BY <1>1
<1>3. \A i, j \in 1..Len(rest) : rest[i] = rest[j] => i = j
  <2> TAKE i, j \in 1..Len(rest)
  <2>1. rest[i] = rest[j] => i + 1 = j + 1 BY <1>1, <1>2
  <2> QED BY <2>1
<1>4. \A i \in 1..Len(order) : i = 1 \/ i - 1 \in 1..Len(rest) BY <1>1
<1>5. {rest[i] : i \in 1..Len(rest)} = {order[i] : i \in 1..Len(order)} \ {Head(order)}
  <2>1. ASSUME NEW i \in 1..Len(rest)
        PROVE  rest[i] \in {order[j] : j \in 1..Len(order)} \ {Head(order)}
    <3>1. rest[i] = order[i + 1] /\ i + 1 \in 1..Len(order) /\ i + 1 # 1 /\ 1 \in 1..Len(order)
      BY <1>1, <1>2
    <3> QED BY <3>1, <1>1
  <2>2. ASSUME NEW i \in 1..Len(order), order[i] # Head(order)
        PROVE  order[i] \in {rest[j] : j \in 1..Len(rest)}
    <3>1. i - 1 \in 1..Len(rest) BY <1>1, <1>4, <2>2
    <3>2. rest[i - 1] = order[i - 1 + 1] /\ i - 1 + 1 = i BY <1>1, <3>1
    <3> QED BY <3>1, <3>2
  <2> QED BY <2>1, <2>2
<1>6. Head(order) \in {order[i] : i \in 1..Len(order)} BY <1>1
<1> QED BY <1>1, <1>3, <1>5, <1>6

LEMMA H248RespondIInv ==
  ASSUME H248IInv, NEW g \in H248Goroutines, H248!Respond(g)
  PROVE  H248IInv'
<1> DEFINE k == h248PC[g]
<1>1. k \in H248Keys BY DEF H248IInv, H248Typed, H248!Respond
<1>2. h248PC' \in [H248Goroutines -> H248Keys \cup {H248!None}] BY DEF H248IInv, H248Typed, H248!Respond
<1>3. Len(h248CacheOrder) \in Nat /\ H248MaxCached \in Nat \ {0}
  BY DEF H248IInv, H248Typed, H248!H248TransactionsAssumption
<1>4. CASE k \in replyCache
  <2>1. H248!Appended(k) = h248CacheOrder BY <1>4 DEF H248!Appended
  <2>2. ~ (Len(H248!Appended(k)) > H248MaxCached) BY <1>3, <2>1 DEF H248IInv, H248Ordered
  <2>3. h248CacheOrder' = h248CacheOrder /\ replyCache' = replyCache BY <1>4, <2>1, <2>2 DEF H248!Respond
  <2> QED BY <1>2, <2>3 DEF H248IInv, H248Typed, H248Distinct, H248Ordered
<1>5. CASE k \notin replyCache
  <2> DEFINE order == Append(h248CacheOrder, k)
  <2>1. H248!Appended(k) = order BY <1>5 DEF H248!Appended
  <2>2. /\ order \in Seq(H248Keys) /\ order # <<>> /\ Len(order) = Len(h248CacheOrder) + 1
        /\ \A i, j \in 1..Len(order) : order[i] = order[j] => i = j
        /\ {order[i] : i \in 1..Len(order)} = replyCache \cup {k}
        /\ IsFiniteSet(replyCache \cup {k})
        /\ Cardinality(replyCache \cup {k}) = Len(order)
    BY <1>1, <1>5, AppendKey
  <2> HIDE DEF order
  <2>3. CASE Len(order) > H248MaxCached
    <3>1. /\ h248CacheOrder' = Tail(order)
          /\ replyCache' = (replyCache \cup {k}) \ {Head(order)}
      BY <2>1, <2>3 DEF H248!Respond
    <3>2. /\ Tail(order) \in Seq(H248Keys) /\ Len(Tail(order)) = Len(order) - 1
          /\ \A i, j \in 1..Len(Tail(order)) : Tail(order)[i] = Tail(order)[j] => i = j
          /\ {Tail(order)[i] : i \in 1..Len(Tail(order))} = (replyCache \cup {k}) \ {Head(order)}
          /\ Head(order) \in replyCache \cup {k}
      BY <2>2, DropOldest
    <3>3. /\ IsFiniteSet(replyCache')
          /\ Cardinality(replyCache') = Len(order) - 1
      <4> DEFINE all == replyCache \cup {k}
      <4>1. IsFiniteSet(all) /\ Cardinality(all) = Len(order) BY <2>2
      <4>2. Head(order) \in all BY <3>2
      <4> HIDE DEF all
      <4>3. /\ IsFiniteSet(all \ {Head(order)})
            /\ Cardinality(all \ {Head(order)}) = Len(order) - 1
        BY <4>1, <4>2, FS_RemoveElement
      <4> QED BY <3>1, <4>3 DEF all
    <3>4. Len(order) - 1 <= H248MaxCached BY <1>3, <2>2 DEF H248IInv, H248Ordered
    <3>5. H248Typed' BY <1>1, <1>2, <3>1, <3>2, <3>3 DEF H248IInv, H248Typed
    <3>6. H248Distinct' BY <3>1, <3>2 DEF H248Distinct
    <3>7. DOMAIN h248CacheOrder' = 1..Len(h248CacheOrder') BY <3>1, <3>2
    <3>8. H248Ordered' BY ZenonT(30), <3>1, <3>2, <3>3, <3>4, <3>7 DEF H248Ordered, ToSet
    <3> QED BY <3>5, <3>6, <3>8 DEF H248IInv
  <2>4. CASE ~ (Len(order) > H248MaxCached)
    <3>1. h248CacheOrder' = order /\ replyCache' = replyCache \cup {k} BY <2>1, <2>4 DEF H248!Respond
    <3>2. H248Typed' BY <1>1, <1>2, <2>2, <3>1 DEF H248IInv, H248Typed
    <3>3. H248Distinct' BY <2>2, <3>1 DEF H248Distinct
    <3>4. DOMAIN order = 1..Len(order) /\ Len(order) <= H248MaxCached BY <1>3, <2>2, <2>4
    <3>5. H248Ordered' BY <2>2, <3>1, <3>4 DEF H248Ordered, ToSet
    <3> QED BY <3>2, <3>3, <3>5 DEF H248IInv
  <2> QED BY <2>3, <2>4
<1> QED BY <1>4, <1>5

LEMMA H248ReceiveIInv ==
  ASSUME H248IInv, NEW g \in H248Goroutines, NEW k \in H248Keys, H248!Receive(g, k)
  PROVE  H248IInv'
BY DEF H248IInv, H248Typed, H248Distinct, H248Ordered, H248!Receive

LEMMA H248NextIInv == H248IInv /\ [H248!Next]_h248Vars => H248IInv'
<1> SUFFICES ASSUME H248IInv, [H248!Next]_h248Vars PROVE H248IInv' OBVIOUS
<1>1. CASE UNCHANGED h248Vars
  BY <1>1 DEF H248IInv, H248Typed, H248Distinct, H248Ordered, h248Vars
<1> QED BY <1>1, H248ReceiveIInv, H248RespondIInv DEF H248!Next

\* cacheReply: the list of keys and the replies stay in step and within the
\* limit, for any number of requests and goroutines and any limit.
THEOREM H248CacheStaysOrdered == H248!Spec => []H248CacheOrdered
<1>1. H248!Init => H248IInv BY H248Assumption, H248InitIInv
<1>2. H248IInv => H248CacheOrdered
  BY DEF H248IInv, H248Ordered, H248CacheOrdered, H248!CacheOrdered,
         ToSet, H248!ToSet, Cardinality, H248!Cardinality
<1>3. H248IInv /\ [H248!Next]_h248Vars => H248IInv' BY H248NextIInv
<1>4. UNCHANGED H248!vars => UNCHANGED h248Vars BY DEF H248!vars, h248Vars
<1> QED BY <1>1, <1>2, <1>3, <1>4, PTL DEF H248!Spec
=============================================================================
