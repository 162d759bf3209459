--------------------------- MODULE MCTransactions ---------------------------
(***************************************************************************)
(* Model checking of SIPTransactions and H248Transactions.  The endpoints  *)
(* run side by side in one process and share nothing, so their states      *)
(* combine freely: it is enough to let either run while the other one has  *)
(* not begun.                                                              *)
(***************************************************************************)
EXTENDS SIPTransactions

CONSTANTS H248Keys, H248Goroutines, H248MaxCached

VARIABLES replyCache, h248CacheOrder, h248PC, h248Handled, evicted

H248 == INSTANCE H248Transactions
          WITH Keys <- H248Keys, Goroutines <- H248Goroutines,
               MaxCached <- H248MaxCached, cacheOrder <- h248CacheOrder,
               pc <- h248PC, handled <- h248Handled

ASSUME H248Assumption == H248!H248TransactionsAssumption

h248Vars == <<replyCache, h248CacheOrder, h248PC, h248Handled, evicted>>

MCInit == Init /\ H248!Init

MCNext == \/ H248!Init /\ Next /\ UNCHANGED h248Vars
          \/ Init /\ H248!Next /\ UNCHANGED vars

MCSpec == MCInit /\ [][MCNext]_<<vars, h248Vars>>

\* CacheOrdered of H248Transactions: cacheReply keeps cacheOrder and the
\* replies in step although goroutines handle and reply to one request at the
\* same time.
H248CacheOrdered == H248!CacheOrdered

\* The keys of the SIP endpoint are interchangeable, and so are its goroutines.
Symmetry == Permutations(Keys) \cup Permutations(Goroutines)
=============================================================================
