SPECIFICATION FairSpec
CONSTANTS
  InCalls = {i1}
  OutCalls = {}
  CallIDs = {}
  MGCs = {m1}
  Goroutines = {g1}
  Faults = {"send", "relay", "mgc", "reject"}
  Acts = {"events", "ring", "clear", "Subtract"}
  Answers = {"1xx", "2xx", "2xx-bad-sdp", "failure"}
  Nil = Nil
CHECK_DEADLOCK FALSE
INVARIANTS
  TypeOK
  OnhookAtMostOnce
PROPERTIES
  EndedCallReleased
  UnansweredInviteEnds
