SPECIFICATION FairSpec
CONSTANTS
  InCalls = {}
  OutCalls = {o1}
  CallIDs = {x}
  MGCs = {m1, m2}
  Goroutines = {g1}
  Faults = {"mgc"}
  Acts = {"lineEvents", "digits", "audit"}
  Answers = {}
  Nil = Nil
INVARIANTS
  OutboundReleasedFirst
PROPERTIES
  LineSynchronised
