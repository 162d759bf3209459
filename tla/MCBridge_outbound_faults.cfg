SPECIFICATION FairSpec
CONSTANTS
  InCalls = {}
  OutCalls = {o1}
  CallIDs = {x}
  MGCs = {m1}
  Goroutines = {g1}
  Faults = {"send", "relay", "reject"}
  Acts = {"lineEvents", "digits", "media", "Subtract"}
  Answers = {}
  Nil = Nil
INVARIANTS
  DigitsBeforeAnswer
PROPERTIES
  EndedCallReleased
