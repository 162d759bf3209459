SPECIFICATION Spec
CONSTANTS
  InCalls = {i1}
  OutCalls = {}
  CallIDs = {}
  MGCs = {m1}
  Goroutines = {g1, g2}
  Faults = {}
  Acts = {"events", "ring", "clear", "Subtract"}
  Answers = {"2xx"}
  Nil = Nil
CHECK_DEADLOCK FALSE
INVARIANT AnsweredDialogCleared
