SPECIFICATION Spec
CONSTANTS
  InCalls = {}
  OutCalls = {o1}
  CallIDs = {x}
  MGCs = {m1}
  Goroutines = {g1, g2}
  Faults = {}
  Acts = {"lineEvents", "digits", "Subtract"}
  Answers = {}
  Nil = Nil
SYMMETRY Symmetry
INVARIANTS
  IndexConsistent
PROPERTIES
  ImplementsProtocol
