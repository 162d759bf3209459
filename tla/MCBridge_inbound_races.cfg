SPECIFICATION Spec
CONSTANTS
  InCalls = {i1}
  OutCalls = {}
  CallIDs = {}
  MGCs = {m1}
  Goroutines = {g1, g2}
  Faults = {}
  Acts = {"events", "ring", "clear", "Subtract"}
  Answers = {"1xx", "2xx", "2xx-bad-sdp", "failure"}
  Nil = Nil
SYMMETRY Symmetry
CHECK_DEADLOCK FALSE
INVARIANTS
  IndexConsistent
  AnswerReported
  LateByeOnce
  MediaReclaimed
  DialogOrder
PROPERTIES
  ImplementsProtocol
