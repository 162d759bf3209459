SPECIFICATION Spec
INVARIANT ToneIsALaw
CHECK_DEADLOCK FALSE
