CONSTANTS
  k1 = k1
  k2 = k2
  Commands = {k1, k2}
  EventIds = {}
  MaxLateCommands = 1
SPECIFICATION Spec
INVARIANTS LateAnswerNeverRaises
CHECK_DEADLOCK FALSE
