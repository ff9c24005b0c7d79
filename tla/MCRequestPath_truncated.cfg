CONSTANTS
  q1 = q1
  q2 = q2
  v1 = v1
  v2 = v2
  u1 = u1
  u2 = u2
  Server = {q1, q2}
  Conversation = {v1, v2}
  Tool = {u1, u2}
  IdleThreshold = 2
  MaxTracked = 1
  MaxAnchors = 1
  NoId = NoId
  NoTurn = NoTurn
  World <- MCTurnWorlds
SPECIFICATION RequestPathSpec
INVARIANT
  AnsweredInFull
CHECK_DEADLOCK FALSE
