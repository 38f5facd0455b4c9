SPECIFICATION Spec
CONSTANTS
  Sessions = {s1}
  s1 = s1
  NoSession = NoSession
  Turns = {t1, t2}
  t1 = t1
  t2 = t2
  NoTurn = NoTurn
  Attaching <- Turns
  MaxOpens = 1
  MaxChunks = 1
INVARIANTS
  TurnsDoNotOverlap
CHECK_DEADLOCK FALSE
