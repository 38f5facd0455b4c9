\* Two sockets and two opens or loads.
SPECIFICATION Spec
CONSTANTS
  Conns = {c1, c2}
  Attempts = {a1, a2}
  NoAttempt = NoAttempt
SYMMETRY Symmetry
INVARIANT
  NoHarnessLeftBehind
CHECK_DEADLOCK FALSE
