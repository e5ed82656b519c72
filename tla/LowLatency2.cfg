SPECIFICATION Spec
CONSTANTS
  Queues = {q1, q2}
  Swapchains = {s1, s2}
  Presenters = {t1, t2}
  PresentIds = {0, 1, 2}
  MaxTracked = 1
  MaxSubmits = 3
  MaxPresents = 2
SYMMETRY Symmetry
INVARIANTS TypeOK OncePlaced NoneLeftBehind
CHECK_DEADLOCK FALSE
