\* A set_* call during the first execution of a trace point.
SPECIFICATION Spec
CONSTANTS
  Thread = {t1, t2}
  NoThread = NoThread
  Point = {p1, p2}
  Selections <- MCSelections
  MaxPoints = 2
  EnvDefault = TRUE
  MaxSet = 1
  MaxShutdown = 0
INVARIANT ControlHolds
