\* Two threads, a table that double registrations overflow, a shutdown.
SPECIFICATION FairSpec
CONSTANTS
  Thread = {t1, t2}
  NoThread = NoThread
  Point = {p1, p2}
  Selections <- MCSelections
  MaxPoints = 2
  EnvDefault = TRUE
  MaxSet = 1
  MaxShutdown = 1
INVARIANTS
  TypeOK
  EntriesAfterInit
  SetReachesAll
  RegisteredListed
PROPERTY CallsReturn
