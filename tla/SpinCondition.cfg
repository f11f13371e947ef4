CONSTANTS
  Waiters = {w1, w2}
  Notifiers = {n1}
  NoThread = NoThread
SPECIFICATION FairSpec
INVARIANTS
  NotificationIsExact
  Inv
PROPERTIES
  NotificationEnds
  NotifiedReturn
