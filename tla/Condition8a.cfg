CONSTANTS
  Waiters = {w1, w2, w3, w4}
  Notifiers = {n1}
  NoThread = NoThread
  Clients <- UnmixedClients
  Word = 8
SPECIFICATION FairSpec
INVARIANTS
  NotifyFindsWaiter
  Inv
PROPERTIES
  GateReopens
