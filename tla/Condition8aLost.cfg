CONSTANTS
  Waiters = {w1, w2}
  Notifiers = {n1}
  NoThread = NoThread
  Clients <- MixedClients
  Word = 16
SPECIFICATION Spec
INVARIANTS
  NotifyFindsWaiter
