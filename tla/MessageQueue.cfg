CONSTANTS
  Senders = {s1, s2}
  Receivers = {r1, r2}
  MaxPriority = 2
  Queues <- SmallAndLarge
SPECIFICATION FairSpec
INVARIANTS
  NoLostWakeup
  Inv
PROPERTIES
  ImplementsPriorityQueue
  BlockedProceed
