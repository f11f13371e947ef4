CONSTANTS
  Threads = {t1, t2, t3}
  MaxReaders = 2
SPECIFICATION FairSpec
INVARIANTS
  MutualExclusion
  NoLostWakeupSecondGate
  IInv
PROPERTIES
  ClaimIsNotOvertaken
  
  ClaimEnds
