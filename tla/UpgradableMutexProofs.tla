----------------------- MODULE UpgradableMutexProofs -----------------------
(***************************************************************************)
(* Proofs that the upgradable mutex keeps its ownership rules and loses no *)
(* wake-up, for every finite set of threads and every max_readers >= 2.    *)
(***************************************************************************)
EXTENDS UpgradableMutex, FiniteSetTheorems, TLAPS

-----------------------------------------------------------------------------
(* How the number of readers changes with an ownership. *)

LEMMA ReadersFinite ==
  ASSUME NEW o PROVE IsFiniteSet(Readers(o)) /\ Cardinality(Readers(o)) \in Nat
<1>1. Readers(o) \subseteq Threads
  BY DEF Readers
<1> QED
  BY <1>1, ThreadsAssumption, FS_Subset, FS_CardinalityType

LEMMA NoReaders ==
  ASSUME NEW o
  PROVE Cardinality(Readers(o)) = 0 <=> \A t \in Threads : o[t] \notin {"sharable", "upgradable"}
<1>1. Cardinality(Readers(o)) = 0 <=> Readers(o) = {}
  BY ReadersFinite, FS_EmptySet
<1> QED
  BY <1>1 DEF Readers

LEMMA AddReader ==
  ASSUME NEW o \in [Threads -> Ownerships], NEW t \in Threads,
         o[t] \notin {"sharable", "upgradable"},
         NEW x \in {"sharable", "upgradable"}
  PROVE Cardinality(Readers([o EXCEPT ![t] = x])) = Cardinality(Readers(o)) + 1
<1>1. Readers([o EXCEPT ![t] = x]) = Readers(o) \cup {t}
  BY DEF Readers
<1>2. t \notin Readers(o)
  BY DEF Readers
<1> QED
  BY <1>1, <1>2, ReadersFinite, FS_AddElement

LEMMA RemoveReader ==
  ASSUME NEW o \in [Threads -> Ownerships], NEW t \in Threads,
         o[t] \in {"sharable", "upgradable"},
         NEW x \in {"none", "exclusive"}
  PROVE /\ Cardinality(Readers([o EXCEPT ![t] = x])) = Cardinality(Readers(o)) - 1
        /\ Cardinality(Readers(o)) >= 1
<1>1. Readers([o EXCEPT ![t] = x]) = Readers(o) \ {t}
  BY DEF Readers
<1>2. t \in Readers(o)
  BY DEF Readers
<1>3. Cardinality(Readers(o)) # 0
  BY <1>2, ReadersFinite, FS_EmptySet
<1>4. Cardinality(Readers(o) \ {t}) = Cardinality(Readers(o)) - 1
  BY <1>2, ReadersFinite, FS_RemoveElement
<1>5. Cardinality(Readers(o)) >= 1
  BY <1>3, ReadersFinite
<1> QED
  BY <1>1, <1>4, <1>5, Zenon

LEMMA KeepReader ==
  ASSUME NEW o \in [Threads -> Ownerships], NEW t \in Threads, NEW x \in Ownerships,
         o[t] \in {"sharable", "upgradable"} <=> x \in {"sharable", "upgradable"}
  PROVE Readers([o EXCEPT ![t] = x]) = Readers(o)
BY DEF Readers

\* What a step of thread t does to the ownerships and to num_upr_shar.
OwnershipStep(t) ==
  \/ own' = own /\ num_upr_shar' = num_upr_shar
  \/ \E x \in {"sharable", "upgradable"} :
       /\ own[t] \notin {"sharable", "upgradable"}
       /\ num_upr_shar' = num_upr_shar + 1 /\ own' = [own EXCEPT ![t] = x]
  \/ \E x \in {"none", "exclusive"} :
       /\ own[t] \in {"sharable", "upgradable"}
       /\ num_upr_shar' = num_upr_shar - 1 /\ own' = [own EXCEPT ![t] = x]
  \/ \E x \in Ownerships :
       /\ own[t] \in {"sharable", "upgradable"} <=> x \in {"sharable", "upgradable"}
       /\ num_upr_shar' = num_upr_shar /\ own' = [own EXCEPT ![t] = x]

\* Every such step keeps the count of the owners right.
LEMMA StepCountsOwners ==
  ASSUME TypeOK, CountsOwners, NEW t \in Threads, OwnershipStep(t)
  PROVE  CountsOwners'
<1> USE DEF CountsOwners
<1> own \in [Threads -> Ownerships]
  BY DEF TypeOK, GatesTypeOK
<1>1. CASE own' = own /\ num_upr_shar' = num_upr_shar
  BY <1>1, Zenon DEF Readers
<1>2. ASSUME NEW x \in {"sharable", "upgradable"}, own[t] \notin {"sharable", "upgradable"},
             num_upr_shar' = num_upr_shar + 1, own' = [own EXCEPT ![t] = x]
      PROVE  CountsOwners'
  <2>1. Cardinality(Readers(own')) = Cardinality(Readers(own)) + 1
    BY <1>2, AddReader, Zenon
  <2> QED
    BY <1>2, <2>1, Zenon DEF Readers
<1>3. ASSUME NEW x \in {"none", "exclusive"}, own[t] \in {"sharable", "upgradable"},
             num_upr_shar' = num_upr_shar - 1, own' = [own EXCEPT ![t] = x]
      PROVE  CountsOwners'
  <2>1. Cardinality(Readers(own')) = Cardinality(Readers(own)) - 1
    BY <1>3, RemoveReader, Zenon
  <2> QED
    BY <1>3, <2>1, Zenon DEF Readers
<1>4. ASSUME NEW x \in Ownerships, num_upr_shar' = num_upr_shar,
             own[t] \in {"sharable", "upgradable"} <=> x \in {"sharable", "upgradable"},
             own' = [own EXCEPT ![t] = x]
      PROVE  CountsOwners'
  <2>1. Readers(own') = Readers(own)
    BY <1>4, KeepReader, Zenon
  <2> QED
    BY <1>4, <2>1, Zenon DEF Readers
<1> QED
  BY <1>1, <1>2, <1>3, <1>4 DEF OwnershipStep

-----------------------------------------------------------------------------
LEMMA InitIInv == Init => IInv
<1> SUFFICES ASSUME Init PROVE IInv
  OBVIOUS
<1>1. Cardinality(Readers(own)) = 0
  BY NoReaders DEF Init, GatesInit
<1>2. TypeOK
  <2>1. num_upr_shar \in 0..MaxReaders
    BY MaxReadersAssumption DEF Init
  <2>4. exclusive_in \in BOOLEAN /\ upgradable_in \in BOOLEAN
    BY Zenon DEF Init
  <2>2. /\ own \in [Threads -> Ownerships]
        /\ gate \in [Threads -> {"no", "first", "second"}]
    BY DEF Init, GatesInit, Ownerships
  <2>3. /\ wake \in [Threads -> {"awake", "asleep", "notified", "expired"}]
        /\ call \in [Threads -> Calls \cup {"none"}]
    BY DEF Init, GatesInit
  <2> QED
    BY <2>1, <2>2, <2>3, <2>4 DEF TypeOK, GatesTypeOK
<1>3. CountsOwners
  BY <1>1 DEF Init, CountsOwners
<1>4. Consistent /\ SecondGateHasReaders /\ NoLostWakeupFirstGate
  BY DEF Init, GatesInit, Consistent, Claims, SecondGateHasReaders, NoLostWakeupFirstGate
<1> QED
  BY <1>2, <1>3, <1>4 DEF IInv

LEMMA StepIInv ==
  ASSUME IInv, [Next]_vars PROVE IInv'
<1> USE MaxReadersAssumption
<1> USE DEF TypeOK, GatesTypeOK, ctrl, Ownerships, Calls, BlockingCalls, TimedCalls, Outside,
            AtFirstGate, AtSecondGate, WaitAgain, GiveUp, Leave, LeaveNotifyAll,
            LeaveNotifyOne, wait, ExclusiveBlocked, UpgradableBlocked, SharableBlocked
<1>t. TypeOK /\ CountsOwners /\ Consistent /\ SecondGateHasReaders /\ NoLostWakeupFirstGate
  BY DEF IInv
<1>r. \A t \in Threads : own[t] \in {"sharable", "upgradable"} => num_upr_shar > 0
  BY <1>t, NoReaders, ReadersFinite DEF CountsOwners
<1>u. upgradable_in => num_upr_shar > 0
  BY <1>t, <1>r DEF Consistent
<1>0. CASE UNCHANGED vars
  BY <1>0, <1>t DEF vars, IInv, CountsOwners, Readers, Consistent, Claims, SecondGateHasReaders,
                    NoLostWakeupFirstGate
<1>1. ASSUME NEW t \in Threads, NEW c \in {"lock", "timed_lock"}, exclusive_first_gate(t, c)
      PROVE  IInv'
  <2>1. num_upr_shar' \in 0..MaxReaders
    BY <1>1, <1>t, <1>r DEF exclusive_first_gate, Consistent, Claims
  <2>2. TypeOK'
    <3>1. exclusive_in' \in BOOLEAN /\ upgradable_in' \in BOOLEAN
      BY <1>1, <1>t DEF exclusive_first_gate
    <3>2. own' \in [Threads -> Ownerships]
      BY <1>1, <1>t DEF exclusive_first_gate
    <3>3. gate' \in [Threads -> {"no", "first", "second"}]
      BY <1>1, <1>t DEF exclusive_first_gate
    <3>4. wake' \in [Threads -> {"awake", "asleep", "notified", "expired"}]
      BY <1>1, <1>t DEF exclusive_first_gate
    <3>5. call' \in [Threads -> Calls \cup {"none"}]
      BY <1>1, <1>t DEF exclusive_first_gate
    <3> QED
      BY <2>1, <3>1, <3>2, <3>3, <3>4, <3>5
  <2>3. OwnershipStep(t)
    BY <1>1, <1>t DEF exclusive_first_gate, Consistent, Claims, OwnershipStep
  <2>4. Consistent'
    BY <1>1, <1>t, <1>r, <1>u DEF exclusive_first_gate, Consistent, Claims
  <2>5. SecondGateHasReaders' /\ NoLostWakeupFirstGate'
    BY <1>1, <1>t, <1>r DEF exclusive_first_gate, Consistent, Claims, SecondGateHasReaders, NoLostWakeupFirstGate
  <2> QED
    BY <1>t, <2>2, <2>3, <2>4, <2>5, StepCountsOwners DEF IInv
<1>2. ASSUME NEW t \in Threads, NEW c \in {"lock", "timed_lock"}, exclusive_second_gate(t, c)
      PROVE  IInv'
  <2>1. num_upr_shar' \in 0..MaxReaders
    BY <1>2, <1>t, <1>r DEF exclusive_second_gate, exclusive_rollback, Consistent, Claims
  <2>2. TypeOK'
    <3>1. exclusive_in' \in BOOLEAN /\ upgradable_in' \in BOOLEAN
      BY <1>2, <1>t DEF exclusive_second_gate, exclusive_rollback
    <3>2. own' \in [Threads -> Ownerships]
      BY <1>2, <1>t DEF exclusive_second_gate, exclusive_rollback
    <3>3. gate' \in [Threads -> {"no", "first", "second"}]
      BY <1>2, <1>t DEF exclusive_second_gate, exclusive_rollback
    <3>4. wake' \in [Threads -> {"awake", "asleep", "notified", "expired"}]
      BY <1>2, <1>t DEF exclusive_second_gate, exclusive_rollback
    <3>5. call' \in [Threads -> Calls \cup {"none"}]
      BY <1>2, <1>t DEF exclusive_second_gate, exclusive_rollback
    <3> QED
      BY <2>1, <3>1, <3>2, <3>3, <3>4, <3>5
  <2>3. OwnershipStep(t)
    BY <1>2, <1>t DEF exclusive_second_gate, exclusive_rollback, Consistent, Claims, OwnershipStep
  <2>4. Consistent'
    BY <1>2, <1>t, <1>r, <1>u DEF exclusive_second_gate, exclusive_rollback, Consistent, Claims
  <2>5. SecondGateHasReaders' /\ NoLostWakeupFirstGate'
    BY <1>2, <1>t, <1>r DEF exclusive_second_gate, exclusive_rollback, Consistent, Claims, SecondGateHasReaders, NoLostWakeupFirstGate
  <2> QED
    BY <1>t, <2>2, <2>3, <2>4, <2>5, StepCountsOwners DEF IInv
<1>3. ASSUME NEW t \in Threads, try_lock(t)
      PROVE  IInv'
  <2>1. num_upr_shar' \in 0..MaxReaders
    BY <1>3, <1>t, <1>r DEF try_lock, Consistent, Claims
  <2>2. TypeOK'
    BY <1>3, <1>t, <2>1 DEF try_lock
  <2>3. OwnershipStep(t)
    BY <1>3, <1>t DEF try_lock, Consistent, Claims, OwnershipStep
  <2>4. Consistent'
    BY <1>3, <1>t, <1>r, <1>u DEF try_lock, Consistent, Claims
  <2>5. SecondGateHasReaders' /\ NoLostWakeupFirstGate'
    BY <1>3, <1>t, <1>r DEF try_lock, Consistent, Claims, SecondGateHasReaders, NoLostWakeupFirstGate
  <2> QED
    BY <1>t, <2>2, <2>3, <2>4, <2>5, StepCountsOwners DEF IInv
<1>4. ASSUME NEW t \in Threads, unlock(t)
      PROVE  IInv'
  <2>1. num_upr_shar' \in 0..MaxReaders
    BY <1>4, <1>t, <1>r DEF unlock, Consistent, Claims
  <2>2. TypeOK'
    BY <1>4, <1>t, <2>1 DEF unlock
  <2>3. OwnershipStep(t)
    BY <1>4, <1>t DEF unlock, Consistent, Claims, OwnershipStep
  <2>4. Consistent'
    BY <1>4, <1>t, <1>r, <1>u DEF unlock, Consistent, Claims
  <2>5. SecondGateHasReaders' /\ NoLostWakeupFirstGate'
    BY <1>4, <1>t, <1>r DEF unlock, Consistent, Claims, SecondGateHasReaders, NoLostWakeupFirstGate
  <2> QED
    BY <1>t, <2>2, <2>3, <2>4, <2>5, StepCountsOwners DEF IInv
<1>5. ASSUME NEW t \in Threads, NEW c \in {"lock_upgradable", "timed_lock_upgradable"}, upgradable_first_gate(t, c)
      PROVE  IInv'
  <2>1. num_upr_shar' \in 0..MaxReaders
    BY <1>5, <1>t, <1>r DEF upgradable_first_gate, TakeUpgradable, Consistent, Claims
  <2>2. TypeOK'
    <3>1. exclusive_in' \in BOOLEAN /\ upgradable_in' \in BOOLEAN
      BY <1>5, <1>t DEF upgradable_first_gate, TakeUpgradable
    <3>2. own' \in [Threads -> Ownerships]
      BY <1>5, <1>t DEF upgradable_first_gate, TakeUpgradable
    <3>3. gate' \in [Threads -> {"no", "first", "second"}]
      BY <1>5, <1>t DEF upgradable_first_gate, TakeUpgradable
    <3>4. wake' \in [Threads -> {"awake", "asleep", "notified", "expired"}]
      BY <1>5, <1>t DEF upgradable_first_gate, TakeUpgradable
    <3>5. call' \in [Threads -> Calls \cup {"none"}]
      BY <1>5, <1>t DEF upgradable_first_gate, TakeUpgradable
    <3> QED
      BY <2>1, <3>1, <3>2, <3>3, <3>4, <3>5
  <2>3. OwnershipStep(t)
    BY <1>5, <1>t DEF upgradable_first_gate, TakeUpgradable, Consistent, Claims, OwnershipStep
  <2>4. Consistent'
    BY <1>5, <1>t, <1>r, <1>u DEF upgradable_first_gate, TakeUpgradable, Consistent, Claims
  <2>5. SecondGateHasReaders' /\ NoLostWakeupFirstGate'
    BY <1>5, <1>t, <1>r DEF upgradable_first_gate, TakeUpgradable, Consistent, Claims, SecondGateHasReaders, NoLostWakeupFirstGate
  <2> QED
    BY <1>t, <2>2, <2>3, <2>4, <2>5, StepCountsOwners DEF IInv
<1>6. ASSUME NEW t \in Threads, try_lock_upgradable(t)
      PROVE  IInv'
  <2>1. num_upr_shar' \in 0..MaxReaders
    BY <1>6, <1>t, <1>r DEF try_lock_upgradable, TakeUpgradable, Consistent, Claims
  <2>2. TypeOK'
    BY <1>6, <1>t, <2>1 DEF try_lock_upgradable, TakeUpgradable
  <2>3. OwnershipStep(t)
    BY <1>6, <1>t DEF try_lock_upgradable, TakeUpgradable, Consistent, Claims, OwnershipStep
  <2>4. Consistent'
    BY <1>6, <1>t, <1>r, <1>u DEF try_lock_upgradable, TakeUpgradable, Consistent, Claims
  <2>5. SecondGateHasReaders' /\ NoLostWakeupFirstGate'
    BY <1>6, <1>t, <1>r DEF try_lock_upgradable, TakeUpgradable, Consistent, Claims, SecondGateHasReaders, NoLostWakeupFirstGate
  <2> QED
    BY <1>t, <2>2, <2>3, <2>4, <2>5, StepCountsOwners DEF IInv
<1>7. ASSUME NEW t \in Threads, unlock_upgradable(t)
      PROVE  IInv'
  <2>1. num_upr_shar' \in 0..MaxReaders
    BY <1>7, <1>t, <1>r DEF unlock_upgradable, Consistent, Claims
  <2>2. TypeOK'
    BY <1>7, <1>t, <2>1 DEF unlock_upgradable
  <2>3. OwnershipStep(t)
    BY <1>7, <1>t DEF unlock_upgradable, Consistent, Claims, OwnershipStep
  <2>4. Consistent'
    BY <1>7, <1>t, <1>r, <1>u DEF unlock_upgradable, Consistent, Claims
  <2>5. SecondGateHasReaders' /\ NoLostWakeupFirstGate'
    BY <1>7, <1>t, <1>r DEF unlock_upgradable, Consistent, Claims, SecondGateHasReaders, NoLostWakeupFirstGate
  <2> QED
    BY <1>t, <2>2, <2>3, <2>4, <2>5, StepCountsOwners DEF IInv
<1>8. ASSUME NEW t \in Threads, NEW c \in {"lock_sharable", "timed_lock_sharable"}, sharable_first_gate(t, c)
      PROVE  IInv'
  <2>1. num_upr_shar' \in 0..MaxReaders
    BY <1>8, <1>t, <1>r DEF sharable_first_gate, TakeSharable, Consistent, Claims
  <2>2. TypeOK'
    BY <1>8, <1>t, <2>1 DEF sharable_first_gate, TakeSharable
  <2>3. OwnershipStep(t)
    BY <1>8, <1>t DEF sharable_first_gate, TakeSharable, Consistent, Claims, OwnershipStep
  <2>4. Consistent'
    BY <1>8, <1>t, <1>r, <1>u DEF sharable_first_gate, TakeSharable, Consistent, Claims
  <2>5. SecondGateHasReaders' /\ NoLostWakeupFirstGate'
    BY <1>8, <1>t, <1>r DEF sharable_first_gate, TakeSharable, Consistent, Claims, SecondGateHasReaders, NoLostWakeupFirstGate
  <2> QED
    BY <1>t, <2>2, <2>3, <2>4, <2>5, StepCountsOwners DEF IInv
<1>9. ASSUME NEW t \in Threads, try_lock_sharable(t)
      PROVE  IInv'
  <2>1. num_upr_shar' \in 0..MaxReaders
    BY <1>9, <1>t, <1>r DEF try_lock_sharable, TakeSharable, Consistent, Claims
  <2>2. TypeOK'
    BY <1>9, <1>t, <2>1 DEF try_lock_sharable, TakeSharable
  <2>3. OwnershipStep(t)
    BY <1>9, <1>t DEF try_lock_sharable, TakeSharable, Consistent, Claims, OwnershipStep
  <2>4. Consistent'
    BY <1>9, <1>t, <1>r, <1>u DEF try_lock_sharable, TakeSharable, Consistent, Claims
  <2>5. SecondGateHasReaders' /\ NoLostWakeupFirstGate'
    BY <1>9, <1>t, <1>r DEF try_lock_sharable, TakeSharable, Consistent, Claims, SecondGateHasReaders, NoLostWakeupFirstGate
  <2> QED
    BY <1>t, <2>2, <2>3, <2>4, <2>5, StepCountsOwners DEF IInv
<1>10. ASSUME NEW t \in Threads, unlock_sharable(t)
      PROVE  IInv'
  <2>1. num_upr_shar' \in 0..MaxReaders
    BY <1>10, <1>t, <1>r DEF unlock_sharable, Consistent, Claims
  <2>2. TypeOK'
    BY <1>10, <1>t, <2>1 DEF unlock_sharable
  <2>3. OwnershipStep(t)
    BY <1>10, <1>t DEF unlock_sharable, Consistent, Claims, OwnershipStep
  <2>4. Consistent'
    BY <1>10, <1>t, <1>r, <1>u DEF unlock_sharable, Consistent, Claims
  <2>5. SecondGateHasReaders' /\ NoLostWakeupFirstGate'
    BY <1>10, <1>t, <1>r DEF unlock_sharable, Consistent, Claims, SecondGateHasReaders, NoLostWakeupFirstGate
  <2> QED
    BY <1>t, <2>2, <2>3, <2>4, <2>5, StepCountsOwners DEF IInv
<1>11. ASSUME NEW t \in Threads, unlock_and_lock_upgradable(t)
      PROVE  IInv'
  <2>1. num_upr_shar' \in 0..MaxReaders
    BY <1>11, <1>t, <1>r DEF unlock_and_lock_upgradable, Consistent, Claims
  <2>2. TypeOK'
    BY <1>11, <1>t, <2>1 DEF unlock_and_lock_upgradable
  <2>3. OwnershipStep(t)
    BY <1>11, <1>t DEF unlock_and_lock_upgradable, Consistent, Claims, OwnershipStep
  <2>4. Consistent'
    BY <1>11, <1>t, <1>r, <1>u DEF unlock_and_lock_upgradable, Consistent, Claims
  <2>5. SecondGateHasReaders' /\ NoLostWakeupFirstGate'
    BY <1>11, <1>t, <1>r DEF unlock_and_lock_upgradable, Consistent, Claims, SecondGateHasReaders, NoLostWakeupFirstGate
  <2> QED
    BY <1>t, <2>2, <2>3, <2>4, <2>5, StepCountsOwners DEF IInv
<1>12. ASSUME NEW t \in Threads, unlock_and_lock_sharable(t)
      PROVE  IInv'
  <2>1. num_upr_shar' \in 0..MaxReaders
    BY <1>12, <1>t, <1>r DEF unlock_and_lock_sharable, Consistent, Claims
  <2>2. TypeOK'
    BY <1>12, <1>t, <2>1 DEF unlock_and_lock_sharable
  <2>3. OwnershipStep(t)
    BY <1>12, <1>t DEF unlock_and_lock_sharable, Consistent, Claims, OwnershipStep
  <2>4. Consistent'
    BY <1>12, <1>t, <1>r, <1>u DEF unlock_and_lock_sharable, Consistent, Claims
  <2>5. SecondGateHasReaders' /\ NoLostWakeupFirstGate'
    BY <1>12, <1>t, <1>r DEF unlock_and_lock_sharable, Consistent, Claims, SecondGateHasReaders, NoLostWakeupFirstGate
  <2> QED
    BY <1>t, <2>2, <2>3, <2>4, <2>5, StepCountsOwners DEF IInv
<1>13. ASSUME NEW t \in Threads, unlock_upgradable_and_lock_sharable(t)
      PROVE  IInv'
  <2>1. num_upr_shar' \in 0..MaxReaders
    BY <1>13, <1>t, <1>r DEF unlock_upgradable_and_lock_sharable, Consistent, Claims
  <2>2. TypeOK'
    BY <1>13, <1>t, <2>1 DEF unlock_upgradable_and_lock_sharable
  <2>3. OwnershipStep(t)
    BY <1>13, <1>t DEF unlock_upgradable_and_lock_sharable, Consistent, Claims, OwnershipStep
  <2>4. Consistent'
    BY <1>13, <1>t, <1>r, <1>u DEF unlock_upgradable_and_lock_sharable, Consistent, Claims
  <2>5. SecondGateHasReaders' /\ NoLostWakeupFirstGate'
    BY <1>13, <1>t, <1>r DEF unlock_upgradable_and_lock_sharable, Consistent, Claims, SecondGateHasReaders, NoLostWakeupFirstGate
  <2> QED
    BY <1>t, <2>2, <2>3, <2>4, <2>5, StepCountsOwners DEF IInv
<1>14. ASSUME NEW t \in Threads, NEW c \in {"upgrade", "timed_upgrade"}, upgrade_claim(t, c)
      PROVE  IInv'
  <2>1. num_upr_shar' \in 0..MaxReaders
    BY <1>14, <1>t, <1>r DEF upgrade_claim, Consistent, Claims
  <2>2. TypeOK'
    <3>1. exclusive_in' \in BOOLEAN /\ upgradable_in' \in BOOLEAN
      BY <1>14, <1>t DEF upgrade_claim
    <3>2. own' \in [Threads -> Ownerships]
      BY <1>14, <1>t DEF upgrade_claim
    <3>3. gate' \in [Threads -> {"no", "first", "second"}]
      BY <1>14, <1>t DEF upgrade_claim
    <3>4. wake' \in [Threads -> {"awake", "asleep", "notified", "expired"}]
      BY <1>14, <1>t DEF upgrade_claim
    <3>5. call' \in [Threads -> Calls \cup {"none"}]
      BY <1>14, <1>t DEF upgrade_claim
    <3> QED
      BY <2>1, <3>1, <3>2, <3>3, <3>4, <3>5
  <2>3. OwnershipStep(t)
    BY <1>14, <1>t DEF upgrade_claim, Consistent, Claims, OwnershipStep
  <2>4. Consistent'
    BY <1>14, <1>t, <1>r, <1>u DEF upgrade_claim, Consistent, Claims
  <2>5. SecondGateHasReaders' /\ NoLostWakeupFirstGate'
    BY <1>14, <1>t, <1>r DEF upgrade_claim, Consistent, Claims, SecondGateHasReaders, NoLostWakeupFirstGate
  <2> QED
    BY <1>t, <2>2, <2>3, <2>4, <2>5, StepCountsOwners DEF IInv
<1>15. ASSUME NEW t \in Threads, NEW c \in {"upgrade", "timed_upgrade"}, upgrade_second_gate(t, c)
      PROVE  IInv'
  <2>1. num_upr_shar' \in 0..MaxReaders
    BY <1>15, <1>t, <1>r DEF upgrade_second_gate, upgradable_to_exclusive_rollback, Consistent, Claims
  <2>2. TypeOK'
    <3>1. exclusive_in' \in BOOLEAN /\ upgradable_in' \in BOOLEAN
      BY <1>15, <1>t DEF upgrade_second_gate, upgradable_to_exclusive_rollback
    <3>2. own' \in [Threads -> Ownerships]
      BY <1>15, <1>t DEF upgrade_second_gate, upgradable_to_exclusive_rollback
    <3>3. gate' \in [Threads -> {"no", "first", "second"}]
      BY <1>15, <1>t DEF upgrade_second_gate, upgradable_to_exclusive_rollback
    <3>4. wake' \in [Threads -> {"awake", "asleep", "notified", "expired"}]
      BY <1>15, <1>t DEF upgrade_second_gate, upgradable_to_exclusive_rollback
    <3>5. call' \in [Threads -> Calls \cup {"none"}]
      BY <1>15, <1>t DEF upgrade_second_gate, upgradable_to_exclusive_rollback
    <3> QED
      BY <2>1, <3>1, <3>2, <3>3, <3>4, <3>5
  <2>3. OwnershipStep(t)
    BY <1>15, <1>t DEF upgrade_second_gate, upgradable_to_exclusive_rollback, Consistent, Claims, OwnershipStep
  <2>4. Consistent'
    BY <1>15, <1>t, <1>r, <1>u DEF upgrade_second_gate, upgradable_to_exclusive_rollback, Consistent, Claims
  <2>5. SecondGateHasReaders' /\ NoLostWakeupFirstGate'
    BY <1>15, <1>t, <1>r DEF upgrade_second_gate, upgradable_to_exclusive_rollback, Consistent, Claims, SecondGateHasReaders, NoLostWakeupFirstGate
  <2> QED
    BY <1>t, <2>2, <2>3, <2>4, <2>5, StepCountsOwners DEF IInv
<1>16. ASSUME NEW t \in Threads, try_unlock_upgradable_and_lock(t)
      PROVE  IInv'
  <2>1. num_upr_shar' \in 0..MaxReaders
    BY <1>16, <1>t, <1>r DEF try_unlock_upgradable_and_lock, Consistent, Claims
  <2>2. TypeOK'
    BY <1>16, <1>t, <2>1 DEF try_unlock_upgradable_and_lock
  <2>3. OwnershipStep(t)
    BY <1>16, <1>t DEF try_unlock_upgradable_and_lock, Consistent, Claims, OwnershipStep
  <2>4. Consistent'
    BY <1>16, <1>t, <1>r, <1>u DEF try_unlock_upgradable_and_lock, Consistent, Claims
  <2>5. SecondGateHasReaders' /\ NoLostWakeupFirstGate'
    BY <1>16, <1>t, <1>r DEF try_unlock_upgradable_and_lock, Consistent, Claims, SecondGateHasReaders, NoLostWakeupFirstGate
  <2> QED
    BY <1>t, <2>2, <2>3, <2>4, <2>5, StepCountsOwners DEF IInv
<1>17. ASSUME NEW t \in Threads, try_unlock_sharable_and_lock(t)
      PROVE  IInv'
  <2>1. num_upr_shar' \in 0..MaxReaders
    BY <1>17, <1>t, <1>r DEF try_unlock_sharable_and_lock, Consistent, Claims
  <2>2. TypeOK'
    BY <1>17, <1>t, <2>1 DEF try_unlock_sharable_and_lock
  <2>3. OwnershipStep(t)
    BY <1>17, <1>t DEF try_unlock_sharable_and_lock, Consistent, Claims, OwnershipStep
  <2>4. Consistent'
    BY <1>17, <1>t, <1>r, <1>u DEF try_unlock_sharable_and_lock, Consistent, Claims
  <2>5. SecondGateHasReaders' /\ NoLostWakeupFirstGate'
    BY <1>17, <1>t, <1>r DEF try_unlock_sharable_and_lock, Consistent, Claims, SecondGateHasReaders, NoLostWakeupFirstGate
  <2> QED
    BY <1>t, <2>2, <2>3, <2>4, <2>5, StepCountsOwners DEF IInv
<1>18. ASSUME NEW t \in Threads, try_unlock_sharable_and_lock_upgradable(t)
      PROVE  IInv'
  <2>1. num_upr_shar' \in 0..MaxReaders
    BY <1>18, <1>t, <1>r DEF try_unlock_sharable_and_lock_upgradable, Consistent, Claims
  <2>2. TypeOK'
    BY <1>18, <1>t, <2>1 DEF try_unlock_sharable_and_lock_upgradable
  <2>3. OwnershipStep(t)
    BY <1>18, <1>t DEF try_unlock_sharable_and_lock_upgradable, Consistent, Claims, OwnershipStep
  <2>4. Consistent'
    BY <1>18, <1>t, <1>r, <1>u DEF try_unlock_sharable_and_lock_upgradable, Consistent, Claims
  <2>5. SecondGateHasReaders' /\ NoLostWakeupFirstGate'
    BY <1>18, <1>t, <1>r DEF try_unlock_sharable_and_lock_upgradable, Consistent, Claims, SecondGateHasReaders, NoLostWakeupFirstGate
  <2> QED
    BY <1>t, <2>2, <2>3, <2>4, <2>5, StepCountsOwners DEF IInv
<1>19. ASSUME NEW t \in Threads, Expire(t), UNCHANGED ctrl
      PROVE  IInv'
  <2>1. num_upr_shar' \in 0..MaxReaders
    BY <1>19, <1>t, <1>r DEF Expire, Consistent, Claims
  <2>2. TypeOK'
    BY <1>19, <1>t, <2>1 DEF Expire
  <2>3. OwnershipStep(t)
    BY <1>19, <1>t DEF Expire, Consistent, Claims, OwnershipStep
  <2>4. Consistent'
    BY <1>19, <1>t, <1>r, <1>u DEF Expire, Consistent, Claims
  <2>5. SecondGateHasReaders' /\ NoLostWakeupFirstGate'
    BY <1>19, <1>t, <1>r DEF Expire, Consistent, Claims, SecondGateHasReaders, NoLostWakeupFirstGate
  <2> QED
    BY <1>t, <2>2, <2>3, <2>4, <2>5, StepCountsOwners DEF IInv
<1>20. ASSUME NEW t \in Threads, SpuriousWakeup(t), UNCHANGED ctrl
      PROVE  IInv'
  <2>1. num_upr_shar' \in 0..MaxReaders
    BY <1>20, <1>t, <1>r DEF SpuriousWakeup, Consistent, Claims
  <2>2. TypeOK'
    BY <1>20, <1>t, <2>1 DEF SpuriousWakeup
  <2>3. OwnershipStep(t)
    BY <1>20, <1>t DEF SpuriousWakeup, Consistent, Claims, OwnershipStep
  <2>4. Consistent'
    BY <1>20, <1>t, <1>r, <1>u DEF SpuriousWakeup, Consistent, Claims
  <2>5. SecondGateHasReaders' /\ NoLostWakeupFirstGate'
    BY <1>20, <1>t, <1>r DEF SpuriousWakeup, Consistent, Claims, SecondGateHasReaders, NoLostWakeupFirstGate
  <2> QED
    BY <1>t, <2>2, <2>3, <2>4, <2>5, StepCountsOwners DEF IInv
<1> QED
  BY <1>0, <1>1, <1>2, <1>3, <1>4, <1>5, <1>6, <1>7, <1>8, <1>9, <1>10, <1>11, <1>12, <1>13, <1>14, <1>15, <1>16, <1>17, <1>18, <1>19, <1>20
     DEF Next, Acquire, Release, Convert, lock, timed_lock, lock_upgradable, timed_lock_upgradable,
         lock_sharable, timed_lock_sharable, unlock_upgradable_and_lock,
         timed_unlock_upgradable_and_lock

-----------------------------------------------------------------------------
LEMMA Invariance == Spec => []IInv
  BY InitIInv, StepIInv, PTL DEF Spec

\* m_ctrl and the state of every thread keep their types; num_upr_shar stays
\* within max_readers, so its bit field never overflows.
THEOREM TypeCorrect == Spec => []TypeOK
<1>1. IInv => TypeOK
  BY DEF IInv
<1> QED
  BY Invariance, <1>1, PTL

\* num_upr_shar is the number of sharable and upgradable owners.
THEOREM OwnersCounted == Spec => []CountsOwners
<1>1. IInv => CountsOwners
  BY DEF IInv
<1> QED
  BY Invariance, <1>1, PTL

\* An exclusive owner is alone and an upgradable owner is unique, whatever the
\* interleaving of calls, timeouts and wake-ups.
THEOREM OwnershipRules == Spec => []MutualExclusion
<1>1. IInv => MutualExclusion
  <2> SUFFICES ASSUME IInv, NEW t \in Threads, NEW u \in Threads, t # u
               PROVE  /\ own[t] = "exclusive" => own[u] = "none"
                      /\ own[t] = "upgradable" => own[u] \in {"none", "sharable"}
    BY DEF MutualExclusion
  <2>1. own[u] \in {"sharable", "upgradable"} => num_upr_shar # 0
    BY NoReaders DEF IInv, CountsOwners
  <2> QED
    BY <2>1 DEF IInv, TypeOK, GatesTypeOK, Ownerships, Consistent, Claims
<1> QED
  BY Invariance, <1>1, PTL

\* notify_one is enough in unlock_sharable: one thread at most is in the second
\* gate, and it has claimed exclusive_in.
THEOREM SecondGateIsPrivate == Spec => []OneInSecondGate
<1>1. IInv => OneInSecondGate
  BY DEF IInv, TypeOK, GatesTypeOK, Ownerships, Consistent, Claims, OneInSecondGate
<1> QED
  BY Invariance, <1>1, PTL

\* A thread asleep in the second gate has a sharable owner left to wake it.
THEOREM SecondGateWakeup == Spec => []NoLostWakeupSecondGate
<1>1. IInv => NoLostWakeupSecondGate
  <2> SUFFICES ASSUME IInv, NEW t \in Threads, gate[t] = "second", wake[t] = "asleep"
               PROVE  \E u \in Threads : own[u] = "sharable"
    BY DEF NoLostWakeupSecondGate
  <2>1. num_upr_shar # 0
    BY DEF IInv, SecondGateHasReaders
  <2>2. PICK u \in Threads : own[u] \in {"sharable", "upgradable"}
    BY <2>1, NoReaders DEF IInv, CountsOwners
  <2>3. own[u] # "upgradable"
    BY DEF IInv, Consistent, Claims
  <2> QED
    BY <2>2, <2>3
<1> QED
  BY Invariance, <1>1, PTL

\* A thread asleep in the first gate is blocked, or is a sharable request that
\* the next release of the upgradable owner wakes.
THEOREM FirstGateWakeup == Spec => []NoLostWakeupFirstGate
<1>1. IInv => NoLostWakeupFirstGate
  BY DEF IInv
<1> QED
  BY Invariance, <1>1, PTL

\* While a claim stands in the second gate no other thread is granted an
\* ownership: an upgrade is atomic and a writer is not overtaken.
THEOREM ClaimsAreNotOvertaken == Spec => ClaimIsNotOvertaken
<1> DEFINE Kept == \A t, u \in Threads :
       gate[t] = "second" /\ gate'[t] = "second" /\ own[u] = "none" => own'[u] = "none"
<1>1. ASSUME IInv, [Next]_vars PROVE Kept
  <2> USE DEF ctrl, Outside, AtFirstGate, AtSecondGate, WaitAgain, GiveUp, Leave,
              LeaveNotifyAll, LeaveNotifyOne, wait, ExclusiveBlocked, UpgradableBlocked,
              SharableBlocked
  <2>1. /\ TypeOK
        /\ \A t \in Threads : gate[t] = "second" => exclusive_in
        /\ \A t, u \in Threads : gate[t] = "second" /\ gate[u] = "second" => t = u
    BY <1>1 DEF IInv, Consistent, Claims
  <2>2. CASE UNCHANGED vars
    BY <2>2 DEF vars
  <2>3. ASSUME NEW v \in Threads, Acquire(v) PROVE Kept
    <3>1. ASSUME NEW c \in {"lock", "timed_lock"},
                 exclusive_first_gate(v, c) \/ exclusive_second_gate(v, c)
          PROVE  Kept
      BY <2>1, <3>1 DEF TypeOK, GatesTypeOK, exclusive_first_gate, exclusive_second_gate, exclusive_rollback
    <3>2. ASSUME NEW c \in {"lock_upgradable", "timed_lock_upgradable"},
                 upgradable_first_gate(v, c)
          PROVE  Kept
      BY <2>1, <3>2 DEF TypeOK, GatesTypeOK, upgradable_first_gate, TakeUpgradable
    <3>3. ASSUME NEW c \in {"lock_sharable", "timed_lock_sharable"},
                 sharable_first_gate(v, c)
          PROVE  Kept
      BY <2>1, <3>3 DEF TypeOK, GatesTypeOK, sharable_first_gate, TakeSharable
    <3>4. CASE try_lock(v) \/ try_lock_upgradable(v) \/ try_lock_sharable(v)
      BY <2>1, <3>4 DEF TypeOK, GatesTypeOK, try_lock, try_lock_upgradable, try_lock_sharable,
                        TakeUpgradable, TakeSharable
    <3> QED
      BY <2>3, <3>1, <3>2, <3>3, <3>4
         DEF Acquire, lock, timed_lock, lock_upgradable, timed_lock_upgradable, lock_sharable,
             timed_lock_sharable
  <2>4. ASSUME NEW v \in Threads, Release(v) PROVE Kept
    BY <2>1, <2>4 DEF TypeOK, GatesTypeOK, Release, unlock, unlock_upgradable, unlock_sharable
  <2>5. ASSUME NEW v \in Threads, Convert(v) PROVE Kept
    <3>1. CASE unlock_and_lock_upgradable(v) \/ unlock_and_lock_sharable(v)
               \/ unlock_upgradable_and_lock_sharable(v)
      BY <2>1, <3>1 DEF TypeOK, GatesTypeOK, unlock_and_lock_upgradable, unlock_and_lock_sharable,
                        unlock_upgradable_and_lock_sharable
    <3>2. ASSUME NEW c \in {"upgrade", "timed_upgrade"},
                 upgrade_claim(v, c) \/ upgrade_second_gate(v, c)
          PROVE  Kept
      BY <2>1, <3>2 DEF TypeOK, GatesTypeOK, upgrade_claim, upgrade_second_gate,
                        upgradable_to_exclusive_rollback
    <3>3. CASE try_unlock_upgradable_and_lock(v) \/ try_unlock_sharable_and_lock(v)
               \/ try_unlock_sharable_and_lock_upgradable(v)
      BY <2>1, <3>3 DEF TypeOK, GatesTypeOK, try_unlock_upgradable_and_lock, try_unlock_sharable_and_lock,
                        try_unlock_sharable_and_lock_upgradable
    <3> QED
      BY <2>5, <3>1, <3>2, <3>3
         DEF Convert, unlock_upgradable_and_lock, timed_unlock_upgradable_and_lock
  <2>6. ASSUME NEW v \in Threads, Expire(v) \/ SpuriousWakeup(v) PROVE Kept
    BY <2>6 DEF Expire, SpuriousWakeup
  <2> QED
    BY <1>1, <2>2, <2>3, <2>4, <2>5, <2>6 DEF Next
<1>2. IInv /\ [Next]_vars => [Kept]_vars
  BY <1>1
<1> QED
  BY Invariance, <1>2, PTL DEF Spec, ClaimIsNotOvertaken

=============================================================================
