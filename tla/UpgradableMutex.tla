-------------------------- MODULE UpgradableMutex --------------------------
(***************************************************************************)
(* interprocess_upgradable_mutex: a two-gate readers/writer lock whose     *)
(* readers may hold a single upgradable ownership.                         *)
(***************************************************************************)
EXTENDS Gates

CONSTANT MaxReaders    \* constants::max_readers

ASSUME MaxReadersAssumption == MaxReaders \in Nat /\ MaxReaders >= 2

VARIABLES
  exclusive_in,    \* m_ctrl.exclusive_in
  upgradable_in,   \* m_ctrl.upgradable_in
  num_upr_shar     \* m_ctrl.num_upr_shar

ctrl == <<exclusive_in, upgradable_in, num_upr_shar>>
vars == <<exclusive_in, upgradable_in, num_upr_shar, own, gate, wake, call>>

Init ==
  /\ exclusive_in = FALSE /\ upgradable_in = FALSE /\ num_upr_shar = 0
  /\ GatesInit

----------------------------------------------------------------------------
(* What blocks each request in the first gate. *)

ExclusiveBlocked == exclusive_in \/ upgradable_in
UpgradableBlocked == exclusive_in \/ upgradable_in \/ num_upr_shar = MaxReaders
\* Mutant: a reader joins the readers that a waiting writer waits for.
Mut_SharableBlocked_Join ==
  (exclusive_in /\ num_upr_shar = 0) \/ num_upr_shar = MaxReaders

SharableBlocked == exclusive_in \/ num_upr_shar = MaxReaders

\* A wait in gate g that found its predicate still true: the thread waits again
\* unless its deadline has passed.
WaitAgain(t, g, c) ==
  /\ wake[t] # "expired"
  /\ wait(t, g, c)
  /\ UNCHANGED <<ctrl, own>>

\* A timed call gives up in the first gate: return false, nothing to undo.
GiveUp(t) ==
  /\ wake[t] = "expired"
  /\ Leave(t, "none")
  /\ UNCHANGED ctrl

----------------------------------------------------------------------------
(* Exclusive ownership.  lock and timed_lock differ only in the wait. *)

exclusive_first_gate(t, c) ==
  /\ AtFirstGate(t, c)
  /\ \/ ExclusiveBlocked /\ WaitAgain(t, "first", c)
     \/ ExclusiveBlocked /\ GiveUp(t)
     \/ /\ ~ExclusiveBlocked
        /\ exclusive_in' = TRUE
        /\ UNCHANGED <<upgradable_in, num_upr_shar>>
        /\ \/ num_upr_shar > 0 /\ wait(t, "second", c) /\ UNCHANGED own
           \/ num_upr_shar = 0 /\ Leave(t, "exclusive")

\* exclusive_rollback reopens the first gate when a timed wait gives up.
exclusive_rollback(t) ==
  /\ exclusive_in' = FALSE
  /\ UNCHANGED <<upgradable_in, num_upr_shar>>
  /\ LeaveNotifyAll(t, "none", "first")

exclusive_second_gate(t, c) ==
  /\ AtSecondGate(t, c)
  /\ \/ num_upr_shar > 0 /\ WaitAgain(t, "second", c)
     \/ num_upr_shar > 0 /\ wake[t] = "expired" /\ exclusive_rollback(t)
     \/ num_upr_shar = 0 /\ Leave(t, "exclusive") /\ UNCHANGED ctrl

lock(t) == exclusive_first_gate(t, "lock") \/ exclusive_second_gate(t, "lock")

timed_lock(t) ==
  exclusive_first_gate(t, "timed_lock") \/ exclusive_second_gate(t, "timed_lock")

\* A try_ operation that fails, because m_mut is busy or because of m_ctrl,
\* changes nothing and is a stuttering step; so is a timed operation that
\* cannot get m_mut in time.
try_lock(t) ==
  /\ Outside(t) /\ own[t] = "none"
  /\ ~exclusive_in /\ num_upr_shar = 0
  /\ exclusive_in' = TRUE
  /\ UNCHANGED <<upgradable_in, num_upr_shar>>
  /\ Leave(t, "exclusive")

unlock(t) ==
  /\ Outside(t) /\ own[t] = "exclusive"
  /\ exclusive_in' = FALSE
  /\ UNCHANGED <<upgradable_in, num_upr_shar>>
  /\ LeaveNotifyAll(t, "none", "first")

----------------------------------------------------------------------------
(* Upgradable ownership. *)

TakeUpgradable(t) ==
  /\ upgradable_in' = TRUE
  /\ num_upr_shar' = num_upr_shar + 1
  /\ UNCHANGED exclusive_in
  /\ Leave(t, "upgradable")

upgradable_first_gate(t, c) ==
  /\ AtFirstGate(t, c)
  /\ \/ UpgradableBlocked /\ WaitAgain(t, "first", c)
     \/ UpgradableBlocked /\ GiveUp(t)
     \/ ~UpgradableBlocked /\ TakeUpgradable(t)

lock_upgradable(t) == upgradable_first_gate(t, "lock_upgradable")

timed_lock_upgradable(t) == upgradable_first_gate(t, "timed_lock_upgradable")

try_lock_upgradable(t) ==
  /\ Outside(t) /\ own[t] = "none"
  /\ ~UpgradableBlocked
  /\ TakeUpgradable(t)

unlock_upgradable(t) ==
  /\ Outside(t) /\ own[t] = "upgradable"
  /\ upgradable_in' = FALSE
  /\ num_upr_shar' = num_upr_shar - 1
  /\ UNCHANGED exclusive_in
  /\ LeaveNotifyAll(t, "none", "first")

----------------------------------------------------------------------------
(* Sharable ownership. *)

TakeSharable(t) ==
  /\ num_upr_shar' = num_upr_shar + 1
  /\ UNCHANGED <<exclusive_in, upgradable_in>>
  /\ Leave(t, "sharable")

sharable_first_gate(t, c) ==
  /\ AtFirstGate(t, c)
  /\ \/ SharableBlocked /\ WaitAgain(t, "first", c)
     \/ SharableBlocked /\ GiveUp(t)
     \/ ~SharableBlocked /\ TakeSharable(t)

lock_sharable(t) == sharable_first_gate(t, "lock_sharable")

timed_lock_sharable(t) == sharable_first_gate(t, "timed_lock_sharable")

try_lock_sharable(t) ==
  /\ Outside(t) /\ own[t] = "none"
  /\ ~SharableBlocked
  /\ TakeSharable(t)

\* Mutant: the last reader does not notify the second gate.
Mut_unlock_sharable(t) ==
  /\ Outside(t) /\ own[t] = "sharable"
  /\ num_upr_shar' = num_upr_shar - 1
  /\ UNCHANGED <<exclusive_in, upgradable_in>>
  /\ \/ num_upr_shar' = MaxReaders - 1 /\ LeaveNotifyAll(t, "none", "first")
     \/ num_upr_shar' # MaxReaders - 1 /\ Leave(t, "none")

unlock_sharable(t) ==
  /\ Outside(t) /\ own[t] = "sharable"
  /\ num_upr_shar' = num_upr_shar - 1
  /\ UNCHANGED <<exclusive_in, upgradable_in>>
  /\ \/ num_upr_shar' = 0 /\ LeaveNotifyOne(t, "none", "second")
     \/ num_upr_shar' = MaxReaders - 1 /\ LeaveNotifyAll(t, "none", "first")
     \/ num_upr_shar' \notin {0, MaxReaders - 1} /\ Leave(t, "none")

----------------------------------------------------------------------------
(* Downgrades. *)

unlock_and_lock_upgradable(t) ==
  /\ Outside(t) /\ own[t] = "exclusive"
  /\ exclusive_in' = FALSE /\ upgradable_in' = TRUE /\ num_upr_shar' = 1
  /\ LeaveNotifyAll(t, "upgradable", "first")

unlock_and_lock_sharable(t) ==
  /\ Outside(t) /\ own[t] = "exclusive"
  /\ exclusive_in' = FALSE /\ num_upr_shar' = 1 /\ UNCHANGED upgradable_in
  /\ LeaveNotifyAll(t, "sharable", "first")

unlock_upgradable_and_lock_sharable(t) ==
  /\ Outside(t) /\ own[t] = "upgradable"
  /\ upgradable_in' = FALSE /\ UNCHANGED <<exclusive_in, num_upr_shar>>
  /\ LeaveNotifyAll(t, "sharable", "first")

----------------------------------------------------------------------------
(* Upgrades.  While an upgrade waits in the second gate the thread has    *)
(* given its upgradable ownership up and has claimed exclusive_in.        *)

upgrade_claim(t, c) ==
  /\ Outside(t) /\ own[t] = "upgradable"
  /\ upgradable_in' = FALSE /\ num_upr_shar' = num_upr_shar - 1
  /\ exclusive_in' = TRUE
  /\ \/ /\ num_upr_shar' > 0
        /\ own' = [own EXCEPT ![t] = "none"]
        /\ wait(t, "second", c)
     \/ num_upr_shar' = 0 /\ Leave(t, "exclusive")


\* The rollback of a timed upgrade takes the upgradable ownership back and
\* clears exclusive_in, but it notifies nobody.
upgradable_to_exclusive_rollback(t) ==
  /\ upgradable_in' = TRUE
  /\ num_upr_shar' = num_upr_shar + 1
  /\ exclusive_in' = FALSE
  /\ Leave(t, "upgradable")

upgrade_second_gate(t, c) ==
  /\ AtSecondGate(t, c)
  /\ \/ num_upr_shar > 0 /\ WaitAgain(t, "second", c)
     \/ /\ num_upr_shar > 0 /\ wake[t] = "expired"
        /\ upgradable_to_exclusive_rollback(t)
     \/ num_upr_shar = 0 /\ Leave(t, "exclusive") /\ UNCHANGED ctrl

unlock_upgradable_and_lock(t) ==
  upgrade_claim(t, "upgrade") \/ upgrade_second_gate(t, "upgrade")

timed_unlock_upgradable_and_lock(t) ==
  upgrade_claim(t, "timed_upgrade") \/ upgrade_second_gate(t, "timed_upgrade")

try_unlock_upgradable_and_lock(t) ==
  /\ Outside(t) /\ own[t] = "upgradable"
  /\ num_upr_shar = 1
  /\ upgradable_in' = FALSE /\ num_upr_shar' = num_upr_shar - 1
  /\ exclusive_in' = TRUE
  /\ Leave(t, "exclusive")

try_unlock_sharable_and_lock(t) ==
  /\ Outside(t) /\ own[t] = "sharable"
  /\ ~ExclusiveBlocked /\ num_upr_shar = 1
  /\ exclusive_in' = TRUE /\ num_upr_shar' = 0 /\ UNCHANGED upgradable_in
  /\ Leave(t, "exclusive")

\* Mutant: upgradable_in is not tested.
Mut_try_unlock_sharable_and_lock_upgradable_NoTest(t) ==
  /\ Outside(t) /\ own[t] = "sharable"
  /\ ~exclusive_in
  /\ upgradable_in' = TRUE /\ UNCHANGED <<exclusive_in, num_upr_shar>>
  /\ Leave(t, "upgradable")

\* Mutant: the thread is counted twice.
Mut_try_unlock_sharable_and_lock_upgradable_Count(t) ==
  /\ Outside(t) /\ own[t] = "sharable"
  /\ ~ExclusiveBlocked
  /\ upgradable_in' = TRUE /\ num_upr_shar' = num_upr_shar + 1
  /\ UNCHANGED exclusive_in
  /\ Leave(t, "upgradable")

try_unlock_sharable_and_lock_upgradable(t) ==
  /\ Outside(t) /\ own[t] = "sharable"
  /\ ~ExclusiveBlocked
  /\ upgradable_in' = TRUE /\ UNCHANGED <<exclusive_in, num_upr_shar>>
  /\ Leave(t, "upgradable")

----------------------------------------------------------------------------
Acquire(t) ==
  \/ lock(t) \/ timed_lock(t) \/ try_lock(t)
  \/ lock_upgradable(t) \/ timed_lock_upgradable(t) \/ try_lock_upgradable(t)
  \/ lock_sharable(t) \/ timed_lock_sharable(t) \/ try_lock_sharable(t)

Release(t) == unlock(t) \/ unlock_upgradable(t) \/ unlock_sharable(t)

Convert(t) ==
  \/ unlock_and_lock_upgradable(t) \/ unlock_and_lock_sharable(t)
  \/ unlock_upgradable_and_lock_sharable(t)
  \/ unlock_upgradable_and_lock(t) \/ timed_unlock_upgradable_and_lock(t)
  \/ try_unlock_upgradable_and_lock(t)
  \/ try_unlock_sharable_and_lock(t)
  \/ try_unlock_sharable_and_lock_upgradable(t)

Next == \E t \in Threads :
          \/ Acquire(t) \/ Release(t) \/ Convert(t)
          \/ (Expire(t) \/ SpuriousWakeup(t)) /\ UNCHANGED ctrl

Spec == Init /\ [][Next]_vars

\* A thread that was woken gets m_mut back and goes on with its call.
Resume(t) == gate[t] # "no" /\ (Acquire(t) \/ Convert(t))

\* Fairness: a woken thread is scheduled (m_mut is not starved), and a client
\* that owns the mutex releases it.
Fairness == \A t \in Threads : WF_vars(Resume(t)) /\ WF_vars(Release(t))

FairSpec == Spec /\ Fairness

----------------------------------------------------------------------------
(* Properties. *)

\* Type correctness; m_ctrl.num_upr_shar never passes max_readers and so never
\* overflows its bit field.
TypeOK ==
  /\ exclusive_in \in BOOLEAN /\ upgradable_in \in BOOLEAN
  /\ num_upr_shar \in 0..MaxReaders
  /\ GatesTypeOK

\* An exclusive owner is alone, and there is at most one upgradable owner
\* (the ownership rules in the class documentation).
MutualExclusion ==
  \A t, u \in Threads : t # u =>
    /\ own[t] = "exclusive" => own[u] = "none"
    /\ own[t] = "upgradable" => own[u] \in {"none", "sharable"}

\* num_upr_shar counts the sharable and upgradable owners.  try_lock relies on
\* it: it tests num_upr_shar and not upgradable_in.
CountsOwners == num_upr_shar = Cardinality(Readers(own))

\* The second gate holds one thread at most, and that thread has claimed
\* exclusive_in: unlock_sharable may wake it with notify_one.
OneInSecondGate ==
  \A t, u \in Threads : gate[t] = "second" =>
    /\ exclusive_in
    /\ gate[u] = "second" => u = t
    /\ own[u] \in {"none", "sharable"}

\* No lost wake-up in the second gate: a thread sleeps there only while some
\* sharable owner is left to wake it.
NoLostWakeupSecondGate ==
  \A t \in Threads : gate[t] = "second" /\ wake[t] = "asleep" =>
    \E u \in Threads : own[u] = "sharable"

\* No lost wake-up in the first gate: a thread that sleeps there is blocked,
\* except that a sharable request may be left asleep by the rollback of a timed
\* upgrade, and then only while there is an upgradable owner, whose release
\* notifies the first gate.
NoLostWakeupFirstGate ==
  \A t \in Threads : gate[t] = "first" /\ wake[t] = "asleep" =>
    /\ call[t] \in {"lock", "timed_lock"} => ExclusiveBlocked
    /\ call[t] \in {"lock_upgradable", "timed_lock_upgradable"} => UpgradableBlocked
    /\ call[t] \in {"lock_sharable", "timed_lock_sharable"} =>
         SharableBlocked \/ upgradable_in

\* A thread that holds exclusive_in: the exclusive owner, or the thread that
\* waits for the readers to leave.
Claims(t) == own[t] = "exclusive" \/ gate[t] = "second"

\* How m_ctrl, the owners and the threads in the gates are related.
Consistent ==
  /\ \A t \in Threads : gate[t] # "no" => own[t] = "none"
  /\ \A t \in Threads : Claims(t) => exclusive_in
  /\ \A t, u \in Threads : Claims(t) /\ Claims(u) => t = u
  /\ \A t \in Threads : own[t] = "exclusive" => num_upr_shar = 0
  /\ \A t \in Threads : gate[t] = "second" /\ call[t] \in {"upgrade", "timed_upgrade"}
                          => num_upr_shar < MaxReaders
  /\ \A t \in Threads : own[t] = "upgradable" => upgradable_in
  /\ \A t, u \in Threads : own[t] = "upgradable" /\ own[u] = "upgradable" => t = u
  /\ upgradable_in => \E t \in Threads : own[t] = "upgradable"
  /\ ~(exclusive_in /\ upgradable_in)

\* A thread asleep in the second gate waits for readers.
SecondGateHasReaders ==
  \A t \in Threads : gate[t] = "second" /\ wake[t] = "asleep" => num_upr_shar > 0

\* The invariant that every step preserves: m_ctrl, the owners and the threads in
\* the gates agree, and no wake-up is lost.
IInv == /\ TypeOK /\ CountsOwners /\ Consistent
        /\ SecondGateHasReaders /\ NoLostWakeupFirstGate

\* From the claim of exclusive_in to its end nobody else is granted anything:
\* an upgrade is atomic, and a writer is overtaken by no later reader.
ClaimIsNotOvertaken ==
  [][\A t, u \in Threads :
       gate[t] = "second" /\ gate'[t] = "second" /\ own[u] = "none"
         => own'[u] = "none"]_vars

\* The mutex implements the locking protocol that its documentation describes.
Locking == INSTANCE SharableLocking WITH
  own <- [t \in Threads |->
            IF gate[t] # "second" THEN own[t]
            ELSE IF call[t] \in {"upgrade", "timed_upgrade"} THEN "upgrading" ELSE "claiming"]

ImplementsLocking == Locking!Spec

\* A thread that has claimed exclusive_in leaves the second gate: it gets the
\* exclusive ownership or its deadline passes.
ClaimEnds == \A t \in Threads : gate[t] = "second" ~> gate[t] = "no"

=============================================================================
