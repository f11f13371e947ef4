--------------------------- MODULE SharableMutex ---------------------------
(***************************************************************************)
(* interprocess_sharable_mutex: a two-gate readers/writer lock.            *)
(***************************************************************************)
EXTENDS Gates

CONSTANT MaxReaders    \* constants::max_readers

ASSUME MaxReadersAssumption == MaxReaders \in Nat /\ MaxReaders >= 2

VARIABLES
  exclusive_in,    \* m_ctrl.exclusive_in
  num_shared       \* m_ctrl.num_shared

ctrl == <<exclusive_in, num_shared>>
vars == <<exclusive_in, num_shared, own, gate, wake, call>>

Init == exclusive_in = FALSE /\ num_shared = 0 /\ GatesInit

SharableBlocked == exclusive_in \/ num_shared = MaxReaders

\* A wait that found its predicate still true waits again, or gives up and
\* returns false if its deadline has passed.
WaitAgain(t, g, c) ==
  /\ wake[t] # "expired"
  /\ wait(t, g, c)
  /\ UNCHANGED <<ctrl, own>>

GiveUp(t) ==
  /\ wake[t] = "expired"
  /\ Leave(t, "none")
  /\ UNCHANGED ctrl

exclusive_first_gate(t, c) ==
  /\ AtFirstGate(t, c)
  /\ \/ exclusive_in /\ WaitAgain(t, "first", c)
     \/ exclusive_in /\ GiveUp(t)
     \/ /\ ~exclusive_in
        /\ exclusive_in' = TRUE
        /\ UNCHANGED num_shared
        /\ \/ num_shared > 0 /\ wait(t, "second", c) /\ UNCHANGED own
           \/ num_shared = 0 /\ Leave(t, "exclusive")

\* Mutant: the rollback does not notify the first gate.
Mut_exclusive_rollback(t) ==
  /\ exclusive_in' = FALSE
  /\ UNCHANGED num_shared
  /\ Leave(t, "none")

\* Mutant: the rollback does not clear exclusive_in.
Mut_exclusive_rollback_NoReset(t) ==
  /\ UNCHANGED ctrl
  /\ LeaveNotifyAll(t, "none", "first")

exclusive_rollback(t) ==
  /\ exclusive_in' = FALSE
  /\ UNCHANGED num_shared
  /\ LeaveNotifyAll(t, "none", "first")

\* Mutant: a timed writer whose deadline passes goes on without the test of
\* num_shared.
Mut_exclusive_second_gate(t, c) ==
  /\ AtSecondGate(t, c)
  /\ \/ num_shared > 0 /\ WaitAgain(t, "second", c)
     \/ num_shared > 0 /\ wake[t] = "expired" /\ Leave(t, "exclusive") /\ UNCHANGED ctrl
     \/ num_shared = 0 /\ Leave(t, "exclusive") /\ UNCHANGED ctrl

exclusive_second_gate(t, c) ==
  /\ AtSecondGate(t, c)
  /\ \/ num_shared > 0 /\ WaitAgain(t, "second", c)
     \/ num_shared > 0 /\ wake[t] = "expired" /\ exclusive_rollback(t)
     \/ num_shared = 0 /\ Leave(t, "exclusive") /\ UNCHANGED ctrl

lock(t) == exclusive_first_gate(t, "lock") \/ exclusive_second_gate(t, "lock")

timed_lock(t) ==
  exclusive_first_gate(t, "timed_lock") \/ exclusive_second_gate(t, "timed_lock")

\* A try_ operation that fails changes nothing and is a stuttering step.
try_lock(t) ==
  /\ Outside(t) /\ own[t] = "none"
  /\ ~exclusive_in /\ num_shared = 0
  /\ exclusive_in' = TRUE
  /\ UNCHANGED num_shared
  /\ Leave(t, "exclusive")

unlock(t) ==
  /\ Outside(t) /\ own[t] = "exclusive"
  /\ exclusive_in' = FALSE
  /\ UNCHANGED num_shared
  /\ LeaveNotifyAll(t, "none", "first")

TakeSharable(t) ==
  /\ num_shared' = num_shared + 1
  /\ UNCHANGED exclusive_in
  /\ Leave(t, "sharable")

sharable_first_gate(t, c) ==
  /\ AtFirstGate(t, c)
  /\ \/ SharableBlocked /\ WaitAgain(t, "first", c)
     \/ SharableBlocked /\ GiveUp(t)
     \/ ~SharableBlocked /\ TakeSharable(t)

lock_sharable(t) == sharable_first_gate(t, "lock_sharable")

timed_lock_sharable(t) == sharable_first_gate(t, "timed_lock_sharable")

try_lock_sharable(t) ==
  /\ Outside(t) /\ own[t] = "none"
  /\ ~SharableBlocked
  /\ TakeSharable(t)

\* Mutant: the notification of the second gate comes one reader too early.
Mut_unlock_sharable(t) ==
  /\ Outside(t) /\ own[t] = "sharable"
  /\ num_shared' = num_shared - 1
  /\ UNCHANGED exclusive_in
  /\ \/ num_shared' = 1 /\ LeaveNotifyOne(t, "none", "second")
     \/ num_shared' # 1 /\ Leave(t, "none")

unlock_sharable(t) ==
  /\ Outside(t) /\ own[t] = "sharable"
  /\ num_shared' = num_shared - 1
  /\ UNCHANGED exclusive_in
  /\ \/ num_shared' = 0 /\ LeaveNotifyOne(t, "none", "second")
     \/ num_shared' = MaxReaders - 1 /\ LeaveNotifyAll(t, "none", "first")
     \/ num_shared' \notin {0, MaxReaders - 1} /\ Leave(t, "none")

Acquire(t) ==
  \/ lock(t) \/ timed_lock(t) \/ try_lock(t)
  \/ lock_sharable(t) \/ timed_lock_sharable(t) \/ try_lock_sharable(t)

Release(t) == unlock(t) \/ unlock_sharable(t)

Next == \E t \in Threads :
          \/ Acquire(t) \/ Release(t)
          \/ (Expire(t) \/ SpuriousWakeup(t)) /\ UNCHANGED ctrl

Spec == Init /\ [][Next]_vars

\* A woken thread is scheduled and a client that owns the mutex releases it.
Fairness == \A t \in Threads :
  WF_vars(gate[t] # "no" /\ Acquire(t)) /\ WF_vars(Release(t))

FairSpec == Spec /\ Fairness

----------------------------------------------------------------------------
(* Properties. *)

\* Type correctness; the reader count stays within its bit field.
TypeOK ==
  /\ exclusive_in \in BOOLEAN /\ num_shared \in 0..MaxReaders
  /\ GatesTypeOK

\* num_shared counts the sharable owners, and a claim of exclusive_in belongs to
\* one thread: the owner or the thread in the second gate.
CtrlMatchesOwners ==
  /\ num_shared = Cardinality(Readers(own))
  /\ exclusive_in = \E t \in Threads : own[t] = "exclusive" \/ gate[t] = "second"

\* m_ctrl keeps its types and agrees with the owners and the gates.
Inv == TypeOK /\ CtrlMatchesOwners

\* No lost wake-up in either gate: a sleeper of the first gate is blocked, and a
\* sleeper of the second gate has a reader left to wake it.
NoLostWakeup ==
  \A t \in Threads : wake[t] = "asleep" =>
    /\ gate[t] = "first" /\ call[t] \in {"lock", "timed_lock"} => exclusive_in
    /\ gate[t] = "first" /\ call[t] \in {"lock_sharable", "timed_lock_sharable"}
         => SharableBlocked
    /\ gate[t] = "second" => num_shared > 0

\* The mutex implements the locking protocol that its documentation describes.
Locking == INSTANCE SharableLocking WITH
  own <- [t \in Threads |-> IF gate[t] = "second" THEN "claiming" ELSE own[t]]

ImplementsLocking == Locking!Spec

\* A writer that has closed the first gate leaves the second one: it gets the
\* exclusive ownership or its deadline passes.
ClaimEnds == \A t \in Threads : gate[t] = "second" ~> gate[t] = "no"

=============================================================================
