---------------------------- MODULE Condition8a ----------------------------
(***************************************************************************)
(* ipcdetail::condition_algorithm_8a: the condition variable that the      *)
(* Windows primitives are built on, made of two semaphores, a mutex and    *)
(* three counters.  A step is a section that the primitives make atomic:   *)
(* a section under mtx_unblock_lock, a semaphore operation, an update      *)
(* behind the gate (the binary semaphore sem_block_lock).                  *)
(***************************************************************************)
EXTENDS Integers, FiniteSets, FiniteSetsExt

CONSTANTS Waiters,        \* threads that wait (and may notify)
          Notifiers,      \* threads that only notify
          NoThread,
          Clients,        \* what the clients use: who calls timed_wait, and
                          \* which values of broadcast they pass
          Word            \* integer_type holds 0 .. Word - 1

Threads == Waiters \cup Notifiers

ASSUME ThreadsAssumption == NoThread \notin Threads
ASSUME ClientsAssumption == Clients \subseteq [timed : SUBSET Waiters, broadcasts : SUBSET BOOLEAN]
ASSUME WordAssumption == Word \in Nat /\ Word > 2

VARIABLES
  nwaiters_blocked, nwaiters_gone, nwaiters_to_unblock,
  sem_block_queue, sem_block_lock,
  mtx_unblock_lock,   \* the thread that holds it across steps, or NoThread
  mut,                \* the thread that holds the external lock, or NoThread
  pc,
  clients,            \* the member of Clients that this behaviour is about
  local               \* nwaiters_was_gone of a waiter, nsignals_to_issue of a notifier

counters == <<nwaiters_blocked, nwaiters_gone, nwaiters_to_unblock>>
sems == <<sem_block_queue, sem_block_lock>>
vars == <<counters, sems, mtx_unblock_lock, mut, pc, clients, local>>

Init ==
  /\ clients \in Clients
  /\ nwaiters_blocked = 0 /\ nwaiters_gone = 0 /\ nwaiters_to_unblock = 0
  /\ sem_block_queue = 0 /\ sem_block_lock = 1
  /\ mtx_unblock_lock = NoThread /\ mut = NoThread
  /\ pc = [t \in Threads |-> "out"] /\ local = [t \in Threads |-> 0]

Go(t, from, to) == pc[t] = from /\ pc' = [pc EXCEPT ![t] = to]
Set(t, n) == local' = [local EXCEPT ![t] = n]
GoneLimit == (Word - 1) \div 2

----------------------------------------------------------------------------
(* The client: "out" does not hold the external lock, "in" holds it. *)

ClientLock(t) ==
  /\ t \in Waiters /\ Go(t, "out", "in") /\ mut = NoThread /\ mut' = t
  /\ UNCHANGED <<counters, sems, mtx_unblock_lock, local>>

ClientUnlock(t) ==
  /\ Go(t, "in", "out") /\ mut' = NoThread
  /\ UNCHANGED <<counters, sems, mtx_unblock_lock, local>>

----------------------------------------------------------------------------
(* wait.  The caller owns the external lock. *)

PassGate(t) ==
  /\ Go(t, "in", "inc") /\ t \in Waiters
  /\ sem_block_lock > 0 /\ sem_block_lock' = sem_block_lock - 1
  /\ UNCHANGED <<counters, sem_block_queue, mtx_unblock_lock, mut, local>>

CountIn(t) ==
  /\ Go(t, "inc", "post_gate")
  /\ nwaiters_blocked' = (nwaiters_blocked + 1) % Word
  /\ UNCHANGED <<nwaiters_gone, nwaiters_to_unblock, sems, mtx_unblock_lock, mut, local>>

PostGate(t) ==
  /\ Go(t, "post_gate", "unlock")
  /\ sem_block_lock' = sem_block_lock + 1
  /\ UNCHANGED <<counters, sem_block_queue, mtx_unblock_lock, mut, local>>

UnlockExternal(t) ==
  /\ Go(t, "unlock", "queue") /\ mut' = NoThread
  /\ UNCHANGED <<counters, sems, mtx_unblock_lock, local>>

Dequeue(t) ==
  /\ Go(t, "queue", "signaled")
  /\ sem_block_queue > 0 /\ sem_block_queue' = sem_block_queue - 1
  /\ UNCHANGED <<counters, sem_block_lock, mtx_unblock_lock, mut, local>>

Expire(t) ==
  /\ t \in clients.timed /\ Go(t, "queue", "expired")
  /\ UNCHANGED <<counters, sems, mtx_unblock_lock, mut, local>>

\* Mutant: the last thread out takes the units back but does not reset nwaiters_gone.
Mut_TakeSignal(t, from, blocked, gone) ==
  /\ nwaiters_to_unblock # 0
  /\ nwaiters_to_unblock' = nwaiters_to_unblock - 1
  /\ nwaiters_blocked' = blocked
  /\ nwaiters_gone' = gone
  /\ \/ /\ nwaiters_to_unblock > 1
        /\ Go(t, from, "relock")
        /\ UNCHANGED <<sem_block_lock, local>>
     \/ /\ nwaiters_to_unblock = 1
        /\ Go(t, from, "drain")
        /\ Set(t, gone) /\ UNCHANGED sem_block_lock
  /\ UNCHANGED <<sem_block_queue, mtx_unblock_lock, mut>>

\* The section under mtx_unblock_lock when signals are left: blocked and gone are
\* the counters after the branch on bTimedOut.
TakeSignal(t, from, blocked, gone) ==
  /\ nwaiters_to_unblock # 0
  /\ nwaiters_to_unblock' = nwaiters_to_unblock - 1
  /\ nwaiters_blocked' = blocked
  /\ \/ /\ nwaiters_to_unblock > 1
        /\ Go(t, from, "relock")
        /\ nwaiters_gone' = gone /\ UNCHANGED <<sem_block_lock, local>>
     \/ /\ nwaiters_to_unblock = 1 /\ blocked # 0
        /\ Go(t, from, "relock")
        /\ sem_block_lock' = sem_block_lock + 1
        /\ nwaiters_gone' = gone /\ UNCHANGED local
     \/ /\ nwaiters_to_unblock = 1 /\ blocked = 0
        /\ Go(t, from, "drain")
        /\ nwaiters_gone' = 0 /\ Set(t, gone) /\ UNCHANGED sem_block_lock
  /\ UNCHANGED <<sem_block_queue, mtx_unblock_lock, mut>>

\* The section under mtx_unblock_lock when no signal is left.
CountGone(t, from) ==
  /\ nwaiters_to_unblock = 0
  /\ nwaiters_gone' = (nwaiters_gone + 1) % Word
  /\ \/ nwaiters_gone' = GoneLimit /\ Go(t, from, "correct") /\ mtx_unblock_lock' = t
     \/ nwaiters_gone' # GoneLimit /\ Go(t, from, "relock") /\ UNCHANGED mtx_unblock_lock
  /\ UNCHANGED <<nwaiters_blocked, nwaiters_to_unblock, sems, mut, local>>

Unblock(t) ==
  /\ mtx_unblock_lock = NoThread
  /\ \/ TakeSignal(t, "signaled", nwaiters_blocked, nwaiters_gone)
     \/ TakeSignal(t, "expired", IF nwaiters_blocked # 0 THEN nwaiters_blocked - 1 ELSE 0,
                   IF nwaiters_blocked # 0 THEN nwaiters_gone ELSE nwaiters_gone + 1)
     \/ CountGone(t, "signaled")
     \/ CountGone(t, "expired")

Correct(t) ==
  /\ Go(t, "correct", "relock") /\ sem_block_lock > 0
  /\ nwaiters_blocked' = (nwaiters_blocked - nwaiters_gone) % Word
  /\ nwaiters_gone' = 0
  /\ mtx_unblock_lock' = NoThread
  /\ UNCHANGED <<nwaiters_to_unblock, sems, mut, local>>

Drain(t) ==
  /\ pc[t] = "drain" /\ local[t] > 0
  /\ sem_block_queue > 0 /\ sem_block_queue' = sem_block_queue - 1
  /\ Set(t, local[t] - 1)
  /\ UNCHANGED <<counters, sem_block_lock, mtx_unblock_lock, mut, pc>>

\* Mutant: the last thread out does not open the gate.
Mut_OpenGate(t) ==
  /\ Go(t, "drain", "relock") /\ local[t] = 0
  /\ UNCHANGED <<counters, sems, mtx_unblock_lock, mut, local>>

OpenGate(t) ==
  /\ Go(t, "drain", "relock") /\ local[t] = 0
  /\ sem_block_lock' = sem_block_lock + 1
  /\ UNCHANGED <<counters, sem_block_queue, mtx_unblock_lock, mut, local>>

RelockExternal(t) ==
  /\ Go(t, "relock", "in") /\ mut = NoThread /\ mut' = t
  /\ UNCHANGED <<counters, sems, mtx_unblock_lock, local>>

----------------------------------------------------------------------------
(* signal, with or without the external lock. *)

Returned(t) == IF mut = t THEN "in" ELSE "out"
Calling(t) == pc[t] \in {"in", "out"} /\ mtx_unblock_lock = NoThread

SignalNothing(t) ==
  /\ Calling(t)
  /\ \/ nwaiters_to_unblock # 0 /\ nwaiters_blocked = 0
     \/ nwaiters_to_unblock = 0 /\ nwaiters_blocked <= nwaiters_gone
  /\ UNCHANGED vars

\* Mutant: a signal at a closed gate issues units without counting them.
Mut_SignalMore(t, broadcast) ==
  /\ Calling(t) /\ nwaiters_to_unblock # 0 /\ nwaiters_blocked # 0
  /\ pc' = [pc EXCEPT ![t] = "issue"]
  /\ LET n == IF broadcast THEN nwaiters_blocked ELSE 1
     IN  /\ nwaiters_blocked' = nwaiters_blocked - n
         /\ Set(t, n)
  /\ UNCHANGED <<nwaiters_gone, nwaiters_to_unblock, sems, mtx_unblock_lock, mut>>

SignalMore(t, broadcast) ==
  /\ Calling(t) /\ nwaiters_to_unblock # 0 /\ nwaiters_blocked # 0
  /\ pc' = [pc EXCEPT ![t] = "issue"]
  /\ LET n == IF broadcast THEN nwaiters_blocked ELSE 1
     IN  /\ nwaiters_to_unblock' = nwaiters_to_unblock + n
         /\ nwaiters_blocked' = nwaiters_blocked - n
         /\ Set(t, n)
  /\ UNCHANGED <<nwaiters_gone, sems, mtx_unblock_lock, mut>>

\* The test before the gate is closed; mtx_unblock_lock stays locked.
SignalFirst(t, broadcast) ==
  /\ Calling(t) /\ nwaiters_to_unblock = 0 /\ nwaiters_blocked > nwaiters_gone
  /\ pc' = [pc EXCEPT ![t] = IF broadcast THEN "close_all" ELSE "close_one"]
  /\ mtx_unblock_lock' = t
  /\ UNCHANGED <<counters, sems, mut, local>>

CloseGate(t) ==
  /\ sem_block_lock > 0 /\ sem_block_lock' = sem_block_lock - 1
  /\ LET blocked == (nwaiters_blocked - nwaiters_gone) % Word
         n == IF pc[t] = "close_all" THEN blocked ELSE 1
     IN  /\ nwaiters_to_unblock' = n
         /\ nwaiters_blocked' = (blocked - n) % Word
         /\ Set(t, n)
  /\ nwaiters_gone' = 0
  /\ Go(t, "close_all", "issue") \/ Go(t, "close_one", "issue")
  /\ mtx_unblock_lock' = NoThread
  /\ UNCHANGED <<sem_block_queue, mut>>

Issue(t) ==
  /\ Go(t, "issue", Returned(t))
  /\ sem_block_queue' = sem_block_queue + local[t] /\ Set(t, 0)
  /\ UNCHANGED <<counters, sem_block_lock, mtx_unblock_lock, mut>>

Signal(t) ==
  \/ SignalNothing(t)
  \/ \E broadcast \in clients.broadcasts : SignalMore(t, broadcast) \/ SignalFirst(t, broadcast)

----------------------------------------------------------------------------
WaitStep(t) ==
  \/ CountIn(t) \/ PostGate(t) \/ UnlockExternal(t) \/ Dequeue(t) \/ Unblock(t)
  \/ Correct(t) \/ Drain(t) \/ OpenGate(t)
SignalStep(t) == CloseGate(t) \/ Issue(t)

Next == UNCHANGED clients /\ \E t \in Threads :
  \/ ClientLock(t) \/ ClientUnlock(t) \/ PassGate(t) \/ WaitStep(t) \/ Expire(t)
  \/ RelockExternal(t) \/ Signal(t) \/ SignalStep(t)

Spec == Init /\ [][Next]_vars

\* Threads inside the algorithm run; its semaphores and mutexes starve nobody.
Fairness == \A t \in Threads :
  /\ WF_vars((WaitStep(t) \/ SignalStep(t)) /\ UNCHANGED clients)
  /\ SF_vars((Unblock(t) \/ Dequeue(t) \/ CloseGate(t) \/ Correct(t)) /\ UNCHANGED clients)

FairSpec == Spec /\ Fairness

----------------------------------------------------------------------------
(* Properties. *)

\* Threads that wait have counted themselves in and not yet left.
AtQueue == {t \in Threads : pc[t] = "queue"}
Inside == {t \in Threads : pc[t] \in {"post_gate", "unlock", "queue", "signaled", "expired"}}
Issuing == {t \in Threads : pc[t] = "issue"}
Signaled == {t \in Threads : pc[t] = "signaled"}
Sum(T) == MapThenSumSet(LAMBDA t : local[t], T)
Tokens == sem_block_queue + Sum(Issuing)

\* Type correctness; sem_block_lock is a binary semaphore.
TypeOK ==
  /\ {nwaiters_blocked, nwaiters_gone, nwaiters_to_unblock} \subseteq 0..(Word - 1)
  /\ sem_block_queue \in Nat /\ sem_block_lock \in {0, 1}
  /\ {mtx_unblock_lock, mut} \subseteq Threads \cup {NoThread}

\* The gate stays closed to new waiters until everybody signaled has left.
GateClosed == nwaiters_to_unblock # 0 => sem_block_lock = 0

\* The counters partition the waiting threads, and the queue semaphore holds a
\* unit for everybody who is to be unblocked and for everybody who timed out
\* meanwhile (whose units the last thread out takes back).
CountersPartition ==
  IF nwaiters_to_unblock = 0
  THEN /\ nwaiters_blocked - nwaiters_gone = Cardinality(Inside)
       /\ Tokens + Cardinality(Signaled) = Sum({t \in Threads : pc[t] = "drain"})
  ELSE /\ nwaiters_blocked + nwaiters_to_unblock = Cardinality(Inside)
       /\ Tokens + Cardinality(Signaled) = nwaiters_to_unblock + nwaiters_gone

\* The counters, the gate and the semaphores agree with where the threads are.
Inv == TypeOK /\ GateClosed /\ CountersPartition

\* notify_one and notify_all have an effect whenever a thread waits that has
\* not been signaled yet.
NotifyFindsWaiter ==
  Cardinality(AtQueue) > Tokens /\ mtx_unblock_lock = NoThread =>
    IF nwaiters_to_unblock = 0 THEN nwaiters_blocked > nwaiters_gone
                               ELSE nwaiters_blocked # 0

\* The gate is opened again.
GateReopens == (nwaiters_to_unblock # 0) ~> (sem_block_lock = 1)

=============================================================================
