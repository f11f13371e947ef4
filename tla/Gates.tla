------------------------------- MODULE Gates -------------------------------
(***************************************************************************)
(* What the sharable and the upgradable mutex have in common: two gates    *)
(* (interprocess_conditions) under one interprocess_mutex m_mut.  Every    *)
(* field of m_ctrl is read and written with m_mut held, so the code from   *)
(* one acquisition of m_mut to its release, or to the wait that releases   *)
(* it, is one atomic step.  The conditions are modelled by what they       *)
(* promise: a wait releases m_mut and sleeps in one step, notify_all wakes *)
(* every sleeper of the gate, notify_one wakes one, and a woken thread     *)
(* needs a later step to get m_mut back.                                   *)
(***************************************************************************)
EXTENDS Naturals, FiniteSets

CONSTANT Threads      \* the threads that call the mutex

ASSUME ThreadsAssumption == IsFiniteSet(Threads)

VARIABLES
  own,     \* the ownership each thread has been granted
  gate,    \* the gate a thread waits in: "first", "second" or "no"
  wake,    \* how the wait of a thread stands
  call     \* the operation a waiting thread is inside of

Ownerships == {"none", "sharable", "upgradable", "exclusive"}
BlockingCalls == {"lock", "lock_upgradable", "lock_sharable", "upgrade"}
TimedCalls == {"timed_lock", "timed_lock_upgradable", "timed_lock_sharable",
               "timed_upgrade"}
Calls == BlockingCalls \cup TimedCalls

GatesInit ==
  /\ own = [t \in Threads |-> "none"]
  /\ gate = [t \in Threads |-> "no"]
  /\ wake = [t \in Threads |-> "awake"]
  /\ call = [t \in Threads |-> "none"]

GatesTypeOK ==
  /\ own \in [Threads -> Ownerships]
  /\ gate \in [Threads -> {"no", "first", "second"}]
  /\ wake \in [Threads -> {"awake", "asleep", "notified", "expired"}]
  /\ call \in [Threads -> Calls \cup {"none"}]

\* The threads that an ownership function o makes sharable or upgradable owners.
Readers(o) == {t \in Threads : o[t] \in {"sharable", "upgradable"}}

Outside(t) == gate[t] = "no"

\* Thread t holds m_mut in call c, at the test of the first gate: it has just
\* made the call, or it is back from a wait.
AtFirstGate(t, c) ==
  \/ Outside(t) /\ own[t] = "none"
  \/ gate[t] = "first" /\ call[t] = c /\ wake[t] # "asleep"

AtSecondGate(t, c) == gate[t] = "second" /\ call[t] = c /\ wake[t] # "asleep"

\* wake[t] is "asleep" in the wait, "notified" after a notification and
\* "expired" after the deadline of a timed wait.
wait(t, g, c) ==
  /\ gate' = [gate EXCEPT ![t] = g]
  /\ wake' = [wake EXCEPT ![t] = "asleep"]
  /\ call' = [call EXCEPT ![t] = c]

\* The thread's call ends with ownership o, and nobody is notified.
Leave(t, o) ==
  /\ own' = [own EXCEPT ![t] = o]
  /\ gate' = [gate EXCEPT ![t] = "no"]
  /\ wake' = [wake EXCEPT ![t] = "awake"]
  /\ call' = [call EXCEPT ![t] = "none"]

\* The thread's call ends with ownership o and notifies all threads of gate g.
LeaveNotifyAll(t, o, g) ==
  /\ own' = [own EXCEPT ![t] = o]
  /\ gate' = [gate EXCEPT ![t] = "no"]
  /\ wake' = [u \in Threads |-> IF u = t THEN "awake"
                                ELSE IF gate[u] = g /\ wake[u] = "asleep"
                                     THEN "notified" ELSE wake[u]]
  /\ call' = [call EXCEPT ![t] = "none"]

\* The thread's call ends with ownership o and notifies one thread of gate g.
LeaveNotifyOne(t, o, g) ==
  LET sleepers == {u \in Threads : gate[u] = g /\ wake[u] = "asleep"} IN
  /\ own' = [own EXCEPT ![t] = o]
  /\ gate' = [gate EXCEPT ![t] = "no"]
  /\ \/ /\ sleepers = {}
        /\ wake' = [wake EXCEPT ![t] = "awake"]
     \/ \E u \in sleepers :
           wake' = [wake EXCEPT ![t] = "awake", ![u] = "notified"]
  /\ call' = [call EXCEPT ![t] = "none"]

\* The deadline of a timed wait passes while the thread sleeps.
Expire(t) ==
  /\ wake[t] = "asleep" /\ call[t] \in TimedCalls
  /\ wake' = [wake EXCEPT ![t] = "expired"]
  /\ UNCHANGED <<own, gate, call>>

\* pthread_cond_wait may return without a notification.
SpuriousWakeup(t) ==
  /\ wake[t] = "asleep"
  /\ wake' = [wake EXCEPT ![t] = "notified"]
  /\ UNCHANGED <<own, gate, call>>

=============================================================================
