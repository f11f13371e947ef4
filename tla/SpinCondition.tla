--------------------------- MODULE SpinCondition ---------------------------
(***************************************************************************)
(* ipcdetail::spin_condition: a condition variable built from a spin mutex *)
(* (m_enter_mut), a command word and a count of waiters.  Every atomic     *)
(* access and every lock or unlock of a spin mutex is a step of its own.   *)
(* Clients lock an external mutex, wait on the condition with it, and      *)
(* notify with or without holding it.                                      *)
(***************************************************************************)
EXTENDS Naturals, FiniteSets

CONSTANTS Waiters,     \* threads that wait (and may notify)
          Notifiers,   \* threads that only notify
          NoThread

Threads == Waiters \cup Notifiers

ASSUME NoThreadAssumption == NoThread \notin Threads

VARIABLES
  m_enter_mut,     \* BOOLEAN: m_enter_mut is locked
  m_command,       \* "SLEEP", "NOTIFY_ONE" or "NOTIFY_ALL"
  m_num_waiters,
  mut,             \* the thread that holds the external mutex, or NoThread
  pc,              \* the next step of each thread
  arg,             \* the command of a notifier, or whether a wait is timed
  note             \* history: the notification that m_enter_mut protects

cond == <<m_enter_mut, m_command, m_num_waiters>>
vars == <<m_enter_mut, m_command, m_num_waiters, mut, pc, arg, note>>

NoNote == [command |-> "SLEEP", waiting |-> {}, woken |-> {}]

Init ==
  /\ m_enter_mut = FALSE /\ m_command = "SLEEP" /\ m_num_waiters = 0
  /\ mut = NoThread
  /\ pc = [t \in Threads |-> "out"]
  /\ arg = [t \in Threads |-> "blocking"]
  /\ note = NoNote

Go(t, from, to) == pc[t] = from /\ pc' = [pc EXCEPT ![t] = to]

\* The threads that do_timed_wait_impl has counted and that are still waiting.
Counted == {t \in Threads : pc[t] \in {"unlock_mut", "open", "spin", "try_enter", "cas",
                                       "dec_one", "dec_all", "dec_timeout"}}

----------------------------------------------------------------------------
(* The client: "out" does not hold the external mutex, "in" holds it. *)

ClientLock(t) ==
  /\ Go(t, "out", "in") /\ mut = NoThread
  /\ mut' = t /\ UNCHANGED <<cond, arg, note>>

ClientUnlock(t) ==
  /\ Go(t, "in", "out")
  /\ mut' = NoThread /\ UNCHANGED <<cond, arg, note>>

\* wait and timed_wait: the caller owns the lock.
Wait(t, a) ==
  /\ t \in Waiters /\ Go(t, "in", "enter")
  /\ arg' = [arg EXCEPT ![t] = a]
  /\ UNCHANGED <<cond, mut, note>>

\* notify_one, notify_all and the destructor, which notifies all.
Notify(t, c) ==
  /\ Go(t, "in", "notify_enter") \/ Go(t, "out", "notify_enter")
  /\ arg' = [arg EXCEPT ![t] = c]
  /\ UNCHANGED <<cond, mut, note>>

----------------------------------------------------------------------------
(* do_timed_wait_impl. *)

Enter(t) ==
  /\ Go(t, "enter", "inc") /\ ~m_enter_mut
  /\ m_enter_mut' = TRUE
  /\ UNCHANGED <<m_command, m_num_waiters, mut, arg, note>>

\* A timed wait whose deadline passes before it gets m_enter_mut returns false;
\* it still holds the external mutex.
EnterTimeout(t) ==
  /\ Go(t, "enter", "in") /\ arg[t] = "timed"
  /\ arg' = [arg EXCEPT ![t] = "blocking"] /\ UNCHANGED <<cond, mut, note>>

CountIn(t) ==
  /\ Go(t, "inc", "unlock_mut")
  /\ m_num_waiters' = m_num_waiters + 1
  /\ UNCHANGED <<m_enter_mut, m_command, mut, arg, note>>

UnlockMut(t) ==
  /\ Go(t, "unlock_mut", "open")
  /\ mut' = NoThread /\ UNCHANGED <<cond, arg, note>>

Open(t) ==
  /\ Go(t, "open", "spin")
  /\ m_enter_mut' = FALSE
  /\ UNCHANGED <<m_command, m_num_waiters, mut, arg, note>>

\* The read of m_command that ends the inner loop; a read of SLEEP goes round it.
SeeCommand(t) ==
  /\ Go(t, "spin", "cas") /\ m_command # "SLEEP"
  /\ UNCHANGED <<cond, mut, arg, note>>

\* The read of SLEEP after which a timed wait finds that its deadline has passed.
SeeTimeout(t) ==
  /\ Go(t, "spin", "try_enter") /\ m_command = "SLEEP" /\ arg[t] = "timed"
  /\ UNCHANGED <<cond, mut, arg, note>>

\* Mutant: a timed-out wait sees that m_enter_mut is free and does not lock it.
Mut_TryEnter(t) ==
  /\ \/ Go(t, "try_enter", "dec_timeout") /\ ~m_enter_mut
     \/ Go(t, "try_enter", "spin") /\ m_enter_mut
  /\ UNCHANGED <<cond, mut, arg, note>>

TryEnter(t) ==
  \/ /\ Go(t, "try_enter", "dec_timeout") /\ ~m_enter_mut
     /\ m_enter_mut' = TRUE
     /\ UNCHANGED <<m_command, m_num_waiters, mut, arg, note>>
  \/ /\ Go(t, "try_enter", "spin") /\ m_enter_mut
     /\ UNCHANGED <<cond, mut, arg, note>>

\* Mutant: a wait that times out is not taken off the count.
Mut_DecTimeout(t) ==
  /\ Go(t, "dec_timeout", "reopen")
  /\ UNCHANGED <<cond, mut, arg, note>>

DecTimeout(t) ==
  /\ Go(t, "dec_timeout", "reopen")
  /\ m_num_waiters' = m_num_waiters - 1
  /\ UNCHANGED <<m_enter_mut, m_command, mut, arg, note>>

\* Mutant: a NOTIFY_ALL is taken for a command that another thread has answered.
Mut_Cas(t) ==
  /\ \/ Go(t, "cas", "spin") /\ m_command # "NOTIFY_ONE" /\ UNCHANGED m_command
     \/ Go(t, "cas", "dec_one") /\ m_command = "NOTIFY_ONE" /\ m_command' = "SLEEP"
  /\ UNCHANGED <<m_enter_mut, m_num_waiters, mut, arg, note>>

\* The atomic_cas32 of SLEEP for NOTIFY_ONE and the branches on its result.
Cas(t) ==
  /\ \/ Go(t, "cas", "spin") /\ m_command = "SLEEP" /\ UNCHANGED m_command
     \/ Go(t, "cas", "dec_one") /\ m_command = "NOTIFY_ONE" /\ m_command' = "SLEEP"
     \/ Go(t, "cas", "dec_all") /\ m_command = "NOTIFY_ALL" /\ UNCHANGED m_command
  /\ UNCHANGED <<m_enter_mut, m_num_waiters, mut, arg, note>>

DecOne(t) ==
  /\ Go(t, "dec_one", "reopen")
  /\ m_num_waiters' = m_num_waiters - 1
  /\ note' = [note EXCEPT !.woken = @ \cup {t}]
  /\ UNCHANGED <<m_enter_mut, m_command, mut, arg>>

DecAll(t) ==
  /\ m_num_waiters' = m_num_waiters - 1
  /\ note' = [note EXCEPT !.woken = @ \cup {t}]
  /\ \/ m_num_waiters = 1 /\ Go(t, "dec_all", "reset")
     \/ m_num_waiters # 1 /\ Go(t, "dec_all", "relock")
  /\ UNCHANGED <<m_enter_mut, m_command, mut, arg>>

Reset(t) ==
  /\ Go(t, "reset", "reopen")
  /\ m_command' = IF m_command = "NOTIFY_ALL" THEN "SLEEP" ELSE m_command
  /\ UNCHANGED <<m_enter_mut, m_num_waiters, mut, arg, note>>

Reopen(t) ==
  /\ Go(t, "reopen", "relock")
  /\ m_enter_mut' = FALSE /\ note' = NoNote
  /\ UNCHANGED <<m_command, m_num_waiters, mut, arg>>

Relock(t) ==
  /\ Go(t, "relock", "in") /\ mut = NoThread
  /\ mut' = t
  /\ arg' = [arg EXCEPT ![t] = "blocking"] /\ UNCHANGED <<cond, note>>

----------------------------------------------------------------------------
(* notify. *)

NotifyEnter(t) ==
  /\ Go(t, "notify_enter", "notify_read") /\ ~m_enter_mut
  /\ m_enter_mut' = TRUE
  /\ UNCHANGED <<m_command, m_num_waiters, mut, arg, note>>

NotifyRead(t) ==
  /\ \/ m_num_waiters = 0 /\ Go(t, "notify_read", "notify_open")
     \/ m_num_waiters > 0 /\ Go(t, "notify_read", "notify_cas")
  /\ UNCHANGED <<cond, mut, arg, note>>

\* notify returns to the client, which may or may not hold the external mutex.
NotifyReturn(t, from) ==
  /\ Go(t, from, IF mut = t THEN "in" ELSE "out")
  /\ arg' = [arg EXCEPT ![t] = "blocking"]

NotifyOpen(t) ==
  /\ NotifyReturn(t, "notify_open")
  /\ m_enter_mut' = FALSE
  /\ UNCHANGED <<m_command, m_num_waiters, mut, note>>

\* m_enter_mut stays locked until the notified threads have left.
NotifyCas(t) ==
  /\ NotifyReturn(t, "notify_cas") /\ m_command = "SLEEP"
  /\ m_command' = arg[t]
  /\ note' = [command |-> arg[t], waiting |-> Counted, woken |-> {}]
  /\ UNCHANGED <<m_enter_mut, m_num_waiters, mut>>

----------------------------------------------------------------------------
WaitStep(t) ==
  \/ Enter(t) \/ CountIn(t) \/ UnlockMut(t) \/ Open(t) \/ SeeCommand(t)
  \/ TryEnter(t) \/ DecTimeout(t) \/ Cas(t) \/ DecOne(t) \/ DecAll(t) \/ Reset(t)
  \/ Reopen(t)

NotifyStep(t) == NotifyEnter(t) \/ NotifyRead(t) \/ NotifyOpen(t) \/ NotifyCas(t)

Client(t) ==
  \/ ClientLock(t) \/ ClientUnlock(t)
  \/ \E a \in {"blocking", "timed"} : Wait(t, a)
  \/ \E c \in {"NOTIFY_ONE", "NOTIFY_ALL"} : Notify(t, c)

Next == \E t \in Threads :
  WaitStep(t) \/ EnterTimeout(t) \/ SeeTimeout(t) \/ Relock(t) \/ NotifyStep(t) \/ Client(t)

Spec == Init /\ [][Next]_vars

\* A thread inside the condition is not preempted forever, clients release the
\* external mutex, and no thread is starved by the spin mutexes it contends for.
Fairness == \A t \in Threads :
  /\ WF_vars(WaitStep(t) \/ NotifyStep(t))
  /\ SF_vars(Enter(t) \/ NotifyEnter(t) \/ Relock(t)) /\ SF_vars(ClientUnlock(t))

FairSpec == Spec /\ Fairness

----------------------------------------------------------------------------
(* Properties. *)

\* Type correctness.
TypeOK ==
  /\ m_enter_mut \in BOOLEAN
  /\ m_command \in {"SLEEP", "NOTIFY_ONE", "NOTIFY_ALL"}
  /\ m_num_waiters \in 0..Cardinality(Waiters)
  /\ mut \in Threads \cup {NoThread}
  /\ arg \in [Threads -> {"blocking", "timed", "NOTIFY_ONE", "NOTIFY_ALL"}]

\* m_num_waiters is the number of counted threads, so that a notifier that holds
\* m_enter_mut returns early only when nobody waits, and the last thread of a
\* NOTIFY_ALL knows that it is the last.
CountsWaiters == m_num_waiters = Cardinality(Counted)

\* While m_enter_mut is free no notification is in progress.
FreeMeansSleep == ~m_enter_mut => m_command = "SLEEP" /\ note = NoNote

\* The shared words agree with what the threads are doing, whatever deadlines pass.
Inv == TypeOK /\ CountsWaiters /\ FreeMeansSleep

\* When a notification ends, NOTIFY_ONE has woken exactly one of the threads that
\* waited when it was issued, NOTIFY_ALL exactly those that waited then: no
\* late waiter steals a notification and no timeout swallows one.
NotificationIsExact ==
  \A t \in Threads : pc[t] = "reopen" =>
    /\ note.command = "NOTIFY_ONE" =>
         note.woken \subseteq note.waiting /\ Cardinality(note.woken) = 1
    /\ note.command = "NOTIFY_ALL" => note.woken = note.waiting

\* A notification always ends and m_enter_mut is opened again.
NotificationEnds == (m_command # "SLEEP") ~> (~m_enter_mut)

\* Every thread that a NOTIFY_ALL finds waiting gets the external mutex back.
NotifiedReturn ==
  \A t \in Waiters : (note.command = "NOTIFY_ALL" /\ t \in note.waiting \ note.woken) ~> (pc[t] = "in")

=============================================================================
