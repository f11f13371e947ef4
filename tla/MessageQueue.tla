---------------------------- MODULE MessageQueue ----------------------------
(***************************************************************************)
(* message_queue_t: send and receive in their blocking, non-blocking and   *)
(* timed forms.  The section under m_mutex is one step (a condition wait   *)
(* ends it), the notification outside the lock another.                    *)
(***************************************************************************)
EXTENDS MessageQueueIndex, FiniteSets

CONSTANTS Senders, Receivers,
          MaxPriority,     \* bound on the priorities sent
          Queues           \* the queues to look at: max_num_msg, the threads that
                           \* use it and the forms of their calls, beside try_

Threads == Senders \cup Receivers
Priorities == 0..MaxPriority
Forms == {"blocking", "timed"}

ASSUME ThreadsAssumption == IsFiniteSet(Threads) /\ Senders \cap Receivers = {}
ASSUME QueuesAssumption ==
  MaxPriority \in Nat /\ Queues \subseteq [max_num_msg : Nat \ {0}, users : SUBSET Threads,
                                             forms : SUBSET Forms]

VARIABLES
  use,      \* the member of Queues that is looked at
  m_blocked_senders, m_blocked_receivers,
  call,     \* the call of each thread: "no", "blocking", "timed"; "notify" before notify_one
  prio,     \* the priority that a sender that waits is to send
  wake      \* a condition wait: "no", "asleep", "notified" or "expired"

blocked == <<m_blocked_senders, m_blocked_receivers>>
hdr == <<index, blocked>>
vars == <<hdr, use, call, prio, wake>>

Init ==
  /\ use \in Queues /\ m_max_num_msg = use.max_num_msg
  /\ IndexInit
  /\ m_blocked_senders = 0 /\ m_blocked_receivers = 0
  /\ call = [t \in Threads |-> "no"]
  /\ prio = [t \in Senders |-> 0]
  /\ wake = [t \in Threads |-> "no"]

----------------------------------------------------------------------------
(* interprocess_condition, on the threads of the given set that wait on it. *)

Asleep(T) == {t \in T : wake[t] = "asleep"}

\* A thread that wakes up for no reason, or whose deadline passes.
SpuriousWakeup(t) ==
  /\ wake[t] = "asleep" /\ wake' = [wake EXCEPT ![t] = "notified"]
  /\ UNCHANGED <<hdr, call, prio>>

\* A deadline may also pass after the thread has been notified.
Expire(t) ==
  /\ wake[t] \in {"asleep", "notified"} /\ call[t] = "timed"
  /\ wake' = [wake EXCEPT ![t] = "expired"]
  /\ UNCHANGED <<hdr, call, prio>>

notify_one(t, T) ==
  /\ call[t] = "notify" /\ call' = [call EXCEPT ![t] = "no"]
  /\ IF Asleep(T) = {} THEN UNCHANGED wake
     ELSE \E u \in Asleep(T) : wake' = [wake EXCEPT ![u] = "notified"]
  /\ UNCHANGED <<hdr, prio>>

----------------------------------------------------------------------------
(* do_send. *)

\* Mutant: receivers are notified only when the queue was empty.
Mut_Insert(t, p) ==
  /\ queue_free_msg(p)
  /\ call' = [call EXCEPT ![t] = IF m_blocked_receivers # 0 /\ is_empty THEN "notify" ELSE "no"]
  /\ wake' = [wake EXCEPT ![t] = "no"]
  /\ UNCHANGED m_blocked_receivers

\* The end of the section: the message is inserted and blocked receivers, if
\* there are any, will be notified outside the lock.
Insert(t, p) ==
  /\ queue_free_msg(p)
  /\ call' = [call EXCEPT ![t] = IF m_blocked_receivers # 0 THEN "notify" ELSE "no"]
  /\ wake' = [wake EXCEPT ![t] = "no"]
  /\ UNCHANGED m_blocked_receivers

\* A call that need not wait.
send_now(t, p) ==
  /\ call[t] = "no" /\ ~is_full
  /\ Insert(t, p)
  /\ UNCHANGED <<m_blocked_senders, prio>>

\* try_send on a full queue returns false.
try_send_full(t) ==
  /\ call[t] = "no" /\ is_full
  /\ UNCHANGED vars

send_block(t, p, block) ==
  /\ call[t] = "no" /\ is_full
  /\ m_blocked_senders' = m_blocked_senders + 1
  /\ call' = [call EXCEPT ![t] = block] /\ prio' = [prio EXCEPT ![t] = p]
  /\ wake' = [wake EXCEPT ![t] = "asleep"]
  /\ UNCHANGED <<index, m_blocked_receivers>>

\* A wait that returns: the queue is full again, full at the deadline, or not full.
send_resume(t) ==
  \/ /\ wake[t] = "notified" /\ is_full
     /\ wake' = [wake EXCEPT ![t] = "asleep"]
     /\ UNCHANGED <<hdr, call, prio>>
  \/ /\ wake[t] = "expired" /\ is_full
     /\ m_blocked_senders' = m_blocked_senders - 1
     /\ call' = [call EXCEPT ![t] = "no"] /\ wake' = [wake EXCEPT ![t] = "no"]
     /\ prio' = [prio EXCEPT ![t] = 0]
     /\ UNCHANGED <<index, m_blocked_receivers>>
  \/ /\ wake[t] \in {"notified", "expired"} /\ ~is_full
     /\ m_blocked_senders' = m_blocked_senders - 1
     /\ Insert(t, prio[t]) /\ prio' = [prio EXCEPT ![t] = 0]

do_send(t) ==
  \/ \E p \in Priorities : send_now(t, p) \/ \E b \in use.forms : send_block(t, p, b)
  \/ try_send_full(t)

----------------------------------------------------------------------------
(* do_receive. *)

\* Mutant: senders are notified only when the queue was full.
Mut_Take(t) ==
  /\ priority' = [priority EXCEPT ![top_msg] = 0]
  /\ free_top_msg
  /\ call' = [call EXCEPT ![t] = IF m_blocked_senders # 0 /\ is_full THEN "notify" ELSE "no"]
  /\ wake' = [wake EXCEPT ![t] = "no"]
  /\ UNCHANGED m_blocked_senders

\* The header of the message of highest priority is cleared, its place is
\* freed and blocked senders will be notified.
Take(t) ==
  /\ priority' = [priority EXCEPT ![top_msg] = 0]
  /\ free_top_msg
  /\ call' = [call EXCEPT ![t] = IF m_blocked_senders # 0 THEN "notify" ELSE "no"]
  /\ wake' = [wake EXCEPT ![t] = "no"]
  /\ UNCHANGED m_blocked_senders

receive_now(t) ==
  /\ call[t] = "no" /\ ~is_empty
  /\ Take(t)
  /\ UNCHANGED <<m_blocked_receivers, prio>>

\* try_receive on an empty queue returns false.
try_receive_empty(t) ==
  /\ call[t] = "no" /\ is_empty
  /\ UNCHANGED vars

receive_block(t, block) ==
  /\ call[t] = "no" /\ is_empty
  /\ m_blocked_receivers' = m_blocked_receivers + 1
  /\ call' = [call EXCEPT ![t] = block] /\ wake' = [wake EXCEPT ![t] = "asleep"]
  /\ UNCHANGED <<index, m_blocked_senders, prio>>

receive_resume(t) ==
  \/ /\ wake[t] = "notified" /\ is_empty
     /\ wake' = [wake EXCEPT ![t] = "asleep"]
     /\ UNCHANGED <<hdr, call, prio>>
  \/ /\ wake[t] = "expired" /\ is_empty
     /\ m_blocked_receivers' = m_blocked_receivers - 1
     /\ call' = [call EXCEPT ![t] = "no"] /\ wake' = [wake EXCEPT ![t] = "no"]
     /\ UNCHANGED <<index, m_blocked_senders, prio>>
  \/ /\ wake[t] \in {"notified", "expired"} /\ ~is_empty
     /\ m_blocked_receivers' = m_blocked_receivers - 1
     /\ Take(t) /\ UNCHANGED prio

do_receive(t) ==
  receive_now(t) \/ try_receive_empty(t) \/ \E b \in use.forms : receive_block(t, b)

----------------------------------------------------------------------------
Resume(t) == (t \in Senders /\ send_resume(t)) \/ (t \in Receivers /\ receive_resume(t))

Notify(t) == (t \in Senders /\ notify_one(t, Receivers)) \/ (t \in Receivers /\ notify_one(t, Senders))

Next ==
  /\ UNCHANGED use
  /\ \E t \in use.users :
       \/ t \in Senders /\ do_send(t)
       \/ t \in Receivers /\ do_receive(t)
       \/ Resume(t) \/ Notify(t) \/ Expire(t) \/ SpuriousWakeup(t)

Spec == Init /\ [][Next]_vars

\* Threads that have been woken and threads that are to notify run.
Fairness == \A t \in Threads : WF_vars((Resume(t) \/ Notify(t)) /\ UNCHANGED use)
FairSpec == Spec /\ Fairness

----------------------------------------------------------------------------
(* Properties. *)

\* Type correctness; the index points to every message once.
TypeOK ==
  /\ use \in Queues /\ m_max_num_msg = use.max_num_msg
  /\ mp_index \in [Positions -> Positions] /\ \A i, j \in Positions : mp_index[i] = mp_index[j] => i = j
  /\ priority \in [Positions -> Priorities]
  /\ m_cur_num_msg \in 0..m_max_num_msg /\ m_cur_first_msg \in Positions
  /\ m_blocked_senders \in Nat /\ m_blocked_receivers \in Nat
  /\ call \in [Threads -> {"no", "blocking", "timed", "notify"}]
  /\ prio \in [Senders -> Priorities]
  /\ wake \in [Threads -> {"no", "asleep", "notified", "expired"}]

\* The assertions of do_send: a message that is not inserted is clean.
FreeAreClean ==
  \A m \in Positions : (\A k \in 1..m_cur_num_msg : Inserted[k].id # m) => priority[m] = 0

\* The assertions of lower_bound: when it searches the second segment it finds
\* a position before its end that is not the first message.
SearchEndsInside ==
  \A p \in Priorities :
    /\ ~is_empty /\ ~is_full /\ end_pos < m_cur_first_msg
    /\ p > priority[bottom_msg] /\ p <= priority[top_msg]
    => lower_bound(p) \notin {end_pos, m_cur_first_msg}

Waiting(T) == {t \in T : wake[t] # "no"}

\* The counters that decide whether to notify count the threads inside a wait.
CountsBlocked ==
  /\ m_blocked_senders = Cardinality(Waiting(Senders))
  /\ m_blocked_receivers = Cardinality(Waiting(Receivers))

\* The header of the queue is consistent whenever m_mutex is free.
Inv == TypeOK /\ FreeAreClean /\ SearchEndsInside /\ CountsBlocked

\* Messages that can be received are not left while receivers sleep: for every
\* such message somebody is awake to take it or about to notify, whatever
\* deadlines pass.
AwakeOrNotifying(T, U) ==
  Cardinality({t \in T : wake[t] \in {"notified", "expired"}})
    + Cardinality({t \in U : call[t] = "notify"})

NoLostWakeup ==
  /\ Asleep(Receivers) # {} /\ ~is_empty => AwakeOrNotifying(Receivers, Senders) > 0
  /\ Asleep(Senders) # {} /\ ~is_full => AwakeOrNotifying(Senders, Receivers) > 0

\* The circular index, used by all threads, is a stable priority queue: a send
\* inserts a free message behind those of its priority, a receive takes the
\* head, and no other step changes what is stored.
Abstract == INSTANCE PriorityQueue WITH queue <- Inserted, max_num_msg <- m_max_num_msg
ImplementsPriorityQueue == Abstract!Spec

\* Nobody waits for what is there: while a receiver sleeps, a queue with messages
\* changes or the receivers are all woken; and so for senders and free places.
BlockedProceed ==
  /\ Asleep(Receivers) # {} /\ ~is_empty ~> Asleep(Receivers) = {} \/ is_empty
  /\ Asleep(Senders) # {} /\ ~is_full ~> Asleep(Senders) = {} \/ is_full

=============================================================================
