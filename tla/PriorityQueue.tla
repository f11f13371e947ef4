--------------------------- MODULE PriorityQueue ---------------------------
(***************************************************************************)
(* What a message queue promises: a bounded queue from which the message   *)
(* of highest priority is received first, and of equal priorities the one  *)
(* that was sent first.  The next message to receive is the head.          *)
(***************************************************************************)
EXTENDS Integers, Sequences

CONSTANT Priorities

VARIABLES
  queue,            \* a sequence of messages
  max_num_msg       \* given when the queue is made

\* Messages are preallocated and named by their number.
Messages == [id : 0..(max_num_msg - 1), priority : Priorities]

Insert(q, m) ==
  SelectSeq(q, LAMBDA x : x.priority >= m.priority) \o <<m>>
    \o SelectSeq(q, LAMBDA x : x.priority < m.priority)

Init == queue = <<>> /\ max_num_msg \in Nat \ {0}

Send(m) ==
  /\ Len(queue) < max_num_msg /\ \A k \in DOMAIN queue : queue[k].id # m.id
  /\ queue' = Insert(queue, m)
  /\ UNCHANGED max_num_msg

Receive == queue # <<>> /\ queue' = Tail(queue) /\ UNCHANGED max_num_msg

Spec == Init /\ [][Receive \/ \E m \in Messages : Send(m)]_<<queue, max_num_msg>>

=============================================================================
