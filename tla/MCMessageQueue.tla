--------------------------- MODULE MCMessageQueue ---------------------------
EXTENDS MessageQueue

\* A small queue that everybody uses, and one large enough for every case of
\* the insertion into the index, on which nobody waits.
SmallAndLarge ==
  { [max_num_msg |-> 2, users |-> Threads, forms |-> Forms],
    [max_num_msg |-> 5, forms |-> {},
      users |-> {CHOOSE s \in Senders : TRUE, CHOOSE r \in Receivers : TRUE}] }

=============================================================================
