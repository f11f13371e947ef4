------------------------- MODULE MessageQueueIndex -------------------------
(***************************************************************************)
(* ipcdetail::mq_hdr_t: the preallocated messages of a queue and the index *)
(* of pointers to them.  The index is a circular buffer: from              *)
(* m_cur_first_msg on, m_cur_num_msg pointers are to the inserted messages *)
(* by ascending priority and the others to free messages.  An iterator is  *)
(* its position in the index.                                              *)
(***************************************************************************)
EXTENDS Integers, Sequences

VARIABLES
  m_max_num_msg,     \* given to the constructor
  mp_index,          \* position |-> message
  priority,          \* message |-> priority of its header
  m_cur_num_msg,
  m_cur_first_msg

index == <<m_max_num_msg, mp_index, priority, m_cur_num_msg, m_cur_first_msg>>

\* Messages are named by their place in the memory behind the index.
Positions == 0..(m_max_num_msg - 1)

\* The constructor and initialize_memory, which points the index at the
\* messages in order.
IndexInit ==
  /\ mp_index = [i \in Positions |-> i]
  /\ priority = [m \in Positions |-> 0]
  /\ m_cur_num_msg = 0 /\ m_cur_first_msg = 0

----------------------------------------------------------------------------
is_full == m_cur_num_msg = m_max_num_msg
is_empty == m_cur_num_msg = 0

end_pos ==
  LET space_until_bufend == m_max_num_msg - m_cur_first_msg
  IN  IF space_until_bufend > m_cur_num_msg THEN m_cur_first_msg + m_cur_num_msg
                                            ELSE m_cur_num_msg - space_until_bufend

top_msg == mp_index[IF end_pos # 0 THEN end_pos - 1 ELSE m_max_num_msg - 1]
bottom_msg == mp_index[m_cur_first_msg]

\* std::lower_bound on the positions b .. e - 1.
std_lower_bound(b, e, p) ==
  CHOOSE i \in b..e :
    /\ i = e \/ priority[mp_index[i]] >= p
    /\ \A j \in b..(i - 1) : priority[mp_index[j]] < p

\* Mutant: the second segment is searched for the first higher priority.
Mut_lower_bound(p) ==
  IF end_pos < m_cur_first_msg
  THEN LET ret == std_lower_bound(m_cur_first_msg, m_max_num_msg, p)
       IN  IF ret = m_max_num_msg THEN std_lower_bound(0, end_pos, p + 1) ELSE ret
  ELSE std_lower_bound(m_cur_first_msg, end_pos, p)

lower_bound(p) ==
  IF end_pos < m_cur_first_msg
  THEN LET ret == std_lower_bound(m_cur_first_msg, m_max_num_msg, p)
       IN  IF ret = m_max_num_msg THEN std_lower_bound(0, end_pos, p) ELSE ret
  ELSE std_lower_bound(m_cur_first_msg, end_pos, p)

\* std::copy and std::copy_backward: positions b .. e - 1 move by d.
Shift(a, b, e, d) == [i \in Positions |-> IF i \in (b + d)..(e - 1 + d) THEN a[i - d] ELSE a[i]]

Before(i) == IF i # 0 THEN i - 1 ELSE m_max_num_msg - 1

\* Moving the messages below pos one position back, in one or two segments.
MoveFront(pos0) ==
  LET pos == IF pos0 = 0 THEN m_max_num_msg ELSE pos0
      unique_segment == m_cur_first_msg # 0 /\ m_cur_first_msg <= pos
      first_beg == IF unique_segment THEN m_cur_first_msg ELSE 1
      second_beg == IF unique_segment \/ m_cur_first_msg = 0 THEN m_max_num_msg
                                                              ELSE m_cur_first_msg
      backup == mp_index[(IF unique_segment THEN first_beg ELSE second_beg) - 1]
      moved == IF unique_segment THEN mp_index
               ELSE [Shift(mp_index, second_beg, m_max_num_msg, -1)
                       EXCEPT ![m_max_num_msg - 1] = mp_index[0]]
  IN  [Shift(moved, first_beg, pos, -1) EXCEPT ![pos - 1] = backup]

\* Moving the messages from pos on one position forward.
MoveBack(pos) ==
  LET unique_segment == pos < end_pos
      first_end == IF unique_segment THEN end_pos ELSE m_max_num_msg - 1
      backup == mp_index[end_pos]
      moved == IF unique_segment THEN mp_index
               ELSE [Shift(mp_index, 0, end_pos, 1) EXCEPT ![0] = mp_index[m_max_num_msg - 1]]
  IN  [Shift(moved, pos, first_end, 1) EXCEPT ![pos] = backup]

\* insert_at(where), and the write of the priority to the message it returns.
insert_at(where, p) ==
  LET circ_pos == IF where >= m_cur_first_msg THEN where - m_cur_first_msg
                  ELSE where + (m_max_num_msg - m_cur_first_msg)
      Fill(at) == priority' = [priority EXCEPT ![mp_index'[at]] = p]
  IN  /\ m_cur_num_msg' = m_cur_num_msg + 1
      /\ UNCHANGED m_max_num_msg
      /\ \/ /\ where = m_cur_first_msg
            /\ m_cur_first_msg' = Before(m_cur_first_msg)
            /\ UNCHANGED mp_index
            /\ Fill(m_cur_first_msg')
         \/ /\ where # m_cur_first_msg /\ where = end_pos
            /\ UNCHANGED <<mp_index, m_cur_first_msg>>
            /\ Fill(end_pos)
         \/ /\ where \notin {m_cur_first_msg, end_pos} /\ circ_pos < m_cur_num_msg \div 2
            /\ mp_index' = MoveFront(where)
            /\ m_cur_first_msg' = Before(m_cur_first_msg)
            /\ Fill(Before(where))
         \/ /\ where \notin {m_cur_first_msg, end_pos} /\ circ_pos >= m_cur_num_msg \div 2
            /\ mp_index' = MoveBack(where)
            /\ UNCHANGED m_cur_first_msg
            /\ Fill(where)

\* Mutant: a message of the highest stored priority is inserted above it.
Mut_Where(p) ==
  IF m_cur_num_msg # 0 /\ p > priority[bottom_msg]
  THEN IF p >= priority[top_msg] THEN end_pos ELSE lower_bound(p)
  ELSE m_cur_first_msg

\* The search of queue_free_msg, which is skipped for a lowest or highest priority.
Where(p) ==
  IF m_cur_num_msg # 0 /\ p > priority[bottom_msg]
  THEN IF p > priority[top_msg] THEN end_pos ELSE lower_bound(p)
  ELSE m_cur_first_msg

queue_free_msg(p) == insert_at(Where(p), p)

free_top_msg ==
  /\ m_cur_num_msg' = m_cur_num_msg - 1
  /\ UNCHANGED <<mp_index, m_cur_first_msg, m_max_num_msg>>

----------------------------------------------------------------------------
\* The inserted messages, the next one to receive first.
Inserted ==
  [k \in 1..m_cur_num_msg |->
     LET m == mp_index[(m_cur_first_msg + m_cur_num_msg - k) % m_max_num_msg]
     IN  [id |-> m, priority |-> priority[m]]]

=============================================================================
