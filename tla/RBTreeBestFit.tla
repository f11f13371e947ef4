--------------------------- MODULE RBTreeBestFit ---------------------------
(***************************************************************************)
(* rbtree_best_fit: the heap of a managed segment.  Blocks carry their     *)
(* size and flags in boundary tags, free blocks are also in a tree ordered *)
(* by size.  A block is named by its distance from the first one, in units *)
(* of Alignment bytes.  Every operation runs under the mutex of the header *)
(* and is one step.                                                        *)
(*                                                                         *)
(* The headers of the blocks are a function on the blocks: a header that   *)
(* is inside another block has been overwritten by a user or is dead, and  *)
(* reading it would be an error.  Sizes are in words, the smallest size    *)
(* that the algorithm tells apart.                                         *)
(***************************************************************************)
EXTENDS BackwardsLcm, FiniteSets, FiniteSetsExt, SequencesExt

CONSTANTS
  Alignment, UsableByPreviousChunk,
  AllocatedCtrlUnits, BlockCtrlUnits, EndCtrlBlockUnits,
  BaseUnit,         \* address of the first block, in units
  SegmentSize,      \* size of a new segment, from the first block on
  MaxSegmentSize,   \* bound on the size that it grows to
  Requests,         \* sizes that clients ask for
  Objects,          \* sizes of the objects that clients keep in buffers
  Overalignments,   \* alignments that clients ask for
  ManyCalls,        \* arguments of allocate_many
  GrowSizes

ASSUME UnitsAssumption ==
  /\ UsableByPreviousChunk \in 1..Alignment
  /\ 0 < AllocatedCtrlUnits /\ AllocatedCtrlUnits < BlockCtrlUnits
  /\ SegmentSize >= (BlockCtrlUnits + EndCtrlBlockUnits) * Alignment

VARIABLES
  heap,       \* [m: headers, tree: m_imultiset, allocated: m_allocated in units, size: m_size]
  buffers,    \* buffer of a client, named by its block |-> bytes wanted and received
  asserted    \* FALSE once an assertion of the code has failed

vars == <<heap, buffers, asserted>>

Garbage == MaxSegmentSize      \* what a user or nobody has written in m_prev_size

----------------------------------------------------------------------------
(* Blocks of a heap H. *)

ceil_units(n) == get_rounded_size(n, Alignment) \div Alignment

user_buffer_ceil_units(n) ==
  IF n <= UsableByPreviousChunk THEN 0 ELSE ceil_units(n - UsableByPreviousChunk)

priv_get_total_units(n) == Max({user_buffer_ceil_units(n) + AllocatedCtrlUnits, BlockCtrlUnits})

\* The bytes that the user of a block of the given units may write.
UserSize(units) == (units - AllocatedCtrlUnits) * Alignment + UsableByPreviousChunk

Size(H, b) == H.m[b].m_size
priv_next_block(H, b) == b + H.m[b].m_size
priv_prev_block(H, b) == b - H.m[b].m_prev_size
priv_end_block(H) == H.size \div Alignment - EndCtrlBlockUnits

priv_mark_as_allocated_block(H, b) ==
  [H EXCEPT !.m[b].m_allocated = TRUE, !.m[priv_next_block(H, b)].m_prev_allocated = TRUE]

priv_mark_as_free_block(H, b) ==
  LET next == priv_next_block(H, b)
  IN  [H EXCEPT !.m[b].m_allocated = FALSE,
                !.m[next].m_prev_allocated = FALSE, !.m[next].m_prev_size = H.m[b].m_size]

\* A header is written at b; its m_prev_size is not initialized.
NewBlock(H, b, units) ==
  [H EXCEPT !.m = (b :> [m_prev_size |-> Garbage, m_size |-> units,
                         m_prev_allocated |-> FALSE, m_allocated |-> FALSE]) @@ @]

SetSize(H, b, units) == [H EXCEPT !.m[b].m_size = units]
DropHeaders(H, B) == [H EXCEPT !.m = [b \in DOMAIN H.m \ B |-> H.m[b]]]

\* The segment of the constructor: priv_add_segment with one free block.
Init ==
  LET end == SegmentSize \div Alignment - EndCtrlBlockUnits
      H == [m |-> (0 :> [m_prev_size |-> end, m_size |-> end, m_prev_allocated |-> TRUE, m_allocated |-> FALSE])
               @@ (end :> [m_prev_size |-> end, m_size |-> end, m_prev_allocated |-> FALSE, m_allocated |-> TRUE]),
            tree |-> {0}, allocated |-> 0, size |-> SegmentSize]
  IN  heap = H /\ buffers = <<>> /\ asserted = TRUE

----------------------------------------------------------------------------
(* Allocation and deallocation. *)

\* The block b of the tree is allocated, split if a block can be made of the rest.
priv_check_and_allocate(H, units, b) ==
  LET split == Size(H, b) >= units + BlockCtrlUnits
      rest == b + units
      H1 == IF split THEN priv_mark_as_free_block(NewBlock(SetSize(H, b, units), rest, Size(H, b) - units), rest)
                     ELSE H
      H2 == [H1 EXCEPT !.tree = (@ \ {b}) \cup (IF split THEN {rest} ELSE {}), !.allocated = @ + Size(H1, b)]
  IN  priv_mark_as_allocated_block(H2, b)

priv_deallocate(H, b) ==
  LET next == priv_next_block(H, b)
      merge_with_prev == ~H.m[b].m_prev_allocated
      merge_with_next == ~H.m[next].m_allocated
      to_insert == IF merge_with_prev THEN priv_prev_block(H, b) ELSE b
      units == Size(H, b) + (IF merge_with_prev THEN Size(H, to_insert) ELSE 0)
                          + (IF merge_with_next THEN Size(H, next) ELSE 0)
      H1 == DropHeaders(SetSize(H, to_insert, units),
                        (IF merge_with_prev THEN {b} ELSE {}) \cup (IF merge_with_next THEN {next} ELSE {}))
      H2 == [H1 EXCEPT !.tree = (@ \ {next}) \cup {to_insert}, !.allocated = @ - Size(H, b)]
  IN  priv_mark_as_free_block(H2, to_insert)

\* Equal sizes are in the order of their insertion; any of them may be the first.
lower_bound(H, units) ==
  {b \in H.tree : Size(H, b) >= units /\ \A c \in H.tree : Size(H, c) >= units => Size(H, b) <= Size(H, c)}
Largest(H) == {b \in H.tree : \A c \in H.tree : Size(H, c) <= Size(H, b)}

\* The possible results of a new allocation; none if there is no memory.
AllocateNew(H, limit, preferred) ==
  LET preferred_units == priv_get_total_units(preferred)
      fit == lower_bound(H, preferred_units)
  IN  IF fit # {} THEN {[block |-> b, heap |-> priv_check_and_allocate(H, preferred_units, b)] : b \in fit}
      ELSE {[block |-> b, heap |-> priv_check_and_allocate(H, Size(H, b), b)] :
              b \in {c \in Largest(H) : Size(H, c) >= priv_get_total_units(limit)}}

----------------------------------------------------------------------------
(* Expansion and shrinking in place.  Results: the block of the buffer or NoBlock,
   the heap and the size received. *)

NoBlock == Garbage
Outcome(b, H, size) == [block |-> b, heap |-> H, size |-> size]
Fail(H) == Outcome(NoBlock, H, 0)

\* The next free block is taken, or the part of it that is preferred.
TakeNext(H, b, preferred_user_units) ==
  LET next == priv_next_block(H, b)
      merged_units == Size(H, b) + Size(H, next)
      intended_units == Min({merged_units, AllocatedCtrlUnits + preferred_user_units})
      split == merged_units - intended_units >= BlockCtrlUnits
      rest == b + intended_units
      units == IF split THEN intended_units ELSE merged_units
      H1 == DropHeaders(H, {next})
      H2 == IF split THEN priv_mark_as_free_block(NewBlock(H1, rest, merged_units - intended_units), rest)
                     ELSE H1
      H3 == [SetSize(H2, b, units) EXCEPT !.tree = (@ \ {next}) \cup (IF split THEN {rest} ELSE {}),
                                          !.allocated = @ + units - Size(H, b)]
  IN  priv_mark_as_allocated_block(H3, b)

priv_expand(H, b, min_size, preferred) ==
  LET received == UserSize(Size(H, b))
      next == priv_next_block(H, b)
      merged_units == Size(H, b) + Size(H, next)
      H1 == TakeNext(H, b, user_buffer_ceil_units(preferred))
  IN  IF received >= preferred \/ received >= min_size THEN [ok |-> TRUE, heap |-> H, size |-> received]
      ELSE IF H.m[next].m_allocated THEN [ok |-> FALSE, heap |-> H, size |-> received]
      ELSE IF merged_units - AllocatedCtrlUnits < user_buffer_ceil_units(min_size)
      THEN [ok |-> FALSE, heap |-> H, size |-> merged_units * Alignment - UsableByPreviousChunk]
      ELSE [ok |-> TRUE, heap |-> H1, size |-> UserSize(Size(H1, b))]

\* The end of the previous free block becomes the beginning of the buffer.
SplitPrevious(H, b, units, received) ==
  LET prev == priv_prev_block(H, b)
      new == b - units
      new_units == AllocatedCtrlUnits + units + (received - UsableByPreviousChunk) \div Alignment
      H1 == priv_mark_as_allocated_block(DropHeaders(NewBlock(H, new, new_units), {b}), new)
      H2 == priv_mark_as_free_block(SetSize(H1, prev, new - prev), prev)
  IN  Outcome(new, [H2 EXCEPT !.allocated = @ + units], units * Alignment + received)

\* The whole previous free block is merged with the buffer.
MergePrevious(H, b, received) ==
  LET prev == priv_prev_block(H, b)
      H1 == DropHeaders(SetSize(H, prev, Size(H, prev) + Size(H, b)), {b})
      H2 == [H1 EXCEPT !.tree = @ \ {prev}, !.allocated = @ + Size(H, prev)]
  IN  Outcome(prev, priv_mark_as_allocated_block(H2, prev), received + Size(H, prev) * Alignment)

\* command is a subset of {"expand_fwd", "expand_bwd"}.
priv_expand_both_sides(H, command, min_size, preferred, b, only_preferred_backwards, sizeof_object) ==
  LET fwd == "expand_fwd" \in command
      own == UserSize(Size(H, b))
      e == IF fwd THEN priv_expand(H, b, min_size, preferred)
                  ELSE [ok |-> own >= preferred \/ own >= min_size, heap |-> H, size |-> own]
      prev == priv_prev_block(H, b)
      calc == calculate_lcm_and_needs_backwards_lcmed(sizeof_object, Alignment, e.size,
                IF only_preferred_backwards THEN preferred ELSE min_size)
      units == calc.needs \div Alignment
      H1 == IF fwd THEN priv_expand(H, b, e.size, e.size).heap ELSE H
  IN  IF e.ok THEN Outcome(b, e.heap, e.size)
      ELSE IF "expand_bwd" \notin command \/ H.m[b].m_prev_allocated THEN Fail(H)
      ELSE IF ~calc.ok \/ Size(H, prev) * Alignment < calc.needs THEN Fail(H)
      ELSE IF Size(H, prev) >= units + BlockCtrlUnits THEN SplitPrevious(H1, b, units, e.size)
      ELSE IF (Size(H, prev) * Alignment) % calc.lcm = 0 THEN MergePrevious(H1, b, e.size)
      ELSE Fail(H1)

\* priv_allocate with a buffer to expand, and a new allocation if it may make one.
priv_allocate(H, command, limit, preferred, b, sizeof_object) ==
  LET first == priv_expand_both_sides(H, command, limit, preferred, b, TRUE, sizeof_object)
      new == IF "allocate_new" \in command THEN AllocateNew(first.heap, limit, preferred) ELSE {}
  IN  IF first.block # NoBlock THEN {first}
      ELSE IF new # {} THEN {Outcome(o.block, o.heap, UserSize(Size(o.heap, o.block))) : o \in new}
      ELSE {priv_expand_both_sides(first.heap, command, limit, preferred, b, FALSE, sizeof_object)}

\* The rest of a block after its first units is freed.
FreeRest(H, b, units) ==
  LET rest == b + units
      H1 == NewBlock(SetSize(H, b, units), rest, Size(H, b) - units)
      H2 == priv_mark_as_allocated_block(priv_mark_as_allocated_block(H1, b), rest)
  IN  priv_deallocate(H2, rest)

\* A difference of sizes is taken modulo the range of size_type.
SizeRange == 2^16
floor_user_units(max_size) == ((max_size + SizeRange - UsableByPreviousChunk) % SizeRange) \div Alignment

shrink(H, b, max_size, preferred) ==
  LET old_user_units == Size(H, b) - AllocatedCtrlUnits
      preferred_user_units == user_buffer_ceil_units(preferred)
      shrunk_user_units == Max({BlockCtrlUnits - AllocatedCtrlUnits, preferred_user_units})
      max_user_units == floor_user_units(max_size)
  IN  IF max_user_units < preferred_user_units \/ old_user_units < preferred_user_units THEN Fail(H)
      ELSE IF old_user_units = preferred_user_units THEN Outcome(b, H, UserSize(Size(H, b)))
      ELSE IF max_user_units < shrunk_user_units \/ old_user_units < shrunk_user_units + BlockCtrlUnits
      THEN Fail(H)
      ELSE LET H1 == FreeRest(H, b, shrunk_user_units + AllocatedCtrlUnits)
           IN  Outcome(b, H1, UserSize(Size(H1, b)))

----------------------------------------------------------------------------
(* Aligned and multiple allocation. *)

\* The block whose buffer is the first aligned one that leaves room for a free
\* block before it.
AlignedBlock(b, alignment) ==
  LET buffer == BaseUnit + b + AllocatedCtrlUnits
      to == alignment \div Alignment
  IN  get_rounded_size(buffer + BlockCtrlUnits, to) - AllocatedCtrlUnits - BaseUnit

\* What the buffer does not need after it and before it is freed.
Carve(H, b, nbytes, alignment) ==
  LET min_units == priv_get_total_units(nbytes)
      FreeAfter(H1, c) == IF Size(H1, c) >= min_units + BlockCtrlUnits THEN FreeRest(H1, c, min_units) ELSE H1
      second == AlignedBlock(b, alignment)
      H1 == NewBlock(SetSize(H, b, second - b), second, Size(H, b) - (second - b))
      H2 == priv_mark_as_allocated_block(priv_mark_as_allocated_block(H1, second), b)
  IN  IF ((BaseUnit + b + AllocatedCtrlUnits) * Alignment) % alignment = 0
      THEN [block |-> b, heap |-> FreeAfter(H, b)]
      ELSE [block |-> second, heap |-> priv_deallocate(FreeAfter(H2, second), b)]

priv_allocate_overaligned(H, nbytes, alignment) ==
  LET user_units == user_buffer_ceil_units(nbytes)
      needed_units == user_units + Max({user_units, BlockCtrlUnits - AllocatedCtrlUnits})
                        + BlockCtrlUnits + (alignment - Alignment) \div Alignment
      request == needed_units * Alignment + UsableByPreviousChunk
  IN  {Carve(o.heap, o.block, nbytes, alignment) : o \in AllocateNew(H, request, request)}

\* allocate_new with an alignment, which ignores the preferred size if it is special.
AllocateAligned(H, limit, preferred, alignment) ==
  IF alignment <= Alignment THEN AllocateNew(H, limit, preferred)
  ELSE IF IsPow2(alignment) THEN priv_allocate_overaligned(H, limit, alignment)
  ELSE {}

SumOf(units) == FoldLeft(LAMBDA x, y : x + y, 0, units)

\* A block of several elements is cut into them; the last one gets the rest.
Cut(H, b, units) ==
  LET k == Max({j \in 1..Len(units) : SumOf(SubSeq(units, 1, j)) <= Size(H, b)})
      start == [j \in 1..k |-> b + SumOf(SubSeq(units, 1, j - 1))]
      end == priv_next_block(H, b)
      SizeOf(j) == (IF j = k THEN end ELSE start[j + 1]) - start[j]
      new == [c \in {start[j] : j \in 2..k} |->
                [m_prev_size |-> Garbage, m_prev_allocated |-> TRUE, m_allocated |-> TRUE,
                 m_size |-> SizeOf(CHOOSE j \in 2..k : start[j] = c)]]
      H1 == SetSize([H EXCEPT !.m = new @@ @], b, SizeOf(1))
      last == UserSize(units[k])
  IN  [blocks |-> start,
       heap |-> IF SizeOf(k) >= units[k] + BlockCtrlUnits THEN shrink(H1, start[k], last, last).heap ELSE H1]

priv_deallocate_many(H, blocks) == FoldLeft(LAMBDA H1, b : priv_deallocate(H1, b), H, blocks)

RECURSIVE AllocateMany(_, _, _, _)
AllocateMany(H, units, alignment, chain) ==
  LET o == CHOOSE o \in AllocateAligned(H, UserSize(units[1]), UserSize(SumOf(units)), alignment) : TRUE
      c == Cut(o.heap, o.block, units)
      rest == SubSeq(units, Len(c.blocks) + 1, Len(units))
  IN  IF units = <<>> THEN [heap |-> H, chain |-> chain]
      ELSE IF AllocateAligned(H, UserSize(units[1]), UserSize(SumOf(units)), alignment) = {}
      THEN [heap |-> priv_deallocate_many(H, chain), chain |-> <<>>]
      ELSE AllocateMany(c.heap, rest, alignment, chain \o c.blocks)

\* The public overload for elements of different sizes passes its size of an element
\* as the alignment and its alignment as the size of an element.
priv_allocate_many(H, sizes, sizeof_element, alignment) ==
  AllocateMany(H, [i \in DOMAIN sizes |-> priv_get_total_units(sizes[i] * alignment)], sizeof_element, <<>>)

----------------------------------------------------------------------------
(* The segment. *)

\* Mutant: the old end block is not merged with a free last block.
Mut_grow_segment(H, extra) ==
  LET old_end == priv_end_block(H)
      new_end == old_end + (H.size + extra - (old_end + EndCtrlBlockUnits) * Alignment) \div Alignment
      H1 == NewBlock([H EXCEPT !.size = @ + extra], new_end, new_end)
      H2 == [H1 EXCEPT !.m[0].m_prev_size = new_end, !.m[old_end].m_size = new_end - old_end,
                       !.m[new_end].m_allocated = TRUE, !.tree = @ \cup {old_end}]
  IN  priv_mark_as_free_block(H2, old_end)

grow_segment(H, extra) ==
  LET old_end == priv_end_block(H)
      old_border == (old_end + EndCtrlBlockUnits) * Alignment
      H1 == [H EXCEPT !.size = @ + extra]
      new_end == old_end + (H1.size - old_border) \div Alignment
      H2 == [NewBlock(H1, new_end, new_end) EXCEPT
               !.m[new_end].m_allocated = TRUE,
               !.m[0].m_prev_size = new_end, !.m[0].m_prev_allocated = TRUE,
               !.m[old_end].m_size = new_end - old_end]
      H3 == priv_mark_as_allocated_block(H2, old_end)
  IN  IF H1.size - old_border < BlockCtrlUnits * Alignment THEN H1
      ELSE priv_deallocate([H3 EXCEPT !.allocated = @ + Size(H3, old_end)], old_end)

\* The last free block becomes the end block.
CutAt(H, last) ==
  LET H1 == DropHeaders(H, {b \in DOMAIN H.m : b > last})
  IN  [H1 EXCEPT !.tree = @ \ {last}, !.size = (last + EndCtrlBlockUnits) * Alignment,
                 !.m[last].m_size = last, !.m[last].m_allocated = TRUE, !.m[0].m_prev_size = last]

----------------------------------------------------------------------------
(* The operations.  After each one the users write to all of their buffers, which
   include the m_prev_size of the next block. *)

UserWrites(H) ==
  [H EXCEPT !.m = [b \in DOMAIN H.m |-> IF b # 0 /\ H.m[b].m_prev_allocated
                                        THEN [H.m[b] EXCEPT !.m_prev_size = Garbage] ELSE H.m[b]]]

Commit(H, B) == asserted /\ heap' = UserWrites(H) /\ buffers' = B /\ UNCHANGED asserted

Without(B, b) == [c \in DOMAIN B \ {b} |-> B[c]]
With(B, b, wants, has) == (b :> [wants |-> wants, has |-> has]) @@ B

allocate(n) ==
  \E o \in AllocateNew(heap, n, n) : Commit(o.heap, With(buffers, o.block, n, UserSize(Size(o.heap, o.block))))

allocate_aligned(n, alignment) ==
  \E o \in AllocateAligned(heap, n, n, alignment) :
    Commit(o.heap, With(buffers, o.block, n, UserSize(Size(o.heap, o.block))))

\* A buffer that moves backwards or stays replaces the old one, a new one is added.
allocation_command(command, b, limit, preferred, sizeof_object) ==
  /\ limit <= preferred
  /\ \E o \in priv_allocate(heap, command, limit * sizeof_object, preferred * sizeof_object, b, sizeof_object) :
       LET replaced == b \notin DOMAIN o.heap.m \/ o.block = b
           B == IF replaced THEN Without(buffers, b) ELSE buffers
       IN  Commit(o.heap, IF o.block = NoBlock THEN buffers
                          ELSE With(B, o.block, limit * sizeof_object, o.size))

shrink_in_place(b, max_size, preferred) ==
  LET o == shrink(heap, b, max_size, preferred)
  IN  /\ preferred <= max_size /\ o.block # NoBlock
      /\ Commit(o.heap, With(buffers, b, preferred, o.size))

AddMany(c, sizes) ==
  LET Index(b) == CHOOSE i \in DOMAIN c.chain : c.chain[i] = b
  IN  Commit(c.heap, [b \in Range(c.chain) |-> [wants |-> sizes[Index(b)], has |-> UserSize(Size(c.heap, b))]] @@ buffers)

allocate_many(n, elem_bytes, alignment) ==
  AddMany(AllocateMany(heap, [i \in 1..n |-> priv_get_total_units(elem_bytes)], alignment, <<>>),
          [i \in 1..n |-> elem_bytes])

allocate_many_sizes(call) ==
  AddMany(priv_allocate_many(heap, call.sizes, call.sizeof_element, call.alignment),
          [i \in DOMAIN call.sizes |-> call.sizes[i] * call.sizeof_element])

deallocate(b) == Commit(priv_deallocate(heap, b), Without(buffers, b))

grow(extra) == heap.size + extra <= MaxSegmentSize /\ Commit(grow_segment(heap, extra), buffers)


\* An empty segment keeps a block of the smallest size, or there is nothing to cut
\* and the assertion that a free block follows it fails.
shrink_to_fit_empty ==
  /\ asserted /\ priv_next_block(heap, 0) = priv_end_block(heap)
  /\ \E o \in AllocateNew(heap, 0, 0) :
       LET last == priv_next_block(o.heap, o.block)
       IN  IF o.heap.m[last].m_allocated THEN asserted' = FALSE /\ UNCHANGED <<heap, buffers>>
           ELSE Commit(priv_deallocate(CutAt(o.heap, last), o.block), buffers)

shrink_to_fit ==
  LET end == priv_end_block(heap)
  IN  /\ priv_next_block(heap, 0) # end /\ ~heap.m[end].m_prev_allocated
      /\ Commit(CutAt(heap, priv_prev_block(heap, end)), buffers)

Commands == {{"expand_fwd"}, {"expand_bwd"}, {"expand_fwd", "expand_bwd"},
             {"allocate_new", "expand_fwd", "expand_bwd"}}

Next ==
  \/ \E n \in Requests : allocate(n) \/ \E a \in Overalignments : allocate_aligned(n, a)
  \/ \E b \in DOMAIN buffers :
       \/ deallocate(b)
       \/ \E limit, preferred \in Requests :
            \/ \E c \in Commands, s \in Objects : allocation_command(c, b, limit, preferred, s)
            \/ shrink_in_place(b, preferred, limit)
  \/ \E n \in Requests, a \in Overalignments \cup {1} : allocate_many(2, n, a)
  \/ \E call \in ManyCalls : allocate_many_sizes(call)
  \/ \E extra \in GrowSizes : grow(extra)
  \/ shrink_to_fit_empty \/ shrink_to_fit

Spec == Init /\ [][Next]_vars

----------------------------------------------------------------------------
(* Properties. *)

Blocks == DOMAIN heap.m \ {priv_end_block(heap)}
Free == {b \in Blocks : ~heap.m[b].m_allocated}

\* Type correctness; the tree is of blocks.
TypeOK ==
  /\ \A b \in DOMAIN heap.m : heap.m[b] \in [m_prev_size : Nat, m_size : Nat, m_prev_allocated : BOOLEAN, m_allocated : BOOLEAN]
  /\ heap.tree \subseteq DOMAIN heap.m /\ heap.allocated \in Nat /\ heap.size \in 0..MaxSegmentSize
  /\ \A b \in DOMAIN buffers : buffers[b] \in [wants : Nat, has : Nat]

\* The end block is where the size of the segment says, and it and the first block
\* know the distance between them, as grow and shrink_to_fit must restore.
EndBlockFound ==
  LET end == priv_end_block(heap)
  IN  /\ end \in DOMAIN heap.m
      /\ heap.m[end].m_allocated /\ heap.m[end].m_size = end
      /\ heap.m[0].m_prev_allocated /\ heap.m[0].m_prev_size = end

\* The blocks follow each other without gap or overlap, each large enough to be
\* freed, and the tags of neighbours agree.
BlocksTile ==
  \A b \in Blocks :
    LET next == priv_next_block(heap, b)
    IN  /\ Size(heap, b) >= BlockCtrlUnits
        /\ next \in DOMAIN heap.m /\ \A c \in Blocks : c <= b \/ c >= next
        /\ heap.m[next].m_prev_allocated = heap.m[b].m_allocated
        /\ ~heap.m[b].m_allocated => heap.m[next].m_prev_size = Size(heap, b)

\* The tree has all free blocks, and no two of them are neighbours.
FreeIsCoalesced ==
  /\ heap.tree = Free
  /\ \A b \in Free : priv_next_block(heap, b) \notin Free

\* m_allocated is the sum of the allocated blocks.
AllocatedIsCounted ==
  heap.allocated = MapThenSumSet(LAMBDA b : Size(heap, b), Blocks \ Free)

\* The boundary tags, the tree of free blocks and the count agree after every operation.
HeapIsConsistent ==
  TypeOK /\ EndBlockFound /\ BlocksTile /\ FreeIsCoalesced /\ AllocatedIsCounted

\* The allocated blocks are the buffers that clients hold: none leaks or is lost, and
\* each is as large as was asked for and as it was said to be.
BuffersAreKept ==
  /\ DOMAIN buffers = Blocks \ Free
  /\ \A b \in DOMAIN buffers :
       /\ buffers[b].wants <= buffers[b].has
       /\ buffers[b].has <= UserSize(Size(heap, b))


=============================================================================
