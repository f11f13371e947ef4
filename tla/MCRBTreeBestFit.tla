-------------------------- MODULE MCRBTreeBestFit --------------------------
EXTENDS RBTreeBestFit

\* Arguments of allocate_many for which the two exchanged arguments are equal.
EqualCalls == {[sizes |-> <<1, 6>>, sizeof_element |-> 1, alignment |-> 1]}

\* An object of two words with the alignment of one.
LargeObjectCalls == {[sizes |-> <<4, 4>>, sizeof_element |-> 2, alignment |-> 1]}

----------------------------------------------------------------------------
(* The calculation of the backwards extension on bounded sizes, beside the *)
(* heap: the size to achieve is a number of objects and larger than the    *)
(* size received, as the caller ensures.                                   *)

CONSTANTS HeapAlignments,      \* alignments of a heap
          MaxMultiple,         \* bound on the size of an object
          MaxObjects           \* bound on the objects to achieve

ASSUME AlignmentsArePow2 == \A a \in HeapAlignments : IsPow2(a) /\ a >= 4

VARIABLES call, result         \* a calculation, if that is what is looked at

NoCall == [b |-> 0]
Calls ==
  { c \in [b : 1..MaxMultiple, alignment : HeapAlignments,
           received : 0..(MaxMultiple * MaxObjects), objects : 1..MaxObjects] :
      c.received < c.b * c.objects }

MCInit == Init /\ call \in Calls \cup {NoCall} /\ result = Failure

Calculate ==
  /\ call # NoCall /\ result = Failure
  /\ result' = calculate_lcm_and_needs_backwards_lcmed(
                 call.b, call.alignment, call.received, call.b * call.objects)
  /\ UNCHANGED <<vars, call>>

MCNext == (call = NoCall /\ Next /\ UNCHANGED <<call, result>>) \/ Calculate
MCSpec == MCInit /\ [][MCNext]_<<vars, call, result>>


=============================================================================
