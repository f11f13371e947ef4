-------------------------- MODULE MCManagedSegment --------------------------
(***************************************************************************)
(* What a managed segment consists of: a behaviour is one of its memory    *)
(* algorithm, a calculation of the algorithm, or one of its directory of   *)
(* objects.  The directory has two names and a unique object, and its      *)
(* processes and blocks are interchangeable.                               *)
(***************************************************************************)
EXTENDS MCRBTreeBestFit, TLC

CONSTANTS Processes, Memory, Lengths, MaxDepth, IndexTypes, NestingIndexes, None

VARIABLES part,                                       \* "memory" or "directory"
          index_type, index, block, m_header, stack   \* the variables of SegmentManager

MCKeys == {[type |-> "named", name |-> 1], [type |-> "named", name |-> 2],
           [type |-> "unique", name |-> 1]}

Directory == INSTANCE SegmentManager WITH Keys <- MCKeys, Blocks <- Memory

Interchangeable == Permutations(Memory) \cup Permutations(Processes)

memory_vars == <<vars, call, result>>
directory_vars == <<index_type, index, block, m_header, stack>>

SegmentInit ==
  /\ part \in {"memory", "directory"}
  /\ MCInit /\ (part = "directory" => call = NoCall)
  /\ Directory!Init /\ (part = "memory" => index_type = "iset")

SegmentNext ==
  /\ UNCHANGED part
  /\ \/ part = "memory" /\ MCNext /\ UNCHANGED directory_vars
     \/ part = "directory" /\ Directory!Next /\ UNCHANGED memory_vars

SegmentSpec == SegmentInit /\ [][SegmentNext]_<<part, memory_vars, directory_vars>>

\* Inv of SegmentManager: the directory, the memory and the mutex agree, whatever
\* constructors throw and whatever they call.
DirectoryInv == Directory!Inv

\* FoundIsBuilt of SegmentManager: what find returns is completely constructed.
FoundIsBuilt == Directory!FoundIsBuilt

\* ForgetsOnlyItsOwn of SegmentManager: an object leaves the directory only when it is
\* destroyed or when its own constructor throws, never by the rollback of another one.
ObjectsStay == [][Directory!ForgetsOnlyItsOwn]_directory_vars

=============================================================================
