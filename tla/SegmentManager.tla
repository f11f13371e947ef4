--------------------------- MODULE SegmentManager ---------------------------
(***************************************************************************)
(* segment_manager: the directory of named, unique and anonymous objects   *)
(* of a managed segment, shared by processes that construct, find and      *)
(* destroy objects.  A recursive mutex protects the indexes of names; it   *)
(* is held while constructors and destructors run, which may call the      *)
(* segment manager again.  The calls that a process has in progress are a  *)
(* stack of frames.  Memory is a set of blocks; its allocator has its own  *)
(* mutex (module RBTreeBestFit), so that a call of it is one step.         *)
(***************************************************************************)
EXTENDS Naturals, Sequences, SequencesExt, FiniteSets

CONSTANTS Processes,
          Keys,             \* the names: records [type, name] with a number as name
          Blocks,           \* the memory of the segment
          Lengths,          \* the lengths of the arrays that are constructed
          MaxDepth,         \* bound on the calls that a process has in progress
          IndexTypes,       \* subset of {"iset", "flat_map"}
          NestingIndexes,   \* the indexes with which constructors call the manager again
          None

Types == {"named", "unique"}
Anonymous == [type |-> "anonymous", name |-> 0]
NoKey == [type |-> "none", name |-> 0]
AtomicOps == {"atomic_func", "try_atomic_func"}
Finds == {"find", "find_no_lock"}

VARIABLES
  index_type,   \* the template parameter IndexType
  index,        \* m_named_index and m_unique_index: the blocks in the order of names
  block,        \* what each block holds, or None: its key, its length and the objects built
  m_header,     \* the recursive mutex: its owner and its count
  stack         \* the calls of each process in progress, the innermost first

vars == <<index_type, index, block, m_header, stack>>

Init ==
  /\ index_type \in IndexTypes
  /\ index = [t \in Types |-> <<>>]
  /\ block = [b \in Blocks |-> None]
  /\ m_header = [owner |-> None, count |-> 0]
  /\ stack = [p \in Processes |-> <<>>]

----------------------------------------------------------------------------
(* The stack and the mutex. *)

\* at: where the call is; obj: its block; it: the iterator that insert_commit returned.
Frame(op, at, key, obj, num) ==
  [op |-> op, at |-> at, key |-> key, obj |-> obj, num |-> num, it |-> None]

At(p, at) == stack[p] # <<>> /\ Head(stack[p]).at = at
Top(p) == Head(stack[p])
SetTop(p, f) == stack' = [stack EXCEPT ![p] = <<f>> \o Tail(@)]
GoTo(p, at) == SetTop(p, [Top(p) EXCEPT !.at = at])
Frames(p) == Range(stack[p])

\* Whether the call holds m_header: scoped_lock guard.
Guards(f) == f.at # "lock" /\ f.key # Anonymous /\ f.op # "find_no_lock"

Unlocked(h) == IF h.count = 1 THEN [owner |-> None, count |-> 0] ELSE [h EXCEPT !.count = @ - 1]

\* The end of a call, in which the guard releases m_header.
Leave(p) ==
  /\ m_header' = IF Guards(Top(p)) THEN Unlocked(m_header) ELSE m_header
  /\ stack' = [stack EXCEPT ![p] = Tail(@)]

\* Mutant: a search does not wait for the mutex.
Mut_Lock(p) ==
  /\ At(p, "lock")
  /\ m_header.owner \in {None, p} \/ Top(p).op = "find"
  /\ m_header' = [owner |-> p, count |-> m_header.count + 1]
  /\ GoTo(p, "locked") /\ UNCHANGED <<index_type, index, block>>

Lock(p) ==
  /\ At(p, "lock") /\ m_header.owner \in {None, p}
  /\ m_header' = [owner |-> p, count |-> m_header.count + 1]
  /\ GoTo(p, "locked") /\ UNCHANGED <<index_type, index, block>>

\* try_atomic_func returns false when another process has the mutex.
TryLockFails(p) ==
  /\ At(p, "lock") /\ Top(p).op = "try_atomic_func" /\ m_header.owner \notin {None, p}
  /\ stack' = [stack EXCEPT ![p] = Tail(@)]
  /\ UNCHANGED <<index_type, index, block, m_header>>

----------------------------------------------------------------------------
(* The indexes.  An iterator of the intrusive set is the node, which is in *)
(* the block; one of the flat map is a position.                           *)

Entries(key) == {b \in Range(index[key.type]) : block[b].key = key}

\* Mutant: the iterator that is returned is the first of the index.
Mut_insert_commit(p, b) ==
  LET ix == index[Top(p).key.type]
      at == 1 + Cardinality({i \in DOMAIN ix : block[ix[i]].key.name < Top(p).key.name})
      new == InsertAt(ix, at, b)
  IN  /\ index' = [index EXCEPT ![Top(p).key.type] = new]
      /\ SetTop(p, [Top(p) EXCEPT !.at = "user", !.it = IF index_type = "iset" THEN new[1] ELSE 1])

insert_commit(p, b) ==
  LET ix == index[Top(p).key.type]
      at == 1 + Cardinality({i \in DOMAIN ix : block[ix[i]].key.name < Top(p).key.name})
  IN  /\ index' = [index EXCEPT ![Top(p).key.type] = InsertAt(ix, at, b)]
      /\ SetTop(p, [Top(p) EXCEPT !.at = "user", !.it = IF index_type = "iset" THEN b ELSE at])

erase(type, it) ==
  index' = [index EXCEPT ![type] = IF index_type = "iset" THEN SelectSeq(@, LAMBDA b : b # it)
                                                          ELSE RemoveAt(@, it)]

Iterator(key, b) == IF index_type = "iset" THEN b ELSE SelectInSeq(index[key.type], LAMBDA c : c = b)

----------------------------------------------------------------------------
(* The calls.  A process calls from outside, from a function passed to     *)
(* atomic_func, or from a constructor or destructor that is running.       *)

Building(p) == {f.obj : f \in {g \in Frames(p) : g.op = "construct" /\ g.at = "user"}}

CanCall(p) ==
  \/ stack[p] = <<>>
  \/ /\ At(p, "user") /\ Len(stack[p]) < MaxDepth
     /\ Top(p).op = "construct" => index_type \in NestingIndexes

Push(p, f) ==
  /\ CanCall(p)
  /\ stack' = [stack EXCEPT ![p] = <<f>> \o @]
  /\ UNCHANGED <<index_type, index, block, m_header>>

construct(p) ==
  \E key \in Keys, num \in Lengths, op \in {"construct", "find_or_construct"} :
     Push(p, [Frame("construct", "lock", key, None, num) EXCEPT !.it = op])

anonymous_construct(p) ==
  \E num \in Lengths : Push(p, Frame("construct", "allocate", Anonymous, None, num))

find(p) == \E key \in Keys : Push(p, Frame("find", "lock", key, None, 0))

atomic_func(p) ==
  \E op \in AtomicOps : Push(p, Frame(op, "lock", NoKey, None, 0))

\* For use inside atomic_func, where the mutex is locked.
find_no_lock(p) ==
  /\ stack[p] # <<>> /\ Top(p).op \in AtomicOps
  /\ \E key \in Keys : Push(p, Frame("find_no_lock", "locked", key, None, 0))

\* An object is not destroyed by its own constructor, nor by two processes of which
\* one has only a pointer to it.
Condemned(key) ==
  {f \in UNION {Frames(p) : p \in Processes} : f.op = "destroy" /\ f.key = key /\ f.at \in {"lock", "locked"}}

destroy(p) ==
  \E key \in Keys :
    /\ Entries(key) \cap Building(p) = {}
    /\ \A f \in Condemned(key) : f.obj = None
    /\ Push(p, Frame("destroy", "lock", key, None, 0))

\* priv_destroy_ptr: the header says how the block was allocated and its name.
destroy_ptr(p) ==
  \E b \in Blocks :
    /\ block[b] # None
    /\ \A q \in Processes : \A f \in Frames(q) : f.obj # b
    /\ Condemned(block[b].key) = {}
    /\ Push(p, Frame("destroy", IF block[b].key = Anonymous THEN "user" ELSE "lock", block[b].key, b, 0))

----------------------------------------------------------------------------
(* priv_generic_find, and the search of find_or_construct. *)

Found(p) ==
  /\ At(p, "locked")
  /\ Top(p).op \in Finds \/ Top(p).it = "find_or_construct"
  /\ \E b \in Entries(Top(p).key) : SetTop(p, [Top(p) EXCEPT !.at = "found", !.obj = b])
  /\ UNCHANGED <<index_type, index, block, m_header>>

FindReturns(p) == At(p, "found") /\ Leave(p) /\ UNCHANGED <<index_type, index, block>>

\* find and destroy return without the object; construct fails because there is one.
NotDone(p) ==
  /\ At(p, "locked")
  /\ \/ Top(p).op \in Finds \cup {"destroy"} /\ Entries(Top(p).key) = {}
     \/ Top(p).it = "construct" /\ Entries(Top(p).key) # {}
  /\ Leave(p) /\ UNCHANGED <<index_type, index, block>>

----------------------------------------------------------------------------
(* priv_generic_named_construct and priv_anonymous_construct. *)

insert_check(p) ==
  /\ At(p, "locked") /\ Top(p).op = "construct" /\ Entries(Top(p).key) = {}
  /\ GoTo(p, "allocate") /\ UNCHANGED <<index_type, index, block, m_header>>

Allocate(p) ==
  /\ At(p, "allocate")
  /\ \/ \E b \in Blocks :
          /\ block[b] = None
          /\ block' = [block EXCEPT ![b] = [key |-> Top(p).key, num |-> Top(p).num, built |-> 0]]
          /\ SetTop(p, [Top(p) EXCEPT !.at = IF Top(p).key = Anonymous THEN "user" ELSE "commit",
                                      !.obj = b])
          /\ UNCHANGED m_header
     \/ Leave(p) /\ UNCHANGED block        \* there is not enough memory
  /\ UNCHANGED <<index_type, index>>

\* The insertion in a flat map allocates and may fail, which gives the buffer back.
Commit(p) ==
  /\ At(p, "commit")
  /\ \/ insert_commit(p, Top(p).obj) /\ UNCHANGED <<block, m_header>>
     \/ /\ index_type = "flat_map" /\ block' = [block EXCEPT ![Top(p).obj] = None]
        /\ Leave(p) /\ UNCHANGED index
  /\ UNCHANGED index_type

\* construct_n: one more object is constructed.
ConstructOne(p) ==
  LET b == Top(p).obj IN
  /\ At(p, "user") /\ Top(p).op = "construct" /\ block[b].built < block[b].num
  /\ block' = [block EXCEPT ![b].built = @ + 1]
  /\ UNCHANGED <<index_type, index, m_header, stack>>

\* Mutant: no value_eraser.
Mut_ConstructorThrows(p) ==
  LET b == Top(p).obj IN
  /\ At(p, "user") /\ Top(p).op = "construct" /\ block[b].built < block[b].num
  /\ UNCHANGED index
  /\ block' = [block EXCEPT ![b] = None]
  /\ Leave(p) /\ UNCHANGED index_type

\* A constructor throws: the objects built are destroyed, value_eraser and
\* mem_algo_deallocator undo the rest.
ConstructorThrows(p) ==
  LET b == Top(p).obj IN
  /\ At(p, "user") /\ Top(p).op = "construct" /\ block[b].built < block[b].num
  /\ IF Top(p).key = Anonymous THEN UNCHANGED index ELSE erase(Top(p).key.type, Top(p).it)
  /\ block' = [block EXCEPT ![b] = None]
  /\ Leave(p) /\ UNCHANGED index_type

ConstructReturns(p) ==
  /\ At(p, "user") /\ Top(p).op = "construct" /\ block[Top(p).obj].built = block[Top(p).obj].num
  /\ Leave(p) /\ UNCHANGED <<index_type, index, block>>

----------------------------------------------------------------------------
(* priv_generic_named_destroy and priv_anonymous_destroy; atomic_func. *)

DestroyErases(p) ==
  /\ At(p, "locked") /\ Top(p).op = "destroy"
  /\ \E b \in Entries(Top(p).key) :
       /\ erase(Top(p).key.type, Iterator(Top(p).key, b))
       /\ SetTop(p, [Top(p) EXCEPT !.at = "user", !.obj = b])
  /\ UNCHANGED <<index_type, block, m_header>>

DestroyOne(p) ==
  LET b == Top(p).obj IN
  /\ At(p, "user") /\ Top(p).op = "destroy" /\ block[b].built > 0
  /\ block' = [block EXCEPT ![b].built = @ - 1]
  /\ UNCHANGED <<index_type, index, m_header, stack>>

Deallocate(p) ==
  /\ At(p, "user") /\ Top(p).op = "destroy" /\ block[Top(p).obj].built = 0
  /\ block' = [block EXCEPT ![Top(p).obj] = None]
  /\ Leave(p) /\ UNCHANGED <<index_type, index>>

AtomicBegins(p) ==
  /\ At(p, "locked") /\ Top(p).op \in AtomicOps
  /\ GoTo(p, "user") /\ UNCHANGED <<index_type, index, block, m_header>>

AtomicReturns(p) ==
  /\ At(p, "user") /\ Top(p).op \in AtomicOps
  /\ Leave(p) /\ UNCHANGED <<index_type, index, block>>

----------------------------------------------------------------------------
Call(p) ==
  \/ construct(p) \/ anonymous_construct(p) \/ find(p) \/ find_no_lock(p) \/ atomic_func(p)
  \/ destroy(p) \/ destroy_ptr(p)

Construct(p) ==
  \/ insert_check(p) \/ Allocate(p) \/ Commit(p)
  \/ ConstructOne(p) \/ ConstructorThrows(p) \/ ConstructReturns(p)

Destroy(p) == DestroyErases(p) \/ DestroyOne(p) \/ Deallocate(p)
Atomic(p) == TryLockFails(p) \/ AtomicBegins(p) \/ AtomicReturns(p)

Next ==
  \E p \in Processes :
    \/ Call(p) \/ Lock(p) \/ Found(p) \/ FindReturns(p) \/ NotDone(p)
    \/ Construct(p) \/ Destroy(p) \/ Atomic(p)

Spec == Init /\ [][Next]_vars

----------------------------------------------------------------------------
(* Properties. *)

TypeOK ==
  /\ index \in [Types -> Seq(Blocks)]
  /\ \A b \in Blocks : block[b] # None => block[b].key \in Keys \cup {Anonymous}
                                          /\ block[b].built \in 0 .. block[b].num
  /\ m_header.owner \in Processes \cup {None} /\ m_header.count \in Nat
  /\ \A p \in Processes : Len(stack[p]) <= MaxDepth

\* The recursive mutex counts the calls of its owner that hold it, and nobody else holds it.
MutexIsExact ==
  /\ m_header.count = 0 <=> m_header.owner = None
  /\ \A p \in Processes :
       Len(SelectSeq(stack[p], Guards)) = IF p = m_header.owner THEN m_header.count ELSE 0

\* Every entry of an index is a block that holds an object of that name, in order
\* and once.
NoDanglingEntry ==
  \A t \in Types :
    /\ \A i \in DOMAIN index[t] : block[index[t][i]] # None /\ block[index[t][i]].key.type = t
    /\ \A i, j \in DOMAIN index[t] :
         i < j => block[index[t][i]].key.name < block[index[t][j]].key.name

\* No memory is lost: a block in use is in an index, is a complete anonymous object,
\* or belongs to a call in progress.
NoLeak ==
  \A b \in Blocks : block[b] # None =>
    \/ \E t \in Types : b \in Range(index[t])
    \/ block[b].key = Anonymous /\ block[b].built = block[b].num
    \/ \E p \in Processes : \E f \in Frames(p) : f.obj = b /\ f.at \in {"commit", "user"}

\* The directory, the memory and the mutex agree, whatever constructors throw and
\* whatever they call.
Inv == TypeOK /\ MutexIsExact /\ NoDanglingEntry /\ NoLeak

\* What find and find_or_construct return is completely constructed, unless it is
\* the object whose constructor makes the call.
FoundIsBuilt ==
  \A p \in Processes : At(p, "found") =>
    LET b == Top(p).obj IN block[b].built = block[b].num \/ b \in Building(p)

\* An object leaves the directory only when it is destroyed, or when its own
\* constructor throws: never by the rollback of another one.
ForgetsOnlyItsOwn ==
  \A t \in Types : \A b \in Range(index[t]) \ Range(index'[t]) :
    \E p \in Processes :
      \/ DestroyErases(p) /\ Top(p).key = block[b].key
      \/ ConstructorThrows(p) /\ Top(p).obj = b

=============================================================================
