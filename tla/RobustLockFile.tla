--------------------------- MODULE RobustLockFile ---------------------------
(***************************************************************************)
(* robust_emulation_helpers::robust_mutex_lock_file: the locked file whose *)
(* existence says that a process is alive.  One process constructs its     *)
(* lock file while others, cleaning up in their own constructors or in     *)
(* is_owner_dead, lock and delete files that nobody holds.  The name of    *)
(* the file is one directory entry; a file that was deleted lives on while *)
(* somebody has it open, so that locks are held on files, not on names.    *)
(***************************************************************************)
EXTENDS Naturals, FiniteSets

CONSTANTS Owner,      \* the process that constructs its lock file
          Cleaners,   \* the processes that remove old lock files
          Files,      \* enough files for one per process and one named
          None

Users == {Owner} \cup Cleaners

VARIABLES
  path,   \* the file that the name refers to, or None
  lock,   \* the process that holds the lock of each file, or None
  fd,     \* the file that each process has open, or None
  pc

vars == <<path, lock, fd, pc>>

Init ==
  /\ path \in Files \cup {None}     \* a dead process of the same pid may have left it
  /\ lock = [f \in Files |-> None]
  /\ fd = [p \in Users |-> None]
  /\ pc = [p \in Users |-> IF p = Owner THEN "create" ELSE "open"]

Go(p, from, to) == pc[p] = from /\ pc' = [pc EXCEPT ![p] = to]
Unused(f) == f # path /\ \A p \in Users : fd[p] # f

\* Closing a file releases the lock that the process has on it.
Unlocked(p) == [f \in Files |-> IF lock[f] = p THEN None ELSE lock[f]]


close_file(p) ==
  /\ fd' = [fd EXCEPT ![p] = None]
  /\ lock' = Unlocked(p)

\* try_acquire_file_lock: the lock is granted or refused at once.
try_acquire_file_lock(p) == lock[fd[p]] = None /\ lock' = [lock EXCEPT ![fd[p]] = p]

----------------------------------------------------------------------------
(* The constructor and the destructor. *)

create_or_open_file ==
  /\ Go(Owner, "create", "lock")
  /\ \/ path # None /\ UNCHANGED path
     \/ path = None /\ \E f \in Files : Unused(f) /\ path' = f
  /\ fd' = [fd EXCEPT ![Owner] = path']
  /\ UNCHANGED lock

\* The constructor throws when the lock is refused.
acquire ==
  \/ Go(Owner, "lock", "exclusive") /\ try_acquire_file_lock(Owner) /\ UNCHANGED <<path, fd>>
  \/ /\ Go(Owner, "lock", "failed") /\ lock[fd[Owner]] # None
     /\ UNCHANGED <<path, lock, fd>>


\* The exclusive creation: a success means that the locked file has been deleted.
create_new_file ==
  \/ Go(Owner, "exclusive", "alive") /\ path # None /\ UNCHANGED <<path, lock, fd>>
  \/ /\ Go(Owner, "exclusive", "lock") /\ path = None
     /\ \E f \in Files :
          Unused(f) /\ path' = f /\ fd' = [fd EXCEPT ![Owner] = f]
     /\ lock' = Unlocked(Owner)

destroy_close == Go(Owner, "alive", "unlink") /\ close_file(Owner) /\ UNCHANGED path
destroy_delete == Go(Owner, "unlink", "gone") /\ path' = None /\ UNCHANGED <<lock, fd>>

\* The process dies at any moment; the system closes its files.
die ==
  /\ pc[Owner] # "gone"
  /\ pc' = [pc EXCEPT ![Owner] = "gone"]
  /\ close_file(Owner) /\ UNCHANGED path

----------------------------------------------------------------------------
(* remove_if_can_lock_file, and the same steps in is_owner_dead. *)

open_existing_file(p) ==
  /\ Go(p, "open", "try") /\ path # None
  /\ fd' = [fd EXCEPT ![p] = path] /\ UNCHANGED <<path, lock>>

try_lock_file(p) ==
  \/ Go(p, "try", "delete") /\ try_acquire_file_lock(p) /\ UNCHANGED <<path, fd>>
  \/ Go(p, "try", "close") /\ lock[fd[p]] # None /\ UNCHANGED <<path, lock, fd>>

delete_file(p) == Go(p, "delete", "close") /\ path' = None /\ UNCHANGED <<lock, fd>>

remove_close(p) == Go(p, "close", "open") /\ close_file(p) /\ UNCHANGED path

----------------------------------------------------------------------------
Construct == create_or_open_file \/ acquire \/ create_new_file
Remove(p) == open_existing_file(p) \/ try_lock_file(p) \/ delete_file(p) \/ remove_close(p)

Next ==
  \/ Construct \/ destroy_close \/ destroy_delete \/ die
  \/ \E p \in Cleaners : Remove(p)

Spec == Init /\ [][Next]_vars

----------------------------------------------------------------------------
(* Properties. *)

\* Type correctness; a cleaner leaks no descriptor.
TypeOK ==
  /\ path \in Files \cup {None}
  /\ lock \in [Files -> Users \cup {None}]
  /\ fd \in [Users -> Files \cup {None}]
  /\ \A p \in Cleaners : pc[p] = "open" <=> fd[p] = None


\* Whoever holds a lock has the file open: a dead process never looks alive.
LocksAreHeld == \A f \in Files : lock[f] # None => fd[lock[f]] = f

\* Descriptors, locks and the name are consistent.
Inv == TypeOK /\ LocksAreHeld

=============================================================================
