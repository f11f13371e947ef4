---------------------------- MODULE RobustMutex ----------------------------
(***************************************************************************)
(* ipcdetail::robust_spin_mutex: a spin mutex with an owner word that lets *)
(* a process take over the mutex of a dead owner.  Every atomic access is  *)
(* a step; a process may die at any of them.  Whether a process looks      *)
(* alive is decided by its lock file (module RobustLockFile): its file is  *)
(* "locked" while it lives, "left" after it has died, "none" before it     *)
(* first locks a robust mutex and after somebody has deleted it.           *)
(***************************************************************************)
EXTENDS Naturals, FiniteSets

CONSTANTS Processes,
          Invalid,     \* get_invalid_process_id()
          MaxDeaths    \* bound on the number of processes that die

ASSUME InvalidAssumption == Invalid \notin Processes
ASSUME MaxDeathsAssumption == MaxDeaths \in Nat

VARIABLES
  mtx,        \* BOOLEAN: the spin mutex is locked
  owner,      \* the owner word: a process or Invalid
  state,      \* "correct", "fixing" or "broken"
  file,       \* the lock file of each process
  pc,
  old_owner,  \* the local variable of the takeover loop
  took        \* history: the owner word that each process replaced in its takeover

vars == <<mtx, owner, state, file, pc, old_owner, took>>
word == <<mtx, owner, state>>
local == <<old_owner, took>>

Alive == {p \in Processes : pc[p] # "dead"}

Init ==
  /\ mtx = FALSE /\ owner = Invalid /\ state = "correct"
  /\ file = [p \in Processes |-> "none"]
  /\ pc = [p \in Processes |-> "out"]
  /\ old_owner = [p \in Processes |-> Invalid]
  /\ took = [p \in Processes |-> Invalid]

Go(p, from, to) == pc[p] = from /\ pc' = [pc EXCEPT ![p] = to]

----------------------------------------------------------------------------
(* try_lock; lock and timed_lock repeat it. *)

\* The read of state and the creation of the own lock file.  Both throw
\* without changing the mutex.
TryLock(p) ==
  /\ Go(p, "out", "try") /\ state # "broken"
  /\ file' = [file EXCEPT ![p] = "locked"]
  /\ UNCHANGED <<word, local>>

MtxTryLock(p) ==
  /\ \/ ~mtx /\ Go(p, "try", "write_owner") /\ mtx' = TRUE
     \/ mtx /\ Go(p, "try", "read_owner") /\ UNCHANGED mtx
  /\ UNCHANGED <<owner, state, file, local>>

WriteOwner(p) ==
  /\ Go(p, "write_owner", "in") /\ owner' = p
  /\ UNCHANGED <<mtx, state, file, local>>

ReadOwner(p) ==
  /\ Go(p, "read_owner", "check")
  /\ old_owner' = [old_owner EXCEPT ![p] = owner]
  /\ UNCHANGED <<word, file, took>>


\* Mutant: a file that exists is taken for a living owner.
Mut_IsOwnerDead_Left(p) ==
  LET own == old_owner[p] IN
  /\ \/ own = Invalid /\ Go(p, "check", "cas")
     \/ own # Invalid /\ Go(p, "check", IF file[own] = "none" THEN "cas" ELSE "out")
  /\ UNCHANGED <<word, file, local>>

\* is_owner_dead.  A file that can be locked is deleted.
IsOwnerDead(p) ==
  LET own == old_owner[p] IN
  /\ \/ own = Invalid /\ Go(p, "check", "cas") /\ UNCHANGED file
     \/ /\ own # Invalid /\ file[own] \in {"none", "left"}
        /\ Go(p, "check", "cas") /\ file' = [file EXCEPT ![own] = "none"]
     \/ own # Invalid /\ file[own] = "locked" /\ Go(p, "check", "out") /\ UNCHANGED file
  /\ UNCHANGED <<word, local>>

\* Mutant: the owner word is written without a comparison.
Mut_CasOwner(p) ==
  /\ Go(p, "cas", "take")
  /\ owner' = p /\ took' = [took EXCEPT ![p] = old_owner[p]]
  /\ UNCHANGED <<mtx, state, file, old_owner>>

CasOwner(p) ==
  /\ \/ /\ owner = old_owner[p] /\ Go(p, "cas", "take")
        /\ owner' = p /\ took' = [took EXCEPT ![p] = owner] /\ UNCHANGED old_owner
     \/ /\ owner # old_owner[p] /\ Go(p, "cas", "check")
        /\ old_owner' = [old_owner EXCEPT ![p] = owner] /\ UNCHANGED <<owner, took>>
  /\ UNCHANGED <<mtx, state, file>>

TakeOwnership(p) ==
  /\ Go(p, "take", "fix") /\ mtx' = TRUE
  /\ UNCHANGED <<owner, state, file, local>>

Fix(p) ==
  /\ Go(p, "fix", "in") /\ state' = "fixing"
  /\ UNCHANGED <<mtx, owner, file, local>>

----------------------------------------------------------------------------
\* consistent throws only if neither of its conditions holds.
Consistent(p) ==
  /\ pc[p] = "in" /\ (state = "fixing" \/ owner = p)
  /\ state' = "correct"
  /\ UNCHANGED <<mtx, owner, file, pc, local>>

ReadState(p) ==
  /\ \/ state = "fixing" /\ Go(p, "in", "break")
     \/ state # "fixing" /\ Go(p, "in", "clear_owner")
  /\ UNCHANGED <<word, file, local>>

Break(p) ==
  /\ Go(p, "break", "clear_owner") /\ state' = "broken"
  /\ UNCHANGED <<mtx, owner, file, local>>

ClearOwner(p) ==
  /\ Go(p, "clear_owner", "unlock") /\ owner' = Invalid
  /\ UNCHANGED <<mtx, state, file, local>>

MtxUnlock(p) ==
  /\ Go(p, "unlock", "out") /\ mtx' = FALSE
  /\ took' = [took EXCEPT ![p] = Invalid] /\ old_owner' = [old_owner EXCEPT ![p] = Invalid]
  /\ UNCHANGED <<owner, state, file>>

Unlock(p) == ReadState(p) \/ Break(p) \/ ClearOwner(p) \/ MtxUnlock(p)

Die(p) ==
  /\ p \in Alive /\ Cardinality(Processes \ Alive) < MaxDeaths
  /\ pc' = [pc EXCEPT ![p] = "dead"]
  /\ file' = [file EXCEPT ![p] = IF @ = "locked" THEN "left" ELSE @]
  /\ took' = [took EXCEPT ![p] = Invalid] /\ old_owner' = [old_owner EXCEPT ![p] = Invalid]
  /\ UNCHANGED word

----------------------------------------------------------------------------
LockStep(p) ==
  \/ TryLock(p) \/ MtxTryLock(p) \/ WriteOwner(p) \/ ReadOwner(p) \/ IsOwnerDead(p)
  \/ CasOwner(p) \/ TakeOwnership(p) \/ Fix(p)

Next == \E p \in Processes : LockStep(p) \/ Consistent(p) \/ Unlock(p) \/ Die(p)

Spec == Init /\ [][Next]_vars

\* Every living process that wants the mutex keeps trying, and owners release it.
Fairness == \A p \in Processes : WF_vars(LockStep(p)) /\ WF_vars(Unlock(p))
FairSpec == Spec /\ Fairness

----------------------------------------------------------------------------
(* Properties. *)

\* Type correctness.
TypeOK ==
  /\ mtx \in BOOLEAN /\ owner \in Processes \cup {Invalid}
  /\ state \in {"correct", "fixing", "broken"}
  /\ file \in [Processes -> {"none", "locked", "left"}]
  /\ {old_owner[p] : p \in Processes} \cup {took[p] : p \in Processes}
       \subseteq Processes \cup {Invalid}

\* The processes between a successful lock and the end of unlock.
Inside == {p \in Processes : pc[p] \in {"in", "break", "clear_owner"}}

\* One process at a time is inside the mutex.
MutualExclusion == Cardinality(Inside) <= 1

\* The file of a living process that has locked a robust mutex is never deleted,
\* so that nobody takes over the mutex from it by its pid.
LivingKeepTheirFile ==
  \A p \in Alive : pc[p] # "out" => file[p] = "locked"

\* The shared words have their types and living owners their files.
Inv == TypeOK /\ LivingKeepTheirFile

\* Nobody takes the mutex over from a process that lives, and only one process
\* takes it over from the same dead one.
OneTakeoverPerDeath ==
  \A p \in Processes : took[p] # Invalid =>
    /\ took[p] \notin Alive
    /\ \A q \in Processes \ {p} : took[q] # took[p]

\* A mutex whose owner dies is not lost: some process takes it, or the mutex has
\* been declared broken, or everybody is dead.
DeadOwnerIsReplaced ==
  (owner \in Processes \ Alive) ~>
    (owner \in Alive \cup {Invalid} \/ state = "broken" \/ Alive = {})

=============================================================================
