------------------------------ MODULE MCRobust ------------------------------
(***************************************************************************)
(* The two halves of robust_emulation.hpp beside each other: a behaviour   *)
(* is one of the robust mutex, which takes the lock files as they should   *)
(* be, or one of a lock file.  Fairness is that of the mutex; of the lock  *)
(* file only safety is asked.                                              *)
(***************************************************************************)
EXTENDS RobustMutex

CONSTANTS Owner, Cleaners, Files, None

VARIABLES part,                      \* "mutex" or "file"
          path, lock, fd, file_pc    \* the variables of RobustLockFile

LockFile == INSTANCE RobustLockFile WITH pc <- file_pc

file_vars == <<path, lock, fd, file_pc>>

MCInit == part \in {"mutex", "file"} /\ Init /\ LockFile!Init /\ (part = "mutex" => path = None)

MCNext ==
  /\ UNCHANGED part
  /\ \/ part = "mutex" /\ Next /\ UNCHANGED file_vars
     \/ part = "file" /\ LockFile!Next /\ UNCHANGED vars

MCSpec == MCInit /\ [][MCNext]_<<vars, part, file_vars>> /\ Fairness



=============================================================================
