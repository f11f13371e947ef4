------------------------ MODULE ManagedOpenOrCreate ------------------------
(***************************************************************************)
(* managed_open_or_create_impl: how processes that create or open a named, *)
(* file-like device agree on who constructs the segment in it.  The first  *)
(* word of the file tells the others how far the creator is; a file of one *)
(* byte tells them that it has failed.  A device that was removed lives on *)
(* while somebody has it open, so that a name and a file are told apart.   *)
(***************************************************************************)
EXTENDS Naturals, Sequences

CONSTANTS
  Processes,
  Size,          \* the size to which a creator grows its file
  StepwiseGrowth,         \* truncate_file writes the zeros block by block (Windows)
  MaxCreateOrOpenTries,
  MaxFiles       \* bound: the name of the last of them is not removed

ASSUME SizeAssumption == Size \in Nat /\ Size > 2 /\ StepwiseGrowth \in BOOLEAN
ASSUME TriesAssumption == MaxCreateOrOpenTries \in Nat \ {0} /\ MaxFiles \in Nat

Words == {"Uninitialized", "Initializing", "Initialized", "Corrupted"}

VARIABLES
  name,    \* the file of that name, or 0
  files,   \* the files created so far, each with its size and its first word
  dev,     \* the file that each process has opened, or 0
  region,  \* how much of it the process has mapped
  tries,
  pc

vars == <<name, files, dev, region, tries, pc>>

Returned == {"created", "opened"}
Ended == Returned \cup {"failed", "dead"}

Init ==
  /\ name = 0 /\ files = <<>>
  /\ dev = [p \in Processes |-> 0]
  /\ region = [p \in Processes |-> 0]
  /\ tries = [p \in Processes |-> 0]
  /\ pc \in [Processes -> {"DoOpen", "DoCreate", "DoOpenOrCreate"}]

Go(p, from, to) == pc[p] = from /\ pc' = [pc EXCEPT ![p] = to]
size(p) == files[dev[p]].size
word(p) == files[dev[p]].word
SetSize(p, n) == files' = [files EXCEPT ![dev[p]].size = n]
SetWord(p, w) == files' = [files EXCEPT ![dev[p]].word = w]

----------------------------------------------------------------------------
(* Getting the device. *)

\* create_only: exclusive, fails if the name exists.
create_device(p) ==
  /\ name = 0
  /\ files' = Append(files, [size |-> 0, word |-> "Uninitialized"])
  /\ name' = Len(files')
  /\ dev' = [dev EXCEPT ![p] = name']

open_device(p) == name # 0 /\ dev' = [dev EXCEPT ![p] = name] /\ UNCHANGED <<name, files>>

DoOpen(p) ==
  /\ \/ Go(p, "DoOpen", "filesize") /\ open_device(p)
     \/ Go(p, "DoOpen", "failed") /\ name = 0 /\ UNCHANGED <<name, files, dev>>
  /\ UNCHANGED <<region, tries>>

DoCreate(p) ==
  /\ \/ Go(p, "DoCreate", "truncate") /\ create_device(p)
     \/ Go(p, "DoCreate", "failed") /\ name # 0 /\ UNCHANGED <<name, files, dev>>
  /\ UNCHANGED <<region, tries>>

create_else_open(p) ==
  \/ Go(p, "DoOpenOrCreate", "truncate") /\ create_device(p) /\ UNCHANGED <<region, tries>>
  \/ /\ name # 0
     /\ tries' = [tries EXCEPT ![p] = @ + 1]
     /\ Go(p, "DoOpenOrCreate", IF tries'[p] = MaxCreateOrOpenTries THEN "failed" ELSE "open")
     /\ UNCHANGED <<name, files, dev, region>>

else_open(p) ==
  /\ \/ Go(p, "open", "filesize") /\ open_device(p)
     \/ Go(p, "open", "DoOpenOrCreate") /\ name = 0 /\ UNCHANGED <<name, files, dev>>
  /\ UNCHANGED <<region, tries>>

----------------------------------------------------------------------------
(* do_map_after_create *)

\* dev.truncate(size), in one step or as the zeros are written.
truncate_device(p) ==
  /\ pc[p] = "truncate" /\ size(p) < Size
  /\ IF StepwiseGrowth
     THEN \E n \in (size(p) + 1) .. Size : n # 1 /\ SetSize(p, n)
     ELSE SetSize(p, Size)
  /\ UNCHANGED <<name, dev, region, tries, pc>>

map_created(p) ==
  /\ Go(p, "truncate", "cas") /\ size(p) = Size
  /\ region' = [region EXCEPT ![p] = Size]
  /\ UNCHANGED <<name, files, dev, tries>>

begin_construction(p) ==
  /\ pc[p] = "cas"
  /\ IF word(p) = "Uninitialized"
     THEN Go(p, "cas", "construct") /\ SetWord(p, "Initializing")
     ELSE Go(p, "cas", "undo") /\ SetWord(p, "Corrupted")
  /\ UNCHANGED <<name, dev, region, tries>>

\* construct_func and then final_region.swap(region)
construct_func(p) == Go(p, "construct", "publish") /\ UNCHANGED <<name, files, dev, region, tries>>

publish(p) ==
  /\ Go(p, "publish", "created") /\ SetWord(p, "Initialized")
  /\ UNCHANGED <<name, dev, region, tries>>

\* truncate or the mapping throws; the word has not been touched.
map_throws(p) == Go(p, "truncate", "undo") /\ UNCHANGED <<name, files, dev, region, tries>>

construct_func_throws(p) ==
  /\ Go(p, "construct", "undo") /\ SetWord(p, "Corrupted")
  /\ UNCHANGED <<name, dev, region, tries>>

\* The truncation to one byte may throw too.
undo_create(p) ==
  /\ Go(p, "undo", "failed")
  /\ SetSize(p, 1) \/ UNCHANGED files
  /\ region' = [region EXCEPT ![p] = 0]
  /\ UNCHANGED <<name, dev, tries>>

----------------------------------------------------------------------------
(* do_map_after_open *)


wait_filesize(p) ==
  /\ pc[p] = "filesize" /\ size(p) # 0
  /\ Go(p, "filesize", IF size(p) = 1 THEN "failed" ELSE "map")
  /\ UNCHANGED <<name, files, dev, region, tries>>

\* Both mappings are of the whole file as it is then.
map_opened(p) ==
  /\ Go(p, "map", "read")
  /\ region' = [region EXCEPT ![p] = size(p)]
  /\ UNCHANGED <<name, files, dev, tries>>

\* Mutant: a segment under construction is taken for a constructed one.
Mut_read_word(p) ==
  /\ pc[p] = "read"
  /\ Go(p, "read", IF word(p) \in {"Initialized", "Initializing"} THEN "opened" ELSE "spin")
  /\ UNCHANGED <<name, files, dev, region, tries>>

read_word(p) ==
  /\ pc[p] = "read"
  /\ Go(p, "read", IF word(p) = "Initialized" THEN "opened" ELSE "spin")
  /\ UNCHANGED <<name, files, dev, region, tries>>

spin(p) ==
  /\ pc[p] = "spin" /\ word(p) \in {"Initialized", "Corrupted"}
  /\ Go(p, "spin", IF word(p) = "Initialized" THEN "remap" ELSE "failed")
  /\ UNCHANGED <<name, files, dev, region, tries>>

remap(p) ==
  /\ Go(p, "remap", "opened")
  /\ region' = [region EXCEPT ![p] = size(p)]
  /\ UNCHANGED <<name, files, dev, tries>>

\* Mutant: only the wait for the size is limited in time.
Mut_timeout(p) ==
  /\ pc[p] = "filesize" /\ size(p) = 0
  /\ pc' = [pc EXCEPT ![p] = "failed"]
  /\ UNCHANGED <<name, files, dev, region, tries>>

\* Either loop ends MaxInitializeTimeSec after its start.
timeout(p) ==
  /\ \/ pc[p] = "filesize" /\ size(p) = 0
     \/ pc[p] = "spin" /\ word(p) \notin {"Initialized", "Corrupted"}
  /\ pc' = [pc EXCEPT ![p] = "failed"]
  /\ UNCHANGED <<name, files, dev, region, tries>>

----------------------------------------------------------------------------
(* The environment *)

\* A process removes the name: shared_memory_object::remove and the like.
remove ==
  /\ name # 0 /\ Len(files) < MaxFiles /\ name' = 0
  /\ UNCHANGED <<files, dev, region, tries, pc>>

die(p) ==
  /\ pc[p] \notin Ended /\ pc' = [pc EXCEPT ![p] = "dead"]
  /\ UNCHANGED <<name, files, dev, region, tries>>

Create(p) ==
  \/ truncate_device(p) \/ map_created(p) \/ begin_construction(p) \/ construct_func(p)
  \/ publish(p) \/ map_throws(p) \/ construct_func_throws(p) \/ undo_create(p)

Open(p) ==
  \/ wait_filesize(p) \/ map_opened(p) \/ read_word(p) \/ spin(p) \/ remap(p) \/ timeout(p)

Step(p) == DoOpen(p) \/ DoCreate(p) \/ create_else_open(p) \/ else_open(p) \/ Create(p) \/ Open(p)

Next == remove \/ \E p \in Processes : Step(p) \/ die(p)

Spec == Init /\ [][Next]_vars

\* The loops yield and look at the clock, so every call that can go on does.
FairSpec == Spec /\ \A p \in Processes : WF_vars(Step(p))

----------------------------------------------------------------------------
(* Properties. *)

\* Type correctness.
TypeOK ==
  /\ files \in Seq([size : 0 .. Size, word : Words]) /\ Len(files) <= MaxFiles
  /\ name \in 0 .. Len(files)
  /\ dev \in [Processes -> 0 .. Len(files)]
  /\ region \in [Processes -> 0 .. Size]
  /\ tries \in [Processes -> 0 .. MaxCreateOrOpenTries]
  /\ pc \in [Processes -> Ended \cup {"DoOpen", "DoCreate", "DoOpenOrCreate", "open", "truncate", "cas",
       "construct", "publish", "undo", "filesize", "map", "read", "spin", "remap"}]

\* Whoever has the segment has it constructed, whatever became of the name, of
\* the creator and of the other openers: construct_func of the creator has
\* returned, and nobody is about to undo the creation or does so later.
OpenedIsConstructed ==
  \A p \in Processes : pc[p] \in Returned =>
    /\ word(p) = "Initialized" /\ size(p) = Size
    /\ \A q \in Processes \ {p} : dev[q] = dev[p] =>
         pc[q] \notin {"truncate", "cas", "construct", "undo"}

\* The files and the processes are well-formed, and whoever has the segment can use it.
Inv == TypeOK /\ OpenedIsConstructed


\* Every call returns or throws, also if the creator fails or dies at any
\* moment: no opener waits for ever.
CallsEnd == \A p \in Processes : <>(pc[p] \in Ended)
=============================================================================
