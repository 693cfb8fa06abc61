---------------------------- MODULE VfsHandles -----------------------------
(***************************************************************************)
(* The table of open files of lib/vfs/mc-vfs/vfs.c.  A slot of the array   *)
(* vfs_openfiles holds either the record of an open file or, once the      *)
(* handle was given back, the index of the next free slot: the free list   *)
(* is threaded through the slots themselves, as integers stored where      *)
(* pointers are kept.  A directory stream is a handle of the same table,   *)
(* boxed in a DIR pointer.                                                 *)
(***************************************************************************)
EXTENDS Integers, FiniteSets

CONSTANTS Class,      \* the registered file systems (struct vfs_class)
          Info,       \* what their open and opendir methods return
          MaxSlots    \* bound: the array never grows beyond it

ASSUME MaxSlotsAssumption == MaxSlots \in Nat

VARIABLES
  len,                   \* vfs_openfiles->len
  vfs_openfiles,         \* its slots, indexed by 0 .. len - 1
  vfs_free_handle_list,  \* first free slot, -1 when there is none
  held                   \* history: the handles callers hold, and for which file

vars == <<len, vfs_openfiles, vfs_free_handle_list, held>>

VFS_FIRST_HANDLE == 100
NoSlot == -1

File == [vclass : Class, fsinfo : Info]
OpenSlot == [open : {TRUE}, handle : Nat, file : File]
FreeSlot == [open : {FALSE}, link : Int]

Slots == 0 .. len - 1
Used == {i \in Slots : vfs_openfiles[i].open}
Free == Slots \ Used

-----------------------------------------------------------------------------
(* What vfs_op and vfs_info find at a handle: the record, NULL (the number *)
(* is out of range, or the slot holds link 0), or a small integer that is  *)
(* about to be used as the address of a record.                            *)
Lookup(h) ==
  LET i == h - VFS_FIRST_HANDLE IN
  IF i \notin Slots THEN "null"
  ELSE IF vfs_openfiles[i].open THEN "record"
  ELSE IF vfs_openfiles[i].link = 0 THEN "null"
  ELSE "wild"

FileOf(h) == vfs_openfiles[h - VFS_FIRST_HANDLE].file

-----------------------------------------------------------------------------
Init ==
  /\ len = 0
  /\ vfs_openfiles = [i \in {} |-> 0]
  /\ vfs_free_handle_list = NoSlot
  /\ held = {}

Record(i, f) == [open |-> TRUE, handle |-> i + VFS_FIRST_HANDLE, file |-> f]

(* The slot the next handle is made of: the first free one, else a new one.*)
NewSlot ==
  IF vfs_free_handle_list = NoSlot THEN len ELSE vfs_free_handle_list

(* A mistake: the list head still names the slot that was handed out.      *)
NewHandleKeepsHead(f) ==
  LET i == NewSlot IN
  /\ i < MaxSlots
  /\ len' = IF vfs_free_handle_list = NoSlot THEN len + 1 ELSE len
  /\ UNCHANGED vfs_free_handle_list
  /\ vfs_openfiles' = [k \in Slots \cup {i} |->
                         IF k = i THEN Record(i, f) ELSE vfs_openfiles[k]]

(* vfs_new_handle.                                                         *)
NewHandle(f) ==
  LET i == NewSlot IN
  /\ \/ /\ vfs_free_handle_list = NoSlot
        /\ len < MaxSlots
        /\ len' = len + 1
        /\ UNCHANGED vfs_free_handle_list
     \/ /\ vfs_free_handle_list # NoSlot
        /\ vfs_free_handle_list' = vfs_openfiles[vfs_free_handle_list].link
        /\ UNCHANGED len
  /\ vfs_openfiles' = [k \in Slots \cup {i} |->
                         IF k = i THEN Record(i, f) ELSE vfs_openfiles[k]]

(* The slot of h becomes a free slot.                                      *)
FreeHandleWith(h, head, link) ==
  LET i == h - VFS_FIRST_HANDLE IN
  /\ i \in Slots
  /\ vfs_openfiles' = [vfs_openfiles EXCEPT
                         ![i] = [open |-> FALSE, link |-> link]]
  /\ vfs_free_handle_list' = head
  /\ UNCHANGED len

(* Mistakes: the handle itself becomes the list head; the old list is lost;*)
(* the head is never moved.                                                *)
FreeHandleNotIndex(h) == FreeHandleWith(h, h, vfs_free_handle_list)
FreeHandleDropsList(h) ==
  FreeHandleWith(h, h - VFS_FIRST_HANDLE, NoSlot)
FreeHandleKeepsHead(h) ==
  FreeHandleWith(h, vfs_free_handle_list, vfs_free_handle_list)

(* vfs_free_handle: whatever the slot held becomes the old list head.      *)
FreeHandle(h) ==
  FreeHandleWith(h, h - VFS_FIRST_HANDLE, vfs_free_handle_list)

(* mc_open and mc_opendir that succeed: the method of the class returned   *)
(* data no other open file has.  A failing one touches nothing here.       *)
McOpen(f) ==
  /\ \A i \in Used : vfs_openfiles[i].file.fsinfo # f.fsinfo
  /\ NewHandle(f)
  /\ held' = held \cup {<<NewSlot + VFS_FIRST_HANDLE, f>>}

(* mc_close and mc_closedir by the holder of the handle: it is freed       *)
(* whatever the class's close method returns.                              *)
McClose(h, f) ==
  /\ <<h, f>> \in held
  /\ Lookup(h) = "record"
  /\ FreeHandle(h)
  /\ held' = held \ {<<h, f>>}

Next ==
  \/ \E f \in File : McOpen(f)
  \/ \E c \in held : McClose(c[1], c[2])

Spec == Init /\ [][Next]_vars

-----------------------------------------------------------------------------
(* The types of the table.                                                 *)
TypeOK ==
  /\ len \in 0 .. MaxSlots
  /\ vfs_openfiles \in [Slots -> OpenSlot \cup FreeSlot]
  /\ vfs_free_handle_list \in Slots \cup {NoSlot}
  /\ held \subseteq Int \X File

(* Every handle a caller holds leads vfs_op and vfs_info (vfs.c:138-175)   *)
(* to the file it was opened for, and the g_assert there holds: no slot    *)
(* was reused, freed or relinked under a caller, in any order of opens and *)
(* closes.                                                                 *)
HeldHandlesResolve ==
  \A c \in held :
    /\ Lookup(c[1]) = "record"
    /\ vfs_openfiles[c[1] - VFS_FIRST_HANDLE].handle = c[1]
    /\ FileOf(c[1]) = c[2]

(* The free slots form one list that starts at vfs_free_handle_list, ends  *)
(* with -1 and misses none: r numbers them from the tail.  A slot that     *)
(* fell off the list would leak, one that is on it twice would be given to *)
(* two callers.                                                            *)
IsRank(r) ==
  /\ \A i \in Free :
       IF r[i] = 0 THEN vfs_openfiles[i].link = NoSlot
       ELSE /\ vfs_openfiles[i].link \in Free
            /\ r[vfs_openfiles[i].link] = r[i] - 1
  /\ \A i, j \in Free : r[i] = r[j] => i = j
  /\ IF Free = {} THEN vfs_free_handle_list = NoSlot
     ELSE /\ vfs_free_handle_list \in Free
          /\ r[vfs_free_handle_list] = Cardinality(Free) - 1

Ranks == [Free -> 0 .. Cardinality(Free) - 1]

FreeListComplete == \E r \in Ranks : IsRank(r)

(* The array grows only when every slot is in use: mc never needs more     *)
(* slots than it had files open at once.                                   *)
GrowsOnlyWhenFull == [][len' > len => Used = Slots]_vars

(* The table implements a map from handles to files.                       *)
Map == INSTANCE HandleMap WITH
  Handles <- VFS_FIRST_HANDLE .. VFS_FIRST_HANDLE + MaxSlots - 1,
  files <- [h \in {i + VFS_FIRST_HANDLE : i \in Used} |-> FileOf(h)]

ImplementsMap == Map!Spec
=============================================================================
