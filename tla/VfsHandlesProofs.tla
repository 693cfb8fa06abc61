------------------------- MODULE VfsHandlesProofs --------------------------
(***************************************************************************)
(* Proofs about the table of open files, for every number of slots and     *)
(* every set of classes and private records.                               *)
(*                                                                         *)
(* The argument: the free slots are numbered by the free list (IsRank), so *)
(* the head of the list is free and following a link from it stays among   *)
(* the free slots.  Taking the head therefore never touches a slot in use, *)
(* and every other slot keeps its number; giving a slot back numbers it    *)
(* one above the old head.                                                 *)
(***************************************************************************)
EXTENDS VfsHandles, FiniteSetTheorems, TLAPS

Inv == TypeOK /\ HeldHandlesResolve /\ FreeListComplete

(* The free slots are finitely many: they are indices of the array.        *)
LEMMA FreeFinite == ASSUME TypeOK
                    PROVE  IsFiniteSet(Free) /\ Cardinality(Free) \in Nat
<1>1. IsFiniteSet(0 .. len - 1)
  BY FS_Interval DEF TypeOK
<1>2. IsFiniteSet(Free)
  BY <1>1, FS_Subset DEF Free, Slots
<1> QED BY <1>2, FS_CardinalityType

LEMMA InitInv == Init => Inv
<1> SUFFICES ASSUME Init PROVE Inv
  OBVIOUS
<1>1. Slots = {} /\ Free = {}
  BY DEF Init, Slots, Free
<1>2. TypeOK
  BY <1>1, MaxSlotsAssumption DEF Init, TypeOK, NoSlot
<1>3. HeldHandlesResolve
  BY DEF Init, HeldHandlesResolve
<1>4. FreeListComplete
  <2> DEFINE r == [i \in {} |-> 0]
  <2>1. r \in Ranks
    BY <1>1 DEF Ranks
  <2>2. IsRank(r)
    BY <1>1 DEF IsRank, Init
  <2> QED BY <2>1, <2>2 DEF FreeListComplete
<1> QED BY <1>2, <1>3, <1>4 DEF Inv

(* The slot of the next handle is not in use, and taking it leaves a       *)
(* well-formed list of the other free slots.                               *)
LEMMA NewSlotNotUsed ==
  ASSUME Inv PROVE NewSlot \in Nat /\ NewSlot \notin Used
                   /\ (vfs_free_handle_list = NoSlot <=> Free = {})
                   /\ (Free # {} => NewSlot = vfs_free_handle_list)
                   /\ vfs_free_handle_list \in Free \cup {NoSlot}
<1>1. PICK r \in Ranks : IsRank(r)
  BY DEF Inv, FreeListComplete
<1>2. NoSlot \notin Free
  BY DEF NoSlot, Free, Slots, Inv, TypeOK
<1>3. vfs_free_handle_list \in Free \cup {NoSlot}
      /\ (vfs_free_handle_list = NoSlot <=> Free = {})
  BY <1>1, <1>2 DEF IsRank
<1>4. CASE vfs_free_handle_list = NoSlot
  <2>1. NewSlot = len /\ len \in Nat
    BY <1>4, MaxSlotsAssumption DEF NewSlot, Inv, TypeOK
  <2>2. NewSlot \notin Used
    BY <2>1 DEF Used, Slots
  <2> QED BY <2>1, <2>2, <1>3, <1>4
<1>5. CASE vfs_free_handle_list # NoSlot
  BY <1>3, <1>5 DEF NewSlot, Used, Free, Slots, Inv, TypeOK
<1> QED BY <1>4, <1>5, <1>3 DEF NewSlot

(* Opening a file: the slot taken joins the slots in use and no other slot *)
(* changes.                                                                *)
LEMMA OpenEffect ==
  ASSUME Inv, NEW f \in File, McOpen(f)
  PROVE  /\ Slots' = Slots \cup {NewSlot}
         /\ Free' = Free \ {NewSlot}
         /\ Used' = Used \cup {NewSlot}
         /\ vfs_openfiles'[NewSlot] = Record(NewSlot, f)
         /\ \A k \in Slots \ {NewSlot} : vfs_openfiles'[k] = vfs_openfiles[k]
<1> DEFINE i == NewSlot
<1>1. /\ vfs_openfiles' = [k \in Slots \cup {i} |->
                           IF k = i THEN Record(i, f) ELSE vfs_openfiles[k]]
      /\ \/ vfs_free_handle_list = NoSlot /\ len' = len + 1
         \/ vfs_free_handle_list # NoSlot /\ len' = len
  BY DEF McOpen, NewHandle
<1>2. Slots' = Slots \cup {i}
  <2>1. CASE vfs_free_handle_list = NoSlot
    BY <2>1, <1>1, MaxSlotsAssumption DEF Slots, NewSlot, Inv, TypeOK
  <2>2. CASE vfs_free_handle_list # NoSlot
    <3>1. i \in Slots
      BY <2>2 DEF NewSlot, Inv, TypeOK
    <3> QED BY <2>2, <1>1, <3>1 DEF Slots
  <2> QED BY <2>1, <2>2
<1>3. /\ vfs_openfiles'[i] = Record(i, f)
      /\ \A k \in Slots \ {i} : vfs_openfiles'[k] = vfs_openfiles[k]
  BY <1>1
<1>4. Used' = Used \cup {i}
  <2>1. Used' = {k \in Slots \cup {i} : vfs_openfiles'[k].open}
    BY <1>2 DEF Used
  <2>2. vfs_openfiles'[i].open
    BY <1>3 DEF Record
  <2> QED BY <2>1, <2>2, <1>3, Zenon DEF Used
<1>5. Free' = Free \ {i}
  BY <1>2, <1>4 DEF Free
<1> QED BY <1>2, <1>3, <1>4, <1>5

LEMMA OpenInv == ASSUME Inv, NEW f \in File, McOpen(f) PROVE Inv'
<1> DEFINE i == NewSlot
<1>1. /\ Slots' = Slots \cup {i} /\ Free' = Free \ {i}
      /\ Used' = Used \cup {i}
      /\ vfs_openfiles'[i] = Record(i, f)
      /\ \A k \in Slots \ {i} : vfs_openfiles'[k] = vfs_openfiles[k]
  BY OpenEffect
<1>2. /\ i \in Nat /\ i \notin Used
      /\ (vfs_free_handle_list = NoSlot <=> Free = {})
      /\ (Free # {} => i = vfs_free_handle_list)
      /\ vfs_free_handle_list \in Free \cup {NoSlot}
  BY NewSlotNotUsed
<1>3. held' = held \cup {<<i + VFS_FIRST_HANDLE, f>>}
  BY DEF McOpen
<1>4. PICK r \in Ranks : IsRank(r)
  BY DEF Inv, FreeListComplete
<1>5. FreeListComplete'
  <2>1. CASE vfs_free_handle_list = NoSlot
    <3>1. Free = {} /\ Free' = {} /\ vfs_free_handle_list' = NoSlot
      BY <2>1, <1>1, <1>2 DEF McOpen, NewHandle
    <3>2. r \in Ranks'
      BY <3>1, <1>4 DEF Ranks
    <3>3. IsRank(r)'
      BY <3>1 DEF IsRank
    <3> QED BY <3>2, <3>3 DEF FreeListComplete
  <2>2. CASE vfs_free_handle_list # NoSlot
    <3> DEFINE n == Cardinality(Free)
    <3>0. PICK q : q = [k \in Free' |-> r[k]]
      OBVIOUS
    <3>1. i \in Free /\ i = vfs_free_handle_list /\ r[i] = n - 1
      BY <2>2, <1>2, <1>4 DEF IsRank
    <3>2. IsFiniteSet(Free) /\ n \in Nat
      BY FreeFinite DEF Inv
    <3>3. Cardinality(Free') = n - 1
      BY <3>1, <3>2, <1>1, FS_RemoveElement
    <3>4. \A k \in Free' : r[k] \in 0 .. n - 2
      BY <3>1, <3>2, <1>1, <1>4 DEF Ranks, IsRank
    <3>5. vfs_free_handle_list' = vfs_openfiles[i].link
      BY <2>2, <3>1 DEF McOpen, NewHandle
    <3>6. \A k \in Free' : vfs_openfiles'[k] = vfs_openfiles[k] /\ k \in Free
      BY <1>1 DEF Free
    <3>7. \A k \in Free' : r[k] # 0 => vfs_openfiles[k].link \in Free'
      <4> SUFFICES ASSUME NEW k \in Free', r[k] # 0
                   PROVE  vfs_openfiles[k].link \in Free'
        OBVIOUS
      <4>1. vfs_openfiles[k].link \in Free
            /\ r[vfs_openfiles[k].link] = r[k] - 1
        BY <3>6, <1>4 DEF IsRank
      <4>2. vfs_openfiles[k].link # i
        BY <4>1, <3>1, <3>2, <3>4
      <4> QED BY <4>1, <4>2, <1>1
    <3>8. q \in Ranks'
      BY <3>0, <3>3, <3>4, <3>2 DEF Ranks
    <3>9. IF Free' = {} THEN vfs_free_handle_list' = NoSlot
          ELSE /\ vfs_free_handle_list' \in Free'
               /\ r[vfs_free_handle_list'] = Cardinality(Free') - 1
      <4>1. CASE r[i] = 0
        <5>1. vfs_free_handle_list' = NoSlot
          BY <4>1, <3>1, <3>5, <1>4 DEF IsRank
        <5>2. Free' = {}
          BY <4>1, <3>1, <3>2, <3>4
        <5> QED BY <5>1, <5>2
      <4>2. CASE r[i] # 0
        <5>1. vfs_openfiles[i].link \in Free
              /\ r[vfs_openfiles[i].link] = r[i] - 1
          BY <4>2, <3>1, <1>4 DEF IsRank
        <5>2. vfs_openfiles[i].link # i
          BY <5>1, <3>1, <3>2
        <5> QED BY <5>1, <5>2, <3>1, <3>2, <3>3, <3>5, <1>1
      <4> QED BY <4>1, <4>2
    <3>10. IsRank(q)'
      <4>1. \A k \in Free' :
              IF r[k] = 0 THEN vfs_openfiles'[k].link = NoSlot
              ELSE /\ vfs_openfiles'[k].link \in Free'
                   /\ r[vfs_openfiles'[k].link] = r[k] - 1
        BY <3>6, <3>7, <1>4 DEF IsRank
      <4>2. \A k, m \in Free' : r[k] = r[m] => k = m
        BY <3>6, <1>4 DEF IsRank
      <4> QED BY <4>1, <4>2, <3>9, <3>0 DEF IsRank
    <3> QED BY <3>8, <3>10 DEF FreeListComplete
  <2> QED BY <2>1, <2>2
<1>6. TypeOK'
  <2>1. len' \in 0 .. MaxSlots
    BY MaxSlotsAssumption DEF Inv, TypeOK, McOpen, NewHandle
  <2>2. vfs_openfiles' \in [Slots' -> OpenSlot \cup FreeSlot]
    <3>1. Record(i, f) \in OpenSlot
      BY <1>2 DEF Record, OpenSlot, VFS_FIRST_HANDLE
    <3>2. \A k \in Slots : vfs_openfiles[k] \in OpenSlot \cup FreeSlot
      BY DEF Inv, TypeOK
    <3> QED BY <1>1, <3>1, <3>2 DEF McOpen, NewHandle
  <2>3. vfs_free_handle_list' \in Slots' \cup {NoSlot}
    BY <1>5 DEF FreeListComplete, IsRank, Free
  <2>4. held' \subseteq Int \X File
    BY <1>2, <1>3 DEF Inv, TypeOK, VFS_FIRST_HANDLE
  <2> QED BY <2>1, <2>2, <2>3, <2>4 DEF TypeOK
<1>7. HeldHandlesResolve'
  <2> SUFFICES ASSUME NEW c \in held'
               PROVE  /\ Lookup(c[1])' = "record"
                      /\ vfs_openfiles'[c[1] - VFS_FIRST_HANDLE].handle = c[1]
                      /\ FileOf(c[1])' = c[2]
    BY DEF HeldHandlesResolve
  <2>1. CASE c \notin held
    <3>1. c[1] - VFS_FIRST_HANDLE = i /\ c[2] = f /\ c[1] = i + VFS_FIRST_HANDLE
      BY <2>1, <1>2, <1>3 DEF VFS_FIRST_HANDLE
    <3> QED BY <3>1, <1>1 DEF Lookup, FileOf, Record
  <2>2. CASE c \in held
    <3> DEFINE k == c[1] - VFS_FIRST_HANDLE
    <3>2. Lookup(c[1]) = "record" /\ vfs_openfiles[k].handle = c[1]
          /\ FileOf(c[1]) = c[2]
      BY <2>2 DEF Inv, HeldHandlesResolve
    <3>3. k \in Slots /\ vfs_openfiles[k].open /\ k # i
      BY <3>2, <1>2 DEF Lookup, VFS_FIRST_HANDLE, Used
    <3>4. vfs_openfiles'[k] = vfs_openfiles[k] /\ k \in Slots'
      BY <3>3, <1>1
    <3> QED BY <3>2, <3>3, <3>4 DEF Lookup, FileOf
  <2> QED BY <2>1, <2>2
<1> QED BY <1>5, <1>6, <1>7 DEF Inv

(* Giving a handle back: its slot leaves the slots in use and becomes the  *)
(* head of the free list.                                                  *)
LEMMA CloseInv ==
  ASSUME Inv, NEW h, NEW f, McClose(h, f) PROVE Inv'
<1> DEFINE i == h - VFS_FIRST_HANDLE
<1>1. h \in Int /\ i \in Slots /\ i \in Used /\ i \notin Free
  BY DEF McClose, Inv, TypeOK, Lookup, Used, Free, Slots
<1>2. /\ len' = len /\ Slots' = Slots
      /\ vfs_free_handle_list' = i
      /\ vfs_openfiles' = [vfs_openfiles EXCEPT
            ![i] = [open |-> FALSE, link |-> vfs_free_handle_list]]
      /\ held' = held \ {<<h, f>>} /\ <<h, f>> \in held
  BY DEF McClose, FreeHandle, FreeHandleWith, Slots
<1>3. DOMAIN vfs_openfiles = Slots
  BY DEF Inv, TypeOK
<1>4. /\ vfs_openfiles'[i] = [open |-> FALSE, link |-> vfs_free_handle_list]
      /\ \A k \in Slots \ {i} : vfs_openfiles'[k] = vfs_openfiles[k]
  BY <1>1, <1>2, <1>3
<1>5. Used' = Used \ {i}
  <2>1. ~ vfs_openfiles'[i].open
    BY <1>4
  <2> QED BY <2>1, <1>2, <1>4, Zenon DEF Used
<1>6. Free' = Free \cup {i}
  BY <1>1, <1>2, <1>5 DEF Free
<1>7. TypeOK'
  <2>1. [open |-> FALSE, link |-> vfs_free_handle_list] \in FreeSlot
    BY MaxSlotsAssumption DEF FreeSlot, Inv, TypeOK, Slots, NoSlot
  <2>2. vfs_openfiles' \in [Slots' -> OpenSlot \cup FreeSlot]
    BY <1>1, <1>2, <2>1 DEF Inv, TypeOK
  <2> QED BY <1>1, <1>2, <2>2 DEF Inv, TypeOK
<1>8. HeldHandlesResolve'
  <2> SUFFICES ASSUME NEW c \in held'
               PROVE  /\ Lookup(c[1])' = "record"
                      /\ vfs_openfiles'[c[1] - VFS_FIRST_HANDLE].handle = c[1]
                      /\ FileOf(c[1])' = c[2]
    BY DEF HeldHandlesResolve
  <2> DEFINE k == c[1] - VFS_FIRST_HANDLE
  <2>1. c \in held /\ c # <<h, f>> /\ c[1] \in Int /\ c = <<c[1], c[2]>>
    BY <1>2 DEF Inv, TypeOK
  <2>2. Lookup(c[1]) = "record" /\ vfs_openfiles[k].handle = c[1]
        /\ FileOf(c[1]) = c[2]
    BY <2>1 DEF Inv, HeldHandlesResolve
  <2>3. c[1] # h
    <3>1. FileOf(h) = f
      BY <1>2 DEF Inv, HeldHandlesResolve
    <3> QED BY <3>1, <2>1, <2>2
  <2>4. k \in Slots /\ vfs_openfiles[k].open /\ k # i
    BY <2>1, <2>2, <2>3, <1>1 DEF Lookup, VFS_FIRST_HANDLE
  <2>5. vfs_openfiles'[k] = vfs_openfiles[k] /\ k \in Slots'
    BY <2>4, <1>2, <1>4
  <2> QED BY <2>2, <2>4, <2>5 DEF Lookup, FileOf
<1>9. FreeListComplete'
  <2> DEFINE n == Cardinality(Free)
  <2>1. PICK r \in Ranks : IsRank(r)
    BY DEF Inv, FreeListComplete
  <2>2. PICK q : q = [k \in Free' |-> IF k = i THEN n ELSE r[k]]
    OBVIOUS
  <2>3. IsFiniteSet(Free) /\ n \in Nat /\ Cardinality(Free') = n + 1
    BY FreeFinite, <1>1, <1>6, FS_AddElement DEF Inv
  <2>4. \A k \in Free : r[k] \in 0 .. n - 1
    BY <2>1 DEF Ranks
  <2>5. q[i] = n /\ \A k \in Free : q[k] = r[k] /\ k # i
                                  /\ vfs_openfiles'[k] = vfs_openfiles[k]
    BY <1>1, <1>4, <1>6, <2>2 DEF Free
  <2>6. q \in Ranks'
    BY <2>2, <2>3, <2>4, <1>6 DEF Ranks
  <2>7. \A k \in Free' :
          IF q[k] = 0 THEN vfs_openfiles'[k].link = NoSlot
          ELSE /\ vfs_openfiles'[k].link \in Free'
               /\ q[vfs_openfiles'[k].link] = q[k] - 1
    <3> TAKE k \in Free'
    <3>1. CASE k = i
      <4>1. vfs_openfiles'[k].link = vfs_free_handle_list
        BY <3>1, <1>4
      <4>2. CASE Free = {}
        <5>1. n = 0
          BY <4>2, FS_EmptySet
        <5> QED BY <3>1, <4>1, <4>2, <5>1, <2>1, <2>5 DEF IsRank
      <4>3. CASE Free # {}
        <5>1. vfs_free_handle_list \in Free /\ r[vfs_free_handle_list] = n - 1
          BY <4>3, <2>1 DEF IsRank
        <5>2. n # 0
          BY <5>1, <2>3, <2>4
        <5> QED BY <3>1, <4>1, <5>1, <5>2, <2>5, <1>6
      <4> QED BY <4>2, <4>3
    <3>2. CASE k # i
      BY <3>2, <2>1, <2>5, <1>6 DEF IsRank
    <3> QED BY <3>1, <3>2
  <2>8. \A k, m \in Free' : q[k] = q[m] => k = m
    <3>1. \A k, m \in Free : r[k] = r[m] => k = m
      BY <2>1 DEF IsRank
    <3> QED BY <3>1, <2>3, <2>4, <2>5, <1>6
  <2>9. vfs_free_handle_list' \in Free' /\ q[i] = Cardinality(Free') - 1
    BY <1>2, <1>6, <2>3, <2>5
  <2>10. IsRank(q)'
    BY <2>7, <2>8, <2>9, <1>2 DEF IsRank
  <2> QED BY <2>6, <2>10 DEF FreeListComplete
<1> QED BY <1>7, <1>8, <1>9 DEF Inv

LEMMA StutterInv == ASSUME Inv, UNCHANGED vars PROVE Inv'
<1>1. Slots' = Slots /\ Used' = Used /\ Free' = Free
  BY DEF vars, Slots, Used, Free
<1>2. Ranks' = Ranks /\ \A r : IsRank(r)' <=> IsRank(r)
  BY <1>1 DEF vars, Ranks, IsRank
<1>3. FreeListComplete'
  BY <1>2 DEF Inv, FreeListComplete
<1>4. TypeOK' /\ HeldHandlesResolve'
  BY <1>1 DEF vars, Inv, TypeOK, HeldHandlesResolve, Lookup, FileOf
<1> QED BY <1>3, <1>4 DEF Inv

LEMMA NextInv == Inv /\ [Next]_vars => Inv'
  BY OpenInv, CloseInv, StutterInv DEF Next

(* The table is well-typed, the held handles lead to their own files, and  *)
(* the free list misses no free slot, in every behaviour: vfs_new_handle,  *)
(* vfs_free_handle, vfs_op and vfs_info (vfs.c:112-188).                   *)
THEOREM HandleTableInvariant == Spec => []Inv
  BY InitInv, NextInv, PTL DEF Spec

THEOREM HandleTableTyped == Spec => []TypeOK
  BY HandleTableInvariant, PTL DEF Inv

(* A held handle is never redirected, freed or wild.                       *)
THEOREM HandlesResolve == Spec => []HeldHandlesResolve
  BY HandleTableInvariant, PTL DEF Inv

(* No slot is lost and none is on the list twice.                          *)
THEOREM FreeListIsComplete == Spec => []FreeListComplete
  BY HandleTableInvariant, PTL DEF Inv

(* The array grows only when every slot is in use.                         *)
THEOREM GrowthIsNecessary == Spec => GrowsOnlyWhenFull
<1>1. Inv /\ [Next]_vars => [len' > len => Used = Slots]_vars
  <2> SUFFICES ASSUME Inv, Next, len' > len PROVE Used = Slots
    BY DEF vars
  <2>1. len \in Int /\ ~(len > len)
    BY MaxSlotsAssumption DEF Inv, TypeOK
  <2>2. vfs_free_handle_list = NoSlot
    BY <2>1 DEF Next, McOpen, NewHandle, McClose, FreeHandle, FreeHandleWith
  <2> QED BY <2>2, NewSlotNotUsed DEF Free, Used
<1> QED BY <1>1, HandleTableInvariant, PTL DEF Spec, GrowsOnlyWhenFull

-----------------------------------------------------------------------------
(* The refinement.                                                         *)
HandleOf(i) == i + VFS_FIRST_HANDLE
Files == [h \in {HandleOf(i) : i \in Used} |-> FileOf(h)]

LEMMA OpenImplements ==
  ASSUME Inv, NEW f \in File, McOpen(f)
  PROVE  /\ NewSlot + VFS_FIRST_HANDLE
               \in VFS_FIRST_HANDLE .. VFS_FIRST_HANDLE + MaxSlots - 1
         /\ NewSlot + VFS_FIRST_HANDLE \notin DOMAIN Files
         /\ Files' = [k \in DOMAIN Files \cup {NewSlot + VFS_FIRST_HANDLE} |->
                        IF k = NewSlot + VFS_FIRST_HANDLE THEN f ELSE Files[k]]
<1>0. PICK i : i = NewSlot
  OBVIOUS
<1>1. /\ Slots' = Slots \cup {i} /\ Used' = Used \cup {i}
      /\ vfs_openfiles'[i] = Record(i, f)
      /\ \A k \in Slots \ {i} : vfs_openfiles'[k] = vfs_openfiles[k]
  BY <1>0, OpenEffect
<1>2. i \in Nat /\ i \notin Used /\ Used \subseteq Slots /\ Slots \subseteq Int
  BY <1>0, NewSlotNotUsed DEF Used, Slots
<1>3. i < MaxSlots
  <2>1. TypeOK'
    BY OpenInv DEF Inv
  <2>2. PICK n : n = len'
    OBVIOUS
  <2>3. n \in 0 .. MaxSlots
    BY <2>1, <2>2 DEF TypeOK
  <2>4. i \in 0 .. n - 1
    BY <2>2, <1>1 DEF Slots
  <2> QED BY <2>3, <2>4, MaxSlotsAssumption
<1>4. HandleOf(i) \notin DOMAIN Files
  BY <1>2 DEF Files, HandleOf, VFS_FIRST_HANDLE
<1>5. FileOf(HandleOf(i))' = f
  <2>1. HandleOf(i) - VFS_FIRST_HANDLE = i
    BY <1>2 DEF HandleOf, VFS_FIRST_HANDLE
  <2> QED BY <2>1, <1>1 DEF FileOf, Record
<1>6. \A j \in Used : FileOf(HandleOf(j))' = FileOf(HandleOf(j))
  <2> TAKE j \in Used
  <2>1. HandleOf(j) - VFS_FIRST_HANDLE = j
    BY <1>2 DEF HandleOf, VFS_FIRST_HANDLE
  <2> QED BY <2>1, <1>1, <1>2 DEF FileOf
<1>7. DOMAIN Files' = DOMAIN Files \cup {HandleOf(i)}
  BY <1>1 DEF Files, HandleOf, VFS_FIRST_HANDLE
<1>8. Files' = [k \in DOMAIN Files \cup {HandleOf(i)} |->
                 IF k = HandleOf(i) THEN f ELSE Files[k]]
  <2>1. Files' = [k \in DOMAIN Files' |-> FileOf(k)']
    BY DEF Files
  <2>2. \A k \in DOMAIN Files : FileOf(k)' = Files[k]
    BY <1>6 DEF Files
  <2> QED BY <2>1, <2>2, <1>4, <1>5, <1>7
<1> QED BY <1>0, <1>2, <1>3, <1>4, <1>8, MaxSlotsAssumption DEF HandleOf, VFS_FIRST_HANDLE

LEMMA CloseImplements ==
  ASSUME Inv, NEW h, NEW f, McClose(h, f)
  PROVE  /\ h \in DOMAIN Files
         /\ Files' = [k \in DOMAIN Files \ {h} |-> Files[k]]
<1> DEFINE i == h - VFS_FIRST_HANDLE
<1>1. h \in Int /\ i \in Slots /\ i \in Used
  BY DEF McClose, Inv, TypeOK, Lookup, Used, Slots
<1>2. /\ Slots' = Slots
      /\ vfs_openfiles' = [vfs_openfiles EXCEPT
            ![i] = [open |-> FALSE, link |-> vfs_free_handle_list]]
  BY DEF McClose, FreeHandle, FreeHandleWith, Slots
<1>3. /\ ~ vfs_openfiles'[i].open
      /\ \A k \in Slots \ {i} : vfs_openfiles'[k] = vfs_openfiles[k]
  BY <1>1, <1>2 DEF Inv, TypeOK
<1>4. Used' = Used \ {i} /\ Used \subseteq Slots /\ Slots \subseteq Int
  <2>1. Used' = {k \in Slots : vfs_openfiles'[k].open}
    BY <1>2 DEF Used
  <2>2. Slots \subseteq Int
    BY DEF Slots
  <2> QED BY <2>1, <2>2, <1>3, Zenon DEF Used
<1>5. HandleOf(i) = h
  BY <1>1 DEF HandleOf, VFS_FIRST_HANDLE
<1>6. DOMAIN Files' = DOMAIN Files \ {h} /\ h \in DOMAIN Files
  <2>1. h \in DOMAIN Files
    BY <1>1, <1>5 DEF Files
  <2>2. DOMAIN Files' = {HandleOf(j) : j \in Used'}
    BY DEF Files, HandleOf
  <2>3. \A j, k \in Used : HandleOf(j) = HandleOf(k) => j = k
    BY <1>4 DEF HandleOf, VFS_FIRST_HANDLE
  <2> QED BY <2>1, <2>2, <2>3, <1>1, <1>4, <1>5 DEF Files
<1>7. \A j \in Used \ {i} : FileOf(HandleOf(j))' = FileOf(HandleOf(j))
  <2> TAKE j \in Used \ {i}
  <2>1. HandleOf(j) - VFS_FIRST_HANDLE = j
    BY <1>4 DEF HandleOf, VFS_FIRST_HANDLE
  <2> QED BY <2>1, <1>3, <1>4 DEF FileOf
<1>8. Files' = [k \in DOMAIN Files \ {h} |-> Files[k]]
  <2>1. Files' = [k \in DOMAIN Files' |-> FileOf(k)']
    BY DEF Files
  <2>2. \A k \in DOMAIN Files \ {h} : FileOf(k)' = Files[k]
    BY <1>5, <1>7 DEF Files
  <2> QED BY <2>1, <2>2, <1>6
<1> QED BY <1>6, <1>8

(* Every open and close of the table is an open or close of the map: what  *)
(* vfs_new_handle and vfs_free_handle do to slots and links never shows.   *)
THEOREM HandleTableImplementsMap == Spec => ImplementsMap
<1>1. Init => Map!Init
  BY DEF Init, Map!Init, Used, Slots
<1>2. Inv /\ [Next]_vars => [Map!Next]_Files
  <2> SUFFICES ASSUME Inv, [Next]_vars PROVE [Map!Next]_Files
    OBVIOUS
  <2>1. ASSUME NEW f \in File, McOpen(f) PROVE Map!Next
    <3> DEFINE h == NewSlot + VFS_FIRST_HANDLE
    <3>1. Map!Open(h, f)
      BY <2>1, OpenImplements DEF Map!Open, Files, HandleOf
    <3> QED BY <3>1, <2>1, OpenImplements DEF Map!Next
  <2>2. ASSUME NEW h, NEW f, McClose(h, f) PROVE Map!Next
    <3>1. h \in DOMAIN Files /\ Map!Close(h)
      BY <2>2, CloseImplements DEF Map!Close, Files, HandleOf
    <3> QED BY <3>1 DEF Map!Next, Files, HandleOf
  <2>3. CASE UNCHANGED vars
    BY <2>3 DEF vars, Files, HandleOf, FileOf, Used, Slots
  <2> QED BY <2>1, <2>2, <2>3 DEF Next
<1>3. Files = [h \in {i + VFS_FIRST_HANDLE : i \in Used} |-> FileOf(h)]
  BY DEF Files, HandleOf
<1> QED BY <1>1, <1>2, <1>3, HandleTableInvariant, PTL
        DEF Spec, ImplementsMap, Map!Spec, Files, HandleOf
=============================================================================
