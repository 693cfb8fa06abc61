--------------------------- MODULE CopyFileProofs ---------------------------
(***************************************************************************)
(* Proofs about copying and moving tagged files, for any number of files,  *)
(* any length of their content and of the buffer, and any number of        *)
(* failing calls.                                                          *)
(*                                                                         *)
(* The invariant says three things.  Of the files behind the current one:  *)
(* those that lost their tag hold what was asked for, those whose source   *)
(* is gone hold the source.  Of the file at hand, up to the open of the    *)
(* target: the FileOpContext holds the choice of the user for this file,   *)
(* and nothing of an earlier one (Chosen).  And in the loop: what is in    *)
(* the target, what is in the buffer and what is still to be read are      *)
(* together what was asked for (Whole).  The result is CONT afterwards     *)
(* only if nothing is left to be read.                                     *)
(*                                                                         *)
(* The handles are those of VfsHandles, whose lemmas are used through an   *)
(* instance of its proofs; here it is shown which of them are open where.  *)
(***************************************************************************)
EXTENDS CopyFile, SequenceTheorems, TLAPS

TP == INSTANCE VfsHandlesProofs WITH
        Class <- {"fs"}, Info <- {"src", "dst"}, MaxSlots <- 2

(* The values of the variables.                                            *)
Bytes == ({"src", "old"} \X Files \X Nat) \cup ({"other"} \X Files)
Data == Seq(Bytes)
FileRec == [kind : {"none", "file", "dir"}, data : Data]
CtxRec == [operation : {"copy", "move"}, do_append : BOOLEAN,
           do_reget : 0 .. SrcLen,
           replace_result : {"ask", "always", "update", "never", "reget"},
           confirm : BOOLEAN]
LocRec == [dst_exists : BOOLEAN, appending : BOOLEAN, off : 0 .. SrcLen,
           buf : Data, st : Status, dst_status : {"none", "short", "full"},
           ask : BOOLEAN, src_desc : Int, dest_desc : Int]
AnswerRec == [choice : {"none", "yes", "no", "append", "always", "never", "abort",
                        "reget", "delete"},
              old : Data]

Moving == {"m_stat", "m_query", "m_rename"}
Unasked == {"stat_dst", "stat_src", "query"}
Asked == {"open_src", "lseek", "fstat_src", "open_dst"}
Loop == {"fstat_dst", "progress", "read", "write"}
After == {"close_src", "close_dst", "attributes", "update"}
Copied == {"m_copied", "m_unlink"}
Between == {"next", "end"}
Pcs == Between \cup Moving \cup Unasked \cup Asked \cup Loop \cup After
         \cup Copied \cup {"return", "crashed"}
Unopened == Moving \cup Unasked \cup Asked

Typed ==
  /\ pc \in Pcs /\ i \in 0 .. N /\ marked \subseteq Files /\ src \subseteq Files
  /\ dst \in [Files -> FileRec]
  /\ ctx \in CtxRec /\ loc \in LocRec
  /\ answer \in [Files -> AnswerRec]
  /\ errors \in 0 .. MaxErrors
  /\ Len(loc.buf) <= BufSize
  /\ i = 0 => pc \in Between

(* Which handles may be open: those of the files that are.                 *)
SrcFile == [vclass |-> "fs", fsinfo |-> "src"]
DstFile == [vclass |-> "fs", fsinfo |-> "dst"]
HasSrc == {"lseek", "fstat_src", "open_dst", "close_src"} \cup Loop
HasDst == {"close_src", "close_dst"} \cup Loop
MayBeOpen ==
  (IF pc \in HasSrc THEN {<<loc.src_desc, SrcFile>>} ELSE {})
  \cup (IF pc \in HasDst THEN {<<loc.dest_desc, DstFile>>} ELSE {})
UsedIsHeld == \A k \in T!Used : \E f \in T!File : <<k + T!VFS_FIRST_HANDLE, f>> \in held
Table ==
  /\ TP!Inv /\ UsedIsHeld
  /\ pc # "crashed" => held \subseteq MayBeOpen

(* Files before the current one, and what became of them.                  *)
Copying == ctx.operation = "copy"
Holds(d, f) == \E u \in Data : d = u \o SrcData(f)
Behind ==
  /\ \A f \in Files \ marked : f < i \/ (f = i /\ pc \in Between)
  /\ Copying => \A f \in Files \ marked : dst[f].data \in Wanted(f)
  /\ \A f \in Files \ src : f < i \/ (f = i /\ pc \in Between \cup {"return"})
  /\ \A f \in Files \ src : dst[f].kind = "file" /\ Holds(dst[f].data, f)

(* Files after it, and the current one until it is opened.                 *)
Ahead ==
  /\ \A f \in Files : dst[f].kind = "none" => dst[f].data = << >>
  /\ \A f \in Files : (f > i \/ (f = i /\ pc \in Unopened)) /\ dst[f].kind = "file"
       => Len(dst[f].data) \in {1, SrcLen}
  /\ \A f \in Files : (f > i \/ (f = i /\ pc \in Unasked)) /\ Copying
       => answer[f].choice = "none"

(* The choice for the file at hand.                                        *)
CopyChoice(a) ==
  \/ ~loc.dst_exists /\ a.choice = "none" /\ ~ctx.do_append /\ ctx.do_reget = 0
  \/ /\ loc.dst_exists /\ a.choice \in {"yes", "always"}
     /\ ~ctx.do_append /\ ctx.do_reget = 0
  \/ /\ loc.dst_exists /\ a.choice = "append" /\ a.old = dst[i].data
     /\ ctx.do_append /\ ctx.do_reget = 0
  \/ /\ loc.dst_exists /\ a.choice = "reget" /\ a.old = dst[i].data
     /\ \/ ctx.do_append /\ ctx.do_reget = Len(a.old)
        \/ ~ctx.do_append /\ ctx.do_reget = 0
Chosen ==
  /\ loc.buf = << >>
  /\ loc.off = IF pc \in {"open_src", "lseek"} THEN 0 ELSE ctx.do_reget
  /\ ~loc.dst_exists => loc.st # CONT
  /\ IF Copying THEN CopyChoice(answer[i]) ELSE ctx.do_reget = 0

Context ==
  /\ Copying => pc \notin Moving \cup Copied
  /\ Copying /\ ctx.do_append => pc \in Asked
  /\ ctx.replace_result = "reget" => Copying /\ SrcLen # 0
  /\ pc \in Moving => loc.off = 0 /\ loc.buf = << >> /\ ~loc.ask /\ ~Copying
  /\ pc \in Unasked =>
       /\ loc.st # CONT /\ loc.off = 0 /\ loc.buf = << >> /\ ctx.do_reget = 0
       /\ loc.ask <=> Copying
  /\ pc \in {"stat_src", "query"} \cup Asked /\ loc.dst_exists =>
       dst[i].kind = "file"
  /\ pc \in Asked => Chosen

(* What the target holds, or will when the rest is read and written.       *)
Whole(d) == IF Copying THEN d \in Wanted(i) ELSE Holds(d, i)
Written ==
  /\ pc \in Loop => /\ dst[i].kind = "file"
                    /\ Whole((dst[i].data \o loc.buf) \o Remaining)
                    /\ pc # "write" => loc.buf = << >>
  /\ loc.st = CONT /\ (pc \in After \cup {"m_copied"} \/ (pc = "return" /\ Copying)) =>
       dst[i].kind = "file" /\ Whole(dst[i].data)
  /\ loc.st = CONT /\ pc \in After => loc.dst_status = "full"
  /\ pc = "m_unlink" => dst[i].kind = "file" /\ Whole(dst[i].data)

IInv == Typed /\ Table /\ Behind /\ Ahead /\ Context /\ Written

-----------------------------------------------------------------------------
(* The table.  Its definitions are the same through both instances.        *)
LEMMA SameTable ==
  /\ T!Used = TP!Used /\ T!File = TP!File /\ T!NewSlot = TP!NewSlot
  /\ T!VFS_FIRST_HANDLE = 100 /\ TP!VFS_FIRST_HANDLE = 100
  /\ \A h : T!Lookup(h) = TP!Lookup(h)
BY DEF T!Used, TP!Used, T!Slots, TP!Slots, T!File, TP!File, T!NewSlot,
       TP!NewSlot, T!NoSlot, TP!NoSlot, T!VFS_FIRST_HANDLE,
       TP!VFS_FIRST_HANDLE, T!Lookup, TP!Lookup

LEMMA SameOpen == ASSUME NEW f PROVE T!McOpen(f) <=> TP!McOpen(f)
BY DEF TP!McOpen, T!McOpen, TP!NewHandle, T!NewHandle, TP!NewSlot, T!NewSlot,
       TP!Used, T!Used, TP!Slots, T!Slots, TP!NoSlot, T!NoSlot,
       TP!VFS_FIRST_HANDLE, T!VFS_FIRST_HANDLE, TP!Record, T!Record

LEMMA SameClose == ASSUME NEW h, NEW f PROVE T!McClose(h, f) <=> TP!McClose(h, f)
BY SameTable DEF TP!McClose, T!McClose, TP!FreeHandle, T!FreeHandle,
       TP!FreeHandleWith, T!FreeHandleWith, TP!Slots, T!Slots

(* What the parts of the table's invariant say about Used and held.        *)
LEMMA TableOpened ==
  ASSUME TP!Inv, UsedIsHeld, NEW f \in T!File, T!McOpen(f)
  PROVE  /\ TP!Inv' /\ UsedIsHeld'
         /\ held' = held \cup {<<T!NewSlot + T!VFS_FIRST_HANDLE, f>>}
         /\ T!NewSlot + T!VFS_FIRST_HANDLE \in Int
<1>1. f \in TP!File /\ TP!McOpen(f)
  BY SameTable, SameOpen
<1>2. TP!Inv' /\ TP!Used' = TP!Used \cup {TP!NewSlot}
  BY <1>1, TP!OpenInv, TP!OpenEffect
<1>3. T!NewSlot \in Nat
  BY TP!NewSlotNotUsed, SameTable
<1>4. held' = held \cup {<<T!NewSlot + 100, f>>}
  BY SameTable DEF T!McOpen
<1>5. UsedIsHeld'
  <2>1. T!Used' = TP!Used'
    BY DEF T!Used, TP!Used, T!Slots, TP!Slots
  <2>2. T!Used' = T!Used \cup {T!NewSlot}
    BY <2>1, <1>2, SameTable
  <2> SUFFICES ASSUME NEW k \in T!Used'
               PROVE  \E g \in T!File : <<k + 100, g>> \in held'
    BY SameTable DEF UsedIsHeld, T!VFS_FIRST_HANDLE, T!File
  <2>3. CASE k = T!NewSlot
    BY <2>3, <1>4
  <2>4. CASE k \in T!Used
    BY <2>4, <1>4, SameTable DEF UsedIsHeld
  <2> QED BY <2>2, <2>3, <2>4
<1> QED BY <1>2, <1>3, <1>4, <1>5, SameTable

LEMMA TableClosed ==
  ASSUME TP!Inv, UsedIsHeld, NEW h, NEW f, T!McClose(h, f)
  PROVE  /\ TP!Inv' /\ UsedIsHeld'
         /\ held' \subseteq held
         /\ \A g : <<h, g>> \notin held'
<1>1. TP!McClose(h, f)
  BY SameClose
<1>2. TP!Inv'
  BY <1>1, TP!CloseInv
<1>3. held' = held \ {<<h, f>>} /\ <<h, f>> \in held
  BY DEF T!McClose
<1>4. \A g : <<h, g>> \in held => g = f
  <2> TAKE g
  <2>1. TP!HeldHandlesResolve
    BY DEF TP!Inv
  <2>2. \A c \in held : TP!FileOf(c[1]) = c[2]
    BY <2>1 DEF TP!HeldHandlesResolve
  <2>3. TP!FileOf(h) = f
    BY <2>2, <1>3
  <2>4. <<h, g>> \in held => TP!FileOf(h) = g
    BY <2>2
  <2> QED BY <2>3, <2>4
<1>5. h \in Int
  BY <1>3 DEF TP!Inv, TP!TypeOK
<1>6. h - 100 \in T!Slots /\ T!Slots' = T!Slots
      /\ vfs_openfiles' = [vfs_openfiles EXCEPT
            ![h - 100] = [open |-> FALSE, link |-> vfs_free_handle_list]]
  BY DEF T!McClose, T!FreeHandle, T!FreeHandleWith, T!VFS_FIRST_HANDLE, T!Slots
<1>7. DOMAIN vfs_openfiles = T!Slots
  BY DEF TP!Inv, TP!TypeOK, TP!Slots, T!Slots
<1>8. \A k \in T!Used' : k \in T!Used /\ k # h - 100 /\ k \in Int
  <2> TAKE k \in T!Used'
  <2>1. k \in T!Slots /\ vfs_openfiles'[k].open
    BY <1>6 DEF T!Used
  <2>2. k # h - 100
    BY <2>1, <1>6, <1>7
  <2>3. vfs_openfiles[k].open
    BY <2>1, <2>2, <1>6, <1>7
  <2> QED BY <2>1, <2>2, <2>3 DEF T!Used, T!Slots
<1>9. UsedIsHeld'
  <2> SUFFICES ASSUME NEW k \in T!Used'
               PROVE  \E g \in T!File : <<k + 100, g>> \in held'
    BY SameTable DEF UsedIsHeld, T!VFS_FIRST_HANDLE, T!File
  <2>1. PICK g \in T!File : <<k + 100, g>> \in held
    BY <1>8, SameTable DEF UsedIsHeld
  <2>2. k + 100 # h
    BY <1>5, <1>8
  <2> QED BY <2>1, <2>2, <1>3
<1> QED BY <1>2, <1>3, <1>4, <1>9

LEMMA NotHeld ==
  ASSUME TP!Inv, NEW h, T!Lookup(h) # "record" \/ h = NoDesc, NEW g
  PROVE  <<h, g>> \notin held
<1> SUFFICES ASSUME <<h, g>> \in held PROVE FALSE
  OBVIOUS
<1>1. TP!Lookup(h) = "record" /\ h \in Int
  BY DEF TP!Inv, TP!HeldHandlesResolve, TP!TypeOK
<1>2. h = -1
  BY <1>1, SameTable DEF NoDesc
<1>3. TP!Lookup(-1) = "null"
  <2>1. -1 - 100 \notin TP!Slots
    BY DEF TP!Slots
  <2> QED BY <2>1, SameTable DEF TP!Lookup
<1> QED BY <1>1, <1>2, <1>3

LEMMA TableStutters ==
  ASSUME TP!Inv, UsedIsHeld, UNCHANGED table
  PROVE  TP!Inv' /\ UsedIsHeld' /\ held' = held
<1>1. UNCHANGED TP!vars
  BY DEF table, TP!vars
<1>2. TP!Inv'
  BY <1>1, TP!StutterInv
<1>3. UsedIsHeld'
  BY DEF table, UsedIsHeld, T!Used, T!Slots
<1> QED BY <1>2, <1>3 DEF table

-----------------------------------------------------------------------------
(* The bytes.                                                              *)
LEMMA SrcDataIs == ASSUME NEW f \in Files
                   PROVE  SrcData(f) \in Data /\ Len(SrcData(f)) = SrcLen
<1>1. SrcLen \in Nat
  BY CopyAssumption
<1>2. \A k \in 1 .. SrcLen : <<"src", f, k>> \in Bytes
  BY <1>1 DEF Bytes
<1> QED BY <1>1, <1>2 DEF SrcData, Data

LEMMA OldDataIs ==
  ASSUME NEW f \in Files, NEW d \in OldFiles(f)
  PROVE  d \in Data /\ Len(d) \in {1, SrcLen}
<1>1. PICK n \in {1, SrcLen} : d = OldData(f, n)
  BY DEF OldFiles
<1>2. n \in Nat
  BY <1>1, CopyAssumption
<1>3. \A k \in 1 .. n : <<"old", f, k>> \in Bytes
  BY <1>2 DEF Bytes
<1> QED BY <1>1, <1>2, <1>3 DEF OldData, Data

LEMMA OtherDataIs == ASSUME NEW f \in Files
                     PROVE  OtherData(f) \in Data /\ Len(OtherData(f)) = 1
<1>1. <<"other", f>> \in Bytes
  BY DEF Bytes
<1> QED BY <1>1 DEF OtherData, Data

(* What is left to be read from an offset on.                              *)
Rest(f, o) == SubSeq(SrcData(f), o + 1, SrcLen)

LEMMA RestIs ==
  ASSUME NEW f \in Files, NEW o \in 0 .. SrcLen
  PROVE  /\ Rest(f, o) \in Data /\ Len(Rest(f, o)) = SrcLen - o
         /\ Rest(f, 0) = SrcData(f)
<1> DEFINE s == SrcData(f)
<1>1. SrcLen \in Nat /\ o \in Nat /\ o <= SrcLen
  BY CopyAssumption
<1>2. s \in Seq(Bytes) /\ Len(s) = SrcLen
  BY SrcDataIs DEF Data
<1> HIDE DEF s
<1>3. \A k \in o + 1 .. SrcLen : s[k] \in Bytes
  BY <1>1, <1>2
<1>4. SubSeq(s, o + 1, SrcLen) \in Seq(Bytes)
      /\ Len(SubSeq(s, o + 1, SrcLen)) = IF o + 1 <= SrcLen THEN SrcLen - (o + 1) + 1 ELSE 0
  BY <1>1, <1>3, SubSeqProperties
<1>5. SubSeq(s, 0 + 1, SrcLen) = s
  BY <1>1, <1>2, SubSeqFull
<1> QED BY <1>1, <1>4, <1>5 DEF Rest, Data, s

(* Reading n bytes takes them from the front of the rest.                  *)
LEMMA ReadSplits ==
  ASSUME NEW f \in Files, NEW o \in 0 .. SrcLen, NEW n \in Nat,
         n <= Len(Rest(f, o))
  PROVE  /\ o + n \in 0 .. SrcLen
         /\ SubSeq(Rest(f, o), 1, n) \in Data
         /\ Len(SubSeq(Rest(f, o), 1, n)) = n
         /\ SubSeq(Rest(f, o), 1, n) \o Rest(f, o + n) = Rest(f, o)
<1> DEFINE s == SrcData(f)
           r == Rest(f, o)
           a == SubSeq(r, 1, n)
           b == Rest(f, o + n)
<1>1. SrcLen \in Nat /\ o \in Nat /\ o <= SrcLen
  BY CopyAssumption
<1>2. s \in Seq(Bytes) /\ Len(s) = SrcLen
  BY SrcDataIs DEF Data
<1>3. r \in Seq(Bytes) /\ Len(r) = SrcLen - o
  BY RestIs DEF Data
<1>4. o + n \in 0 .. SrcLen
  BY <1>1, <1>3
<1>5. b \in Seq(Bytes) /\ Len(b) = SrcLen - (o + n)
  BY <1>4, RestIs DEF Data
<1>6. \A k \in 1 .. SrcLen - o : r[k] = s[o + k]
  <2>1. \A k \in o + 1 .. SrcLen : s[k] \in Bytes
    BY <1>1, <1>2
  <2>2. \A k \in 1 .. SrcLen - (o + 1) + 1 :
          SubSeq(s, o + 1, SrcLen)[k] = s[(o + 1) + k - 1]
    <3> HIDE DEF s
    <3> QED BY <1>1, <2>1, SubSeqProperties
  <2> HIDE DEF s
  <2>3. r = SubSeq(s, o + 1, SrcLen)
    BY DEF Rest, s
  <2> HIDE DEF r, b
  <2> TAKE k \in 1 .. SrcLen - o
  <2>4. k \in 1 .. SrcLen - (o + 1) + 1 /\ (o + 1) + k - 1 = o + k
    BY <1>1
  <2> QED BY <2>2, <2>3, <2>4
<1>7. \A k \in 1 .. SrcLen - (o + n) : b[k] = s[o + n + k]
  <2>1. \A k \in (o + n) + 1 .. SrcLen : s[k] \in Bytes
    BY <1>1, <1>2
  <2>2. \A k \in 1 .. SrcLen - ((o + n) + 1) + 1 :
          SubSeq(s, (o + n) + 1, SrcLen)[k] = s[((o + n) + 1) + k - 1]
    <3> HIDE DEF s
    <3>1. o + n \in Int
      BY <1>1
    <3> QED BY <1>1, <3>1, <2>1, SubSeqProperties
  <2> HIDE DEF s
  <2>3. b = SubSeq(s, (o + n) + 1, SrcLen)
    BY DEF Rest, s
  <2> HIDE DEF r, b
  <2> TAKE k \in 1 .. SrcLen - (o + n)
  <2>4. k \in 1 .. SrcLen - ((o + n) + 1) + 1 /\ ((o + n) + 1) + k - 1 = o + n + k
    BY <1>1
  <2> QED BY <2>2, <2>3, <2>4
<1> HIDE DEF s, r, b
<1>8. a \in Seq(Bytes) /\ Len(a) = n /\ \A k \in 1 .. n : a[k] = r[k]
  <2>1. n <= Len(r)
    BY DEF r
  <2>2. \A k \in 1 .. n : r[k] \in Bytes
    BY <2>1, <1>1, <1>3
  <2>3. /\ SubSeq(r, 1, n) \in Seq(Bytes)
        /\ Len(SubSeq(r, 1, n)) = IF 1 <= n THEN n - 1 + 1 ELSE 0
        /\ \A k \in 1 .. n - 1 + 1 : SubSeq(r, 1, n)[k] = r[1 + k - 1]
    BY <2>2, SubSeqProperties
  <2> QED BY <2>3
<1> HIDE DEF a
<1>9. a \o b \in Seq(Bytes) /\ Len(a \o b) = Len(r)
  BY <1>1, <1>3, <1>4, <1>5, <1>8
<1>10. \A k \in 1 .. Len(r) : (a \o b)[k] = r[k]
  <2> TAKE k \in 1 .. Len(r)
  <2>1. CASE k <= n
    BY <2>1, <1>1, <1>3, <1>5, <1>8, <1>9
  <2>2. CASE k > n
    <3>1. k - n \in 1 .. SrcLen - (o + n)
      BY <2>2, <1>1, <1>3
    <3>2. (a \o b)[k] = b[k - n]
      BY <2>2, <1>3, <1>5, <1>8, <1>9
    <3>3. b[k - n] = s[o + n + (k - n)] /\ o + n + (k - n) = o + k
      BY <3>1, <1>7, <1>1
    <3>4. r[k] = s[o + k]
      BY <1>3, <1>6
    <3> QED BY <3>2, <3>3, <3>4
  <2>3. k <= n \/ k > n
    BY <1>1, <1>3
  <2> QED BY <2>1, <2>2, <2>3
<1>11. a \o b = r
  BY <1>3, <1>9, <1>10, SeqEqual
<1> QED BY <1>4, <1>8, <1>11 DEF a, b, r, Data

(* Writing n bytes takes them from the front of the buffer.                *)
LEMMA WriteSplits ==
  ASSUME NEW b \in Data, NEW n \in 1 .. Len(b)
  PROVE  /\ SubSeq(b, 1, n) \in Data /\ SubSeq(b, n + 1, Len(b)) \in Data
         /\ Len(SubSeq(b, n + 1, Len(b))) <= Len(b)
         /\ SubSeq(b, 1, n) \o SubSeq(b, n + 1, Len(b)) = b
<1>1. b \in Seq(Bytes) /\ Len(b) \in Nat /\ n \in Nat /\ 1 <= n /\ n <= Len(b)
  BY DEF Data
<1>2. SubSeq(b, 1, n) \o SubSeq(b, n + 1, Len(b)) = SubSeq(b, 1, Len(b))
  BY <1>1, ConcatAdjacentSubSeq
<1>3. SubSeq(b, 1, Len(b)) = b
  BY <1>1, SubSeqFull
<1>4. \A k \in 1 .. Len(b) : b[k] \in Bytes
  BY <1>1
<1>5. SubSeq(b, 1, n) \in Seq(Bytes)
  BY <1>1, <1>4, SubSeqProperties
<1>6. SubSeq(b, n + 1, Len(b)) \in Seq(Bytes)
      /\ Len(SubSeq(b, n + 1, Len(b))) =
           IF n + 1 <= Len(b) THEN Len(b) - (n + 1) + 1 ELSE 0
  BY <1>1, <1>4, SubSeqProperties
<1>7. Len(SubSeq(b, n + 1, Len(b))) <= Len(b)
  BY <1>1, <1>6
<1> QED BY <1>2, <1>3, <1>5, <1>6, <1>7 DEF Data

LEMMA Associates == \A s, t, u \in Data : (s \o t) \o u = s \o (t \o u)
BY ConcatAssociative DEF Data

LEMMA DataJoins ==
  ASSUME NEW s \in Data, NEW t \in Data, NEW u \in Data
  PROVE  /\ s \o t \in Data
         /\ (s \o t) \o u = s \o (t \o u)
         /\ s \o << >> = s /\ << >> \o s = s
         /\ << >> \in Data
BY ConcatProperties, ConcatAssociative, ConcatEmptySeq, EmptySeq DEF Data

(* What begins with d still does after more is written.                    *)
LEMMA PrefixStays ==
  ASSUME NEW d \in Data, NEW s \in Data, NEW t \in Data, IsPrefix(d, s)
  PROVE  IsPrefix(d, s \o t)
<1>1. d \in Seq(Bytes) /\ s \in Seq(Bytes) /\ t \in Seq(Bytes)
  BY DEF Data
<1>2. Len(d) \in Nat /\ Len(s) \in Nat /\ Len(t) \in Nat /\ Len(d) <= Len(s)
      /\ Len(s \o t) = Len(s) + Len(t)
      /\ SubSeq(d, 1, Len(d)) = SubSeq(s, 1, Len(d))
  BY <1>1, ConcatProperties, LenProperties DEF IsPrefix
<1>3. SubSeq(s \o t, 1, Len(d)) = SubSeq(s, 1, Len(d))
  <2>1. CASE Len(d) = 0
    <3>1. SubSeq(s \o t, 1, 0) = << >> /\ SubSeq(s, 1, 0) = << >>
      BY SubSeqEmpty
    <3> QED BY <2>1, <3>1
  <2>2. CASE Len(d) # 0
    <3>1. 1 \in 1 .. Len(s) /\ Len(d) \in 1 .. Len(s)
      BY <2>2, <1>2
    <3> QED BY <3>1, <1>1, SubSeqOfConcat1
  <2> QED BY <2>1, <2>2
<1> QED BY <1>2, <1>3 DEF IsPrefix

(* A suffix in the sense of SequencesExt.                                  *)
LEMMA HoldsIsSuffix ==
  ASSUME NEW f \in Files, NEW d, Holds(d, f)
  PROVE  IsSuffix(SrcData(f), d)
<1> DEFINE s == SrcData(f)
<1>1. s \in Seq(Bytes) /\ Len(s) \in Nat
  BY SrcDataIs, CopyAssumption DEF Data
<1>2. PICK u \in Seq(Bytes) : d = u \o s
  BY DEF Holds, Data
<1> HIDE DEF s
<1> DEFINE n == Len(s)
           m == Len(u)
<1>3. m \in Nat /\ d \in Seq(Bytes) /\ Len(d) = m + n
  BY <1>1, <1>2
<1>4. \A k \in 1 .. n : d[m + k] = s[k]
  BY <1>1, <1>2, <1>3
<1>5. Reverse(s) \in Seq(Bytes) /\ Len(Reverse(s)) = n
      /\ \A k \in 1 .. n : Reverse(s)[k] = s[(n - k) + 1]
  BY <1>1 DEF Reverse
<1>6. Reverse(d) \in Seq(Bytes) /\ Len(Reverse(d)) = m + n
      /\ \A k \in 1 .. m + n : Reverse(d)[k] = d[((m + n) - k) + 1]
  BY <1>1, <1>3 DEF Reverse
<1>7. \A k \in 1 .. n : Reverse(d)[k] = Reverse(s)[k]
  <2> TAKE k \in 1 .. n
  <2>1. (n - k) + 1 \in 1 .. n /\ ((m + n) - k) + 1 = m + ((n - k) + 1)
        /\ k \in 1 .. m + n
    BY <1>1, <1>3
  <2> QED BY <2>1, <1>4, <1>5, <1>6
<1>8. SubSeq(Reverse(s), 1, n) \in Seq(Bytes) /\ Len(SubSeq(Reverse(s), 1, n)) = n
      /\ \A k \in 1 .. n : SubSeq(Reverse(s), 1, n)[k] = Reverse(s)[k]
  BY <1>1, <1>5
<1>9. SubSeq(Reverse(d), 1, n) \in Seq(Bytes) /\ Len(SubSeq(Reverse(d), 1, n)) = n
      /\ \A k \in 1 .. n : SubSeq(Reverse(d), 1, n)[k] = Reverse(d)[k]
  BY <1>1, <1>3, <1>6
<1>10. SubSeq(Reverse(s), 1, n) = SubSeq(Reverse(d), 1, n)
  BY <1>7, <1>8, <1>9, SeqEqual
<1> QED BY <1>1, <1>3, <1>5, <1>6, <1>10 DEF IsSuffix, IsPrefix, s

-----------------------------------------------------------------------------
(* Steps that leave a part of the invariant alone.                         *)
LEMMA TableKept ==
  ASSUME Table, UNCHANGED table, pc = "crashed" => pc' = "crashed",
         loc'.src_desc = loc.src_desc, loc'.dest_desc = loc.dest_desc,
         pc \in HasSrc => pc' \in HasSrc, pc \in HasDst => pc' \in HasDst
  PROVE  Table'
<1>1. TP!Inv' /\ UsedIsHeld' /\ held' = held
  BY TableStutters DEF Table
<1>2. MayBeOpen \subseteq MayBeOpen'
  BY DEF MayBeOpen, SrcFile, DstFile
<1> QED BY <1>1, <1>2 DEF Table

(* The files behind are not touched while one is at hand.                  *)
LEMMA BehindKept ==
  ASSUME Typed, Behind, pc \notin Between \cup {"return"},
         UNCHANGED <<i, marked, src>>, ctx'.operation = ctx.operation,
         \A f \in Files \ {i} : dst'[f] = dst[f] /\ answer'[f] = answer[f]
  PROVE  Behind'
<1>1. \A f \in Files \ marked : f < i
  BY DEF Behind
<1>2. \A f \in Files \ src : f < i
  BY DEF Behind
<1>3. \A f \in Files : f < i => f # i
  BY DEF Typed, Files
<1>4. \A f \in Files : f < i => dst'[f] = dst[f] /\ answer'[f] = answer[f]
  BY <1>3
<1>5. \A f \in Files : f < i => Wanted(f)' = Wanted(f)
  BY <1>4 DEF Wanted, SrcData
<1>6. Copying' => \A f \in Files \ marked' : dst'[f].data \in Wanted(f)'
  BY <1>1, <1>4, <1>5 DEF Behind, Copying
<1>7. \A f \in Files \ src' : dst'[f].kind = "file" /\ Holds(dst'[f].data, f)
  BY <1>2, <1>4 DEF Behind
<1> QED BY <1>1, <1>2, <1>6, <1>7 DEF Behind

LEMMA AheadKept ==
  ASSUME Typed, Ahead, i' = i, ctx'.operation = ctx.operation,
         \A f \in Files \ {i} : dst'[f] = dst[f] /\ answer'[f] = answer[f],
         \/ dst' = dst
         \/ /\ dst'[i].kind = "file"
            /\ pc' \notin Unopened \/ Len(dst'[i].data) = 1
         \/ dst'[i] = NoFile,
         pc' \in Unopened => pc \in Unopened,
         Copying /\ pc' \in Unasked => pc \in Unasked /\ answer' = answer
  PROVE  Ahead'
<1>1. \A f \in Files : f > i => f # i
  BY DEF Typed, Files
<1>2. \A f \in Files : dst'[f].kind = "none" => dst'[f].data = << >>
  BY DEF Ahead, NoFile
<1>3. \A f \in Files : (f > i \/ (f = i /\ pc' \in Unopened)) /\ dst'[f].kind = "file"
        => Len(dst'[f].data) \in {1, SrcLen}
  BY <1>1 DEF Ahead, NoFile
<1>4. \A f \in Files : (f > i \/ (f = i /\ pc' \in Unasked)) /\ Copying
        => answer'[f].choice = "none"
  BY <1>1 DEF Ahead
<1> QED BY <1>2, <1>3, <1>4 DEF Ahead, Copying

(* A file given up.                                                        *)
LEMMA Stopped ==
  ASSUME Context, Written, ctx'.operation = ctx.operation,
         ctx'.replace_result = "reget" => \/ ctx.replace_result = "reget"
                                         \/ (Copying /\ SrcLen # 0),
         loc'.st # CONT, pc' \in After \cup {"m_copied", "return"},
         Copying => pc' # "m_copied" /\ ~ctx'.do_append
  PROVE  Context' /\ Written'
<1>1. /\ pc' \notin Moving \cup Unasked \cup Asked \cup Loop \cup {"m_unlink"}
      /\ Copying => pc' \notin Copied
  BY DEF Moving, Unasked, Asked, Loop, After, Copied
<1>2. Context'
  BY <1>1 DEF Context, Copying, Unasked
<1>3. Written'
  BY <1>1 DEF Written
<1> QED BY <1>2, <1>3

(* A call tried again.                                                     *)
LEMMA Retried ==
  ASSUME Typed, Context, Written, pc' = pc, UNCHANGED <<i, dst, ctx, answer>>,
         loc' = [loc EXCEPT !.st = RETRY]
  PROVE  Context' /\ Written'
<1>1. /\ loc'.st # CONT /\ loc'.dst_exists = loc.dst_exists /\ loc'.off = loc.off
      /\ loc'.buf = loc.buf /\ loc'.ask = loc.ask
  BY DEF Typed, LocRec, CONT, RETRY
<1>2. Copying' = Copying /\ Remaining' = Remaining /\ Wanted(i)' = Wanted(i)
  BY <1>1 DEF Copying, Remaining, SrcData, Wanted
<1>3. \A d : Whole(d)' = Whole(d)
  BY <1>2 DEF Whole, Holds, SrcData
<1>4. Chosen => Chosen'
  BY <1>1, <1>2 DEF Chosen, CopyChoice
<1>5. Context'
  BY <1>1, <1>2, <1>4 DEF Context
<1>6. Written'
  BY <1>1, <1>2, <1>3 DEF Written
<1> QED BY <1>5, <1>6

LEMMA LeaveIs == ASSUME Typed PROVE Leave = IF Copying THEN "return" ELSE "m_copied"
BY DEF Typed, CtxRec, Leave, Copying

(* Any step of copy_file_file or move_file_file on the file at hand that   *)
(* touches neither the table nor the targets.                              *)
LEMMA Turn ==
  ASSUME IInv, pc \notin Between \cup {"return", "crashed"},
         pc' \in Pcs, UNCHANGED <<i, marked, src, dst, table>>,
         ctx' \in CtxRec, ctx'.operation = ctx.operation,
         loc' \in LocRec, Len(loc'.buf) <= BufSize,
         loc'.src_desc = loc.src_desc, loc'.dest_desc = loc.dest_desc,
         errors' \in 0 .. MaxErrors,
         answer' \in [Files -> AnswerRec],
         \A f \in Files \ {i} : answer'[f] = answer[f],
         pc \in HasSrc => pc' \in HasSrc, pc \in HasDst => pc' \in HasDst,
         pc' \in Unopened => pc \in Unopened,
         Copying /\ pc' \in Unasked => pc \in Unasked /\ answer' = answer
  PROVE  Typed' /\ Table' /\ Behind' /\ Ahead'
<1>1. i # 0
  BY DEF IInv, Typed
<1>2. Typed'
  BY <1>1 DEF IInv, Typed
<1>3. Table'
  BY TableKept DEF IInv
<1>4. Behind'
  BY BehindKept DEF IInv
<1>5. Ahead'
  BY AheadKept DEF IInv
<1> QED BY <1>2, <1>3, <1>4, <1>5

LEMMA FailsStep ==
  ASSUME IInv, pc \notin Between \cup {"return", "crashed"},
         NEW else \in {"close_src", "m_copied", "return"},
         NEW c \in {ctx, NoAppend}, Fails(else, c),
         Copying => ~c.do_append,
         Copying => else # "m_copied",
         pc \in HasSrc \cup HasDst => else = "close_src"
  PROVE  IInv'
<1>0. /\ errors' \in 0 .. MaxErrors
      /\ UNCHANGED <<i, marked, src, dst, answer, table>>
  BY CopyAssumption DEF Fails, IInv, Typed
<1>1. PICK a \in {SKIP, RETRY, ABORT} :
        /\ loc' = [loc EXCEPT !.st = a]
        /\ IF a = RETRY THEN UNCHANGED <<pc, ctx>> ELSE Goto(else) /\ ctx' = c
  BY Zenon DEF Fails
<1>2. /\ loc' \in LocRec /\ loc'.st = a /\ a # CONT
      /\ loc'.src_desc = loc.src_desc /\ loc'.dest_desc = loc.dest_desc
      /\ loc'.buf = loc.buf
  BY <1>1 DEF IInv, Typed, LocRec, Status, CONT, RETRY, SKIP, ABORT
<1>3. /\ c \in CtxRec /\ c.operation = ctx.operation
      /\ c.replace_result = ctx.replace_result
      /\ Copying => ~c.do_append
  BY DEF IInv, Typed, CtxRec, NoAppend, Context
<1>4. ctx' \in CtxRec /\ ctx'.operation = ctx.operation
  BY <1>1, <1>3 DEF IInv, Typed
<1>5. pc' \in Pcs /\ (pc' = pc \/ pc' = else)
  BY <1>1 DEF Goto, IInv, Typed, Pcs, After, Copied
<1>6. else \in After \cup {"m_copied", "return"} /\ else \notin Unopened \cup Unasked
  BY DEF After, Unopened, Moving, Unasked, Asked
<1>7. "close_src" \in HasSrc /\ "close_src" \in HasDst
  BY DEF HasSrc, HasDst
<1>8. Typed' /\ Table' /\ Behind' /\ Ahead'
  <2>1. answer' \in [Files -> AnswerRec] /\ answer' = answer
    BY <1>0 DEF IInv, Typed
  <2>2. Len(loc'.buf) <= BufSize
    BY <1>2 DEF IInv, Typed
  <2>3. (pc \in HasSrc => pc' \in HasSrc) /\ (pc \in HasDst => pc' \in HasDst)
    BY <1>5, <1>7
  <2>4. (pc' \in Unopened => pc \in Unopened) /\ (pc' \in Unasked => pc \in Unasked)
    BY <1>5, <1>6
  <2> QED BY <1>0, <1>2, <1>4, <1>5, <2>1, <2>2, <2>3, <2>4, Turn
<1>9. Context' /\ Written'
  <2>1. CASE a = RETRY
    BY <2>1, <1>0, <1>1, Retried DEF IInv
  <2>2. CASE a # RETRY
    <3>1. pc' = else /\ ctx' = c
      BY <2>2, <1>1 DEF Goto
    <3> QED BY <3>1, <1>2, <1>3, <1>6, Stopped DEF IInv
  <2> QED BY <2>1, <2>2
<1> QED BY <1>8, <1>9 DEF IInv

LEMMA SetSt ==
  ASSUME Typed, NEW a \in Status, loc' = [loc EXCEPT !.st = a]
  PROVE  /\ loc' \in LocRec /\ loc'.st = a /\ loc'.buf = loc.buf
         /\ loc'.off = loc.off /\ loc'.ask = loc.ask
         /\ loc'.dst_exists = loc.dst_exists /\ loc'.dst_status = loc.dst_status
         /\ loc'.src_desc = loc.src_desc /\ loc'.dest_desc = loc.dest_desc
BY DEF Typed, LocRec

LEMMA QuietTurn ==
  ASSUME IInv, pc \notin Between \cup {"return", "crashed"},
         Quiet, pc' \in Pcs, ctx' \in CtxRec, ctx'.operation = ctx.operation,
         loc' \in LocRec, Len(loc'.buf) <= BufSize,
         loc'.src_desc = loc.src_desc, loc'.dest_desc = loc.dest_desc,
         pc \in HasSrc => pc' \in HasSrc, pc \in HasDst => pc' \in HasDst,
         pc' \in Unopened => pc \in Unopened,
         Copying /\ pc' \in Unasked => pc \in Unasked
  PROVE  Typed' /\ Table' /\ Behind' /\ Ahead'
<1>1. /\ UNCHANGED <<i, marked, src, dst, table>>
      /\ errors' \in 0 .. MaxErrors
      /\ answer' \in [Files -> AnswerRec] /\ answer' = answer
  BY DEF Quiet, IInv, Typed
<1> QED BY <1>1, Turn

(* The user, or a directory in the way, stops the operation on the file.   *)
LEMMA StopStep ==
  ASSUME IInv, pc \notin Between \cup {"return", "crashed"},
         Quiet, KeepCtx, NEW a \in Status, a # CONT,
         loc' = [loc EXCEPT !.st = a],
         pc' \in {"close_src", "m_copied", "return"},
         Copying => pc' # "m_copied" /\ (pc \notin Asked \/ ~ctx.do_append),
         pc \in HasSrc \cup HasDst => pc' = "close_src"
  PROVE  IInv'
<1>1. /\ loc' \in LocRec /\ loc'.st = a /\ loc'.buf = loc.buf
      /\ loc'.src_desc = loc.src_desc /\ loc'.dest_desc = loc.dest_desc
  BY SetSt DEF IInv
<1>2. pc' \in Pcs /\ pc' \in After \cup {"m_copied", "return"}
      /\ pc' \notin Unopened \cup Unasked
  BY DEF Pcs, After, Copied, Unopened, Moving, Unasked, Asked
<1>3. (pc \in HasSrc => pc' \in HasSrc) /\ (pc \in HasDst => pc' \in HasDst)
  BY DEF HasSrc, HasDst
<1>4. ctx' \in CtxRec /\ ctx' = ctx /\ Len(loc'.buf) <= BufSize
  BY <1>1 DEF KeepCtx, IInv, Typed
<1>5. Typed' /\ Table' /\ Behind' /\ Ahead'
  BY <1>1, <1>2, <1>3, <1>4, QuietTurn
<1>6. Copying => ~ctx'.do_append
  BY <1>4 DEF IInv, Context
<1>7. Context' /\ Written'
  BY <1>1, <1>2, <1>4, <1>6, Stopped DEF IInv
<1> QED BY <1>5, <1>7 DEF IInv

LEMMA RetryStep ==
  ASSUME IInv, pc \notin Between \cup {"return", "crashed"},
         Quiet, KeepCtx, pc' = pc, loc' = [loc EXCEPT !.st = RETRY]
  PROVE  IInv'
<1>1. RETRY \in Status
  BY DEF Status
<1>2. /\ loc' \in LocRec /\ loc'.buf = loc.buf
      /\ loc'.src_desc = loc.src_desc /\ loc'.dest_desc = loc.dest_desc
  BY <1>1, SetSt DEF IInv
<1>3. ctx' \in CtxRec /\ ctx' = ctx /\ Len(loc'.buf) <= BufSize /\ pc' \in Pcs
  BY <1>2 DEF KeepCtx, IInv, Typed
<1>4. Typed' /\ Table' /\ Behind' /\ Ahead'
  BY <1>2, <1>3, QuietTurn
<1>5. Context' /\ Written'
  BY Retried DEF IInv, Quiet, KeepCtx
<1> QED BY <1>4, <1>5 DEF IInv

-----------------------------------------------------------------------------
(* move_file_file.                                                         *)
LEMMA MoveStatStep == ASSUME IInv, MoveStat PROVE IInv'
<1>1. pc = "m_stat" /\ pc \notin Between \cup {"return", "crashed"} /\ ~Copying
      /\ pc \in Unopened /\ pc \notin HasSrc \cup HasDst
  BY DEF MoveStat, At, Between, HasSrc, HasDst, Loop, Unopened, Moving, IInv, Context
<1>2. CASE Goto("m_query") /\ UNCHANGED <<ctx, loc>> /\ Quiet
  <2>1. pc' = "m_query" /\ pc' \in Pcs /\ pc' \in Moving
        /\ pc' \notin Unasked \cup Asked \cup Loop \cup After \cup Copied
    BY <1>2 DEF Goto, Pcs, Moving, Unasked, Asked, Loop, After, Copied
  <2>2. ctx' \in CtxRec /\ loc' \in LocRec /\ Len(loc'.buf) <= BufSize
    BY <1>2 DEF IInv, Typed
  <2>3. Typed' /\ Table' /\ Behind' /\ Ahead'
    BY <1>1, <1>2, <2>1, <2>2, QuietTurn
  <2>4. Context'
    BY <1>1, <1>2, <2>1 DEF IInv, Context, Copying, Moving, Quiet
  <2>5. Written'
    BY <2>1 DEF Written, Copied
  <2> QED BY <2>3, <2>4, <2>5 DEF IInv
<1>3. CASE loc' = [loc EXCEPT !.st = ABORT] /\ Goto("return") /\ KeepCtx /\ Quiet
  <2>1. ABORT \in Status /\ ABORT # CONT
    BY DEF Status, ABORT, CONT
  <2> QED BY <1>1, <1>3, <2>1, StopStep DEF Goto
<1>4. CASE Fails("return", ctx)
  BY <1>1, <1>4, FailsStep
<1> QED BY <1>2, <1>3, <1>4 DEF MoveStat

LEMMA MoveCopiedStep == ASSUME IInv, MoveCopied PROVE IInv'
<1>1. pc = "m_copied" /\ pc \notin Between \cup {"return", "crashed"} /\ ~Copying
      /\ pc \notin HasSrc \cup HasDst /\ KeepCtx /\ Quiet
  BY DEF MoveCopied, At, Between, HasSrc, HasDst, Loop, Copied, IInv, Context
<1>2. PICK a \in {CONT, SKIP, ABORT} :
       IF loc.st # CONT THEN Goto("return") /\ UNCHANGED loc
       ELSE /\ loc' = [loc EXCEPT !.st = a]
            /\ Goto(IF a = CONT THEN "m_unlink" ELSE "return")
  BY Zenon DEF MoveCopied
<1>3. CASE loc.st # CONT
  <2>1. loc' = [loc EXCEPT !.st = loc.st] /\ loc.st \in Status
    BY <1>2, <1>3 DEF IInv, Typed, LocRec
  <2> QED BY <1>1, <1>2, <1>3, <2>1, StopStep DEF Goto
<1>4. CASE loc.st = CONT /\ a # CONT
  BY <1>1, <1>2, <1>4, StopStep DEF Goto, Status
<1>5. CASE loc.st = CONT /\ a = CONT
  <2>1. pc' = "m_unlink" /\ pc' \in Pcs /\ pc' \in Copied
        /\ pc' \notin Moving \cup Unasked \cup Asked \cup Loop \cup After \cup Unopened
    BY <1>2, <1>5 DEF Goto, Pcs, Moving, Unasked, Asked, Loop, After, Copied, Unopened
  <2>2. loc' = loc
    BY <1>2, <1>5 DEF IInv, Typed, LocRec
  <2>3. ctx' \in CtxRec /\ loc' \in LocRec /\ Len(loc'.buf) <= BufSize /\ ctx' = ctx
    BY <1>1, <2>2 DEF IInv, Typed, KeepCtx
  <2>4. Typed' /\ Table' /\ Behind' /\ Ahead'
    BY <1>1, <2>1, <2>2, <2>3, QuietTurn
  <2>5. Context'
    BY <1>1, <2>1, <2>3 DEF IInv, Context, Copying
  <2>6. Written'
    <3>1. dst[i].kind = "file" /\ Whole(dst[i].data)
      BY <1>1, <1>5 DEF IInv, Written
    <3>2. dst'[i'].kind = "file" /\ Whole(dst[i].data)' /\ dst'[i'].data = dst[i].data
      BY <1>1, <2>3, <3>1 DEF Quiet, Whole, Copying, Holds, SrcData
    <3> QED BY <2>1, <3>2 DEF Written, After
  <2> QED BY <2>4, <2>5, <2>6 DEF IInv
<1> QED BY <1>3, <1>4, <1>5

LEMMA MoveUnlinkStep == ASSUME IInv, MoveUnlink PROVE IInv'
<1>1. pc = "m_unlink" /\ pc \notin Between \cup {"return", "crashed"} /\ ~Copying
      /\ pc \notin HasSrc \cup HasDst /\ i \in Files
  BY DEF MoveUnlink, At, Between, HasSrc, HasDst, Loop, Copied, IInv, Context,
         Typed, Files
<1>2. CASE /\ src' = src \ {i} /\ Goto("return")
           /\ UNCHANGED <<i, marked, dst, ctx, loc, answer, errors, table>>
  <2>1. pc' = "return" /\ pc' \in Pcs
        /\ pc' \notin Moving \cup Unasked \cup Asked \cup Loop \cup After \cup Unopened
                        \cup Copied \cup Between
    BY <1>2 DEF Goto, Pcs, Moving, Unasked, Asked, Loop, After, Copied, Unopened,
                Between
  <2>2. Typed'
    BY <1>1, <1>2, <2>1 DEF IInv, Typed
  <2>3. Table'
    BY <1>1, <1>2, <2>1, TableKept DEF IInv
  <2>4. Ahead'
    BY <1>1, <1>2, <2>1, AheadKept DEF IInv
  <2>5. Behind'
    <3>1. dst[i].kind = "file" /\ Holds(dst[i].data, i)
      BY <1>1 DEF IInv, Written, Whole
    <3>2. \A f \in Files \ src' : f < i \/ f = i
      BY <1>1, <1>2 DEF IInv, Behind
    <3>3. \A f \in Files \ src' : dst[f].kind = "file" /\ Holds(dst[f].data, f)
      BY <3>1, <1>2 DEF IInv, Behind
    <3>4. \A f \in Files \ marked : f < i
      BY <1>1 DEF IInv, Behind
    <3>5. ~Copying'
      BY <1>1, <1>2 DEF Copying
    <3> QED BY <1>2, <2>1, <3>2, <3>3, <3>4, <3>5 DEF Behind
  <2>6. Context'
    BY <1>1, <1>2, <2>1 DEF IInv, Context, Copying
  <2>7. Written'
    BY <1>1, <1>2, <2>1 DEF Written, Copying, Copied
  <2> QED BY <2>2, <2>3, <2>4, <2>5, <2>6, <2>7 DEF IInv
<1>3. CASE Fails("return", ctx)
  BY <1>1, <1>3, FailsStep
<1> QED BY <1>2, <1>3 DEF MoveUnlink

LEMMA MoveRenameStep == ASSUME IInv, MoveRename PROVE IInv'
<1>1. pc = "m_rename" /\ pc \notin Between \cup {"return", "crashed"} /\ ~Copying
      /\ pc \notin HasSrc \cup HasDst /\ i \in Files /\ pc \in Moving /\ pc \in Unopened
  BY DEF MoveRename, At, Between, HasSrc, HasDst, Loop, Moving, Unopened, IInv, Context,
         Typed, Files
<1>2. CASE /\ src' = src \ {i}
           /\ dst' = [dst EXCEPT ![i] = RegFile(SrcData(i))]
           /\ \E a \in {CONT, SKIP, ABORT} : loc' = [loc EXCEPT !.st = a]
           /\ Goto("return") /\ KeepCtx
           /\ UNCHANGED <<i, marked, answer, errors, table>>
  <2>1. pc' = "return" /\ pc' \in Pcs
        /\ pc' \notin Moving \cup Unasked \cup Asked \cup Loop \cup After \cup Unopened
                        \cup Copied \cup Between
    BY <1>2 DEF Goto, Pcs, Moving, Unasked, Asked, Loop, After, Copied, Unopened,
                Between
  <2>2. PICK a \in Status : loc' = [loc EXCEPT !.st = a]
    BY <1>2 DEF Status
  <2>3. /\ loc' \in LocRec /\ loc'.buf = loc.buf
        /\ loc'.src_desc = loc.src_desc /\ loc'.dest_desc = loc.dest_desc
    BY <2>2, SetSt DEF IInv
  <2>4. /\ SrcData(i) \in Data
        /\ RegFile(SrcData(i)) \in FileRec
        /\ RegFile(SrcData(i)).kind = "file" /\ RegFile(SrcData(i)).data = SrcData(i)
    BY <1>1, SrcDataIs DEF RegFile, FileRec
  <2>5. /\ dst' \in [Files -> FileRec] /\ dst'[i] = RegFile(SrcData(i))
        /\ \A f \in Files \ {i} : dst'[f] = dst[f]
    BY <1>1, <1>2, <2>4 DEF IInv, Typed
  <2>6. Holds(SrcData(i), i)
    BY <2>4, DataJoins DEF Holds
  <2>7. Typed'
    BY <1>1, <1>2, <2>1, <2>3, <2>5 DEF IInv, Typed, KeepCtx
  <2>8. Table'
    BY <1>1, <1>2, <2>1, <2>3, TableKept DEF IInv
  <2>9. Ahead'
    BY <1>1, <1>2, <2>1, <2>4, <2>5, AheadKept DEF IInv, KeepCtx
  <2>10. Behind'
    <3>1. \A f \in Files \ src' : f < i \/ f = i
      BY <1>1, <1>2 DEF IInv, Behind
    <3>2. \A f \in Files \ src' : dst'[f].kind = "file" /\ Holds(dst'[f].data, f)
      BY <2>4, <2>5, <2>6, <1>2 DEF IInv, Behind
    <3>3. \A f \in Files \ marked : f < i
      BY <1>1 DEF IInv, Behind
    <3>4. ~Copying'
      BY <1>1, <1>2 DEF Copying, KeepCtx
    <3> QED BY <1>2, <2>1, <3>1, <3>2, <3>3, <3>4 DEF Behind
  <2>11. Context'
    BY <1>1, <1>2, <2>1 DEF IInv, Context, Copying, KeepCtx
  <2>12. Written'
    BY <1>1, <1>2, <2>1 DEF Written, Copying, Copied, KeepCtx
  <2> QED BY <2>7, <2>8, <2>9, <2>10, <2>11, <2>12 DEF IInv
<1>3. CASE /\ ctx' = [ctx EXCEPT !.do_reget = 0]
           /\ loc' = [loc EXCEPT !.st = RETRY]
           /\ Goto("stat_dst") /\ Quiet
  <2>1. pc' = "stat_dst" /\ pc' \in Pcs /\ pc' \in Unasked
        /\ pc' \notin Moving \cup Asked \cup Loop \cup After \cup Copied
    BY <1>3 DEF Goto, Pcs, Moving, Unasked, Asked, Loop, After, Copied
  <2>2. /\ ctx' \in CtxRec /\ ctx'.operation = ctx.operation
        /\ ctx'.replace_result = ctx.replace_result /\ ctx'.do_reget = 0
    BY <1>3, CopyAssumption DEF IInv, Typed, CtxRec
  <2>3. /\ loc' \in LocRec /\ loc'.st = RETRY /\ loc'.buf = loc.buf
        /\ loc'.off = loc.off /\ loc'.ask = loc.ask
        /\ loc'.src_desc = loc.src_desc /\ loc'.dest_desc = loc.dest_desc
    BY <1>3, SetSt DEF IInv, Status
  <2>4. Len(loc'.buf) <= BufSize
    BY <2>3 DEF IInv, Typed
  <2>5. Typed' /\ Table' /\ Behind' /\ Ahead'
    BY <1>1, <1>3, <2>1, <2>2, <2>3, <2>4, QuietTurn
  <2>6. Context'
    BY <1>1, <2>1, <2>2, <2>3 DEF IInv, Context, Copying, CONT, RETRY
  <2>7. Written'
    BY <2>1 DEF Written, Copied
  <2> QED BY <2>5, <2>6, <2>7 DEF IInv
<1> QED BY <1>2, <1>3 DEF MoveRename

-----------------------------------------------------------------------------
(* panel_operate.                                                          *)
LEMMA FinishStep == ASSUME IInv, Finish PROVE IInv'
<1>1. pc = "return" /\ pc \notin HasSrc \cup HasDst /\ i \in Files
  BY DEF Finish, At, HasSrc, HasDst, Loop, IInv, Typed, Files, Between
<1>2. /\ marked' = IF loc.st = CONT THEN marked \ {i} ELSE marked
      /\ UNCHANGED <<i, src, dst, ctx, loc, answer, errors, table>>
  BY DEF Finish
<1>3. pc' \in Between /\ pc' \in Pcs
      /\ pc' \notin Moving \cup Unasked \cup Asked \cup Loop \cup After \cup Unopened
                      \cup Copied \cup {"return", "stat_src", "query"}
  BY DEF Finish, Goto, Pcs, Moving, Unasked, Asked, Loop, After, Copied, Unopened,
         Between
<1>4. Typed'
  BY <1>2, <1>3 DEF IInv, Typed
<1>5. Table'
  BY <1>1, <1>2, TableKept DEF IInv
<1>6. Ahead'
  BY <1>2, <1>3, AheadKept DEF IInv, Unopened
<1>7. Behind'
  <2>1. \A f \in Files \ marked' : f < i \/ f = i
    BY <1>1, <1>2 DEF IInv, Behind, Between
  <2>2. \A f \in Files \ src : f < i \/ f = i
    BY <1>1 DEF IInv, Behind, Between
  <2>3. Copying => \A f \in Files \ marked' : dst[f].data \in Wanted(f)
    <3>1. Copying /\ loc.st = CONT => dst[i].data \in Wanted(i)
      BY <1>1 DEF IInv, Written, Whole
    <3> QED BY <3>1, <1>2 DEF IInv, Behind
  <2>4. Copying' = Copying /\ \A f : Wanted(f)' = Wanted(f)
    BY <1>2 DEF Copying, Wanted, SrcData
  <2>5. \A f \in Files \ src : dst[f].kind = "file" /\ Holds(dst[f].data, f)
    BY DEF IInv, Behind
  <2> QED BY <1>2, <1>3, <2>1, <2>2, <2>3, <2>4, <2>5 DEF Behind
<1>8. Context'
  BY <1>1, <1>2, <1>3 DEF IInv, Context, Copying, Asked
<1>9. Written'
  BY <1>3 DEF Written, Copied
<1> QED BY <1>4, <1>5, <1>6, <1>7, <1>8, <1>9 DEF IInv

LEMMA StartFileStep == ASSUME IInv, StartFile PROVE IInv'
<1>1. /\ pc = "next" /\ pc \in Between /\ pc \notin HasSrc \cup HasDst
      /\ UNCHANGED <<marked, src, dst, answer, errors, table>>
  BY DEF StartFile, At, HasSrc, HasDst, Loop, Between
<1>2. i \in 0 .. N /\ N \in Nat
  BY CopyAssumption DEF IInv, Typed
<1>3. CASE i = N /\ Goto("end") /\ UNCHANGED <<i, loc, ctx>>
  <2>1. pc' \in Between /\ pc' \in Pcs
        /\ pc' \notin Moving \cup Unasked \cup Asked \cup Loop \cup After \cup Unopened
                        \cup Copied \cup {"return", "stat_src", "query"}
    BY <1>3 DEF Goto, Pcs, Moving, Unasked, Asked, Loop, After, Copied, Unopened,
           Between
  <2>2. Typed'
    BY <1>1, <1>3, <2>1 DEF IInv, Typed
  <2>3. Table'
    BY <1>1, <1>3, TableKept DEF IInv
  <2>4. Ahead'
    BY <1>1, <1>3, <2>1, AheadKept DEF IInv, Unopened
  <2>5. Behind'
    <3>1. Copying' = Copying /\ \A f : Wanted(f)' = Wanted(f)
      BY <1>1, <1>3 DEF Copying, Wanted, SrcData
    <3> QED BY <1>1, <1>3, <2>1, <3>1 DEF IInv, Behind
  <2>6. Context'
    BY <1>1, <1>3, <2>1 DEF IInv, Context, Copying, Asked
  <2>7. Written'
    BY <2>1 DEF Written, Copied
  <2> QED BY <2>2, <2>3, <2>4, <2>5, <2>6, <2>7 DEF IInv
<1>4. CASE /\ i # N /\ i' = i + 1
           /\ loc' = [Locals EXCEPT !.ask = ctx.operation = "copy"]
           /\ IF ctx.operation = "move" THEN Goto("m_stat") /\ UNCHANGED ctx
              ELSE Goto("stat_dst") /\ ctx' = [ctx EXCEPT !.do_reget = 0]
  <2>1. /\ loc' \in LocRec /\ loc'.off = 0 /\ loc'.buf = << >> /\ loc'.st # CONT
        /\ loc'.ask = Copying /\ Len(loc'.buf) = 0
    <3>1. << >> \in Data /\ Len(<< >>) = 0
      BY EmptySeq DEF Data
    <3>2. PICK c \in BOOLEAN : c = (ctx.operation = "copy")
      OBVIOUS
    <3>3. loc' = [dst_exists |-> FALSE, appending |-> FALSE, off |-> 0, buf |-> << >>,
                  st |-> RETRY, dst_status |-> "none", ask |-> c,
                  src_desc |-> -1, dest_desc |-> -1]
      BY <1>4, <3>2 DEF Locals, NoDesc
    <3>4. RETRY \in Status /\ RETRY # CONT /\ 0 \in 0 .. SrcLen /\ -1 \in Int
      BY CopyAssumption DEF Status, RETRY, CONT
    <3>5. loc' \in LocRec
      BY <3>1, <3>3, <3>4 DEF LocRec
    <3> QED BY <3>1, <3>2, <3>3, <3>4, <3>5 DEF Copying
  <2>2. /\ ctx' \in CtxRec /\ ctx'.operation = ctx.operation
        /\ ctx'.replace_result = ctx.replace_result
        /\ ctx'.do_append = ctx.do_append
        /\ Copying => ctx'.do_reget = 0
        /\ pc' = IF Copying THEN "stat_dst" ELSE "m_stat"
    BY <1>4, CopyAssumption DEF IInv, Typed, CtxRec, Copying, Goto
  <2>3. /\ pc' \in Pcs /\ pc' \in (IF Copying THEN Unasked ELSE Moving)
        /\ pc' \in Unopened
        /\ pc' \notin Between \cup Asked \cup Loop \cup After \cup Copied \cup {"return"}
        /\ Copying => pc' \notin Moving
        /\ ~Copying => pc' \notin Unasked
        /\ pc' \notin {"stat_src", "query"}
    BY <2>2 DEF Pcs, Moving, Unasked, Asked, Loop, After, Copied, Unopened, Between
  <2>4. i' \in 0 .. N /\ i' # 0 /\ i + 1 \in Int
    BY <1>2, <1>4
  <2>5. Len(loc'.buf) <= BufSize
    BY <2>1, CopyAssumption
  <2>6. Typed'
    BY <1>1, <2>1, <2>2, <2>3, <2>4, <2>5 DEF IInv, Typed
  <2>7. Table'
    <3>1. held = {}
      BY <1>1 DEF IInv, Table, MayBeOpen
    <3>2. TP!Inv' /\ UsedIsHeld' /\ held' = {}
      BY <3>1, <1>1, TableStutters DEF IInv, Table
    <3> QED BY <3>2 DEF Table
  <2>8. Behind'
    <3>1. Copying' = Copying /\ \A f : Wanted(f)' = Wanted(f)
      BY <1>1, <2>2 DEF Copying, Wanted, SrcData
    <3>2. \A f \in Files : f < i \/ f = i => f < i'
      BY <1>2, <1>4 DEF Files
    <3> QED BY <1>1, <3>1, <3>2 DEF IInv, Behind
  <2>9. Ahead'
    <3>1. \A f \in Files : f > i' \/ f = i' => f > i
      BY <1>2, <1>4 DEF Files
    <3>2. Copying' = Copying
      BY <2>2 DEF Copying
    <3> QED BY <1>1, <3>1, <3>2 DEF IInv, Ahead
  <2>10. Context'
    <3>1. Copying' = Copying
      BY <2>2 DEF Copying
    <3>2. Copying => ~ctx.do_append
      BY <1>1 DEF IInv, Context, Asked
    <3> QED BY <2>1, <2>2, <2>3, <3>1, <3>2 DEF IInv, Context
  <2>11. Written'
    BY <2>3 DEF Written, Copied
  <2> QED BY <2>6, <2>7, <2>8, <2>9, <2>10, <2>11 DEF IInv
<1> QED BY <1>3, <1>4 DEF StartFile

-----------------------------------------------------------------------------
(* The questions of copy_file_file.                                        *)
LEMMA StatDstStep == ASSUME IInv, StatDst PROVE IInv'
<1>1. pc = "stat_dst" /\ pc \notin Between \cup {"return", "crashed"}
      /\ pc \notin HasSrc \cup HasDst /\ pc \in Unasked /\ pc \in Unopened
      /\ pc \notin Asked /\ KeepCtx /\ Quiet
  BY DEF StatDst, At, Between, HasSrc, HasDst, Loop, Unasked, Unopened, Asked
<1>2. Leave \in {"m_copied", "return"} /\ (Copying => Leave # "m_copied")
  BY LeaveIs DEF IInv
<1>3. CASE loc' = [loc EXCEPT !.st = ABORT] /\ Goto(Leave)
  <2>1. ABORT \in Status /\ ABORT # CONT
    BY DEF Status, ABORT, CONT
  <2> QED BY <1>1, <1>2, <1>3, <2>1, StopStep DEF Goto
<1>4. CASE \E a \in {SKIP, RETRY, ABORT} :
             /\ loc' = [loc EXCEPT !.st = a]
             /\ IF a = RETRY THEN UNCHANGED pc ELSE Goto(Leave)
  <2>1. PICK a \in {SKIP, RETRY, ABORT} :
             /\ loc' = [loc EXCEPT !.st = a]
             /\ IF a = RETRY THEN UNCHANGED pc ELSE Goto(Leave)
    BY <1>4
  <2>2. a \in Status /\ a # CONT
    BY DEF Status, SKIP, RETRY, ABORT, CONT
  <2>3. CASE a = RETRY
    BY <1>1, <2>1, <2>3, RetryStep
  <2>4. CASE a # RETRY
    BY <1>1, <1>2, <2>1, <2>2, <2>4, StopStep DEF Goto
  <2> QED BY <2>3, <2>4
<1>5. CASE /\ dst[i].kind # "dir"
           /\ loc' = [loc EXCEPT !.dst_exists = dst[i].kind = "file"]
           /\ Goto("stat_src")
  <2>1. pc' = "stat_src" /\ pc' \in Pcs /\ pc' \in Unasked
        /\ pc' \notin Moving \cup Asked \cup Loop \cup After \cup Copied
    BY <1>5 DEF Goto, Pcs, Moving, Unasked, Asked, Loop, After, Copied
  <2>2. PICK c \in BOOLEAN : c = (dst[i].kind = "file")
    OBVIOUS
  <2>3. loc' = [loc EXCEPT !.dst_exists = c]
    BY <1>5, <2>2
  <2>4. /\ loc' \in LocRec /\ loc'.st = loc.st /\ loc'.buf = loc.buf
        /\ loc'.off = loc.off /\ loc'.ask = loc.ask /\ loc'.dst_exists = c
        /\ loc'.src_desc = loc.src_desc /\ loc'.dest_desc = loc.dest_desc
    BY <2>3 DEF IInv, Typed, LocRec
  <2>5. ctx' \in CtxRec /\ ctx' = ctx /\ Len(loc'.buf) <= BufSize
    BY <1>1, <2>4 DEF IInv, Typed, KeepCtx
  <2>6. Typed' /\ Table' /\ Behind' /\ Ahead'
    BY <1>1, <2>1, <2>4, <2>5, QuietTurn
  <2>7. Context'
    <3>1. dst' = dst /\ i' = i
      BY <1>1 DEF Quiet
    <3>2. Copying => ~ctx.do_append
      BY <1>1 DEF IInv, Context
    <3> QED BY <1>1, <2>1, <2>2, <2>4, <2>5, <3>1, <3>2 DEF IInv, Context, Copying
  <2>8. Written'
    BY <2>1 DEF Written, Copied
  <2> QED BY <2>6, <2>7, <2>8 DEF IInv
<1> QED BY <1>3, <1>4, <1>5 DEF StatDst

LEMMA StatSrcStep == ASSUME IInv, StatSrc PROVE IInv'
<1>1. pc = "stat_src" /\ pc \notin Between \cup {"return", "crashed"}
      /\ pc \notin HasSrc \cup HasDst /\ pc \in Unasked /\ pc \in Unopened
      /\ pc \notin Asked
  BY DEF StatSrc, At, Between, HasSrc, HasDst, Loop, Unasked, Unopened, Asked
<1>2. Leave \in {"m_copied", "return"} /\ (Copying => Leave # "m_copied")
  BY LeaveIs DEF IInv
<1>3. CASE Goto("query") /\ UNCHANGED <<ctx, loc>> /\ Quiet
  <2>1. pc' = "query" /\ pc' \in Pcs /\ pc' \in Unasked
        /\ pc' \notin Moving \cup Asked \cup Loop \cup After \cup Copied
    BY <1>3 DEF Goto, Pcs, Moving, Unasked, Asked, Loop, After, Copied
  <2>2. ctx' \in CtxRec /\ loc' \in LocRec /\ Len(loc'.buf) <= BufSize
    BY <1>3 DEF IInv, Typed
  <2>3. Typed' /\ Table' /\ Behind' /\ Ahead'
    BY <1>1, <1>3, <2>1, <2>2, QuietTurn
  <2>4. Context'
    <3>1. dst' = dst /\ i' = i
      BY <1>3 DEF Quiet
    <3> QED BY <1>1, <1>3, <2>1, <3>1 DEF IInv, Context, Copying
  <2>5. Written'
    BY <2>1 DEF Written, Copied
  <2> QED BY <2>3, <2>4, <2>5 DEF IInv
<1>4. CASE Fails(Leave, ctx)
  <2>1. Copying => ~ctx.do_append
    BY <1>1 DEF IInv, Context
  <2> QED BY <1>1, <1>2, <1>4, <2>1, FailsStep
<1> QED BY <1>3, <1>4 DEF StatSrc

(* The answer of the user, or the one that was kept.                       *)
Answers == {"yes", "no", "append", "always", "never", "abort", "reget"}
Stops == {"no", "never", "abort"}
Replaced(c, r, yes, no) ==
  /\ answer' = [answer EXCEPT ![i] = Answer(r, dst[i].data)]
  /\ answer' \in [Files -> AnswerRec]
  /\ answer'[i].choice = r /\ answer'[i].old = dst[i].data
  /\ \A f \in Files \ {i} : answer'[f] = answer[f]
  /\ ctx' \in CtxRec /\ ctx'.operation = ctx.operation
  /\ ctx'.replace_result = "reget" => Copying /\ SrcLen # 0
  /\ ctx'.do_append <=> (c.do_append \/ r \in {"append", "reget"})
  /\ ctx'.do_reget = IF r = "reget" THEN Len(dst[i].data) ELSE c.do_reget
  /\ r = "reget" => Copying
  /\ \E a \in Status : loc' = [loc EXCEPT !.st = a] /\ (r \in Stops => a # CONT)
  /\ pc' = IF r \in Stops THEN no ELSE yes

LEMMA QueryReplaceIs ==
  ASSUME Typed, i \in Files, Len(dst[i].data) \in {1, SrcLen},
         ctx.replace_result = "reget" => Copying /\ SrcLen # 0,
         NEW c \in CtxRec, c.operation = ctx.operation,
         c.replace_result = ctx.replace_result,
         NEW yes, NEW no, QueryReplace(c, yes, no)
  PROVE  \E r \in Answers : Replaced(c, r, yes, no)
<1> DEFINE f == dst[i].data
<1>0. PICK a \in Offered(f) : \E r \in Resolve(a) :
        /\ answer' = [answer EXCEPT ![i] = Answer(r, f)]
        /\ ctx' = [c EXCEPT !.do_append = @ \/ r \in {"append", "reget"},
                            !.do_reget = IF r = "reget" THEN Len(f) ELSE @,
                            !.replace_result = IF a \in Kept THEN a ELSE @]
        /\ loc' = [loc EXCEPT !.st = CASE r \in {"no", "never"} -> SKIP
                                       [] r = "abort" -> ABORT
                                       [] OTHER -> CONT]
        /\ Goto(IF r \in {"no", "never", "abort"} THEN no ELSE yes)
  BY Zenon DEF QueryReplace
<1>1. PICK r \in Resolve(a) :
        /\ answer' = [answer EXCEPT ![i] = Answer(r, f)]
        /\ ctx' = [c EXCEPT !.do_append = @ \/ r \in {"append", "reget"},
                            !.do_reget = IF r = "reget" THEN Len(f) ELSE @,
                            !.replace_result = IF a \in Kept THEN a ELSE @]
        /\ loc' = [loc EXCEPT !.st = CASE r \in {"no", "never"} -> SKIP
                                       [] r = "abort" -> ABORT
                                       [] OTHER -> CONT]
        /\ Goto(IF r \in {"no", "never", "abort"} THEN no ELSE yes)
  BY <1>0
<1>2. f \in Data /\ Len(f) \in Nat /\ SrcLen \in Nat
  BY CopyAssumption DEF Typed, FileRec, Data
<1>3. ctx.replace_result \in {"ask", "always", "update", "never", "reget"}
      /\ (Copying <=> ctx.operation = "copy")
  BY DEF Typed, CtxRec, Copying
<1>4. /\ a \in {"yes", "no", "append", "always", "update", "never", "abort", "reget"}
      /\ a = "reget" => Copying /\ SrcLen # 0
  <2>1. CASE ctx.replace_result # "ask"
    BY <2>1, <1>3 DEF Offered
  <2>2. CASE ctx.replace_result = "ask"
    <3>1. a = "reget" => ctx.operation = "copy" /\ Len(f) < SrcLen
      BY <2>2 DEF Offered
    <3>2. a \in {"yes", "no", "append", "always", "update", "never", "abort", "reget"}
      BY <2>2 DEF Offered
    <3> QED BY <3>1, <3>2, <1>2, <1>3
  <2> QED BY <2>1, <2>2
<1>5. r \in Answers /\ (r = "reget" => a = "reget")
  BY <1>4 DEF Resolve, Answers
<1>6. /\ r = "reget" => Copying
      /\ r = "reget" => Len(f) \in 0 .. SrcLen
  <2>1. r = "reget" => Copying /\ SrcLen # 0
    BY <1>4, <1>5
  <2>2. SrcLen # 0 => Len(f) \in 0 .. SrcLen
    <3>1. Len(f) = 1 \/ Len(f) = SrcLen
      OBVIOUS
    <3>2. SrcLen \in Nat /\ SrcLen # 0 => 1 <= SrcLen
      OBVIOUS
    <3>3. SUFFICES ASSUME SrcLen # 0 PROVE Len(f) \in 0 .. SrcLen
      OBVIOUS
    <3>4. CASE Len(f) = 1
      BY <1>2, <3>2, <3>3, <3>4
    <3>5. CASE Len(f) = SrcLen
      BY <1>2, <3>5
    <3> QED BY <3>1, <3>4, <3>5
  <2> QED BY <2>1, <2>2
<1>7. Answer(r, f) \in AnswerRec /\ Answer(r, f).choice = r /\ Answer(r, f).old = f
  BY <1>2, <1>5 DEF Answer, AnswerRec, Answers
<1>8. /\ answer' \in [Files -> AnswerRec]
      /\ answer'[i].choice = r /\ answer'[i].old = f
      /\ \A g \in Files \ {i} : answer'[g] = answer[g]
  BY <1>1, <1>7 DEF Typed
<1>9. PICK b \in BOOLEAN : b <=> (c.do_append \/ r \in {"append", "reget"})
  OBVIOUS
<1>10. PICK n \in 0 .. SrcLen : n = IF r = "reget" THEN Len(f) ELSE c.do_reget
  BY <1>6 DEF CtxRec
<1>11. PICK k \in {"ask", "always", "update", "never", "reget"} :
         /\ k = IF a \in Kept THEN a ELSE c.replace_result
         /\ k = "reget" => Copying /\ SrcLen # 0
  BY <1>3, <1>4 DEF Kept
<1>12. c.do_append \in BOOLEAN /\ (c.do_append \/ r \in {"append", "reget"}) \in BOOLEAN
  BY DEF CtxRec
<1>13. ctx' = [c EXCEPT !.do_append = b, !.do_reget = n, !.replace_result = k]
  BY <1>1, <1>9, <1>10, <1>11, <1>12
<1>14. /\ ctx' \in CtxRec /\ ctx'.operation = ctx.operation
       /\ ctx'.replace_result = k /\ ctx'.do_append = b /\ ctx'.do_reget = n
  BY <1>13 DEF CtxRec
<1>15. PICK s \in Status : /\ loc' = [loc EXCEPT !.st = s]
                           /\ r \in Stops => s # CONT
  <2>1. SKIP \in Status /\ ABORT \in Status /\ CONT \in Status
        /\ SKIP # CONT /\ ABORT # CONT
    BY DEF Status, SKIP, ABORT, CONT
  <2>2. CASE r \in {"no", "never"}
    BY <2>1, <2>2, <1>1
  <2>3. CASE r = "abort"
    BY <2>1, <2>3, <1>1
  <2>4. CASE r \notin Stops
    BY <2>1, <2>4, <1>1 DEF Stops
  <2> QED BY <2>2, <2>3, <2>4 DEF Stops
<1>16. pc' = IF r \in Stops THEN no ELSE yes
  BY <1>1 DEF Goto, Stops
<1>17. Replaced(c, r, yes, no)
  BY <1>1, <1>6, <1>8, <1>9, <1>10, <1>11, <1>14, <1>15, <1>16 DEF Replaced
<1> QED BY <1>5, <1>17

(* What holds after the answer, wherever the question was asked.           *)
LEMMA ReplacedTurn ==
  ASSUME IInv, pc \in {"m_query", "query"},
         UNCHANGED <<i, marked, src, dst, errors, table>>,
         NEW c \in CtxRec, Copying => ~c.do_append,
         NEW r \in Answers, NEW yes \in {"m_rename", "open_src"},
         NEW no \in {"m_copied", "return"}, Copying => no # "m_copied",
         Replaced(c, r, yes, no)
  PROVE  /\ Typed' /\ Table' /\ Behind' /\ Ahead'
         /\ r \in Stops => IInv'
<1>1. /\ pc \notin Between \cup {"return", "crashed"} /\ pc \notin HasSrc \cup HasDst
      /\ pc \in Unopened
  BY DEF Between, HasSrc, HasDst, Loop, Unopened, Moving, Unasked
<1>2. PICK a \in Status : loc' = [loc EXCEPT !.st = a] /\ (r \in Stops => a # CONT)
  BY DEF Replaced
<1>3. /\ loc' \in LocRec /\ loc'.st = a /\ loc'.buf = loc.buf
      /\ loc'.src_desc = loc.src_desc /\ loc'.dest_desc = loc.dest_desc
  BY <1>2, SetSt DEF IInv
<1>4. Len(loc'.buf) <= BufSize /\ errors' \in 0 .. MaxErrors
  BY <1>3 DEF IInv, Typed
<1>5. /\ answer' \in [Files -> AnswerRec]
      /\ \A f \in Files \ {i} : answer'[f] = answer[f]
      /\ ctx' \in CtxRec /\ ctx'.operation = ctx.operation
      /\ ctx'.replace_result = "reget" => Copying /\ SrcLen # 0
      /\ pc' = IF r \in Stops THEN no ELSE yes
  BY DEF Replaced
<1>6. pc' \in Pcs /\ pc' \notin Unasked
  BY <1>5 DEF Pcs, Moving, Asked, Copied, Unasked
<1>7. Typed' /\ Table' /\ Behind' /\ Ahead'
  BY <1>1, <1>3, <1>4, <1>5, <1>6, Turn
<1>8. ASSUME r \in Stops PROVE Context' /\ Written'
  <2>1. pc' \in After \cup {"m_copied", "return"}
    BY <1>5, <1>8
  <2>2. Copying => ~ctx'.do_append /\ pc' # "m_copied"
    BY <1>5, <1>8 DEF Replaced, Stops
  <2>3. loc'.st # CONT
    BY <1>2, <1>3, <1>8
  <2> QED BY <1>5, <2>1, <2>2, <2>3, Stopped DEF IInv
<1> QED BY <1>7, <1>8 DEF IInv

LEMMA MoveQueryStep == ASSUME IInv, MoveQuery PROVE IInv'
<1>1. pc = "m_query" /\ pc \notin Between \cup {"return", "crashed"} /\ ~Copying
      /\ pc \notin HasSrc \cup HasDst /\ pc \in Unopened /\ pc \in Moving /\ i \in Files
      /\ UNCHANGED <<i, marked, src, dst, errors, table>>
  BY DEF MoveQuery, At, Between, HasSrc, HasDst, Loop, Moving, Unopened, IInv, Context,
         Typed, Files
<1>2. CASE /\ loc' = [loc EXCEPT !.st = SKIP] /\ Goto("return")
           /\ UNCHANGED <<ctx, answer>>
  <2>1. SKIP \in Status /\ SKIP # CONT /\ pc' = "return" /\ Quiet /\ KeepCtx
    BY <1>1, <1>2 DEF Status, SKIP, CONT, Goto, Quiet, KeepCtx
  <2> QED BY <1>1, <1>2, <2>1, StopStep
<1>3. CASE dst[i].kind = "file" /\ QueryReplace(ctx, "m_rename", "return")
  <2>1. /\ Len(dst[i].data) \in {1, SrcLen} /\ ctx \in CtxRec
        /\ ctx.replace_result = "reget" => Copying /\ SrcLen # 0
    BY <1>1, <1>3 DEF IInv, Ahead, Typed, Context
  <2>2. PICK r \in Answers : Replaced(ctx, r, "m_rename", "return")
    BY <1>1, <1>3, <2>1, QueryReplaceIs DEF IInv
  <2>3. Typed' /\ Table' /\ Behind' /\ Ahead' /\ (r \in Stops => IInv')
    BY <1>1, <2>1, <2>2, ReplacedTurn
  <2>4. ASSUME r \notin Stops PROVE Context' /\ Written'
    <3>1. pc' = "m_rename" /\ ctx'.operation = ctx.operation
          /\ (ctx'.replace_result = "reget" => Copying /\ SrcLen # 0)
      BY <2>2, <2>4 DEF Replaced
    <3>2. loc'.off = loc.off /\ loc'.buf = loc.buf /\ loc'.ask = loc.ask
      BY <2>2, SetSt DEF Replaced, IInv
    <3>3. /\ pc' \in Moving
          /\ pc' \notin Unasked \cup Asked \cup Loop \cup After \cup Copied
      BY <3>1 DEF Moving, Unasked, Asked, Loop, After, Copied
    <3>4. Context'
      BY <1>1, <3>1, <3>2, <3>3 DEF IInv, Context, Copying
    <3>5. Written'
      BY <3>1, <3>3 DEF Written, Copied
    <3> QED BY <3>4, <3>5
  <2> QED BY <2>3, <2>4 DEF IInv
<1>4. CASE Goto("m_rename") /\ UNCHANGED <<ctx, loc, answer>>
  <2>1. pc' = "m_rename" /\ pc' \in Pcs /\ pc' \in Moving
        /\ pc' \notin Unasked \cup Asked \cup Loop \cup After \cup Copied
    BY <1>4 DEF Goto, Pcs, Moving, Unasked, Asked, Loop, After, Copied
  <2>2. ctx' \in CtxRec /\ loc' \in LocRec /\ Len(loc'.buf) <= BufSize /\ Quiet
    BY <1>1, <1>4 DEF IInv, Typed, Quiet
  <2>3. Typed' /\ Table' /\ Behind' /\ Ahead'
    BY <1>1, <1>4, <2>1, <2>2, QuietTurn
  <2>4. Context'
    BY <1>1, <1>4, <2>1 DEF IInv, Context, Copying, Moving
  <2>5. Written'
    BY <2>1 DEF Written, Copied
  <2> QED BY <2>3, <2>4, <2>5 DEF IInv
<1> QED BY <1>2, <1>3, <1>4 DEF MoveQuery

LEMMA QueryStep == ASSUME IInv, Query PROVE IInv'
<1>1. pc = "query" /\ pc \notin Between \cup {"return", "crashed"}
      /\ pc \notin HasSrc \cup HasDst /\ pc \in Unopened /\ pc \in Unasked /\ i \in Files
      /\ pc \notin Asked
      /\ UNCHANGED <<i, marked, src, dst, errors, table>>
  BY DEF Query, At, Between, HasSrc, HasDst, Loop, Unasked, Unopened, Asked, IInv,
         Typed, Files
<1>2. /\ loc.st # CONT /\ loc.off = 0 /\ loc.buf = << >> /\ ctx.do_reget = 0
      /\ loc.ask <=> Copying
      /\ Copying => ~ctx.do_append /\ answer[i].choice = "none"
      /\ loc.dst_exists => dst[i].kind = "file"
  BY <1>1 DEF IInv, Context, Ahead
<1>3. CASE /\ loc.dst_exists /\ loc.ask
           /\ QueryReplace([ctx EXCEPT !.do_reget = 0], "open_src", Leave)
  <2>0. [ctx EXCEPT !.do_reget = 0] \in CtxRec
    BY CopyAssumption DEF IInv, Typed, CtxRec
  <2>1. PICK c \in CtxRec : c = [ctx EXCEPT !.do_reget = 0]
    BY <2>0
  <2>2. c.operation = ctx.operation /\ c.replace_result = ctx.replace_result
        /\ c.do_append = ctx.do_append /\ c.do_reget = 0
    BY <2>1 DEF IInv, Typed, CtxRec
  <2>3. Copying /\ Leave = "return" /\ dst[i].kind = "file"
    BY <1>2, <1>3, LeaveIs DEF IInv
  <2>4. /\ Len(dst[i].data) \in {1, SrcLen}
        /\ ctx.replace_result = "reget" => Copying /\ SrcLen # 0
    BY <1>1, <2>3 DEF IInv, Ahead, Context
  <2>5. PICK r \in Answers : Replaced(c, r, "open_src", "return")
    BY <1>1, <1>3, <2>1, <2>2, <2>3, <2>4, QueryReplaceIs DEF IInv
  <2>6. Typed' /\ Table' /\ Behind' /\ Ahead' /\ (r \in Stops => IInv')
    BY <1>1, <1>2, <2>2, <2>5, ReplacedTurn
  <2>7. ASSUME r \notin Stops PROVE Context' /\ Written'
    <3>1. /\ pc' = "open_src" /\ ctx'.operation = ctx.operation
          /\ ctx'.replace_result = "reget" => Copying /\ SrcLen # 0
          /\ answer'[i].choice = r /\ answer'[i].old = dst[i].data
          /\ ctx'.do_append <=> r \in {"append", "reget"}
          /\ ctx'.do_reget = IF r = "reget" THEN Len(dst[i].data) ELSE 0
      BY <2>5, <2>7, <1>2, <2>2, <2>3 DEF Replaced
    <3>2. /\ loc'.off = 0 /\ loc'.buf = << >> /\ loc'.dst_exists
      BY <2>5, SetSt, <1>2, <1>3 DEF Replaced, IInv
    <3>3. /\ pc' \in Asked
          /\ pc' \notin Unasked \cup Moving \cup Loop \cup After \cup Copied
      BY <3>1 DEF Moving, Unasked, Asked, Loop, After, Copied
    <3>4. Chosen'
      <4>1. Copying' /\ dst' = dst /\ i' = i
        BY <3>1, <2>3, <1>1 DEF Copying
      <4>2. r \in {"yes", "always", "append", "reget"}
        BY <2>7 DEF Answers, Stops
      <4>3. CopyChoice(answer[i])'
        BY <4>1, <4>2, <3>1, <3>2 DEF CopyChoice
      <4> QED BY <4>1, <4>3, <3>1, <3>2 DEF Chosen
    <3>5. Context'
      BY <1>1, <2>3, <3>1, <3>2, <3>3, <3>4 DEF IInv, Context, Copying
    <3>6. Written'
      BY <3>1, <3>3 DEF Written, Copied
    <3> QED BY <3>5, <3>6
  <2> QED BY <2>6, <2>7 DEF IInv
<1>4. CASE ~(loc.dst_exists /\ loc.ask) /\ Goto("open_src") /\ UNCHANGED <<ctx, loc, answer>>
  <2>1. pc' = "open_src" /\ pc' \in Pcs /\ pc' \in Asked /\ pc' \in Unopened
        /\ pc' \notin Unasked \cup Moving \cup Loop \cup After \cup Copied
    BY <1>4 DEF Goto, Pcs, Moving, Unasked, Asked, Loop, After, Copied, Unopened
  <2>2. ctx' \in CtxRec /\ loc' \in LocRec /\ Len(loc'.buf) <= BufSize /\ Quiet
    BY <1>1, <1>4 DEF IInv, Typed, Quiet
  <2>3. Typed' /\ Table' /\ Behind' /\ Ahead'
    BY <1>1, <1>4, <2>1, <2>2, QuietTurn
  <2>4. Chosen'
    BY <1>1, <1>2, <1>4, <2>1 DEF Chosen, CopyChoice, Copying
  <2>5. Context'
    BY <1>1, <1>2, <1>4, <2>1, <2>4 DEF IInv, Context, Copying
  <2>6. Written'
    BY <2>1 DEF Written, Copied
  <2> QED BY <2>3, <2>5, <2>6 DEF IInv
<1> QED BY <1>3, <1>4 DEF Query

-----------------------------------------------------------------------------
(* Opening.  A handle that is opened is one of those MayBeOpen names.      *)
LEMMA OpenedIs ==
  ASSUME IInv, NEW info \in {"src", "dst"}, NEW field \in {"src_desc", "dest_desc"},
         Opened(info, field)
  PROVE  \E h \in Int :
           /\ held' = held \cup {<<h, [vclass |-> "fs", fsinfo |-> info]>>}
           /\ TP!Inv' /\ UsedIsHeld'
           /\ loc' = [loc EXCEPT ![field] = h,
                        !.dst_status = IF info = "dst" THEN "short" ELSE @,
                        !.appending = IF info = "dst" THEN ctx.do_append ELSE @]
<1> DEFINE f == [vclass |-> "fs", fsinfo |-> info]
<1>1. f \in T!File
  BY DEF T!File
<1>2. T!McOpen(f)
  BY DEF Opened
<1> DEFINE n == T!NewSlot + T!VFS_FIRST_HANDLE
<1>3. /\ n \in Int /\ held' = held \cup {<<n, f>>}
      /\ TP!Inv' /\ UsedIsHeld'
  BY <1>1, <1>2, TableOpened DEF IInv, Table
<1>4. loc' = [loc EXCEPT ![field] = n,
                        !.dst_status = IF info = "dst" THEN "short" ELSE @,
                        !.appending = IF info = "dst" THEN ctx.do_append ELSE @]
  BY DEF Opened
<1> QED BY <1>3, <1>4

LEMMA OpenSrcStep == ASSUME IInv, OpenSrc PROVE IInv'
<1>1. pc = "open_src" /\ pc \notin Between \cup {"return", "crashed"}
      /\ pc \notin HasSrc \cup HasDst /\ pc \in Unopened /\ pc \in Asked
      /\ pc \notin Moving \cup Copied
  BY DEF OpenSrc, At, Between, HasSrc, HasDst, Loop, Unopened, Asked, Moving, Copied
<1>2. Leave \in {"m_copied", "return"} /\ (Copying => Leave # "m_copied")
  BY LeaveIs DEF IInv
<1>3. CASE /\ Opened("src", "src_desc")
           /\ Goto("lseek") /\ KeepCtx
           /\ UNCHANGED <<i, marked, src, dst, answer, errors>>
  <2>1. PICK h \in Int :
           /\ held' = held \cup {<<h, SrcFile>>}
           /\ TP!Inv' /\ UsedIsHeld'
           /\ loc' = [loc EXCEPT !.src_desc = h,
                        !.dst_status = IF "src" = "dst" THEN "short" ELSE @,
                        !.appending = IF "src" = "dst" THEN ctx.do_append ELSE @]
    BY <1>3, OpenedIs DEF SrcFile
  <2>2. /\ loc' \in LocRec /\ loc'.st = loc.st /\ loc'.buf = loc.buf
        /\ loc'.off = loc.off /\ loc'.ask = loc.ask
        /\ loc'.dst_exists = loc.dst_exists /\ loc'.src_desc = h
    BY <2>1 DEF IInv, Typed, LocRec
  <2>3. pc' = "lseek" /\ pc' \in Pcs /\ pc' \in Asked /\ pc' \in Unopened /\ pc' \in HasSrc
        /\ pc' \notin Unasked \cup Moving \cup Loop \cup After \cup Copied
    BY <1>3 DEF Goto, Pcs, Moving, Unasked, Asked, Loop, After, Copied, Unopened, HasSrc
  <2>4. ctx' = ctx /\ Len(loc'.buf) <= BufSize
    BY <1>3, <2>2 DEF KeepCtx, IInv, Typed
  <2>5. Typed'
    BY <1>1, <1>3, <2>2, <2>3, <2>4 DEF IInv, Typed
  <2>6. Table'
    <3>1. held = {}
      BY <1>1 DEF IInv, Table, MayBeOpen
    <3>2. held' \subseteq MayBeOpen'
      BY <3>1, <2>1, <2>2, <2>3 DEF MayBeOpen, SrcFile
    <3> QED BY <3>2, <2>1 DEF Table
  <2>7. Behind'
    BY <1>1, <1>3, <2>4, BehindKept DEF IInv
  <2>8. Ahead'
    BY <1>1, <1>3, <2>3, <2>4, AheadKept DEF IInv
  <2>9. Chosen'
    BY <1>1, <1>3, <2>2, <2>3, <2>4 DEF IInv, Context, Chosen, CopyChoice, Copying
  <2>10. Context'
    BY <1>1, <1>3, <2>2, <2>3, <2>4, <2>9 DEF IInv, Context, Copying
  <2>11. Written'
    BY <2>3 DEF Written, Copied
  <2> QED BY <2>5, <2>6, <2>7, <2>8, <2>10, <2>11 DEF IInv
<1>4. CASE Fails(Leave, NoAppend)
  <2>1. ~NoAppend.do_append
    BY DEF IInv, Typed, CtxRec, NoAppend
  <2> QED BY <1>1, <1>2, <1>4, <2>1, FailsStep
<1> QED BY <1>3, <1>4 DEF OpenSrc

LEMMA LseekStep == ASSUME IInv, Lseek PROVE IInv'
<1>1. pc = "lseek" /\ pc \notin Between \cup {"return", "crashed"}
      /\ pc \in Asked /\ pc \in Unopened /\ pc \notin HasDst
      /\ pc' = "fstat_src" /\ Quiet
  BY DEF Lseek, At, Goto, Between, HasDst, Loop, Unopened, Asked
<1>2. pc' \in Pcs /\ pc' \in Asked /\ pc' \in Unopened /\ pc' \in HasSrc
      /\ pc' \notin Unasked \cup Moving \cup Loop \cup After \cup Copied
  BY <1>1 DEF Pcs, Moving, Unasked, Asked, Loop, After, Copied, Unopened, HasSrc
<1>3. Chosen /\ loc.off = 0 /\ i \in Files
  BY <1>1 DEF IInv, Context, Chosen, Typed, Between, Files
<1>4. /\ loc' \in LocRec /\ loc'.st = loc.st /\ loc'.buf = loc.buf
      /\ loc'.off = ctx'.do_reget /\ loc'.ask = loc.ask
      /\ loc'.dst_exists = loc.dst_exists
      /\ loc'.src_desc = loc.src_desc /\ loc'.dest_desc = loc.dest_desc
      /\ ctx' \in CtxRec /\ ctx'.operation = ctx.operation
      /\ ctx'.replace_result = ctx.replace_result
      /\ \/ ctx' = ctx
         \/ ctx'.do_reget = 0 /\ ~ctx'.do_append /\ ctx.do_reget # 0
  <2>1. CASE loc' = [loc EXCEPT !.off = ctx.do_reget] /\ KeepCtx
    BY <2>1 DEF IInv, Typed, LocRec, CtxRec, KeepCtx
  <2>2. CASE /\ ctx.do_reget # 0
             /\ ctx' = [ctx EXCEPT !.do_reget = 0, !.do_append = FALSE]
             /\ UNCHANGED loc
    BY <2>2, <1>3, CopyAssumption DEF IInv, Typed, LocRec, CtxRec
  <2> QED BY <2>1, <2>2 DEF Lseek
<1>5. Len(loc'.buf) <= BufSize
  BY <1>4 DEF IInv, Typed
<1>6. Typed' /\ Table' /\ Behind' /\ Ahead'
  BY <1>1, <1>2, <1>4, <1>5, QuietTurn
<1>7. Chosen'
  <2>1. Copying' = Copying /\ dst' = dst /\ i' = i /\ answer' = answer
    BY <1>1, <1>4 DEF Copying, Quiet
  <2>2. Copying => CopyChoice(answer[i])'
    <3>1. CASE ctx' = ctx
      BY <3>1, <2>1, <1>3, <1>4 DEF Chosen, CopyChoice
    <3>2. CASE ctx'.do_reget = 0 /\ ~ctx'.do_append /\ ctx.do_reget # 0
      BY <3>2, <2>1, <1>3, <1>4 DEF Chosen, CopyChoice
    <3> QED BY <3>1, <3>2, <1>4
  <2>3. ~Copying => ctx'.do_reget = 0
    BY <1>3, <1>4 DEF Chosen
  <2> QED BY <1>1, <1>3, <1>4, <2>1, <2>2, <2>3 DEF Chosen
<1>8. Context'
  BY <1>1, <1>2, <1>4, <1>7 DEF IInv, Context, Copying, Quiet
<1>9. Written'
  BY <1>1, <1>2 DEF Written, Copied
<1> QED BY <1>6, <1>8, <1>9 DEF IInv

LEMMA FstatSrcStep == ASSUME IInv, FstatSrc PROVE IInv'
<1>1. pc = "fstat_src" /\ pc \notin Between \cup {"return", "crashed"}
      /\ pc \in Asked /\ pc \in Unopened /\ pc \notin HasDst /\ pc \notin Moving \cup Copied
  BY DEF FstatSrc, At, Between, HasDst, Loop, Unopened, Asked, Moving, Copied
<1>2. CASE Goto("open_dst") /\ UNCHANGED <<ctx, loc>> /\ Quiet
  <2>1. pc' = "open_dst" /\ pc' \in Pcs /\ pc' \in Asked /\ pc' \in HasSrc
        /\ pc' \notin Unasked \cup Moving \cup Loop \cup After \cup Copied
    BY <1>2 DEF Goto, Pcs, Moving, Unasked, Asked, Loop, After, Copied, HasSrc
  <2>2. ctx' \in CtxRec /\ loc' \in LocRec /\ Len(loc'.buf) <= BufSize
    BY <1>2 DEF IInv, Typed
  <2>3. Typed' /\ Table' /\ Behind' /\ Ahead'
    BY <1>1, <1>2, <2>1, <2>2, QuietTurn
  <2>4. Chosen'
    BY <1>1, <1>2, <2>1 DEF IInv, Context, Chosen, CopyChoice, Copying, Quiet
  <2>5. Context'
    BY <1>1, <1>2, <2>1, <2>4 DEF IInv, Context, Copying, Quiet
  <2>6. Written'
    BY <2>1 DEF Written, Copied
  <2> QED BY <2>3, <2>5, <2>6 DEF IInv
<1>3. CASE Fails("close_src", NoAppend)
  <2>1. ~NoAppend.do_append
    BY DEF IInv, Typed, CtxRec, NoAppend
  <2> QED BY <1>1, <1>3, <2>1, FailsStep
<1> QED BY <1>2, <1>3 DEF FstatSrc

(* What the target begins with, and what is still to be read, are what was *)
(* asked for: the old content for append and reget, nothing otherwise.     *)
LEMMA TargetIs ==
  ASSUME IInv, pc = "open_dst", loc.dst_exists \/ dst[i].kind = "none"
  PROVE  /\ Target \in FileRec /\ Target.kind = "file"
         /\ Whole((Target.data \o << >>) \o Rest(i, loc.off))
<1>1. i \in Files /\ pc \in Asked /\ loc.off = ctx.do_reget
  BY DEF IInv, Typed, Between, Files, Asked, Context, Chosen
<1>2. dst[i] \in FileRec /\ dst[i].data \in Data
      /\ loc.off \in 0 .. SrcLen /\ loc.dst_exists \in BOOLEAN
  BY <1>1 DEF IInv, Typed, FileRec, LocRec
<1>3. << >> \in Data /\ RegFile(<< >>) \in FileRec /\ RegFile(<< >>).kind = "file"
      /\ RegFile(<< >>).data = << >>
  BY EmptySeq DEF Data, RegFile, FileRec
<1>4. Rest(i, loc.off) \in Data /\ Rest(i, 0) = SrcData(i) /\ SrcData(i) \in Data
  BY <1>1, <1>2, RestIs, SrcDataIs, CopyAssumption
<1>5. Target = IF loc.dst_exists /\ ctx.do_append THEN dst[i] ELSE RegFile(<< >>)
  BY DEF Target
<1>6. loc.dst_exists => dst[i].kind = "file"
  BY <1>1 DEF IInv, Context
<1>7. Target \in FileRec /\ Target.kind = "file" /\ Target.data \in Data
  BY <1>2, <1>3, <1>5, <1>6
<1>8. (Target.data \o << >>) \o Rest(i, loc.off) = Target.data \o Rest(i, loc.off)
  BY <1>7, DataJoins
<1>9. CASE ~Copying
  <2>1. loc.off = 0
    BY <1>1, <1>9 DEF IInv, Context, Chosen
  <2>2. Holds(Target.data \o Rest(i, loc.off), i)
    BY <2>1, <1>4, <1>7 DEF Holds
  <2> QED BY <2>2, <1>7, <1>8, <1>9 DEF Whole
<1>10. CASE Copying
  <2> DEFINE a == answer[i]
  <2>1. CopyChoice(a)
    BY <1>1, <1>10 DEF IInv, Context, Chosen
  <2>2. CASE ~ctx.do_append /\ ctx.do_reget = 0
             /\ a.choice \in {"none", "yes", "always", "reget"}
    <3>1. Target.data \o Rest(i, loc.off) = SrcData(i)
      BY <2>2, <1>1, <1>3, <1>4, <1>5, DataJoins
    <3>2. SrcData(i) \in Wanted(i)
      BY <2>2 DEF Wanted
    <3> QED BY <3>1, <3>2, <1>7, <1>8, <1>10 DEF Whole
  <2>3. CASE /\ loc.dst_exists /\ a.choice = "append" /\ a.old = dst[i].data
             /\ ctx.do_append /\ ctx.do_reget = 0
    <3>1. Target.data \o Rest(i, loc.off) = a.old \o SrcData(i)
      BY <2>3, <1>1, <1>4, <1>5
    <3>2. a.old \o SrcData(i) \in Wanted(i)
      BY <2>3 DEF Wanted
    <3> QED BY <3>1, <3>2, <1>7, <1>8, <1>10 DEF Whole
  <2>4. CASE /\ loc.dst_exists /\ a.choice = "reget" /\ a.old = dst[i].data
             /\ ctx.do_append /\ ctx.do_reget = Len(a.old)
    <3>1. Target.data \o Rest(i, loc.off) = a.old \o Rest(i, Len(a.old))
      BY <2>4, <1>1, <1>5
    <3>2. a.old \o Rest(i, Len(a.old)) \in Wanted(i)
      BY <2>4 DEF Wanted, Rest
    <3> QED BY <3>1, <3>2, <1>7, <1>8, <1>10 DEF Whole
  <2> QED BY <2>1, <2>2, <2>3, <2>4 DEF CopyChoice
<1> QED BY <1>7, <1>9, <1>10

(* Once the target is open there is no choice left to make.                *)
LEMMA ContextLater ==
  ASSUME IInv, ctx'.operation = ctx.operation,
         ctx'.replace_result = ctx.replace_result,
         Copying => ~ctx'.do_append,
         pc' \in Loop \cup After \cup {"return", "m_copied", "crashed"},
         Copying => pc' # "m_copied"
  PROVE  Context'
<1>1. /\ pc' \notin Moving \cup Unasked \cup Asked \cup {"stat_src", "query"}
      /\ Copying => pc' \notin Copied
  BY DEF Moving, Unasked, Asked, Loop, After, Copied
<1> QED BY <1>1 DEF IInv, Context, Copying

LEMMA OpenDstStep == ASSUME IInv, OpenDst PROVE IInv'
<1>1. pc = "open_dst" /\ pc \notin Between \cup {"return", "crashed"}
      /\ pc \in Asked /\ pc \in Unopened /\ pc \notin HasDst /\ pc \in HasSrc
      /\ pc \notin Moving \cup Copied
  BY DEF OpenDst, At, Between, HasDst, HasSrc, Loop, Unopened, Asked, Moving, Copied
<1>2. Chosen /\ i \in Files
  BY <1>1 DEF IInv, Context, Typed, Files, Between
<1>3. CASE /\ ~loc.dst_exists
           /\ Goto("close_src") /\ UNCHANGED <<ctx, loc>> /\ Quiet
  <2>1. loc' = [loc EXCEPT !.st = loc.st] /\ loc.st \in Status /\ KeepCtx
    BY <1>3 DEF IInv, Typed, LocRec, KeepCtx
  <2>2. loc.st # CONT /\ (Copying => ~ctx.do_append)
    BY <1>2, <1>3 DEF Chosen, CopyChoice
  <2> QED BY <1>1, <1>3, <2>1, <2>2, StopStep DEF Goto
<1>4. CASE /\ loc.dst_exists \/ dst[i].kind = "none"
           /\ Opened("dst", "dest_desc")
           /\ dst' = [dst EXCEPT ![i] = Target]
           /\ ctx' = NoAppend
           /\ Goto("fstat_dst")
           /\ UNCHANGED <<i, marked, src, answer, errors>>
  <2>1. PICK h \in Int :
           /\ held' = held \cup {<<h, DstFile>>}
           /\ TP!Inv' /\ UsedIsHeld'
           /\ loc' = [loc EXCEPT !.dest_desc = h,
                        !.dst_status = IF "dst" = "dst" THEN "short" ELSE @,
                        !.appending = IF "dst" = "dst" THEN ctx.do_append ELSE @]
    BY <1>4, OpenedIs DEF DstFile
  <2>2. loc' = [loc EXCEPT !.dest_desc = h, !.dst_status = "short",
                           !.appending = ctx.do_append]
    BY <2>1
  <2>3. /\ loc' \in LocRec /\ loc'.st = loc.st /\ loc'.buf = loc.buf
        /\ loc'.off = loc.off /\ loc'.src_desc = loc.src_desc /\ loc'.dest_desc = h
    BY <2>2 DEF IInv, Typed, LocRec, CtxRec
  <2>4. pc' = "fstat_dst" /\ pc' \in Pcs /\ pc' \in Loop /\ pc' \in HasSrc /\ pc' \in HasDst
        /\ pc' \notin Unasked \cup Moving \cup Asked \cup After \cup Copied \cup Unopened
    BY <1>4 DEF Goto, Pcs, Moving, Unasked, Asked, Loop, After, Copied, Unopened, HasSrc,
                HasDst
  <2>5. /\ ctx' \in CtxRec /\ ctx'.operation = ctx.operation
        /\ ctx'.replace_result = ctx.replace_result /\ ~ctx'.do_append
    BY <1>4 DEF NoAppend, IInv, Typed, CtxRec
  <2>6. /\ Target \in FileRec /\ Target.kind = "file"
        /\ Whole((Target.data \o << >>) \o Rest(i, loc.off))
    BY <1>1, <1>4, TargetIs
  <2>7. /\ dst' \in [Files -> FileRec] /\ dst'[i] = Target
        /\ \A f \in Files \ {i} : dst'[f] = dst[f]
    BY <1>2, <1>4, <2>6 DEF IInv, Typed
  <2>8. loc.buf = << >> /\ Len(loc'.buf) <= BufSize
    BY <1>2, <2>3 DEF Chosen, IInv, Typed
  <2>9. Typed'
    BY <1>1, <1>4, <2>3, <2>4, <2>5, <2>7, <2>8 DEF IInv, Typed
  <2>10. Table'
    <3>1. held \subseteq {<<loc.src_desc, SrcFile>>}
      BY <1>1 DEF IInv, Table, MayBeOpen
    <3>2. held' \subseteq MayBeOpen'
      BY <3>1, <2>1, <2>3, <2>4 DEF MayBeOpen, SrcFile, DstFile
    <3> QED BY <3>2, <2>1 DEF Table
  <2>11. Behind'
    BY <1>1, <1>4, <2>5, <2>7, BehindKept DEF IInv
  <2>12. Ahead'
    BY <1>1, <1>4, <2>4, <2>5, <2>6, <2>7, AheadKept DEF IInv
  <2>13. Context'
    BY <2>4, <2>5, ContextLater
  <2>14. Written'
    <3>2. Copying' = Copying /\ Wanted(i)' = Wanted(i) /\ Remaining' = Rest(i, loc.off)
          /\ i' = i
      BY <1>4, <2>3, <2>5 DEF Copying, Wanted, SrcData, Remaining, Rest
    <3>3. Whole((dst[i].data \o loc.buf) \o Remaining)'
      BY <2>3, <2>6, <2>7, <2>8, <3>2 DEF Whole, Holds, SrcData
    <3> QED BY <2>3, <2>4, <2>6, <2>7, <2>8, <3>2, <3>3 DEF Written
  <2> QED BY <2>9, <2>10, <2>11, <2>12, <2>13, <2>14 DEF IInv
<1>5. CASE Fails("close_src", NoAppend)
  <2>1. ~NoAppend.do_append
    BY DEF IInv, Typed, CtxRec, NoAppend
  <2> QED BY <1>1, <1>5, <2>1, FailsStep
<1> QED BY <1>3, <1>4, <1>5 DEF OpenDst

-----------------------------------------------------------------------------
(* The loop.                                                               *)
LEMMA LoopIs ==
  ASSUME IInv, pc \in Loop
  PROVE  /\ pc \notin Between \cup {"return", "crashed"} \cup Unopened \cup Unasked
         /\ pc \in HasSrc /\ pc \in HasDst /\ i \in Files
         /\ Copying => ~ctx.do_append
         /\ dst[i] \in FileRec /\ dst[i].kind = "file" /\ dst[i].data \in Data
         /\ loc.buf \in Data /\ loc.off \in 0 .. SrcLen
         /\ Remaining = Rest(i, loc.off) /\ Rest(i, loc.off) \in Data
         /\ Whole((dst[i].data \o loc.buf) \o Rest(i, loc.off))
         /\ pc # "write" => loc.buf = << >>
<1>1. /\ pc \notin Between \cup {"return", "crashed"} \cup Unopened \cup Unasked
      /\ pc \in HasSrc /\ pc \in HasDst /\ pc \notin Asked
  BY DEF Between, HasSrc, HasDst, Loop, Unopened, Moving, Unasked, Asked
<1>2. i \in Files
  BY <1>1 DEF IInv, Typed, Files
<1>3. dst[i] \in FileRec /\ dst[i].data \in Data /\ loc.buf \in Data
      /\ loc.off \in 0 .. SrcLen
  BY <1>2 DEF IInv, Typed, FileRec, LocRec
<1>4. Copying => ~ctx.do_append
  BY <1>1 DEF IInv, Context
<1>5. /\ dst[i].kind = "file"
      /\ Whole((dst[i].data \o loc.buf) \o Remaining)
      /\ pc # "write" => loc.buf = << >>
  BY DEF IInv, Written
<1>6. Remaining = Rest(i, loc.off)
  BY DEF Remaining, Rest
<1>7. Rest(i, loc.off) \in Data
  BY <1>2, <1>3, RestIs
<1> QED BY <1>1, <1>2, <1>3, <1>4, <1>5, <1>6, <1>7

(* What is whole stays so: Whole looks at the choices for the file.        *)
LEMMA WholeKept ==
  ASSUME i' = i, answer'[i] = answer[i], ctx'.operation = ctx.operation, NEW d
  PROVE  Whole(d)' <=> Whole(d)
BY DEF Whole, Holds, Copying, Wanted, SrcData

LEMMA FstatDstStep == ASSUME IInv, FstatDst PROVE IInv'
<1>1. pc = "fstat_dst" /\ pc \in Loop
  BY DEF FstatDst, At, Loop
<1>2. CASE Goto("progress") /\ UNCHANGED <<ctx, loc>> /\ Quiet
  <2>1. pc' = "progress" /\ pc' \in Pcs /\ pc' \in Loop /\ pc' \in HasSrc /\ pc' \in HasDst
        /\ pc' \notin Unopened \cup Unasked \cup After
    BY <1>2 DEF Goto, Pcs, Moving, Unasked, Asked, Loop, After, Unopened, HasSrc, HasDst
  <2>2. ctx' \in CtxRec /\ loc' \in LocRec /\ Len(loc'.buf) <= BufSize
    BY <1>2 DEF IInv, Typed
  <2>3. Typed' /\ Table' /\ Behind' /\ Ahead'
    BY <1>1, <1>2, <2>1, <2>2, LoopIs, QuietTurn
  <2>4. Context'
    BY <1>1, <1>2, <2>1, LoopIs, ContextLater
  <2>5. Written'
    <3>1. UNCHANGED <<i, dst, answer, ctx, loc>>
      BY <1>2 DEF Quiet
    <3> QED BY <3>1, <1>1, <2>1 DEF IInv, Written, Whole, Holds, SrcData, Copying,
               Wanted, Remaining
  <2> QED BY <2>3, <2>4, <2>5 DEF IInv
<1>3. CASE Fails("close_src", ctx)
  BY <1>1, <1>3, LoopIs, FailsStep
<1> QED BY <1>2, <1>3 DEF FstatDst

LEMMA ProgressStep == ASSUME IInv, Progress PROVE IInv'
<1>1. pc = "progress" /\ pc \in Loop /\ KeepCtx /\ Quiet
  BY DEF Progress, At, Loop
<1>2. PICK a \in {CONT, SKIP, ABORT} :
       /\ loc' = [loc EXCEPT !.st = a]
       /\ Goto(IF a = CONT THEN "read" ELSE "close_src")
  BY DEF Progress
<1>3. a \in Status
  BY DEF Status
<1>4. CASE a # CONT
  BY <1>1, <1>2, <1>3, <1>4, LoopIs, StopStep DEF Goto
<1>5. CASE a = CONT
  <2>1. pc' = "read" /\ pc' \in Pcs /\ pc' \in Loop /\ pc' \in HasSrc /\ pc' \in HasDst
        /\ pc' \notin Unopened \cup Unasked \cup After
    BY <1>2, <1>5 DEF Goto, Pcs, Moving, Unasked, Asked, Loop, After, Unopened, HasSrc,
                      HasDst
  <2>2. /\ loc' \in LocRec /\ loc'.buf = loc.buf /\ loc'.off = loc.off
        /\ loc'.src_desc = loc.src_desc /\ loc'.dest_desc = loc.dest_desc
    BY <1>2, <1>3, SetSt DEF IInv
  <2>3. ctx' = ctx /\ ctx' \in CtxRec /\ Len(loc'.buf) <= BufSize
    BY <1>1, <2>2 DEF IInv, Typed, KeepCtx
  <2>4. Typed' /\ Table' /\ Behind' /\ Ahead'
    BY <1>1, <2>1, <2>2, <2>3, LoopIs, QuietTurn
  <2>5. Context'
    BY <1>1, <2>1, <2>3, LoopIs, ContextLater
  <2>6. Written'
    <3>1. UNCHANGED <<i, dst, answer>>
      BY <1>1 DEF Quiet
    <3> QED BY <3>1, <1>1, <2>1, <2>2, <2>3 DEF IInv, Written, Whole, Holds, SrcData,
               Copying, Wanted, Remaining
  <2> QED BY <2>4, <2>5, <2>6 DEF IInv
<1> QED BY <1>4, <1>5

LEMMA ReadStep == ASSUME IInv, Read PROVE IInv'
<1>1. pc = "read" /\ pc \in Loop
  BY DEF Read, At, Loop
<1>2. /\ dst[i].data \in Data /\ loc.off \in 0 .. SrcLen /\ i \in Files
      /\ Remaining = Rest(i, loc.off) /\ Rest(i, loc.off) \in Data
      /\ Whole(dst[i].data \o Rest(i, loc.off))
      /\ dst[i].kind = "file"
  BY <1>1, LoopIs, DataJoins
<1>3. CASE /\ \E n \in 0 .. BufSize :
                /\ n <= Len(Remaining)
                /\ loc' = [loc EXCEPT !.buf = SubSeq(Remaining, 1, n),
                                      !.off = @ + n]
           /\ Goto("write") /\ KeepCtx /\ Quiet
  <2>1. PICK n \in 0 .. BufSize :
          /\ n <= Len(Remaining)
          /\ loc' = [loc EXCEPT !.buf = SubSeq(Remaining, 1, n), !.off = @ + n]
    BY <1>3
  <2> DEFINE b == SubSeq(Rest(i, loc.off), 1, n)
  <2>2. n \in Nat /\ n <= BufSize
    BY CopyAssumption
  <2>3. /\ loc.off + n \in 0 .. SrcLen /\ b \in Data /\ Len(b) = n
        /\ b \o Rest(i, loc.off + n) = Rest(i, loc.off)
    BY <1>2, <2>1, <2>2, ReadSplits
  <2>4. loc' = [loc EXCEPT !.buf = b, !.off = loc.off + n]
    BY <1>2, <2>1
  <2> HIDE DEF b
  <2>5. /\ loc' \in LocRec /\ loc'.buf = b /\ loc'.off = loc.off + n
        /\ loc'.src_desc = loc.src_desc /\ loc'.dest_desc = loc.dest_desc
    BY <2>3, <2>4 DEF IInv, Typed, LocRec
  <2>6. ctx' = ctx /\ ctx' \in CtxRec /\ Len(loc'.buf) <= BufSize
        /\ UNCHANGED <<i, dst, answer>>
    BY <1>3, <2>2, <2>3, <2>5 DEF IInv, Typed, KeepCtx, Quiet
  <2>7. pc' = "write" /\ pc' \in Pcs /\ pc' \in Loop /\ pc' \in HasSrc /\ pc' \in HasDst
        /\ pc' \notin Unopened \cup Unasked \cup After
    BY <1>3 DEF Goto, Pcs, Moving, Unasked, Asked, Loop, After, Unopened, HasSrc, HasDst
  <2>8. Typed' /\ Table' /\ Behind' /\ Ahead'
    BY <1>1, <1>3, <2>5, <2>6, <2>7, LoopIs, QuietTurn
  <2>9. Context'
    BY <1>1, <2>6, <2>7, LoopIs, ContextLater
  <2>10. Written'
    <3>1. Rest(i, loc.off + n) \in Data
      BY <1>2, <2>3, RestIs
    <3>2. (dst[i].data \o b) \o Rest(i, loc.off + n) = dst[i].data \o Rest(i, loc.off)
      <4>1. dst[i].data \in Data /\ b \in Data
        BY <1>2, <2>3
      <4>2. (dst[i].data \o b) \o Rest(i, loc.off + n)
             = dst[i].data \o (b \o Rest(i, loc.off + n))
        BY <3>1, <4>1, Associates, Zenon
      <4> QED BY <4>2, <2>3
    <3>3. Remaining' = Rest(i, loc.off + n)
      BY <2>5, <2>6 DEF Remaining, Rest, SrcData
    <3>4. Whole((dst[i].data \o loc.buf) \o Remaining)'
      BY <1>2, <2>5, <2>6, <3>2, <3>3 DEF Whole, Holds, SrcData, Copying, Wanted
    <3> QED BY <1>2, <2>6, <2>7, <3>4 DEF Written
  <2> QED BY <2>8, <2>9, <2>10 DEF IInv
<1>4. CASE /\ Remaining = << >>
           /\ loc' = [loc EXCEPT !.dst_status = "full"]
           /\ Goto("close_src") /\ KeepCtx /\ Quiet
  <2>1. /\ loc' \in LocRec /\ loc'.buf = loc.buf /\ loc'.off = loc.off
        /\ loc'.src_desc = loc.src_desc /\ loc'.dest_desc = loc.dest_desc
        /\ loc'.dst_status = "full"
    BY <1>4 DEF IInv, Typed, LocRec
  <2>2. ctx' = ctx /\ ctx' \in CtxRec /\ Len(loc'.buf) <= BufSize
        /\ UNCHANGED <<i, dst, answer>>
    BY <1>4, <2>1 DEF IInv, Typed, KeepCtx, Quiet
  <2>3. pc' = "close_src" /\ pc' \in Pcs /\ pc' \in After /\ pc' \in HasSrc /\ pc' \in HasDst
        /\ pc' \notin Unopened \cup Unasked \cup Loop
    BY <1>4 DEF Goto, Pcs, Moving, Unasked, Asked, Loop, After, Unopened, HasSrc, HasDst
  <2>4. Typed' /\ Table' /\ Behind' /\ Ahead'
    BY <1>1, <1>4, <2>1, <2>2, <2>3, LoopIs, QuietTurn
  <2>5. Context'
    BY <1>1, <2>2, <2>3, LoopIs, ContextLater
  <2>6. Written'
    <3>1. Whole(dst[i].data)
      BY <1>2, <1>4, DataJoins
    <3>2. Whole(dst[i].data)'
      BY <3>1, <2>2 DEF Whole, Holds, SrcData, Copying, Wanted
    <3> QED BY <1>2, <2>1, <2>2, <2>3, <3>2 DEF Written
  <2> QED BY <2>4, <2>5, <2>6 DEF IInv
<1>5. CASE Fails("close_src", ctx)
  BY <1>1, <1>5, LoopIs, FailsStep
<1> QED BY <1>3, <1>4, <1>5 DEF Read

LEMMA WriteStep == ASSUME IInv, Write PROVE IInv'
<1>1. pc = "write" /\ pc \in Loop
  BY DEF Write, At, Loop
<1>2. /\ pc \notin Between \cup {"return", "crashed"} \cup Unopened \cup Unasked
      /\ dst[i].data \in Data /\ loc.off \in 0 .. SrcLen /\ i \in Files
      /\ loc.buf \in Data
      /\ Remaining = Rest(i, loc.off) /\ Rest(i, loc.off) \in Data
      /\ Whole((dst[i].data \o loc.buf) \o Rest(i, loc.off))
      /\ dst[i].kind = "file" /\ dst[i] \in FileRec
  BY <1>1, LoopIs
<1>3. CASE loc.buf = << >> /\ Goto("progress") /\ UNCHANGED <<ctx, loc>> /\ Quiet
  <2>1. pc' = "progress" /\ pc' \in Pcs /\ pc' \in Loop /\ pc' \in HasSrc /\ pc' \in HasDst
        /\ pc' \notin Unopened \cup Unasked \cup After
    BY <1>3 DEF Goto, Pcs, Moving, Unasked, Asked, Loop, After, Unopened, HasSrc, HasDst
  <2>2. ctx' \in CtxRec /\ loc' \in LocRec /\ Len(loc'.buf) <= BufSize
    BY <1>3 DEF IInv, Typed
  <2>3. Typed' /\ Table' /\ Behind' /\ Ahead'
    BY <1>1, <1>3, <2>1, <2>2, LoopIs, QuietTurn
  <2>4. Context'
    BY <1>1, <1>3, <2>1, LoopIs, ContextLater
  <2>5. Written'
    <3>1. UNCHANGED <<i, dst, answer, ctx, loc>>
      BY <1>3 DEF Quiet
    <3> QED BY <3>1, <1>1, <1>3, <2>1 DEF IInv, Written, Whole, Holds, SrcData, Copying,
               Wanted, Remaining
  <2> QED BY <2>3, <2>4, <2>5 DEF IInv
<1>4. ASSUME NEW n \in 1 .. Len(loc.buf),
             dst' = [dst EXCEPT ![i].data = @ \o SubSeq(loc.buf, 1, n)],
             loc' = [loc EXCEPT !.buf = SubSeq(@, n + 1, Len(@))],
             UNCHANGED <<pc, i, marked, src, ctx, answer, errors, table>>
      PROVE  IInv'
  <2> DEFINE b1 == SubSeq(loc.buf, 1, n)
             b2 == SubSeq(loc.buf, n + 1, Len(loc.buf))
             d == dst[i].data \o b1
  <2>1. b1 \in Data /\ b2 \in Data /\ Len(b2) <= Len(loc.buf) /\ b1 \o b2 = loc.buf
    BY <1>2, <1>4, WriteSplits
  <2>2. loc' = [loc EXCEPT !.buf = b2]
    BY <1>4
  <2>3. dst' = [dst EXCEPT ![i].data = d]
    BY <1>4
  <2> HIDE DEF b1, b2
  <2>4. d \in Data
    BY <1>2, <2>1, DataJoins
  <2>5. d \o b2 = dst[i].data \o loc.buf
    <3>1. (dst[i].data \o b1) \o b2 = dst[i].data \o (b1 \o b2)
      BY <1>2, <2>1, Associates, Zenon
    <3> QED BY <3>1, <2>1
  <2> HIDE DEF d
  <2>6. /\ loc' \in LocRec /\ loc'.buf = b2 /\ loc'.off = loc.off /\ loc'.st = loc.st
        /\ loc'.src_desc = loc.src_desc /\ loc'.dest_desc = loc.dest_desc
    BY <2>1, <2>2 DEF IInv, Typed, LocRec
  <2>7. /\ dst' \in [Files -> FileRec] /\ dst'[i].data = d /\ dst'[i].kind = "file"
        /\ \A f \in Files \ {i} : dst'[f] = dst[f]
    BY <1>2, <2>3, <2>4 DEF IInv, Typed, FileRec
  <2>8. Len(loc'.buf) <= BufSize
    <3>1. Len(b2) \in Nat /\ Len(loc.buf) \in Nat /\ BufSize \in Nat
      BY <1>2, <2>1, CopyAssumption DEF Data
    <3> QED BY <3>1, <2>1, <2>6 DEF IInv, Typed
  <2>9. Typed'
    BY <1>4, <2>6, <2>7, <2>8 DEF IInv, Typed
  <2>10. Table'
    BY <1>1, <1>2, <1>4, <2>6, TableKept DEF IInv
  <2>11. Behind'
    BY <1>2, <1>4, <2>7, BehindKept DEF IInv
  <2>12. Ahead'
    BY <1>2, <1>4, <2>7, AheadKept DEF IInv
  <2>13. Context'
    BY <1>1, <1>4, LoopIs, ContextLater
  <2>14. Written'
    <3>1. Remaining' = Rest(i, loc.off)
      BY <1>4, <2>6 DEF Remaining, Rest, SrcData
    <3>2. Whole((dst[i].data \o loc.buf) \o Remaining)'
      BY <1>2, <1>4, <2>5, <2>6, <2>7, <3>1 DEF Whole, Holds, SrcData, Copying, Wanted
    <3>3. pc' = "write" /\ pc' \notin After
      BY <1>1, <1>4 DEF After
    <3> QED BY <1>4, <2>7, <3>2, <3>3 DEF Written
  <2> QED BY <2>9, <2>10, <2>11, <2>12, <2>13, <2>14 DEF IInv
<1>5. CASE Fails("close_src", ctx)
  BY <1>1, <1>5, LoopIs, FailsStep
<1> QED BY <1>3, <1>4, <1>5 DEF Write

-----------------------------------------------------------------------------
(* Closing: whatever mc_close returns, the handle is not held any more     *)
(* when the step goes on, and no result becomes CONT.                      *)
Closed(p, field, next) ==
  /\ pc = p
  /\ UNCHANGED <<i, marked, src, dst, ctx, answer>>
  /\ errors' \in 0 .. MaxErrors
  /\ \E s \in Status : loc' = [loc EXCEPT !.st = s] /\ (s = CONT => loc.st = CONT)
  /\ TP!Inv' /\ UsedIsHeld'
  /\ \/ pc' = "crashed"
     \/ pc' = p /\ held' \subseteq held
     \/ /\ pc' = next /\ held' \subseteq held
        /\ \A g : <<loc[field], g>> \notin held'

LEMMA CloseIs ==
  ASSUME IInv, NEW p, NEW field \in {"src_desc", "dest_desc"}, NEW next,
         NEW kept \in SUBSET {SKIP, RETRY}, p # "crashed",
         Close(p, field, next, kept)
  PROVE  Closed(p, field, next)
<1> DEFINE h == loc[field]
<1>1. pc = p /\ TP!Inv /\ UsedIsHeld /\ errors \in 0 .. MaxErrors /\ MaxErrors \in Nat
  BY CopyAssumption DEF Close, At, IInv, Table, Typed
<1>2. loc.st \in Status /\ loc = [loc EXCEPT !.st = loc.st]
  BY DEF IInv, Typed, LocRec
<1>3. \A a \in {SKIP, RETRY, ABORT} :
        LET s == IF a \in kept THEN loc.st ELSE a IN
        s \in Status /\ (s = CONT => loc.st = CONT)
  BY <1>2 DEF Status, SKIP, RETRY, ABORT, CONT
<1>4. CASE h = NoDesc /\ Goto(next) /\ UNCHANGED <<ctx, loc>> /\ Quiet
  <2>1. TP!Inv' /\ UsedIsHeld' /\ held' = held
    BY <1>1, <1>4, TableStutters DEF Quiet
  <2>2. \A g : <<h, g>> \notin held'
    BY <1>1, <1>4, <2>1, NotHeld
  <2> QED BY <1>1, <1>2, <1>4, <2>1, <2>2 DEF Closed, Goto, Quiet
<1>5. CASE /\ \E f \in T!File : T!McClose(h, f)
           /\ \/ /\ Goto(next) /\ UNCHANGED <<loc, errors>>
              \/ /\ errors < MaxErrors /\ errors' = errors + 1
                 /\ \E a \in {SKIP, RETRY, ABORT} :
                      /\ loc' = [loc EXCEPT !.st = IF a \in kept THEN @ ELSE a]
                      /\ IF a = RETRY THEN UNCHANGED pc ELSE Goto(next)
           /\ UNCHANGED <<i, marked, src, dst, ctx, answer>>
  <2>1. PICK f \in T!File : T!McClose(h, f)
    BY <1>5
  <2>2. TP!Inv' /\ UsedIsHeld' /\ held' \subseteq held /\ \A g : <<h, g>> \notin held'
    BY <1>1, <2>1, TableClosed
  <2>3. CASE Goto(next) /\ UNCHANGED <<loc, errors>>
    BY <1>1, <1>2, <1>5, <2>2, <2>3 DEF Closed, Goto
  <2>4. CASE /\ errors < MaxErrors /\ errors' = errors + 1
             /\ \E a \in {SKIP, RETRY, ABORT} :
                  /\ loc' = [loc EXCEPT !.st = IF a \in kept THEN @ ELSE a]
                  /\ IF a = RETRY THEN UNCHANGED pc ELSE Goto(next)
    <3>1. PICK a \in {SKIP, RETRY, ABORT} :
            /\ loc' = [loc EXCEPT !.st = IF a \in kept THEN @ ELSE a]
            /\ IF a = RETRY THEN UNCHANGED pc ELSE Goto(next)
      BY <2>4
    <3>2. loc' = [loc EXCEPT !.st = IF a \in kept THEN loc.st ELSE a]
      BY <3>1
    <3>3. pc' = p \/ pc' = next
      BY <3>1, <1>1 DEF Goto
    <3>4. errors' \in 0 .. MaxErrors
      BY <1>1, <2>4
    <3> QED BY <1>1, <1>3, <1>5, <2>2, <3>2, <3>3, <3>4 DEF Closed
  <2> QED BY <1>5, <2>3, <2>4
<1>6. CASE /\ h # NoDesc /\ T!Lookup(h) = "null"
           /\ \E a \in {SKIP, RETRY, ABORT} :
                /\ loc' = [loc EXCEPT !.st = IF a \in kept THEN @ ELSE a]
                /\ IF a = RETRY THEN UNCHANGED pc ELSE Goto(next)
           /\ KeepCtx /\ Quiet
  <2>1. TP!Inv' /\ UsedIsHeld' /\ held' = held
    BY <1>1, <1>6, TableStutters DEF Quiet
  <2>2. \A g : <<h, g>> \notin held'
    BY <1>1, <1>6, <2>1, NotHeld
  <2>3. PICK a \in {SKIP, RETRY, ABORT} :
          /\ loc' = [loc EXCEPT !.st = IF a \in kept THEN @ ELSE a]
          /\ IF a = RETRY THEN UNCHANGED pc ELSE Goto(next)
    BY <1>6
  <2>4. loc' = [loc EXCEPT !.st = IF a \in kept THEN loc.st ELSE a]
    BY <2>3
  <2>5. pc' = p \/ pc' = next
    BY <2>3, <1>1 DEF Goto
  <2> QED BY <1>1, <1>3, <1>6, <2>1, <2>2, <2>4, <2>5 DEF Closed, Quiet, KeepCtx
<1>7. CASE /\ h # NoDesc /\ T!Lookup(h) = "wild"
           /\ Goto("crashed") /\ UNCHANGED <<ctx, loc>> /\ Quiet
  <2>1. TP!Inv' /\ UsedIsHeld' /\ held' = held
    BY <1>1, <1>7, TableStutters DEF Quiet
  <2> QED BY <1>1, <1>2, <1>7, <2>1 DEF Closed, Goto, Quiet
<1> QED BY <1>4, <1>5, <1>6, <1>7, Zenon DEF Close

(* The files are closed or on the way to be: the result says whether the   *)
(* target is complete.                                                     *)
LEMMA AfterKept ==
  ASSUME IInv, pc \in After, UNCHANGED <<i, dst, ctx>>, answer'[i] = answer[i],
         loc'.st = CONT => loc.st = CONT,
         loc'.dst_status = loc.dst_status,
         pc' \in After \cup {"m_copied", "return", "crashed"},
         Copying => pc' # "m_copied"
  PROVE  Context' /\ Written'
<1>1. pc \notin Asked
  BY DEF After, Asked
<1>2. Context'
  BY <1>1, ContextLater DEF IInv, Context
<1>3. loc.st = CONT => dst[i].kind = "file" /\ Whole(dst[i].data)
                       /\ loc.dst_status = "full"
  BY DEF IInv, Written
<1>4. Whole(dst[i].data)' <=> Whole(dst[i].data)
  BY DEF Whole, Holds, Copying, Wanted, SrcData
<1>5. pc' \notin Loop /\ pc' # "m_unlink"
  BY DEF After, Loop
<1>6. Written'
  BY <1>3, <1>4, <1>5 DEF Written
<1> QED BY <1>2, <1>6

LEMMA CloseStep ==
  ASSUME IInv,
         \/ CloseSrc
         \/ CloseDst
  PROVE  IInv'
<1>0. PICK p \in {"close_src", "close_dst"}, field \in {"src_desc", "dest_desc"},
           next \in {"close_dst", "attributes"} :
        /\ Closed(p, field, next)
        /\ \/ p = "close_src" /\ field = "src_desc" /\ next = "close_dst"
           \/ p = "close_dst" /\ field = "dest_desc" /\ next = "attributes"
  <2>1. CASE CloseSrc
    <3>1. {SKIP, RETRY} \in SUBSET {SKIP, RETRY}
      OBVIOUS
    <3>2. Closed("close_src", "src_desc", "close_dst")
      BY <2>1, <3>1, CloseIs DEF CloseSrc
    <3> QED BY <3>2
  <2>2. CASE CloseDst
    <3>1. {RETRY} \in SUBSET {SKIP, RETRY}
      OBVIOUS
    <3>2. Closed("close_dst", "dest_desc", "attributes")
      BY <2>2, <3>1, CloseIs DEF CloseDst
    <3> QED BY <3>2
  <2> QED BY <2>1, <2>2
<1>1. /\ pc = p
      /\ UNCHANGED <<i, marked, src, dst, ctx, answer>>
      /\ errors' \in 0 .. MaxErrors
      /\ \E s \in Status : loc' = [loc EXCEPT !.st = s] /\ (s = CONT => loc.st = CONT)
      /\ TP!Inv' /\ UsedIsHeld'
      /\ \/ pc' = "crashed"
         \/ pc' = p /\ held' \subseteq held
         \/ /\ pc' = next /\ held' \subseteq held
            /\ \A g : <<loc[field], g>> \notin held'
      /\ \/ p = "close_src" /\ field = "src_desc" /\ next = "close_dst"
         \/ p = "close_dst" /\ field = "dest_desc" /\ next = "attributes"
  BY <1>0 DEF Closed
<1>2. /\ pc \in After /\ pc \notin Between \cup {"return", "crashed"}
      /\ pc' \in Pcs /\ pc' \in After \cup {"crashed"}
      /\ pc' \notin Unopened \cup Unasked \cup {"m_copied"}
  BY <1>1 DEF After, Pcs, Between, Unopened, Moving, Unasked, Asked
<1>3. PICK s \in Status : loc' = [loc EXCEPT !.st = s] /\ (s = CONT => loc.st = CONT)
  BY <1>1
<1>4. /\ loc' \in LocRec /\ loc'.st = s /\ loc'.dst_status = loc.dst_status
      /\ loc'.buf = loc.buf
      /\ loc'.src_desc = loc.src_desc /\ loc'.dest_desc = loc.dest_desc
  BY <1>3, SetSt DEF IInv
<1>5. Typed'
  BY <1>1, <1>2, <1>4 DEF IInv, Typed
<1>6. Behind'
  BY <1>1, <1>2, BehindKept DEF IInv
<1>7. Ahead'
  BY <1>1, <1>2, AheadKept DEF IInv
<1>8. Context' /\ Written'
  BY <1>1, <1>2, <1>3, <1>4, AfterKept
<1>9. Table'
  <2>1. held \subseteq MayBeOpen
    BY <1>2 DEF IInv, Table
  <2>2. CASE pc' = "crashed"
    BY <2>2, <1>1 DEF Table
  <2>3. CASE pc' = p /\ held' \subseteq held
    <3>1. MayBeOpen' = MayBeOpen
      BY <1>1, <1>4, <2>3 DEF MayBeOpen, SrcFile, DstFile
    <3> QED BY <1>1, <2>1, <2>3, <3>1 DEF Table
  <2>4. CASE p = "close_src" /\ pc' = "close_dst" /\ held' \subseteq held
             /\ \A g : <<loc.src_desc, g>> \notin held'
    <3>1. held' \subseteq {<<loc.src_desc, SrcFile>>, <<loc.dest_desc, DstFile>>}
      BY <2>1, <2>4 DEF MayBeOpen
    <3>2. held' \subseteq {<<loc.dest_desc, DstFile>>}
      BY <2>4, <3>1
    <3>3. pc' \in HasDst
      BY <2>4 DEF HasDst
    <3>4. held' \subseteq MayBeOpen'
      BY <1>4, <3>2, <3>3 DEF MayBeOpen, DstFile
    <3> QED BY <1>1, <3>4 DEF Table
  <2>5. CASE p = "close_dst" /\ pc' = "attributes" /\ held' \subseteq held
             /\ \A g : <<loc.dest_desc, g>> \notin held'
    <3>1. pc = "close_dst" /\ pc \notin HasSrc
      BY <1>1, <2>5 DEF HasSrc, Loop
    <3>2. held' \subseteq {<<loc.dest_desc, DstFile>>}
      BY <2>1, <2>5, <3>1 DEF MayBeOpen
    <3>3. held' = {}
      BY <2>5, <3>2
    <3> QED BY <1>1, <3>3 DEF Table
  <2> QED BY <1>1, <2>2, <2>3, <2>4, <2>5
<1> QED BY <1>5, <1>6, <1>7, <1>8, <1>9 DEF IInv

LEMMA AttributesStep == ASSUME IInv, Attributes PROVE IInv'
<1>1. pc = "attributes" /\ pc \in After /\ pc \notin Between \cup {"return", "crashed"}
      /\ pc \notin HasSrc \cup HasDst /\ KeepCtx
  BY DEF Attributes, At, After, Between, HasSrc, HasDst, Loop
<1>2. i \in Files /\ ctx' = ctx
  BY <1>1 DEF IInv, Typed, Files, KeepCtx
<1>3. pc' = "update" /\ pc' \in Pcs /\ pc' \in After
      /\ pc' \notin Unopened \cup Unasked \cup {"m_copied"}
  BY DEF Attributes, Goto, Pcs, After, Unopened, Moving, Unasked, Asked
<1>4. CASE /\ loc.dst_status = "short"
           /\ dst' = [dst EXCEPT ![i] = NoFile]
           /\ answer' = [answer EXCEPT ![i] = Answer("delete", << >>)]
           /\ UNCHANGED <<i, marked, src, loc, errors, table>>
  <2>1. << >> \in Data
    BY EmptySeq DEF Data
  <2>2. NoFile \in FileRec /\ Answer("delete", << >>) \in AnswerRec
    BY <2>1 DEF NoFile, FileRec, Answer, AnswerRec
  <2>3. /\ dst' \in [Files -> FileRec] /\ dst'[i] = NoFile
        /\ answer' \in [Files -> AnswerRec]
        /\ \A f \in Files \ {i} : dst'[f] = dst[f] /\ answer'[f] = answer[f]
    BY <1>2, <1>4, <2>2 DEF IInv, Typed
  <2>4. loc.st # CONT
    BY <1>1, <1>4 DEF IInv, Written
  <2>5. Typed'
    BY <1>1, <1>2, <1>3, <1>4, <2>3 DEF IInv, Typed
  <2>6. Table'
    BY <1>1, <1>4, TableKept DEF IInv
  <2>7. Behind'
    BY <1>1, <1>2, <1>4, <2>3, BehindKept DEF IInv
  <2>8. Ahead'
    BY <1>2, <1>3, <1>4, <2>3, AheadKept DEF IInv
  <2>9. Copying => ~ctx.do_append
    BY <1>1 DEF IInv, Context, After, Asked
  <2>10. Context' /\ Written'
    BY <1>2, <1>3, <1>4, <2>4, <2>9, Stopped DEF IInv
  <2> QED BY <2>5, <2>6, <2>7, <2>8, <2>10 DEF IInv
<1>5. ASSUME NEW s \in Status, loc' = [loc EXCEPT !.st = s], s = CONT => loc.st = CONT,
             errors' \in 0 .. MaxErrors,
             UNCHANGED <<i, marked, src, dst, answer, table>>
      PROVE  IInv'
  <2>1. /\ loc' \in LocRec /\ loc'.st = s /\ loc'.dst_status = loc.dst_status
        /\ loc'.buf = loc.buf
        /\ loc'.src_desc = loc.src_desc /\ loc'.dest_desc = loc.dest_desc
    BY <1>5, SetSt DEF IInv
  <2>2. ctx' \in CtxRec /\ answer' \in [Files -> AnswerRec] /\ Len(loc'.buf) <= BufSize
    BY <1>2, <1>5, <2>1 DEF IInv, Typed
  <2>3. Typed' /\ Table' /\ Behind' /\ Ahead'
    BY <1>1, <1>2, <1>3, <1>5, <2>1, <2>2, Turn
  <2>4. Context' /\ Written'
    BY <1>1, <1>2, <1>3, <1>5, <2>1, AfterKept
  <2> QED BY <2>3, <2>4 DEF IInv
<1>6. loc.st \in Status /\ loc = [loc EXCEPT !.st = loc.st] /\ errors \in 0 .. MaxErrors
  BY DEF IInv, Typed, LocRec
<1>7. CASE UNCHANGED <<loc, errors, i, marked, src, dst, answer, table>>
  BY <1>5, <1>6, <1>7
<1>8. CASE /\ errors < MaxErrors /\ errors' = errors + 1
           /\ \E a \in {SKIP, ABORT} : loc' = [loc EXCEPT !.st = a]
           /\ UNCHANGED <<i, marked, src, dst, answer, table>>
  <2>1. PICK a \in {SKIP, ABORT} : loc' = [loc EXCEPT !.st = a]
    BY <1>8
  <2>2. a \in Status /\ a # CONT
    BY DEF Status, SKIP, ABORT, CONT
  <2>3. errors' \in 0 .. MaxErrors
    BY <1>6, <1>8, CopyAssumption
  <2> QED BY <1>5, <1>8, <2>1, <2>2, <2>3
<1> QED BY <1>4, <1>7, <1>8 DEF Attributes, Quiet

LEMMA UpdateStep == ASSUME IInv, Update PROVE IInv'
<1>1. pc = "update" /\ pc \in After /\ pc \notin Between \cup {"return", "crashed"}
      /\ pc \notin HasSrc \cup HasDst /\ KeepCtx /\ Quiet /\ pc' = Leave
  BY DEF Update, At, After, Between, HasSrc, HasDst, Loop, Goto
<1>2. pc' \in {"m_copied", "return"} /\ (Copying => pc' # "m_copied")
  BY <1>1, LeaveIs DEF IInv
<1>3. pc' \in Pcs /\ pc' \notin Unopened \cup Unasked
  BY <1>2 DEF Pcs, Copied, Unopened, Moving, Unasked, Asked
<1>4. loc.st \in Status /\ loc = [loc EXCEPT !.st = loc.st]
  BY DEF IInv, Typed, LocRec
<1>5. PICK s \in Status : loc' = [loc EXCEPT !.st = s] /\ (s = CONT => loc.st = CONT)
  <2>1. CASE loc.st = CONT
    BY <2>1 DEF Update, Status
  <2>2. CASE loc.st # CONT
    BY <2>2, <1>4 DEF Update
  <2> QED BY <2>1, <2>2
<1>6. /\ loc' \in LocRec /\ loc'.st = s /\ loc'.dst_status = loc.dst_status
      /\ loc'.buf = loc.buf
      /\ loc'.src_desc = loc.src_desc /\ loc'.dest_desc = loc.dest_desc
  BY <1>5, SetSt DEF IInv
<1>7. ctx' \in CtxRec /\ ctx' = ctx /\ Len(loc'.buf) <= BufSize
      /\ UNCHANGED <<i, dst, answer>>
  BY <1>1, <1>6 DEF IInv, Typed, KeepCtx, Quiet
<1>8. Typed' /\ Table' /\ Behind' /\ Ahead'
  BY <1>1, <1>3, <1>6, <1>7, QuietTurn
<1>9. Context' /\ Written'
  BY <1>1, <1>2, <1>5, <1>6, <1>7, AfterKept
<1> QED BY <1>8, <1>9 DEF IInv

LEMMA OtherProcessStep == ASSUME IInv, OtherProcess PROVE IInv'
<1>1. /\ i \in Files /\ pc \notin Between \cup {"return"}
      /\ dst[i].kind = "none" /\ errors < MaxErrors
      /\ dst' = [dst EXCEPT ![i] = RegFile(OtherData(i))]
      /\ errors' = errors + 1
      /\ UNCHANGED <<pc, i, marked, src, ctx, loc, answer, table>>
  BY DEF OtherProcess, IInv, Typed, Files, Between
<1>2. /\ RegFile(OtherData(i)) \in FileRec /\ RegFile(OtherData(i)).kind = "file"
      /\ Len(RegFile(OtherData(i)).data) = 1
  BY <1>1, OtherDataIs DEF RegFile, FileRec
<1>3. /\ dst' \in [Files -> FileRec] /\ dst'[i] = RegFile(OtherData(i))
      /\ \A f \in Files \ {i} : dst'[f] = dst[f]
  BY <1>1, <1>2 DEF IInv, Typed
<1>4. errors' \in 0 .. MaxErrors
  BY <1>1, CopyAssumption DEF IInv, Typed
<1>5. Typed'
  BY <1>1, <1>3, <1>4 DEF IInv, Typed
<1>6. Table'
  BY <1>1, TableKept DEF IInv
<1>7. Behind'
  BY <1>1, <1>3, BehindKept DEF IInv
<1>8. Ahead'
  BY <1>1, <1>2, <1>3, AheadKept DEF IInv
<1>9. Copying' = Copying
  BY <1>1 DEF Copying
<1>10. Context'
  <2>1. pc \in {"stat_src", "query"} \cup Asked => ~loc.dst_exists
    BY <1>1 DEF IInv, Context
  <2>2. Chosen /\ pc \in Asked => Chosen'
    BY <1>1, <1>9, <2>1 DEF Chosen, CopyChoice
  <2> QED BY <1>1, <1>9, <2>1, <2>2 DEF IInv, Context
<1>11. Written'
  BY <1>1, <1>9 DEF IInv, Written
<1> QED BY <1>5, <1>6, <1>7, <1>8, <1>10, <1>11 DEF IInv

-----------------------------------------------------------------------------
LEMMA IInvInit == Init => IInv
<1> SUFFICES ASSUME Init PROVE IInv
  OBVIOUS
<1>1. /\ pc = "next" /\ i = 0 /\ marked = Files /\ src = Files
      /\ answer = [f \in Files |-> Answer("none", << >>)]
      /\ errors = 0 /\ loc = Locals
  BY DEF Init
<1>2. << >> \in Data /\ Len(<< >>) = 0
  BY EmptySeq DEF Data
<1>3. \A f \in Files : /\ dst[f] \in FileRec
                       /\ dst[f].kind = "none" => dst[f].data = << >>
                       /\ dst[f].kind = "file" => Len(dst[f].data) \in {1, SrcLen}
  <2> TAKE f \in Files
  <2>1. \/ dst[f] = NoFile
        \/ dst[f] = [kind |-> "dir", data |-> << >>]
        \/ \E d \in UNION {OldFiles(g) : g \in Files} : dst[f] = RegFile(d)
    BY DEF Init
  <2>2. CASE dst[f] = NoFile
    BY <2>2, <1>2 DEF NoFile, FileRec
  <2>3. CASE dst[f] = [kind |-> "dir", data |-> << >>]
    BY <2>3, <1>2 DEF FileRec
  <2>4. CASE \E d \in UNION {OldFiles(g) : g \in Files} : dst[f] = RegFile(d)
    <3>1. PICK g \in Files : \E d \in OldFiles(g) : dst[f] = RegFile(d)
      BY <2>4
    <3>2. PICK d \in OldFiles(g) : dst[f] = RegFile(d)
      BY <3>1
    <3>3. d \in Data /\ Len(d) \in {1, SrcLen}
      BY OldDataIs
    <3> QED BY <3>2, <3>3 DEF RegFile, FileRec
  <2> QED BY <2>1, <2>2, <2>3, <2>4
<1>4. dst \in [Files -> FileRec]
  <2>1. dst = [f \in Files |-> dst[f]]
    BY DEF Init
  <2> QED BY <2>1, <1>3
<1>5. /\ ctx \in CtxRec /\ ~ctx.do_append /\ ctx.replace_result = "ask"
  <2>1. PICK op \in Operations, c \in BOOLEAN :
           ctx = [operation |-> op, do_append |-> FALSE, do_reget |-> 0,
                  replace_result |-> "ask", confirm |-> c]
    BY DEF Init
  <2>2. op \in {"copy", "move"} /\ 0 \in 0 .. SrcLen
    BY CopyAssumption
  <2> QED BY <2>1, <2>2 DEF CtxRec
<1>6. loc \in LocRec /\ loc.buf = << >>
  BY <1>1, <1>2, CopyAssumption DEF Locals, LocRec, NoDesc, Status
<1>7. \A f \in Files : answer[f] \in AnswerRec /\ answer[f].choice = "none"
  BY <1>1, <1>2 DEF Answer, AnswerRec
<1>8. answer \in [Files -> AnswerRec]
  BY <1>1, <1>7
<1>9. /\ pc \in Pcs /\ pc \in Between
      /\ pc \notin Moving \cup Unasked \cup Asked \cup Loop \cup After \cup Copied
                     \cup {"stat_src", "query"}
  BY <1>1 DEF Pcs, Between, Moving, Unasked, Asked, Loop, After, Copied
<1>10. Typed
  <2>1. 0 \in 0 .. N /\ 0 \in 0 .. MaxErrors /\ 0 <= BufSize
    BY CopyAssumption
  <2> QED BY <2>1, <1>1, <1>2, <1>4, <1>5, <1>6, <1>8, <1>9 DEF Typed
<1>11. Table
  <2>1. T!Init
    BY DEF Init
  <2>2. TP!Init
    BY <2>1 DEF T!Init, TP!Init, T!NoSlot, TP!NoSlot
  <2>3. TP!Inv
    BY <2>2, TP!InitInv
  <2>4. T!Used = {} /\ held = {}
    BY <2>1 DEF T!Init, T!Used, T!Slots
  <2> QED BY <2>3, <2>4 DEF Table, UsedIsHeld
<1>12. Behind
  BY <1>1 DEF Behind
<1>13. Ahead
  BY <1>3, <1>7 DEF Ahead
<1>14. Context
  BY <1>5, <1>9 DEF Context
<1>15. Written
  BY <1>1, <1>9 DEF Written, Copied
<1> QED BY <1>10, <1>11, <1>12, <1>13, <1>14, <1>15 DEF IInv

LEMMA StutterStep == ASSUME IInv, UNCHANGED vars PROVE IInv'
<1>1. UNCHANGED <<pc, i, marked, src, dst, ctx, loc, answer, errors, table>>
  BY DEF vars
<1>2. Typed'
  BY <1>1 DEF IInv, Typed
<1>3. Table'
  BY <1>1, TableKept DEF IInv
<1>4. Copying' = Copying /\ \A f : Wanted(f)' = Wanted(f)
  BY <1>1 DEF Copying, Wanted, SrcData
<1>5. Behind'
  BY <1>1, <1>4 DEF IInv, Behind
<1>6. Ahead'
  BY <1>1, <1>4 DEF IInv, Ahead
<1>7. Chosen => Chosen'
  BY <1>1, <1>4 DEF Chosen, CopyChoice
<1>8. Context'
  BY <1>1, <1>4, <1>7 DEF IInv, Context
<1>9. Written'
  BY <1>1, <1>4 DEF IInv, Written, Whole, Holds, Remaining, SrcData
<1> QED BY <1>2, <1>3, <1>5, <1>6, <1>8, <1>9 DEF IInv

LEMMA IInvStep == IInv /\ [Next]_vars => IInv'
<1> SUFFICES ASSUME IInv, [Next]_vars PROVE IInv'
  OBVIOUS
<1>1. CASE StartFile \/ Finish
  BY <1>1, StartFileStep, FinishStep
<1>2. CASE MoveStat \/ MoveQuery \/ MoveRename \/ MoveCopied \/ MoveUnlink
  BY <1>2, MoveStatStep, MoveQueryStep, MoveRenameStep, MoveCopiedStep, MoveUnlinkStep
<1>3. CASE StatDst \/ StatSrc \/ Query
  BY <1>3, StatDstStep, StatSrcStep, QueryStep
<1>4. CASE OpenSrc \/ Lseek \/ FstatSrc \/ OpenDst
  BY <1>4, OpenSrcStep, LseekStep, FstatSrcStep, OpenDstStep
<1>5. CASE FstatDst \/ Progress \/ Read \/ Write
  BY <1>5, FstatDstStep, ProgressStep, ReadStep, WriteStep
<1>6. CASE CloseSrc \/ CloseDst \/ Attributes \/ Update
  BY <1>6, CloseStep, AttributesStep, UpdateStep
<1>7. CASE OtherProcess
  BY <1>7, OtherProcessStep
<1>8. CASE Ended \/ UNCHANGED vars
  BY <1>8, StutterStep DEF Ended
<1> QED BY <1>1, <1>2, <1>3, <1>4, <1>5, <1>6, <1>7, <1>8 DEF Next

LEMMA Invariance == Spec => []IInv
BY IInvInit, IInvStep, PTL DEF Spec

LEMMA IInvTypes == IInv => TypeOK
<1> SUFFICES ASSUME IInv PROVE TypeOK
  OBVIOUS
<1>1. /\ i \in 0 .. N /\ marked \subseteq Files /\ src \subseteq Files
      /\ errors \in 0 .. MaxErrors /\ Len(loc.buf) <= BufSize
  BY DEF IInv, Typed
<1>2. \A f \in Files : dst[f].kind \in {"none", "file", "dir"}
  BY DEF IInv, Typed, FileRec
<1>3. ctx.do_append \in BOOLEAN /\ ctx.do_reget \in 0 .. SrcLen
  BY DEF IInv, Typed, CtxRec
<1>4. /\ loc.st \in Status /\ loc.off \in 0 .. SrcLen
      /\ loc.dst_status \in {"none", "short", "full"}
  BY DEF IInv, Typed, LocRec
<1>5. T!TypeOK
  BY DEF IInv, Table, TP!Inv, TP!TypeOK, T!TypeOK, TP!Slots, T!Slots, TP!OpenSlot,
         T!OpenSlot, TP!FreeSlot, T!FreeSlot, TP!File, T!File, TP!NoSlot, T!NoSlot
<1> QED BY <1>1, <1>2, <1>3, <1>4, <1>5 DEF TypeOK

(* copy_file_file and move_file_file (file.c:432-800 and 1019-1125) under panel_operate: *)
(* a file that lost its tag is at its target as the user asked for it, and *)
(* a source that a move removed is there in full, whatever fails, is       *)
(* answered, or is created by others meanwhile.                            *)
THEOREM UntaggedFilesAreDone == Spec => []UntaggedIsDone
<1>1. IInv => UntaggedIsDone
  <2> SUFFICES ASSUME IInv PROVE UntaggedIsDone
    OBVIOUS
  <2>1. TypeOK
    BY IInvTypes
  <2>2. UntaggedIsCopied
    BY DEF IInv, Behind, UntaggedIsCopied, Copying
  <2>3. MoveNeverLoses
    BY HoldsIsSuffix DEF IInv, Behind, MoveNeverLoses
  <2> QED BY <2>1, <2>2, <2>3 DEF UntaggedIsDone
<1> QED BY <1>1, Invariance, PTL

(* No handle and no choice for one file is left for the next one.          *)
THEOREM FilesAreIndependent == Spec => []NothingCarriesOver
<1>1. IInv => NothingCarriesOver
  <2> SUFFICES ASSUME IInv PROVE NothingCarriesOver
    OBVIOUS
  <2>1. ASSUME pc \in {"next", "end"} PROVE T!Used = {}
    <3>1. held = {}
      BY <2>1 DEF IInv, Table, MayBeOpen, HasSrc, HasDst, Loop
    <3> QED BY <3>1 DEF IInv, Table, UsedIsHeld
  <2>2. ASSUME pc = "next", Copying PROVE ~ctx.do_append
    BY <2>2 DEF IInv, Context, Asked
  <2> QED BY <2>1, <2>2 DEF NothingCarriesOver, NoHandleLeaks, AppendIsPerFile, Copying
<1> QED BY <1>1, Invariance, PTL

(* A target that was there keeps its content through every step of a copy, *)
(* unless the user chose to overwrite, delete or complete it: the target   *)
(* is opened with O_EXCL where none was seen, and written behind what the  *)
(* user wanted to keep.                                                    *)
THEOREM OthersFilesAreKept == Spec => KeepsOthersFiles
<1> DEFINE Kind == {"yes", "always", "delete", "reget"}
           A == Copying => \A f \in Files :
                  \A d \in OldFiles(f) \cup {OtherData(f)} :
                    IsPrefix(d, dst[f].data) /\ ~IsPrefix(d, dst'[f].data)
                      => answer'[f].choice \in Kind
<1>1. ASSUME IInv, Next PROVE A
  <2>1. SUFFICES ASSUME Copying, NEW f \in Files,
                        NEW d \in OldFiles(f) \cup {OtherData(f)},
                        IsPrefix(d, dst[f].data), ~IsPrefix(d, dst'[f].data)
                 PROVE  answer'[f].choice \in Kind
    BY DEF Copying
  <2>2. d \in Data
    BY OldDataIs, OtherDataIs
  <2>3. dst'[f] # dst[f] /\ dst'[f] \in FileRec /\ dst'[f].data \in Data
    <3>1. IInv'
      BY <1>1, IInvStep
    <3> QED BY <3>1, <2>1 DEF IInv, Typed, FileRec
  <2>4. dst \in [Files -> FileRec] /\ dst[f].data \in Data
    BY <1>1 DEF IInv, Typed, FileRec
  <2>5. ASSUME dst[f].data = << >> PROVE FALSE
    <3>1. << >> \in Data /\ << >> \o dst'[f].data = dst'[f].data
      BY <2>3, DataJoins
    <3>2. IsPrefix(d, << >> \o dst'[f].data)
      BY <2>1, <2>2, <2>3, <2>5, <3>1, PrefixStays
    <3> QED BY <2>1, <3>1, <3>2
  <2>6. dst[f].kind # "none"
    BY <1>1, <2>5 DEF IInv, Ahead
  <2>7. CASE MoveRename
    <3>1. dst' = dst
      BY <1>1, <2>1, <2>7 DEF MoveRename, At, IInv, Context, Moving, Quiet
    <3> QED BY <3>1, <2>3
  <2>8. CASE OpenDst
    <3>1. CASE dst' = dst
      BY <3>1, <2>3
    <3>2. CASE /\ loc.dst_exists \/ dst[i].kind = "none"
               /\ dst' = [dst EXCEPT ![i] = Target]
               /\ UNCHANGED answer
      <4>1. f = i /\ dst'[f] = Target
        BY <2>3, <2>4, <3>2
      <4>2. loc.dst_exists /\ ~ctx.do_append
        BY <2>3, <2>6, <3>2, <4>1 DEF Target
      <4>3. pc \in Asked
        BY <2>8 DEF OpenDst, At, Asked
      <4>4. CopyChoice(answer[i])
        BY <1>1, <2>1, <4>3 DEF IInv, Context, Chosen
      <4> QED BY <3>2, <4>1, <4>2, <4>4 DEF CopyChoice
    <3> QED BY <2>8, <3>1, <3>2 DEF OpenDst, Quiet, Fails
  <2>9. CASE Write
    <3>1. CASE dst' = dst
      BY <3>1, <2>3
    <3>2. ASSUME NEW n \in 1 .. Len(loc.buf),
                 dst' = [dst EXCEPT ![i].data = @ \o SubSeq(loc.buf, 1, n)]
          PROVE  FALSE
      <4>1. f = i /\ dst'[f].data = dst[f].data \o SubSeq(loc.buf, 1, n)
        BY <2>3, <2>4, <3>2 DEF FileRec
      <4>2. SubSeq(loc.buf, 1, n) \in Data
        BY <1>1, WriteSplits DEF IInv, Typed, LocRec
      <4>3. IsPrefix(d, dst[f].data \o SubSeq(loc.buf, 1, n))
        BY <2>1, <2>2, <2>4, <4>2, PrefixStays
      <4> QED BY <2>1, <4>1, <4>3
    <3> QED BY <2>9, <3>1, <3>2 DEF Write, Quiet, Fails
  <2>10. CASE Attributes
    <3>1. CASE dst' = dst
      BY <3>1, <2>3
    <3>2. CASE /\ dst' = [dst EXCEPT ![i] = NoFile]
               /\ answer' = [answer EXCEPT ![i] = Answer("delete", << >>)]
      <4>1. f = i
        BY <2>3, <2>4, <3>2
      <4>2. answer'[f].choice = "delete"
        BY <1>1, <3>2, <4>1 DEF IInv, Typed, Answer
      <4> QED BY <4>2
    <3> QED BY <2>10, <3>1, <3>2 DEF Attributes, Quiet
  <2>11. CASE OtherProcess
    <3>1. f = i /\ dst[i].kind = "none"
      BY <2>3, <2>4, <2>11 DEF OtherProcess
    <3> QED BY <2>6, <3>1
  <2>12. CASE \/ StartFile \/ Finish \/ MoveStat \/ MoveQuery \/ MoveCopied
              \/ MoveUnlink \/ StatDst \/ StatSrc \/ Query
    <3>1. dst' = dst
      BY <2>12 DEF StartFile, Finish, MoveStat, MoveQuery, MoveCopied, MoveUnlink,
           StatDst, StatSrc, Query, Quiet, Fails
    <3> QED BY <3>1, <2>3
  <2>13. CASE \/ OpenSrc \/ Lseek \/ FstatSrc \/ FstatDst \/ Progress \/ Read
              \/ CloseSrc \/ CloseDst \/ Update \/ Ended
    <3>1. dst' = dst
      BY <2>13 DEF OpenSrc, Lseek, FstatSrc, FstatDst, Progress, Read, CloseSrc,
           CloseDst, Close, Update, Ended, vars, Quiet, Fails
    <3> QED BY <3>1, <2>3
  <2> QED BY <1>1, <2>7, <2>8, <2>9, <2>10, <2>11, <2>12, <2>13 DEF Next
<1>2. IInv /\ [Next]_vars => [A]_vars
  BY <1>1
<1>3. Spec => [][A]_vars
  BY <1>2, Invariance, PTL DEF Spec
<1> QED BY <1>3, Zenon DEF KeepsOthersFiles, Copying

=============================================================================
