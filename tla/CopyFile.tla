------------------------------ MODULE CopyFile ------------------------------
(***************************************************************************)
(* Copying and moving the tagged files of a panel: copy_file_file and      *)
(* move_file_file of src/file.c under the loop of panel_operate, one       *)
(* system call or question to the user per step.  Any call may fail, the   *)
(* user may answer anything, and another process may create a target.      *)
(* Files are regular files; reads and writes may be short.  The handles    *)
(* come from the table of VfsHandles.                                      *)
(***************************************************************************)
EXTENDS Integers, Sequences, SequencesExt, FiniteSets

CONSTANTS N,          \* number of tagged files
          SrcLen,     \* bytes in each source file
          BufSize,    \* BUF_8K, in bytes of the model
          MaxErrors,  \* bound: system calls that fail
          Operations  \* OP_COPY, OP_MOVE: what the user may ask for

ASSUME CopyAssumption ==
  /\ N \in Nat /\ SrcLen \in Nat /\ BufSize \in Nat \ {0} /\ MaxErrors \in Nat
  /\ Operations \subseteq {"copy", "move"}

VARIABLES
  pc, i,              \* where the process is, and with which file
  marked,             \* files still tagged
  src,                \* sources that exist
  dst,                \* the targets: kind and content
  ctx,                \* FileOpContext: do_append, do_reget, confirm_overwrite
  loc,                \* the locals of copy_file_file
  answer,             \* history: what the user answered for each target
  errors,             \* failed calls so far
  len, vfs_openfiles, vfs_free_handle_list, held

table == <<len, vfs_openfiles, vfs_free_handle_list, held>>
vars == <<pc, i, marked, src, dst, ctx, loc, answer, errors, table>>

T == INSTANCE VfsHandles WITH
       Class <- {"fs"}, Info <- {"src", "dst"}, MaxSlots <- 2

Files == 1 .. N
CONT == "cont"  RETRY == "retry"  SKIP == "skip"  ABORT == "abort"
SrcData(f) == [k \in 1 .. SrcLen |-> <<"src", f, k>>]
OldData(f, n) == [k \in 1 .. n |-> <<"old", f, k>>]
OldFiles(f) == {OldData(f, n) : n \in {1, SrcLen}}
OtherData(f) == << <<"other", f>> >>
NoFile == [kind |-> "none", data |-> << >>]
RegFile(d) == [kind |-> "file", data |-> d]
NoDesc == -1

Answer(a, old) == [choice |-> a, old |-> old]

Locals == [dst_exists |-> FALSE, appending |-> FALSE, off |-> 0, buf |-> << >>,
           st |-> RETRY, dst_status |-> "none", ask |-> FALSE,
           src_desc |-> NoDesc, dest_desc |-> NoDesc]

Init ==
  /\ pc = "next" /\ i = 0
  /\ marked = Files /\ src = Files
  /\ dst \in [Files -> {NoFile, [kind |-> "dir", data |-> << >>]}
                       \cup {RegFile(d) : d \in UNION {OldFiles(f) : f \in Files}}]
  /\ \A f \in Files : dst[f].kind = "file" => dst[f].data \in OldFiles(f)
  /\ \E op \in Operations, c \in BOOLEAN :
       ctx = [operation |-> op, do_append |-> FALSE, do_reget |-> 0,
              replace_result |-> "ask", confirm |-> c]
  /\ loc = Locals
  /\ answer = [f \in Files |-> Answer("none", << >>)]
  /\ errors = 0
  /\ T!Init

-----------------------------------------------------------------------------
(* Steps at one point of the code.  Fails is a failing call, after which   *)
(* file_error asks the user: Retry stays, anything else goes on.           *)
At(p) == pc = p
Goto(p) == pc' = p
KeepCtx == UNCHANGED ctx
Quiet == UNCHANGED <<i, marked, src, dst, answer, errors, table>>

Fails(else, ctx1) ==
  /\ errors < MaxErrors /\ errors' = errors + 1
  /\ \E a \in {SKIP, RETRY, ABORT} :
       /\ loc' = [loc EXCEPT !.st = a]
       /\ IF a = RETRY THEN UNCHANGED <<pc, ctx>> ELSE Goto(else) /\ ctx' = ctx1
  /\ UNCHANGED <<i, marked, src, dst, answer, table>>

NoAppend == [ctx EXCEPT !.do_append = FALSE]

-----------------------------------------------------------------------------
(* panel_operate: the value of the last file, then the next tagged one.    *)
Finish ==
  /\ At("return")
  /\ marked' = IF loc.st = CONT THEN marked \ {i} ELSE marked
  /\ Goto(IF loc.st = ABORT THEN "end" ELSE "next")
  /\ UNCHANGED <<i, src, dst, ctx, loc, answer, errors, table>>

StartFile ==
  /\ At("next")
  /\ IF i = N THEN Goto("end") /\ UNCHANGED <<i, loc, ctx>>
     ELSE /\ i' = i + 1
          /\ loc' = [Locals EXCEPT !.ask = ctx.operation = "copy"]
          /\ IF ctx.operation = "move" THEN Goto("m_stat") /\ UNCHANGED ctx
             ELSE Goto("stat_dst") /\ ctx' = [ctx EXCEPT !.do_reget = 0]
  /\ UNCHANGED <<marked, src, dst, answer, errors, table>>

(* file_progress_real_query_replace.  Reget is offered for a copy onto a   *)
(* shorter file, and falls through to Append.  The answers from            *)
(* REPLACE_ALWAYS on are kept for the later files, Reget among them;       *)
(* update stands for Update and If size differs, decided file by file.     *)
Kept == {"always", "update", "never", "reget"}
Resolve(a) == IF a = "update" THEN {"yes", "no"} ELSE {a}
Offered(f) ==
  IF ctx.replace_result # "ask" THEN {ctx.replace_result}
  ELSE {"yes", "no", "append", "always", "update", "never", "abort"}
       \cup IF ctx.operation = "copy" /\ f # << >> /\ Len(f) < SrcLen
            THEN {"reget"} ELSE {}

QueryReplace(ctx0, yes, no) ==
  LET f == dst[i].data IN
  \E a \in Offered(f) : \E r \in Resolve(a) :
    /\ answer' = [answer EXCEPT ![i] = Answer(r, f)]
    /\ ctx' = [ctx0 EXCEPT !.do_append = @ \/ r \in {"append", "reget"},
                           !.do_reget = IF r = "reget" THEN Len(f) ELSE @,
                           !.replace_result = IF a \in Kept THEN a ELSE @]
    /\ loc' = [loc EXCEPT !.st = CASE r \in {"no", "never"} -> SKIP
                                   [] r = "abort" -> ABORT
                                   [] OTHER -> CONT]
    /\ Goto(IF r \in {"no", "never", "abort"} THEN no ELSE yes)

-----------------------------------------------------------------------------
(* move_file_file.                                                         *)
MoveStat ==
  /\ At("m_stat")
  /\ \/ Goto("m_query") /\ UNCHANGED <<ctx, loc>> /\ Quiet
     \/ /\ loc' = [loc EXCEPT !.st = ABORT] /\ Goto("return")  \* in the dialog
        /\ KeepCtx /\ Quiet
     \/ Fails("return", ctx)

MoveQuery ==
  /\ At("m_query")
  /\ UNCHANGED <<i, marked, src, dst, errors, table>>
  /\ \/ /\ dst[i].kind = "dir"
        /\ loc' = [loc EXCEPT !.st = SKIP] /\ Goto("return")
        /\ UNCHANGED <<ctx, answer>>
     \/ dst[i].kind = "file" /\ ctx.confirm /\ QueryReplace(ctx, "m_rename", "return")
     \/ /\ dst[i].kind = "none" \/ (dst[i].kind = "file" /\ ~ctx.confirm)
        /\ Goto("m_rename") /\ UNCHANGED <<ctx, loc, answer>>

(* mc_rename, or when it fails for whatever reason, a copy that asks       *)
(* nothing.                                                                *)
MoveRename ==
  /\ At("m_rename")
  /\ \/ /\ ~ctx.do_append /\ dst[i].kind # "dir"
        /\ src' = src \ {i}
        /\ dst' = [dst EXCEPT ![i] = RegFile(SrcData(i))]
        /\ \E a \in {CONT, SKIP, ABORT} : loc' = [loc EXCEPT !.st = a]
        /\ Goto("return") /\ KeepCtx
        /\ UNCHANGED <<i, marked, answer, errors, table>>
     \/ /\ ctx' = [ctx EXCEPT !.do_reget = 0]
        /\ loc' = [loc EXCEPT !.st = RETRY]
        /\ Goto("stat_dst") /\ Quiet

(* Mistake: the result of the copy is not looked at.                       *)
MoveCopiedAnyway ==
  /\ At("m_copied")
  /\ loc' = [loc EXCEPT !.st = CONT] /\ Goto("m_unlink")
  /\ KeepCtx /\ Quiet

MoveCopied ==
  /\ At("m_copied")
  /\ \E a \in {CONT, SKIP, ABORT} :
       IF loc.st # CONT THEN Goto("return") /\ UNCHANGED loc
       ELSE /\ loc' = [loc EXCEPT !.st = a]
            /\ Goto(IF a = CONT THEN "m_unlink" ELSE "return")
  /\ KeepCtx /\ Quiet

MoveUnlink ==
  /\ At("m_unlink")
  /\ \/ /\ src' = src \ {i} /\ Goto("return")
        /\ UNCHANGED <<i, marked, dst, ctx, loc, answer, errors, table>>
     \/ Fails("return", ctx)

-----------------------------------------------------------------------------
(* copy_file_file: the questions before the files are opened.              *)
Leave == IF ctx.operation = "move" THEN "m_copied" ELSE "return"

StatDst ==
  /\ At("stat_dst") /\ KeepCtx /\ Quiet
  /\ \/ loc' = [loc EXCEPT !.st = ABORT] /\ Goto(Leave)    \* Abort in the dialog
     \/ /\ dst[i].kind = "dir"
        /\ \E a \in {SKIP, RETRY, ABORT} :
             /\ loc' = [loc EXCEPT !.st = a]
             /\ IF a = RETRY THEN UNCHANGED pc ELSE Goto(Leave)
     \/ /\ dst[i].kind # "dir"
        /\ loc' = [loc EXCEPT !.dst_exists = dst[i].kind = "file"]
        /\ Goto("stat_src")

StatSrc ==
  /\ At("stat_src")
  /\ \/ Goto("query") /\ UNCHANGED <<ctx, loc>> /\ Quiet
     \/ Fails(Leave, ctx)

Query ==
  /\ At("query")
  /\ UNCHANGED <<i, marked, src, dst, errors, table>>
  /\ \/ /\ loc.dst_exists /\ loc.ask
        /\ QueryReplace([ctx EXCEPT !.do_reget = 0], "open_src", Leave)
     \/ /\ ~(loc.dst_exists /\ loc.ask)
        /\ Goto("open_src") /\ UNCHANGED <<ctx, loc, answer>>

-----------------------------------------------------------------------------
(* Opening.                                                                *)
Opened(info, field) ==
  /\ T!McOpen([vclass |-> "fs", fsinfo |-> info])
  /\ loc' = [loc EXCEPT ![field] = T!NewSlot + T!VFS_FIRST_HANDLE,
                        !.dst_status = IF info = "dst" THEN "short" ELSE @,
                        !.appending = IF info = "dst" THEN ctx.do_append ELSE @]

(* Mistake: the choice to append outlives the file it was made for.        *)
OpenSrcKeepsAppend ==
  /\ At("open_src")
  /\ \/ /\ Opened("src", "src_desc")
        /\ Goto("lseek") /\ KeepCtx
        /\ UNCHANGED <<i, marked, src, dst, answer, errors>>
     \/ Fails(Leave, ctx)

OpenSrc ==
  /\ At("open_src")
  /\ \/ /\ Opened("src", "src_desc")
        /\ Goto("lseek") /\ KeepCtx
        /\ UNCHANGED <<i, marked, src, dst, answer, errors>>
     \/ Fails(Leave, NoAppend)

(* mc_lseek for a reget; when it fails the file is overwritten instead.    *)
Lseek ==
  /\ At("lseek") /\ Goto("fstat_src") /\ Quiet
  /\ \/ loc' = [loc EXCEPT !.off = ctx.do_reget] /\ KeepCtx
     \/ /\ ctx.do_reget # 0
        /\ ctx' = [ctx EXCEPT !.do_reget = 0, !.do_append = FALSE]
        /\ UNCHANGED loc

(* Mistake: the error path leaves the source open.                         *)
FstatSrcLeaks ==
  /\ At("fstat_src")
  /\ \/ Goto("open_dst") /\ UNCHANGED <<ctx, loc>> /\ Quiet
     \/ Fails(Leave, NoAppend)

FstatSrc ==
  /\ At("fstat_src")
  /\ \/ Goto("open_dst") /\ UNCHANGED <<ctx, loc>> /\ Quiet
     \/ Fails("close_src", NoAppend)

(* The flags: append, truncate what existed, or insist on a new file.      *)
Target ==
  IF loc.dst_exists /\ ctx.do_append THEN dst[i] ELSE RegFile(<< >>)

(* Mistake: a target that did not exist is created without O_EXCL.         *)
OpenDstNotExclusive ==
  /\ At("open_dst")
  /\ Opened("dst", "dest_desc")
  /\ dst' = [dst EXCEPT ![i] = Target]
  /\ ctx' = NoAppend
  /\ Goto("fstat_dst")
  /\ UNCHANGED <<i, marked, src, answer, errors>>

OpenDst ==
  /\ At("open_dst")
  /\ \/ /\ ~loc.dst_exists /\ dst[i].kind # "none"     \* EEXIST
        /\ Goto("close_src") /\ UNCHANGED <<ctx, loc>> /\ Quiet
     \/ /\ loc.dst_exists \/ dst[i].kind = "none"
        /\ Opened("dst", "dest_desc")
        /\ dst' = [dst EXCEPT ![i] = Target]
        /\ ctx' = NoAppend
        /\ Goto("fstat_dst")
        /\ UNCHANGED <<i, marked, src, answer, errors>>
     \/ Fails("close_src", NoAppend)

FstatDst ==
  /\ At("fstat_dst")
  /\ \/ Goto("progress") /\ UNCHANGED <<ctx, loc>> /\ Quiet
     \/ Fails("close_src", ctx)

-----------------------------------------------------------------------------
(* The loop: show progress, read, write.                                   *)
Progress ==
  /\ At("progress") /\ KeepCtx /\ Quiet
  /\ \E a \in {CONT, SKIP, ABORT} :
       /\ loc' = [loc EXCEPT !.st = a]
       /\ Goto(IF a = CONT THEN "read" ELSE "close_src")

Remaining == SubSeq(SrcData(i), loc.off + 1, SrcLen)

(* Mistake: one byte more than the buffer holds.                           *)
ReadTooMuch ==
  /\ At("read") /\ Remaining # << >>
  /\ loc' = [loc EXCEPT !.buf = SubSeq(Remaining, 1, BufSize + 1),
                        !.off = SrcLen]
  /\ Goto("write") /\ KeepCtx /\ Quiet

Read ==
  /\ At("read")
  /\ \/ /\ Remaining # << >>                      \* or not ready: n_read = -1
        /\ \E n \in 0 .. BufSize :
             /\ n <= Len(Remaining)
             /\ loc' = [loc EXCEPT !.buf = SubSeq(Remaining, 1, n),
                                   !.off = @ + n]
        /\ Goto("write") /\ KeepCtx /\ Quiet
     \/ /\ Remaining = << >>
        /\ loc' = [loc EXCEPT !.dst_status = "full"]
        /\ Goto("close_src") /\ KeepCtx /\ Quiet
     \/ Fails("close_src", ctx)

(* Mistake: after a short write the rest of the buffer is dropped.         *)
WriteShort ==
  /\ At("write")
  /\ Goto("progress")
  /\ \E n \in 0 .. Len(loc.buf) :
       dst' = [dst EXCEPT ![i].data = @ \o SubSeq(loc.buf, 1, n)]
  /\ loc' = [loc EXCEPT !.buf = << >>]
  /\ UNCHANGED <<i, marked, src, ctx, answer, errors, table>>

Write ==
  /\ At("write")
  /\ \/ /\ loc.buf = << >>
        /\ Goto("progress") /\ UNCHANGED <<ctx, loc>> /\ Quiet
     \/ \E n \in 1 .. Len(loc.buf) :
          /\ dst' = [dst EXCEPT ![i].data = @ \o SubSeq(loc.buf, 1, n)]
          /\ loc' = [loc EXCEPT !.buf = SubSeq(@, n + 1, Len(@))]
          /\ UNCHANGED <<pc, i, marked, src, ctx, answer, errors, table>>
     \/ loc.buf # << >> /\ Fails("close_src", ctx)

-----------------------------------------------------------------------------
(* Closing.  mc_close gives the handle back even when it fails, and Retry  *)
(* passes the same number again: vfs_info then finds NULL, and mc_close    *)
(* fails at once, or follows the link of the free slot.                    *)
Close(p, field, next, kept) ==
  LET h == loc[field] IN
  /\ At(p)
  /\ \/ /\ h = NoDesc
        /\ Goto(next) /\ UNCHANGED <<ctx, loc>> /\ Quiet
     \/ /\ \E f \in T!File : T!McClose(h, f)
        /\ \/ /\ Goto(next) /\ UNCHANGED <<loc, errors>>
           \/ /\ errors < MaxErrors /\ errors' = errors + 1
              /\ \E a \in {SKIP, RETRY, ABORT} :
                   /\ loc' = [loc EXCEPT !.st = IF a \in kept THEN @ ELSE a]
                   /\ IF a = RETRY THEN UNCHANGED pc ELSE Goto(next)
        /\ UNCHANGED <<i, marked, src, dst, ctx, answer>>
     \/ /\ h # NoDesc /\ T!Lookup(h) = "null"
        /\ \E a \in {SKIP, RETRY, ABORT} :
             /\ loc' = [loc EXCEPT !.st = IF a \in kept THEN @ ELSE a]
             /\ IF a = RETRY THEN UNCHANGED pc ELSE Goto(next)
        /\ KeepCtx /\ Quiet
     \/ /\ h # NoDesc /\ T!Lookup(h) = "wild"
        /\ Goto("crashed") /\ UNCHANGED <<ctx, loc>> /\ Quiet

CloseSrc == Close("close_src", "src_desc", "close_dst", {SKIP, RETRY})
CloseDst == Close("close_dst", "dest_desc", "attributes", {RETRY})

(* What is left to do by dst_status: ask about a short file, or set the    *)
(* owner and mode of a full one; then progress_update_one.                 *)
Attributes ==
  /\ At("attributes") /\ KeepCtx
  /\ \/ /\ loc.dst_status = "short"
        /\ \/ dst' = [dst EXCEPT ![i] = NoFile]        \* Delete
              /\ answer' = [answer EXCEPT ![i] = Answer("delete", << >>)]
           \/ UNCHANGED <<dst, answer>>                 \* Keep
        /\ Goto("update")
        /\ UNCHANGED <<i, marked, src, loc, errors, table>>
     \/ loc.dst_status # "short" /\ Goto("update") /\ UNCHANGED loc /\ Quiet
     \/ /\ loc.dst_status = "full" /\ ~loc.appending
        /\ errors < MaxErrors /\ errors' = errors + 1
        /\ \E a \in {SKIP, ABORT} : loc' = [loc EXCEPT !.st = a]
        /\ Goto("update")
        /\ UNCHANGED <<i, marked, src, dst, answer, table>>

Update ==
  /\ At("update") /\ Goto(Leave) /\ KeepCtx /\ Quiet
  /\ IF loc.st = CONT
     THEN \E a \in {CONT, SKIP, ABORT} : loc' = [loc EXCEPT !.st = a]
     ELSE UNCHANGED loc

(* Another process creates the target.                                     *)
OtherProcess ==
  /\ i > 0 /\ pc \notin {"end", "next", "return"}
  /\ dst[i].kind = "none" /\ answer[i].choice # "delete" /\ errors < MaxErrors
  /\ dst' = [dst EXCEPT ![i] = RegFile(OtherData(i))]
  /\ errors' = errors + 1
  /\ UNCHANGED <<pc, i, marked, src, ctx, loc, answer, table>>

Ended == pc \in {"end", "crashed"} /\ UNCHANGED vars

Next ==
  \/ StartFile \/ Finish
  \/ MoveStat \/ MoveQuery \/ MoveRename \/ MoveCopied \/ MoveUnlink
  \/ StatDst \/ StatSrc \/ Query \/ OpenSrc \/ Lseek \/ FstatSrc
  \/ OpenDst \/ FstatDst \/ Progress \/ Read \/ Write
  \/ CloseSrc \/ CloseDst \/ Attributes \/ Update
  \/ OtherProcess \/ Ended

Spec == Init /\ [][Next]_vars

-----------------------------------------------------------------------------
Status == {CONT, RETRY, SKIP, ABORT}

TypeOK ==
  /\ i \in 0 .. N /\ marked \subseteq Files /\ src \subseteq Files
  /\ \A f \in Files : dst[f].kind \in {"none", "file", "dir"}
  /\ ctx.do_append \in BOOLEAN /\ ctx.do_reget \in 0 .. SrcLen
  /\ loc.st \in Status /\ loc.off \in 0 .. SrcLen /\ Len(loc.buf) <= BufSize
  /\ loc.dst_status \in {"none", "short", "full"}
  /\ errors \in 0 .. MaxErrors
  /\ T!TypeOK

(* What the user asked for: the source after the old content, the part     *)
(* that was missing after it, or the source alone.                         *)
Wanted(f) ==
  LET a == answer[f] IN
  CASE a.choice = "append" -> {a.old \o SrcData(f)}
    [] a.choice = "reget" ->
         {SrcData(f), a.old \o SubSeq(SrcData(f), Len(a.old) + 1, SrcLen)}
    [] OTHER -> {SrcData(f)}

(* A file loses its tag only when its target holds what was asked for:     *)
(* "only the files on which the operation succeeded are untagged"          *)
(* (mc.1.in:2402).  Of a move it is false: see AppendIsPerFile.            *)
UntaggedIsCopied ==
  ctx.operation = "copy" => \A f \in Files \ marked : dst[f].data \in Wanted(f)

(* A file that was there, from the start or through another process, keeps *)
(* its content unless the user chose to overwrite or delete it.  A copy    *)
(* never clobbers; the rename of a move may, if the file came late.        *)
KeepsOthersFiles ==
  [][ctx.operation = "copy" => \A f \in Files :
       \A d \in OldFiles(f) \cup {OtherData(f)} :
         IsPrefix(d, dst[f].data) /\ ~IsPrefix(d, dst'[f].data)
           => answer'[f].choice \in {"yes", "always", "delete", "reget"}]_vars

(* A move removes the source only when all of it is in the target.         *)
MoveNeverLoses ==
  \A f \in Files \ src :
    dst[f].kind = "file" /\ IsSuffix(SrcData(f), dst[f].data)

(* Every file is closed before the next one is begun.                      *)
NoHandleLeaks == pc \in {"next", "end"} => T!Used = {}

(* The choice to append is that of one file: no later one inherits it.  A  *)
(* move asks before copy_file_file, which returns early without resetting  *)
(* do_append; the next file, answered Yes, is then appended.               *)
AppendIsPerFile == pc = "next" /\ ctx.operation = "copy" => ~ctx.do_append

(* Whatever fails and whatever is answered, a file that lost its tag is at *)
(* its target, and a file that a move removed is there in full.            *)
UntaggedIsDone ==
  /\ TypeOK
  /\ UntaggedIsCopied
  /\ MoveNeverLoses

(* copy_file_file leaves nothing behind for the next file: no open handle, *)
(* and of a copy no choice that was made for one file only.                *)
NothingCarriesOver ==
  /\ NoHandleLeaks
  /\ AppendIsPerFile

=============================================================================
