------------------------------ MODULE TreeOps ------------------------------
(***************************************************************************)
(* Copying, moving and deleting tagged directories: copy_dir_dir,          *)
(* move_dir_dir, erase_dir and recursive_erase of src/file.c under the     *)
(* loop of panel_operate.  One step is one system call or question; any    *)
(* call may fail, and another process may create files in the source.      *)
(* copy_file_file and move_file_file, the subject of CopyFile, are one     *)
(* step here, with what they do about links.  A symbolic link names a      *)
(* directory or nothing.                                                   *)
(***************************************************************************)
EXTENDS Integers, Sequences, SequencesExt, FiniteSets

CONSTANTS Dirs, Files,  \* the paths that exist, sequences of names
          Tagged,       \* the sequence of the tagged entries
          Targets,      \* directories the user may name as the target
          NewFiles,     \* bound: what the other process may create
          Hard,         \* a further name of a file -> its first name
          Links,        \* a symbolic link -> the path it names
          Operations,   \* OP_COPY, OP_MOVE, OP_DELETE
          MaxErrors     \* bound: calls that fail without a lasting cause

ASSUME TreeAssumption ==
  /\ \A p \in Dirs \cup Files \cup NewFiles : p \in Seq(Range(p))
  /\ \A p \in Dirs \cup Files : p # << >> => Front(p) \in Dirs
  /\ Tagged \in Seq(Dirs \cup Files) /\ Targets \subseteq Dirs
  /\ Dirs \cap (Files \cup NewFiles) = {} /\ MaxErrors \in Nat
  /\ Operations \subseteq {"copy", "move", "delete"}
  /\ DOMAIN Hard \cup Range(Hard) \cup DOMAIN Links \subseteq Files
  /\ DOMAIN Hard \cap (Range(Hard) \cup DOMAIN Links) = {}

VARIABLES
  dirs,    \* the directories
  files,   \* path -> inode, and the first name of whose content it has
  marked,  \* entries still tagged
  op,      \* where the process is, its locals, and FileOpContext
  past     \* history

tree_vars == <<dirs, files, marked, op, past>>

CONT == "cont"  RETRY == "retry"  SKIP == "skip"  ABORT == "abort"
Partial == << >>
First(p) == IF p \in DOMAIN Hard THEN Hard[p] ELSE p
NewFile(p) == [ino |-> p, data |-> p]

Under(p, q) == IsPrefix(p, q)
Rel(p, q) == SubSeq(q, Len(p) + 1, Len(q))
Exists(p) == p \in dirs \cup DOMAIN files
Children(p) == {q \in dirs \cup DOMAIN files : Len(q) = Len(p) + 1 /\ Under(p, q)}
With(f, p, v) == [q \in DOMAIN f \cup {p} |-> IF q = p THEN v ELSE f[q]]
Without(f, p) == [q \in DOMAIN f \ {p} |-> f[q]]

(* A call of copy_dir_dir or recursive_erase.                              *)
Activation(s, d, top) ==
  [s |-> s, dest |-> d, toplevel |-> top, seen |-> {}, must |-> {}]

TreeInit ==
  /\ dirs = Dirs
  /\ files = [p \in Files |-> NewFile(First(p))]
  /\ marked = 1 .. Len(Tagged)
  /\ \E o \in Operations, t \in Targets, dive, follow \in BOOLEAN :
       /\ follow => o = "copy"
       /\ op = [operation |-> o, to |-> t, dive |-> dive, i |-> 0,
             follow_links |-> follow, linklist |-> << >>,
             fn |-> "panel_operate", pc |-> "loop", stack |-> << >>,
             st |-> CONT, erase_list |-> << >>, dest_dirs |-> {},
             path |-> << >>, recursive_result |-> "ask", errors |-> 0]
  /\ past = [aborted |-> FALSE, left_out |-> FALSE, dirs |-> Dirs,
             files |-> Files, broken |-> {},
             born |-> {f \in Files : \E t \in Range(Tagged) : Under(t, f)}]

-----------------------------------------------------------------------------
At(fn, pc) == op.fn = fn /\ op.pc = pc
TopCall == Head(op.stack)
Src == Tagged[op.i]
Dst == Append(op.to, Last(Src))

(* stat_func: mc_stat if links are followed, otherwise mc_lstat.           *)
Real(p) == IF op.follow_links /\ p \in DOMAIN Links THEN Links[p] ELSE p

Call(o, fn, pc) == [o EXCEPT !.fn = fn, !.pc = pc]
Value(o, st) ==
  [Call(o, "panel_operate", "value") EXCEPT
     !.st = st, !.stack = << >>, !.erase_list = << >>]

(* Mistake: a move lists what was not copied too.                          *)
EntryDoneListsAll(o, p, st) ==
  [o EXCEPT !.st = st, !.pc = "read",
            !.erase_list = IF o.operation = "move" THEN Append(@, p) ELSE @]

(* After one entry in copy_dir_dir; a move lists what was copied.          *)
EntryDone(o, p, st) ==
  [o EXCEPT !.st = st, !.pc = "read",
            !.erase_list = IF o.operation = "move" /\ st = CONT
                           THEN Append(@, p) ELSE @]

(* Mistake: the status of a nested directory is dropped.                   *)
CopyReturnsNestedOk(o, st) ==
  CASE Len(o.stack) > 1 ->
         EntryDone([o EXCEPT !.stack = Tail(@)], Head(o.stack).s, CONT)
    [] o.operation = "move" /\ st = CONT ->
         [Call(o, "move_dir_dir", "copied") EXCEPT !.st = st, !.stack = << >>]
    [] OTHER -> Value(o, st)

CopyReturns(o, st) ==
  CASE Len(o.stack) > 1 ->
         EntryDone([o EXCEPT !.stack = Tail(@)], Head(o.stack).s, st)
    [] o.operation = "move" /\ st = CONT ->
         [Call(o, "move_dir_dir", "copied") EXCEPT !.st = st, !.stack = << >>]
    [] OTHER -> Value(o, st)

(* recursive_erase stops at the first failure, which its callers, the      *)
(* other calls of recursive_erase, turn into FILE_RETRY.                   *)
RecursiveReturns(o, st) ==
  CASE st = CONT /\ Len(o.stack) > 1 ->
         [o EXCEPT !.stack = Tail(@), !.pc = "read"]
    [] st # CONT /\ Len(o.stack) > 1 -> Value(o, RETRY)
    [] OTHER -> Value(o, st)

(* The erase list of move_dir_dir, and the source after it, whose status   *)
(* is not looked at.                                                       *)
ListedDone(o, st) ==
  [Call(o, "move_dir_dir", "erase") EXCEPT !.erase_list = Tail(@), !.st = st]
IffEmptyReturns(o, st) ==
  IF o.path = Src THEN Value(o, o.st) ELSE ListedDone(o, st)

Return(st) ==
  CASE op.fn = "copy_dir_dir" -> CopyReturns(op, st)
    [] op.fn = "recursive_erase" -> RecursiveReturns(op, st)
    [] op.fn = "erase_dir_iff_empty" -> IffEmptyReturns(op, st)
    [] At("move_dir_dir", "erase") -> ListedDone(op, st)
    [] OTHER -> Value(op, st)

(* Histories: an Abort, and something of this entry that was left out.     *)
Note(abort, left_out) ==
  past' = [past EXCEPT !.aborted = @ \/ abort, !.left_out = @ \/ left_out]

Still == UNCHANGED <<dirs, files, marked>>
Goes(o) == op' = o /\ UNCHANGED past
Spend(o, cause) == [o EXCEPT !.errors = IF cause THEN @ ELSE @ + 1]

(* A call fails, because of cause or for no lasting reason; file_error     *)
(* asks.  copy_dir_dir keeps the Retry in its return_status.               *)
Fails(cause) ==
  /\ cause \/ op.errors < MaxErrors
  /\ \E a \in {SKIP, RETRY, ABORT} :
       /\ op' = Spend(IF a # RETRY THEN Return(a)
                      ELSE [op EXCEPT !.st = IF op.fn = "copy_dir_dir" THEN RETRY
                                             ELSE @], cause)
       /\ Note(a = ABORT, a = SKIP)
  /\ Still

(* A call fails and the code goes on without a word.                       *)
FailsSilently(o) ==
  /\ op.errors < MaxErrors
  /\ op' = Spend(o, FALSE)
  /\ Note(FALSE, op.fn = "copy_dir_dir")
  /\ Still

(* The progress is shown after a file went: Skip and Abort are answers too.*)
ProgressShown(o) ==
  \/ Goes(o)
  \/ \E a \in {SKIP, ABORT} : op' = Return(a) /\ Note(a = ABORT, a = SKIP)

(* Abort in the progress dialog, where the code looks at it.               *)
ProgressAbort == op' = Return(ABORT) /\ Note(TRUE, FALSE) /\ Still

-----------------------------------------------------------------------------
(* panel_operate: one tagged entry after the other.                        *)
NextEntry ==
  /\ At("panel_operate", "loop")
  /\ IF op.i = Len(Tagged) THEN Goes([op EXCEPT !.pc = "end"])
     ELSE LET o == [op EXCEPT !.i = @ + 1, !.st = CONT,
                              !.dest_dirs = IF op.operation = "copy" THEN {} ELSE @]
              s == Real(Tagged[o.i])
          IN /\ op' = CASE s \notin dirs -> Call(o, "panel_operate", "file")
                        [] o.operation = "copy" ->
                             [Call(o, "copy_dir_dir", "stat") EXCEPT
                                !.stack = << Activation(s, Append(op.to, Last(Tagged[o.i])),
                                                   TRUE) >>]
                        [] o.operation = "move" -> Call(o, "move_dir_dir", "stat")
                        [] OTHER -> Call(o, "erase_dir", "check")
             /\ past' = [past EXCEPT !.left_out = FALSE, !.dirs = dirs,
                                     !.files = DOMAIN files]
  /\ Still

EntryReturns ==
  /\ At("panel_operate", "value")
  /\ marked' = IF op.st = CONT THEN marked \ {op.i} ELSE marked
  /\ \/ /\ op' = [op EXCEPT !.pc = IF op.st = ABORT THEN "end" ELSE "loop"]
        /\ UNCHANGED past
     \/ op' = [op EXCEPT !.pc = "end"] /\ Note(TRUE, FALSE)
  /\ UNCHANGED <<dirs, files>>

(* The file q with content d, by whatever names it is known.               *)
Written(q, d) ==
  LET i == IF q \in DOMAIN files THEN files[q].ino ELSE q IN
  [r \in DOMAIN files \cup {q} |->
     IF r = q \/ files[r].ino = i THEN [ino |-> i, data |-> d] ELSE files[r]]

SameFile(p, q) == q \in DOMAIN files /\ files[q].ino = files[p].ino

FileDone(o, p, st) ==
  IF o.fn = "copy_dir_dir" THEN EntryDone(o, p, st) ELSE Value(o, st)

(* copy_file_file gives up before it looks at the links: a target that is  *)
(* a directory or the source itself, a link to nothing, an answer of the   *)
(* user, or a failing call.                                                *)
RefusesFile(o, p, q) ==
  LET cause == q \in dirs \/ SameFile(p, q) \/ (o.follow_links /\ p \in DOMAIN Links)
  IN /\ cause \/ op.errors < MaxErrors
     /\ \E a \in {SKIP, ABORT} :
          op' = Spend(FileDone(o, p, a), cause) /\ Note(a = ABORT, a = SKIP)
     /\ UNCHANGED <<dirs, files, marked>>

(* check_hardlinks.  A file with another name is remembered with the place *)
(* it is now copied to; a further name of it is linked to that place.      *)
HasLinks(o, p) ==
  ~o.follow_links /\ \E r \in DOMAIN files \ {p} : SameFile(p, r)
Remembered(o, p, q) ==
  IF HasLinks(o, p) /\ files[p].ino \notin DOMAIN o.linklist
  THEN [o EXCEPT !.linklist = With(@, files[p].ino, [name |-> p, dest |-> q])] ELSE o
CanLink(o, p) ==
  /\ HasLinks(o, p) /\ files[p].ino \in DOMAIN o.linklist
  /\ LET lp == o.linklist[files[p].ino] IN
     SameFile(p, lp.name) /\ lp.dest \in DOMAIN files

(* Mistake: a link that could not be made counts as made.                  *)
LinkFileUnchecked(o, p, q) ==
  /\ CanLink(o, p)
  /\ \/ ~Exists(q) /\ files' = With(files, q, files[o.linklist[files[p].ino].dest])
     \/ UNCHANGED files
  /\ op' = FileDone(o, p, CONT)
  /\ UNCHANGED <<dirs, marked, past>>

LinkFile(o, p, q) ==
  /\ CanLink(o, p) /\ ~Exists(q)
  /\ files' = With(files, q, files[o.linklist[files[p].ino].dest])
  /\ op' = FileDone(o, p, CONT)
  /\ UNCHANGED <<dirs, marked, past>>

(* Otherwise the file is copied whole, and after a Skip or an Abort also   *)
(* nothing, a part, or no file at all is left.                             *)
CopyContents(o, p, q) ==
  LET free == ~CanLink(o, p) \/ Exists(q)
      whole == Written(q, files[p].data)
      o2 == Remembered(o, p, q)
  IN /\ q \notin dirs
     /\ \/ /\ free \/ op.errors < MaxErrors
           /\ files' = whole
           /\ op' = Spend(FileDone(o2, p, CONT), free)
           /\ UNCHANGED past
        \/ /\ op.errors < MaxErrors
           /\ files' \in {files, whole, Written(q, Partial), Without(files, q)}
           /\ \E a \in {SKIP, ABORT} :
                /\ op' = Spend(FileDone(o2, p, a), FALSE)
                /\ past' = [past EXCEPT !.aborted = @ \/ a = ABORT,
                                        !.left_out = @ \/ a = SKIP,
                                        !.broken = @ \cup {files[p].ino}]
     /\ UNCHANGED <<dirs, marked>>

(* Mistake: a file is copied onto itself.                                  *)
CopyFileOnItself(o, p, q) ==
  RefusesFile(o, p, q) \/ LinkFile(o, p, q) \/ CopyContents(o, p, q)

CopyFile(o, p, q) ==
  \/ RefusesFile(o, p, q)
  \/ /\ ~SameFile(p, q) /\ Real(p) = p
     /\ LinkFile(o, p, q) \/ CopyContents(o, p, q)

(* A tagged file.  A move renames it, or copies it and removes the source. *)
TaggedFile ==
  /\ At("panel_operate", "file")
  /\ \/ op.operation = "copy" /\ CopyFile(op, Src, Dst)
     \/ op.operation = "move" /\ CopyFile(op, Src, Dst) /\ op'.st # CONT
     \/ /\ op.operation = "move" /\ Dst \notin dirs /\ ~SameFile(Src, Dst)
        /\ files' = With(Without(files, Src), Dst, files[Src])
        /\ ProgressShown(Value(op, CONT))
        /\ UNCHANGED <<dirs, marked>>
     \/ /\ op.operation = "delete"
        /\ \/ /\ files' = Without(files, Src)
              /\ ProgressShown(Value(op, CONT))
              /\ UNCHANGED <<dirs, marked>>
           \/ ProgressAbort
           \/ Fails(FALSE)

-----------------------------------------------------------------------------
(* copy_dir_dir.                                                           *)
InFrame(o, f) == [o EXCEPT !.stack = << f >> \o Tail(@)]

(* Mistake: neither the directories just made nor those above are looked   *)
(* for.                                                                    *)
StatSourceAlways ==
  /\ At("copy_dir_dir", "stat")
  /\ \/ Goes([op EXCEPT !.pc = "stat_dst"]) /\ Still
     \/ Fails(FALSE)

StatSource ==
  /\ At("copy_dir_dir", "stat")
  /\ \/ Goes(CASE TopCall.s \in op.dest_dirs -> Return(CONT)
               [] \E f \in Range(Tail(op.stack)) : f.s = TopCall.s -> Return(SKIP)
               [] OTHER -> [op EXCEPT !.pc = "stat_dst"]) /\ Still
     \/ Fails(FALSE)

(* Mistake: a file is taken for a target directory.                        *)
StatDestAnything ==
  /\ At("copy_dir_dir", "stat_dst")
  /\ Goes([op EXCEPT !.pc = IF Exists(TopCall.dest) THEN "opendir" ELSE "mkdir"])
  /\ Still

(* A target that exists is used, or at the top level dived into.           *)
StatDest ==
  /\ At("copy_dir_dir", "stat_dst")
  /\ LET d == TopCall.dest IN
     CASE d \notin dirs /\ ~Exists(d) -> Goes([op EXCEPT !.pc = "mkdir"]) /\ Still
       [] d \in DOMAIN files -> Fails(TRUE)
       [] d \in dirs /\ TopCall.toplevel /\ op.dive ->
            /\ Goes([InFrame(op, [TopCall EXCEPT !.dest = Append(d, Last(TopCall.s))])
                       EXCEPT !.pc = "mkdir"])
            /\ Still
       [] OTHER -> Goes([op EXCEPT !.pc = "opendir"]) /\ Still

(* my_mkdir, and in dest_dirs the directory just made.                     *)
Mkdir ==
  /\ At("copy_dir_dir", "mkdir")
  /\ \/ /\ ~Exists(TopCall.dest)
        /\ dirs' = dirs \cup {TopCall.dest}
        /\ Goes([op EXCEPT !.pc = "chown", !.dest_dirs = @ \cup {TopCall.dest}])
        /\ UNCHANGED <<files, marked>>
     \/ Fails(Exists(TopCall.dest))

Chown ==
  /\ At("copy_dir_dir", "chown")
  /\ \/ Goes([op EXCEPT !.pc = "opendir"]) /\ Still
     \/ Fails(FALSE)

(* A source that cannot be read is left without a word.                    *)
Opendir ==
  /\ At("copy_dir_dir", "opendir")
  /\ \/ Goes([InFrame(op, [TopCall EXCEPT !.must = Children(TopCall.s)])
                EXCEPT !.pc = "read"]) /\ Still
     \/ FailsSilently(Return(op.st))

(* Mistake: an Abort does not end the loop.                                *)
ReadEntryAfterAbort ==
  /\ At("copy_dir_dir", "read")
  /\ \E p \in Children(TopCall.s) \ TopCall.seen :
       LET q == Append(TopCall.dest, Last(p))
           o == InFrame(op, [TopCall EXCEPT !.seen = @ \cup {p}])
       IN IF Real(p) \in dirs
          THEN /\ Goes([o EXCEPT !.pc = "stat", !.st = CONT,
                                 !.stack = << Activation(Real(p), q, FALSE) >> \o @])
               /\ Still
          ELSE CopyFile(o, p, q)

(* readdir returns what was there at opendir, and perhaps what came later. *)
(* The end gives the status of the last entry.                             *)
ReadEntry ==
  /\ At("copy_dir_dir", "read") /\ op.st # ABORT
  /\ \E p \in Children(TopCall.s) \ TopCall.seen :
       LET q == Append(TopCall.dest, Last(p))
           o == InFrame(op, [TopCall EXCEPT !.seen = @ \cup {p}])
       IN IF Real(p) \in dirs
          THEN /\ Goes([o EXCEPT !.pc = "stat", !.st = CONT,
                                 !.stack = << Activation(Real(p), q, FALSE) >> \o @])
               /\ Still
          ELSE CopyFile(o, p, q)

CopyDirEnds ==
  /\ At("copy_dir_dir", "read")
  /\ op.st = ABORT \/ TopCall.must \cap Children(TopCall.s) \subseteq TopCall.seen
  /\ Goes(Return(op.st)) /\ Still

-----------------------------------------------------------------------------
(* move_dir_dir.  Into an existing directory it copies, otherwise it       *)
(* renames, and copies between file systems.                               *)
MoveDest == IF Exists(Dst) /\ op.dive THEN Append(Dst, Last(Src)) ELSE Dst

MoveCopies ==
  [Call(op, "copy_dir_dir", "stat") EXCEPT
     !.st = CONT, !.stack = << Activation(Src, MoveDest, FALSE) >>]

MoveStat ==
  /\ At("move_dir_dir", "stat")
  /\ \/ ProgressAbort
     \/ /\ Dst = Src /\ Still
        /\ \E a \in {SKIP, ABORT} : op' = Return(a) /\ Note(a = ABORT, a = SKIP)
     \/ /\ Dst # Src /\ ~Exists(MoveDest)
        /\ Goes([op EXCEPT !.pc = "rename"]) /\ Still
     \/ /\ Dst # Src /\ Exists(MoveDest)
        /\ IF ~op.dive THEN Goes(MoveCopies) /\ Still ELSE Fails(TRUE)

Renamed(p, s, d) == IF Under(s, p) THEN d \o Rel(s, p) ELSE p

MoveRename ==
  /\ At("move_dir_dir", "rename")
  /\ \/ /\ ~Under(Src, MoveDest) /\ Front(MoveDest) \in dirs
        /\ dirs' = {Renamed(p, Src, MoveDest) : p \in dirs}
        /\ files' = [p \in {Renamed(q, Src, MoveDest) : q \in DOMAIN files} |->
                       files[Renamed(p, MoveDest, Src)]]
        /\ Goes(Value(op, CONT))
        /\ UNCHANGED marked
     \/ /\ Front(MoveDest) \in dirs                        \* EXDEV
        /\ Goes(MoveCopies) /\ Still
     \/ Fails(Under(Src, MoveDest) \/ Front(MoveDest) \notin dirs)

(* The progress dialog, looked at between copying and erasing.             *)
MoveCopied ==
  /\ At("move_dir_dir", "copied")
  /\ \/ Goes([op EXCEPT !.pc = "erase"]) /\ Still
     \/ \E a \in {SKIP, ABORT} :
          op' = Return(a) /\ Note(a = ABORT, a = SKIP) /\ Still

EraseIffEmpty(p) == [Call(op, "erase_dir_iff_empty", "check") EXCEPT !.path = p]

(* The erase list from its head, until an Abort; then the source.          *)
MoveErases ==
  /\ At("move_dir_dir", "erase")
  /\ LET list == op.erase_list IN
     IF list = << >> \/ op.st = ABORT THEN Goes(EraseIffEmpty(Src)) /\ Still
     ELSE IF Head(list) \in dirs THEN Goes(EraseIffEmpty(Head(list))) /\ Still
     ELSE \/ /\ files' = Without(files, Head(list))
             /\ Goes(Return(CONT)) /\ UNCHANGED <<dirs, marked>>
          \/ ProgressAbort
          \/ Fails(FALSE)

-----------------------------------------------------------------------------
(* erase_dir_iff_empty and erase_dir: check_dir_is_empty, then rmdir.      *)
IffEmptyCheck ==
  /\ At("erase_dir_iff_empty", "check")
  /\ \/ ProgressAbort
     \/ Goes(IF Children(op.path) = {} THEN [op EXCEPT !.pc = "rmdir"]
             ELSE Return(CONT)) /\ Still
     \/ FailsSilently(Return(CONT))

Rmdir(p) ==
  \/ /\ Children(p) = {}
     /\ dirs' = dirs \ {p}
     /\ Goes(Return(CONT))
     /\ UNCHANGED <<files, marked>>
  \/ Fails(Children(p) # {})

IffEmptyRmdir == At("erase_dir_iff_empty", "rmdir") /\ Rmdir(op.path)

(* Mistake: a directory that is to stay counts as deleted.                 *)
EraseDirCheckNoIsDone ==
  /\ At("erase_dir", "check") /\ Children(Src) # {}
  /\ \/ Goes([Call(op, "recursive_erase", "opendir") EXCEPT
                !.stack = << Activation(Src, Src, TRUE) >>])
     \/ Goes(Value(op, CONT))
  /\ Still

(* query_recursive; All and None are remembered.                           *)
EraseDirCheck ==
  /\ At("erase_dir", "check")
  /\ \/ ProgressAbort
     \/ /\ Children(Src) = {} /\ Goes([op EXCEPT !.pc = "rmdir"]) /\ Still
     \/ FailsSilently([op EXCEPT !.pc = "rmdir"])
     \/ /\ Children(Src) # {} /\ Still
        /\ \E a \in IF op.recursive_result \in {"all", "none"}
                    THEN {op.recursive_result}
                    ELSE {"yes", "no", "all", "none", "abort"} :
             LET o == [op EXCEPT !.recursive_result = a] IN
             /\ op' = CASE a \in {"yes", "all"} ->
                             [Call(o, "recursive_erase", "opendir") EXCEPT
                                !.stack = << Activation(Src, Src, TRUE) >>]
                        [] a \in {"no", "none"} -> Value(o, SKIP)
                        [] OTHER -> Value(o, ABORT)
             /\ Note(a = "abort", a \in {"no", "none"})

EraseDirRmdir == At("erase_dir", "rmdir") /\ Rmdir(Src)

(* recursive_erase.                                                        *)
RecursiveOpendir ==
  /\ At("recursive_erase", "opendir")
  /\ \/ Goes([InFrame(op, [TopCall EXCEPT !.must = Children(TopCall.s)])
                EXCEPT !.pc = "read"]) /\ Still
     \/ FailsSilently(Return(RETRY))

RecursiveEntry ==
  /\ At("recursive_erase", "read")
  /\ \E p \in Children(TopCall.s) :
       \/ FailsSilently(Return(RETRY))                   \* mc_lstat
       \/ /\ p \in dirs /\ Still
          /\ Goes([op EXCEPT !.pc = "opendir",
                             !.stack = << Activation(p, p, FALSE) >> \o @])
       \/ /\ p \notin dirs
          /\ \/ /\ files' = Without(files, p)
                /\ ProgressShown(op) /\ UNCHANGED <<dirs, marked>>
             \/ ProgressAbort
             \/ Fails(FALSE)

RecursiveEnds ==
  /\ At("recursive_erase", "read")
  /\ TopCall.must \cap Children(TopCall.s) = {}
  /\ ProgressAbort \/ (Goes([op EXCEPT !.pc = "rmdir"]) /\ Still)

RecursiveRmdir == At("recursive_erase", "rmdir") /\ Rmdir(TopCall.s)

-----------------------------------------------------------------------------
OtherProcess ==
  \E f \in NewFiles \ past.born :
    /\ Front(f) \in dirs /\ ~Exists(f)
    /\ files' = With(files, f, NewFile(f))
    /\ past' = [past EXCEPT !.born = @ \cup {f}]
    /\ UNCHANGED <<dirs, marked, op>>

Done == At("panel_operate", "end") /\ UNCHANGED tree_vars

CopyDirDir == \/ StatSource \/ StatDest \/ Mkdir \/ Chown
              \/ Opendir \/ ReadEntry \/ CopyDirEnds
MoveDirDir == MoveStat \/ MoveRename \/ MoveCopied \/ MoveErases
EraseDirs == \/ IffEmptyCheck \/ IffEmptyRmdir \/ EraseDirCheck \/ EraseDirRmdir
             \/ RecursiveOpendir \/ RecursiveEntry \/ RecursiveEnds \/ RecursiveRmdir

TreeNext == \/ NextEntry \/ EntryReturns \/ TaggedFile
        \/ CopyDirDir \/ MoveDirDir \/ EraseDirs
        \/ OtherProcess \/ Done

TreeSpec == TreeInit /\ [][TreeNext]_tree_vars

-----------------------------------------------------------------------------
TreeOK ==
  /\ \A p \in dirs : p # << >> => Front(p) \in dirs
  /\ \A p \in DOMAIN files : Front(p) \in dirs
  /\ dirs \cap DOMAIN files = {}
  /\ \A p, q \in DOMAIN files : SameFile(p, q) => files[p] = files[q]
  /\ marked \subseteq 1 .. Len(Tagged)
  /\ op.errors \in 0 .. MaxErrors /\ op.st \in {CONT, RETRY, SKIP, ABORT}
  /\ \A k \in DOMAIN op.stack : op.stack[k].s \in dirs

(* Whatever fails, whatever the user answers and whatever another process  *)
(* creates meanwhile, neither a copy nor a move ever destroys the content  *)
(* of a file: a file is not copied onto itself or onto another name of it, *)
(* and the erase list of a move holds only what was copied, or linked to a *)
(* copy.                                                                   *)
NothingIsLost ==
  op.operation # "delete" =>
    \A f \in past.born : \E p \in DOMAIN files : files[p].data = First(f)

(* An entry loses its tag after a copy or a move only if all of it is at   *)
(* the target with its own content, behind links too, unless some of it    *)
(* was skipped or could not be read (the status of copy_dir_dir is that of *)
(* its last entry), or the first name of a file was, to whose target the   *)
(* others are linked.                                                      *)
UntaggedIsCopied ==
  At("panel_operate", "value") /\ op.operation # "delete"
  /\ op.st = CONT /\ ~past.left_out =>
    \E d \in {Dst, Append(Dst, Last(Src))} :
      \A f \in past.files \cap past.born : Under(Src, f) =>
        LET q == d \o Rel(Src, f) IN
        IF Real(f) = f
        THEN q \in DOMAIN files
             /\ (First(f) \in past.broken \/ files[q].data = First(f))
        ELSE ~Under(Links[f], f) =>
               \A g \in past.files : Under(Links[f], g) =>
                 q \o Rel(Links[f], g) \in DOMAIN files

(* An entry that lost its tag after a delete is gone, with all its files.  *)
UntaggedIsErased ==
  At("panel_operate", "value") /\ op.operation = "delete" /\ op.st = CONT =>
    \A p \in dirs \cup DOMAIN files : ~Under(Src, p)

(* A directory copied into itself, or with links to what is above, ends:   *)
(* the directories made are copies of those that were there before, not of *)
(* those just made, and none is copied inside its own copy ("we don't want *)
(* to copy infinitely if a directory is copied into itself", file.c:828;   *)
(* "used to detect cyclic symbolic links", file.c:118).                    *)
CopyOf(f, d) == FoldLeft(LAMBDA r, n : Real(Append(r, n)), f.s, Rel(f.dest, d))

OnlyOriginals ==
  op.fn = "copy_dir_dir" =>
    \A d \in op.dest_dirs :
      LET f == Last(op.stack) IN
      Under(f.dest, d) =>
        /\ CopyOf(f, d) \in past.dirs
        /\ \A e \in op.dest_dirs : Under(f.dest, e) /\ Under(e, d) /\ e # d =>
             CopyOf(f, e) # CopyOf(f, d)

(* After an Abort a copy changes nothing any more.                         *)
AbortStops ==
  [][past.aborted /\ op.operation = "copy" /\ past'.born = past.born
       => UNCHANGED <<dirs, files>>]_tree_vars

(* The content of every file survives a copy or a move, a copy is made of  *)
(* what was there before, so that it ends, and what lost its tag was       *)
(* copied in full.                                                         *)
TreesAreKept ==
  /\ TreeOK
  /\ NothingIsLost
  /\ OnlyOriginals
  /\ UntaggedIsCopied

=============================================================================
