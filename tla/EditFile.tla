------------------------------ MODULE EditFile ------------------------------
(***************************************************************************)
(* The internal editor and its files: the lock of src/editor/editlock.c,   *)
(* and the commands of edit.c and editcmd.c that take it, save, load and   *)
(* leave.  Several editors run on the same directory; one step is one      *)
(* system call on what they share, the files and the symbolic links        *)
(* ".#FILE" that name the process which edits FILE.  An editor may be      *)
(* killed at any point, and its link stays.                                *)
(***************************************************************************)
EXTENDS Integers, FiniteSets

CONSTANTS Editors,      \* processes
          Files,        \* names in one local directory
          SaveModes,    \* what option_save_mode may be: see SaveCheck
          LineBreaks,   \* whether users choose line breaks in Save As
          Drafts,       \* bound: texts of one editor told apart
          MayCrash,     \* the editors that may be killed
          None          \* no file, no link, no loaded buffer

VARIABLES
  disk,    \* the text of each file and backup, or None
  fresh,   \* <<e, f>>: the st_mtime that e remembers is that of f now
  lock,    \* whom the link ".#FILE" names, or None
  ed       \* the WEdit of each editor, and where its command is; failed
           \* (history): a save of its new file stored some text and failed

vars == <<disk, fresh, lock, ed>>

(* Texts are told apart by who typed them, and from the one before;        *)
(* Partial is what a write that failed half way has stored.                *)
Empty == <<"empty">>
Partial == <<"part">>
Texts == {Empty, Partial}
           \cup {<<e, n>> : e \in Editors, n \in 0 .. Drafts - 1}
NewText(e) == <<e, IF ed[e].text = <<e, 0>> THEN 1 % Drafts ELSE 0>>

Backup(f) == <<f, "~">>
Names == Files \cup {Backup(f) : f \in Files}

(* None of the files is the backup of another.                             *)
ASSUME EditAssumption ==
  /\ None \notin Editors /\ None \notin Files /\ None \notin Texts
  /\ \A f \in Files : Backup(f) \notin Files
  /\ SaveModes \subseteq {"quick", "safe", "backup"} /\ LineBreaks \in BOOLEAN
  /\ MayCrash \subseteq Editors /\ Drafts \in Nat \ {0}

Buffer == [file : Files, text : Texts, delete_file : BOOLEAN]

Closed(f) ==
  [pc |-> "out", file |-> f, text |-> Empty, delete_file |-> FALSE,
   locked |-> FALSE, modified |-> FALSE, lb |-> FALSE, failed |-> FALSE,
   cmd |-> "none", quitting |-> FALSE, save_lock |-> FALSE, res |-> 0,
   exp |-> f, target |-> f, ret |-> "none", again |-> FALSE, next |-> None]

Init ==
  /\ disk \in [Names -> {None, Empty}]
  /\ \A f \in Files : disk[Backup(f)] = None
  /\ fresh = {}
  /\ lock = [f \in Files |-> None]
  /\ \E f \in Files : ed = [e \in Editors |-> Closed(f)]

-----------------------------------------------------------------------------
At(e, pc) == ed[e].pc = pc
Become(e, r) == ed' = [ed EXCEPT ![e] = r]
Goto(e, pc) == Become(e, [ed[e] EXCEPT !.pc = pc])
Alive(e) == ed[e].pc \notin {"out", "gone", "killed"}

(* The file f changes: no editor but those of who knows its time.          *)
Write(f, text, who) ==
  /\ disk' = [disk EXCEPT ![f] = text]
  /\ fresh' = {p \in fresh : p[2] # f /\ p[1] \notin who}
                \cup {<<e, f>> : e \in who}

Stat(e, f) == {p \in fresh : p[1] # e} \cup {<<e, f>>}

(* Calls of edit_lock_file and edit_unlock_file, returning to ret.         *)
CallLock(r, f, ret) == [r EXCEPT !.pc = "l_look", !.target = f, !.ret = ret]
CallUnlock(r, f, ret) == [r EXCEPT !.pc = "u_look", !.target = f, !.ret = ret]

(* Mistake: the lock is not given back.                                    *)
CallCleanKeepsLock(r) == [r EXCEPT !.pc = "clean", !.locked = FALSE]

(* edit_clean begins by unlocking.                                         *)
CallClean(r) ==
  IF r.locked THEN CallUnlock([r EXCEPT !.locked = FALSE], r.file, "clean")
  ELSE [r EXCEPT !.pc = "clean"]

(* The command has returned 1 or 0; edit_ok_to_exit goes on with 1.        *)
Idle(r) ==
  [Closed(r.file) EXCEPT
     !.pc = "idle",
     !.text = r.text, !.delete_file = r.delete_file,
     !.locked = r.locked, !.modified = r.modified, !.lb = r.lb,
     !.failed = r.failed]

Return(r, ok) == IF r.quitting /\ ok THEN CallClean(Idle(r)) ELSE Idle(r)

(* Mistake: a file that was saved is still taken for a new one.            *)
SaveEndsStillNew(r) ==
  CASE r.res = 0 -> [r EXCEPT !.pc = "save_as"]
    [] r.res > 0 -> Return([r EXCEPT !.modified = FALSE], TRUE)
    [] OTHER -> Return(r, TRUE)

(* The end of edit_save_cmd, which returns 1 for a refused save too.       *)
SaveEnds(r) ==
  CASE r.res = 0 -> [r EXCEPT !.pc = "save_as"]
    [] r.res > 0 -> Return([r EXCEPT !.delete_file = FALSE, !.modified = FALSE,
                                     !.failed = FALSE], TRUE)
    [] OTHER -> Return(r, TRUE)

-----------------------------------------------------------------------------
(* edit_lock_file: lstat, readlink and kill, unlink, symlink.              *)
LockReturns(e, got) ==
  LET r == ed[e] IN
  Become(e, IF r.ret = "edit"
            THEN Return([r EXCEPT !.locked = got, !.modified = TRUE,
                                  !.text = NewText(e)], FALSE)
            ELSE [r EXCEPT !.pc = "save", !.save_lock = got,
                           !.ret = "none", !.target = r.file])

LockLook(e) ==
  /\ At(e, "l_look")
  /\ Goto(e, IF lock[ed[e].target] = None THEN "l_create" ELSE "l_read")
  /\ UNCHANGED <<disk, fresh, lock>>

LockRead(e) ==
  LET owner == lock[ed[e].target] IN
  /\ At(e, "l_read")
  /\ \/ owner = None /\ LockReturns(e, FALSE)
     \/ owner # None /\ Goto(e, "l_remove")      \* stale, or Grab lock
     \/ owner # None /\ Alive(owner) /\ LockReturns(e, FALSE)
  /\ UNCHANGED <<disk, fresh, lock>>

LockRemove(e) ==
  /\ At(e, "l_remove")
  /\ lock' = [lock EXCEPT ![ed[e].target] = None]
  /\ Goto(e, "l_create")
  /\ UNCHANGED <<disk, fresh>>

LockCreate(e) ==
  /\ At(e, "l_create")
  /\ \/ /\ lock[ed[e].target] = None
        /\ lock' = [lock EXCEPT ![ed[e].target] = e]
        /\ LockReturns(e, TRUE)
     \/ UNCHANGED lock /\ LockReturns(e, FALSE)
  /\ UNCHANGED <<disk, fresh>>

(* edit_unlock_file: lstat, readlink, unlink.                              *)
UnlockReturns(e) ==
  LET r == [ed[e] EXCEPT !.pc = ed[e].ret, !.ret = "none", !.target = ed[e].file]
  IN Become(e, CASE r.pc = "save_end" -> SaveEnds(r)
                 [] r.pc = "save_as_failed" -> Return(r, FALSE)
                 [] OTHER -> r)

UnlockLook(e) ==
  /\ At(e, "u_look")
  /\ IF lock[ed[e].target] = None THEN UnlockReturns(e) ELSE Goto(e, "u_read")
  /\ UNCHANGED <<disk, fresh, lock>>

UnlockRead(e) ==
  /\ At(e, "u_read")
  /\ IF lock[ed[e].target] \in {None, e} THEN Goto(e, "u_remove")
     ELSE UnlockReturns(e)
  /\ UNCHANGED <<disk, fresh, lock>>

UnlockRemove(e) ==
  /\ At(e, "u_remove")
  /\ lock' = [lock EXCEPT ![ed[e].target] = None]
  /\ UnlockReturns(e)
  /\ UNCHANGED <<disk, fresh>>

-----------------------------------------------------------------------------
(* check_file_access and edit_load_file: a file that is not there is made. *)
Opens(e, f) ==
  IF disk[f] = None THEN Write(f, Empty, {e})
  ELSE /\ UNCHANGED disk
       /\ fresh' = Stat(e, f)

(* Mistake: the text of a file that is still to be made is read.           *)
LoadedTooEarly(f) ==
  [file |-> f, text |-> disk[f], delete_file |-> disk[f] = None]

Loaded(f) ==
  [file |-> f, text |-> IF disk[f] = None THEN Empty ELSE disk[f],
   delete_file |-> disk[f] = None]

Edits(b) == [Closed(b.file) EXCEPT !.pc = "idle", !.text = b.text,
                                   !.delete_file = b.delete_file]

Start(e, f) ==
  /\ At(e, "out")
  /\ Opens(e, f)
  /\ Become(e, Edits(Loaded(f)))
  /\ UNCHANGED lock

(* edit_modification, the first one since the last save.                   *)
Modify(e) ==
  LET r == ed[e] IN
  /\ At(e, "idle") /\ ~r.modified
  /\ Become(e, IF ~r.delete_file THEN CallLock(r, r.file, "edit")
               ELSE [r EXCEPT !.modified = TRUE, !.text = NewText(e)])
  /\ UNCHANGED <<disk, fresh, lock>>

(* edit_save_cmd, by itself or in edit_ok_to_exit.                         *)
SaveCmd(e) ==
  LET s(q) == [ed[e] EXCEPT !.cmd = "save", !.quitting = q]
  IN /\ At(e, "idle")
     /\ \E q \in {FALSE, ed[e].modified} :
          Become(e, IF ~ed[e].locked /\ ~ed[e].delete_file
                    THEN CallLock(s(q), ed[e].file, "save")
                    ELSE [s(q) EXCEPT !.pc = "save"])
     /\ UNCHANGED <<disk, fresh, lock>>

(* edit_save_as_cmd: asks for the name and, when another file has it, for  *)
(* permission.  The lock is that of the new name.                          *)
SaveAsCmd(e) ==
  /\ ed[e].pc \in {"idle", "save_as"}
  /\ \/ At(e, "save_as") /\ Become(e, Return(ed[e], FALSE))        \* Cancel
     \/ \E f \in Files, lb \in {ed[e].lb, LineBreaks} :
          LET other == f # ed[e].file
              r == [ed[e] EXCEPT !.cmd = "save_as", !.exp = f, !.lb = lb,
                                 !.save_lock = FALSE]
          IN Become(e, IF other \/ (~r.locked /\ ~r.delete_file)
                       THEN CallLock(r, f, "save") ELSE [r EXCEPT !.pc = "save"])
  /\ UNCHANGED <<disk, fresh, lock>>

-----------------------------------------------------------------------------
(* edit_save_file.  In the quick mode, and for a file that is not there,   *)
(* the time of the file is compared and the file itself is rewritten; in   *)
(* the safe mode a temporary file is written and renamed, and with backups *)
(* the file gives way to it by a rename of its own.                        *)
Quick(f) == "quick" \in SaveModes \/ disk[f] = None

SaveCheck(e) ==
  LET r == ed[e]
      changed == disk[r.exp] # None /\ <<e, r.exp>> \notin fresh
  IN /\ At(e, "save")
     /\ \/ /\ Quick(r.exp)
           /\ \/ ~changed /\ Become(e, [r EXCEPT !.pc = "s_open"])
              \/ /\ changed                              \* Save anyway?
                 /\ \/ Become(e, [r EXCEPT !.pc = "s_open"])
                    \/ Become(e, [r EXCEPT !.pc = "saved", !.res = -1])
        \/ "safe" \in SaveModes /\ disk[r.exp] # None
           /\ Become(e, [r EXCEPT !.pc = "s_rename"])
        \/ "backup" \in SaveModes /\ disk[r.exp] # None
           /\ Become(e, [r EXCEPT !.pc = "s_backup"])
     /\ UNCHANGED <<disk, fresh, lock>>

Succeeded(e) ==
  [ed[e] EXCEPT !.pc = "saved", !.res = 1]
SaveFails(e) == Become(e, [ed[e] EXCEPT !.pc = "saved", !.res = 0])

(* After something was stored: the file of the buffer may hold a text now. *)
StoreFails(e) ==
  LET r == ed[e]
  IN Become(e, [r EXCEPT !.pc = "saved", !.res = 0,
                         !.failed = @ \/ (r.delete_file /\ r.exp = r.file)])

SaveOpen(e) ==
  /\ At(e, "s_open")
  /\ \/ Write(ed[e].exp, Empty, {}) /\ Goto(e, "s_write")
     \/ UNCHANGED <<disk, fresh>> /\ SaveFails(e)
  /\ UNCHANGED lock

(* Mistake: the result of the write is not looked at.                      *)
SaveWriteUnchecked(e) ==
  /\ At(e, "s_write")
  /\ \/ Write(ed[e].exp, ed[e].text, {})
     \/ UNCHANGED <<disk, fresh>>
  /\ Become(e, [ed[e] EXCEPT !.pc = "s_stat"])
  /\ UNCHANGED lock

(* All is written, or a part of it, or nothing.  Then mc_close may fail,   *)
(* and after a short write the file is looked at before that is noticed.   *)
(* When line breaks are changed, nothing is looked at, and the error of    *)
(* fclose is lost.                                                         *)
SaveWrite(e) ==
  LET r == ed[e]
      f == r.exp
      asked == {{}} \cup IF r.lb THEN {} ELSE {{e}}
  IN /\ At(e, "s_write")
     /\ \/ /\ Write(f, r.text, {})
           /\ Become(e, IF r.lb THEN Succeeded(e) ELSE [r EXCEPT !.pc = "s_stat"])
        \/ ~r.lb /\ Write(f, r.text, {}) /\ StoreFails(e)
        \/ \E who \in asked : Write(f, Partial, who) /\ StoreFails(e)
        \/ /\ UNCHANGED disk /\ SaveFails(e)
           /\ \/ UNCHANGED fresh
              \/ ~r.lb /\ fresh' = Stat(e, f)
        \/ /\ r.lb /\ Become(e, Succeeded(e))
           /\ UNCHANGED <<disk, fresh>> \/ Write(f, Partial, {})
     /\ UNCHANGED lock

(* mc_stat of what was written and closed; it may fail.                    *)
SaveStat(e) ==
  LET f == ed[e].exp IN
  /\ At(e, "s_stat")
  /\ UNCHANGED <<disk, lock>>
  /\ \/ UNCHANGED fresh /\ StoreFails(e)
     \/ disk[f] # None /\ fresh' = Stat(e, f) /\ Become(e, Succeeded(e))

(* The temporary file was written, or that failed; its time is remembered. *)
TempFails(e) ==
  /\ fresh' \in {fresh, {p \in fresh : p[1] # e}}
  /\ UNCHANGED disk /\ SaveFails(e)

SaveBackup(e) ==
  LET f == ed[e].exp IN
  /\ At(e, "s_backup")
  /\ \/ /\ disk[f] # None
        /\ disk' = [disk EXCEPT ![Backup(f)] = disk[f], ![f] = None]
        /\ Goto(e, "s_rename") /\ UNCHANGED fresh
     \/ TempFails(e)
  /\ UNCHANGED lock

SaveRename(e) ==
  /\ At(e, "s_rename")
  /\ \/ /\ Write(ed[e].exp, ed[e].text, IF ed[e].lb THEN {} ELSE {e})
        /\ Become(e, Succeeded(e))
     \/ TempFails(e)
  /\ UNCHANGED lock

-----------------------------------------------------------------------------
(* Mistake: only the lock taken by this save is given back.                *)
SaveUnlocksOwn(e) ==
  LET r == ed[e] IN
  /\ At(e, "saved") /\ r.cmd = "save"
  /\ Become(e, IF r.save_lock
               THEN CallUnlock([r EXCEPT !.save_lock = FALSE], r.file, "save_end")
               ELSE SaveEnds(r))
  /\ UNCHANGED <<disk, fresh, lock>>

(* After edit_save_file: give the locks back, then the rest of the command.*)
SaveUnlocks(e) ==
  LET r == ed[e] IN
  /\ At(e, "saved") /\ r.cmd = "save"
  /\ Become(e, IF (r.res > 0 /\ r.locked) \/ r.save_lock
               THEN CallUnlock([r EXCEPT !.locked = FALSE, !.save_lock = FALSE],
                               r.file, "save_end")
               ELSE SaveEnds(r))
  /\ UNCHANGED <<disk, fresh, lock>>

(* Mistake: the lock of the old name is kept.                              *)
SaveAsUnlocksNewOnly(e) ==
  LET r == ed[e] IN
  /\ At(e, "saved") /\ r.cmd = "save_as"
  /\ Become(e, IF r.save_lock
               THEN CallUnlock([r EXCEPT !.save_lock = FALSE], r.exp,
                               IF r.res > 0 THEN "save_as_end" ELSE "save_as_failed")
               ELSE IF r.res > 0 THEN [r EXCEPT !.pc = "save_as_end"]
               ELSE Return(r, FALSE))
  /\ UNCHANGED <<disk, fresh, lock>>

(* The new name first, then the old one; after a failure only the lock of  *)
(* this save.                                                              *)
SaveAsUnlocks(e) ==
  LET r == ed[e] IN
  /\ At(e, "saved") /\ r.cmd = "save_as"
  /\ Become(e,
       CASE r.res <= 0 /\ r.save_lock ->
              CallUnlock([r EXCEPT !.save_lock = FALSE], r.exp, "save_as_failed")
         [] r.res <= 0 /\ ~r.save_lock -> Return(r, FALSE)
         [] r.res > 0 /\ r.save_lock /\ r.exp # r.file ->
              CallUnlock([r EXCEPT !.save_lock = FALSE], r.exp, "saved")
         [] r.res > 0 /\ (r.locked \/ r.save_lock)
              /\ ~(r.save_lock /\ r.exp # r.file) ->
              CallUnlock([r EXCEPT !.locked = FALSE, !.save_lock = FALSE],
                         r.file, "save_as_end")
         [] OTHER -> [r EXCEPT !.pc = "save_as_end"])
  /\ UNCHANGED <<disk, fresh, lock>>

(* edit_set_filename, and edit_reload when line breaks were chosen.        *)
SaveAsEnds(e) ==
  LET r == [ed[e] EXCEPT !.file = ed[e].exp, !.failed = FALSE] IN
  /\ At(e, "save_as_end")
  /\ IF r.lb
     THEN /\ Opens(e, r.exp)
          /\ Become(e, [r EXCEPT !.pc = "clean", !.next = Loaded(r.exp)])
     ELSE /\ Become(e, Return([r EXCEPT !.delete_file = FALSE,
                                        !.modified = FALSE], TRUE))
          /\ UNCHANGED <<disk, fresh>>
  /\ UNCHANGED lock

-----------------------------------------------------------------------------
(* edit_load_cmd, edit_ok_to_exit without saving, and edit_clean.          *)
LoadCmd(e, f) ==
  LET r == [ed[e] EXCEPT !.next = Loaded(f), !.again = ed[e].locked] IN
  /\ At(e, "idle")
  /\ Opens(e, f)
  /\ Become(e, CallClean(r))
  /\ UNCHANGED lock

QuitCmd(e) ==
  /\ At(e, "idle")
  /\ Become(e, CallClean(ed[e]))
  /\ UNCHANGED <<disk, fresh, lock>>

(* The rest of edit_clean; then the loaded buffer takes over, and          *)
(* edit_load_file_from_filename unlocks the old name once more.            *)
Clean(e) ==
  LET r == ed[e]
      b == [Edits(r.next) EXCEPT !.quitting = r.quitting]
  IN /\ At(e, "clean")
     /\ IF r.delete_file THEN Write(r.file, None, {}) ELSE UNCHANGED <<disk, fresh>>
     /\ Become(e, CASE r.next = None -> [Closed(r.file) EXCEPT !.pc = "gone"]
                    [] r.next # None /\ r.again -> CallUnlock(b, r.file, "idle")
                    [] OTHER -> Return([b EXCEPT !.delete_file =
                                          @ /\ r.cmd # "save_as"], TRUE))
     /\ UNCHANGED lock

Crash(e) ==
  /\ e \in MayCrash /\ Alive(e)
  /\ Become(e, [Closed(ed[e].file) EXCEPT !.pc = "killed"])
  /\ UNCHANGED <<disk, fresh, lock>>

AllOut == (\A e \in Editors : ~Alive(e) /\ ~At(e, "out")) /\ UNCHANGED vars

Locking(e) ==
  \/ LockLook(e) \/ LockRead(e) \/ LockRemove(e) \/ LockCreate(e)
  \/ UnlockLook(e) \/ UnlockRead(e) \/ UnlockRemove(e)

Saving(e) ==
  \/ SaveCmd(e) \/ SaveAsCmd(e)
  \/ SaveCheck(e) \/ SaveOpen(e) \/ SaveWrite(e) \/ SaveStat(e)
  \/ SaveBackup(e) \/ SaveRename(e)
  \/ SaveUnlocks(e) \/ SaveAsUnlocks(e) \/ SaveAsEnds(e)

Next ==
  \/ \E e \in Editors :
       \/ \E f \in Files : Start(e, f) \/ LoadCmd(e, f)
       \/ Modify(e) \/ QuitCmd(e) \/ Clean(e) \/ Crash(e)
       \/ Locking(e) \/ Saving(e)
  \/ AllOut

Spec == Init /\ [][Next]_vars

-----------------------------------------------------------------------------
TypeOK ==
  /\ disk \in [Names -> Texts \cup {None}]
  /\ fresh \subseteq Editors \X Files
  /\ lock \in [Files -> Editors \cup {None}]
  /\ DOMAIN ed = Editors
  /\ \A e \in Editors :
       /\ ed[e].file \in Files /\ ed[e].exp \in Files /\ ed[e].target \in Files
       /\ ed[e].text \in Texts /\ ed[e].next \in Buffer \cup {None}
       /\ ed[e].res \in {-1, 0, 1} /\ ed[e].failed \in BOOLEAN

(* No lock is forgotten: the link that names an editor which waits for a   *)
(* command is that of the file it has locked, and one that left has none.  *)
LocksAccounted ==
  \A e \in Editors, f \in Files :
    lock[f] = e /\ ed[e].pc \in {"idle", "gone"} =>
      At(e, "idle") /\ ed[e].locked /\ ed[e].file = f

(* A file is locked for as long as there is something to save, no longer.  *)
LockedWhileModified ==
  \A e \in Editors : At(e, "idle") /\ ed[e].locked => ed[e].modified

(* A save that reports success has put the buffer on the disk (when nobody *)
(* else writes, and no line breaks were to be changed: the fclose that     *)
(* flushes such a save is not looked at).                                  *)
SavedIsOnDisk ==
  \A e \in Editors :
    At(e, "saved") /\ ed[e].res > 0 /\ ~ed[e].lb =>
      disk[ed[e].exp] = ed[e].text

(* An editor removes only a file in which nobody saved a text, or leaves   *)
(* that text in the backup: "File specified on the mcedit command line and *)
(* never saved" (edit.c:887).  What a save has stored before it failed,    *)
(* the whole text perhaps, is removed too: delete_file is reset only by a  *)
(* save that succeeds (editcmd.c:339-344, edit.c:888).                     *)
(* It holds of one editor that leaves the line breaks alone: changing them *)
(* reloads the file before delete_file is reset.                           *)
NeverDeletesText ==
  [][(\A e \in Editors : ~ed[e].lb) =>
       \A f \in Files : disk'[f] = None =>
         \/ disk[f] \in {None, Empty, disk'[Backup(f)]}
         \/ \E e \in Editors : At(e, "clean") /\ ed[e].file = f /\ ed[e].failed]_vars

(* The links on the disk and the flags of the buffers tell the same story, *)
(* between any two commands of any editor.                                 *)
LocksFollowBuffers ==
  /\ TypeOK
  /\ LocksAccounted
  /\ LockedWhileModified

(* What a save leaves behind is right in both places: the text on the      *)
(* disk, and no lock under the name the buffer had before.                 *)
SavesAreKept ==
  /\ LocksAccounted
  /\ SavedIsOnDisk

=============================================================================
