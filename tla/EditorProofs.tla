---------------------------- MODULE EditorProofs ----------------------------
(***************************************************************************)
(* Proofs about the internal editor, its locks and what its buffer is kept *)
(* in: the locks of any number of editors and files, whichever of them are *)
(* killed (EditFile), and the tables of blocks and the ring of the undo    *)
(* stack, for blocks and stacks of any size (EditBuffer, UndoStack).       *)
(*                                                                         *)
(* Locks.  A link names an editor only because that editor made it, so it  *)
(* is enough to know, of each editor, which links may still name it: that  *)
(* of the buffer's file while the buffer is locked, that of the name being *)
(* saved while the save holds it, and that of the name being unlocked      *)
(* until edit_unlock_file returns.  Holding says so; other editors can     *)
(* only take links away.  Good says where a command can be with which      *)
(* flags, so that no flag is dropped before its link.                      *)
(*                                                                         *)
(* The buffer.  The tables of blocks are read as one text (Text), and the  *)
(* lemmas about the four routines say which byte of it each inserts or     *)
(* removes and which types and counters it keeps (Sound).  The ring of the *)
(* undo stack is read as a sequence of entries, and the entries as the     *)
(* sequence of actions they stand for, an action with a count as that many *)
(* actions (StandsFor).  A push then adds an action or takes away the one  *)
(* it cancels, and the oldest give way as far as a key press.  Walk        *)
(* follows the actions down from the top: every one leads from a text and  *)
(* cursor to those before it, and at the key presses these are the         *)
(* snapshots of past.                                                      *)
(***************************************************************************)
EXTENDS EditFile, EditBuffer, FiniteSetTheorems, SequenceTheorems,
        WellFoundedInduction, TLAPS

-----------------------------------------------------------------------------
(* Locks and saving (EditFile).                                            *)

LockPcs == {"l_look", "l_read", "l_remove", "l_create"}
UnlockPcs == {"u_look", "u_read", "u_remove"}
SavePcs == {"save", "s_open", "s_write", "s_stat", "s_backup", "s_rename",
            "saved"}
Pcs == {"out", "idle", "save_as", "save_end", "save_as_end",
        "save_as_failed", "clean", "gone", "killed"}
         \cup LockPcs \cup UnlockPcs \cup SavePcs

Command ==
  [pc : Pcs, file : Files, text : Texts, delete_file : BOOLEAN,
   locked : BOOLEAN, modified : BOOLEAN, lb : BOOLEAN, failed : BOOLEAN,
   cmd : {"none", "save", "save_as"}, quitting : BOOLEAN,
   save_lock : BOOLEAN, res : {-1, 0, 1}, exp : Files, target : Files,
   ret : {"none", "edit", "save", "clean", "save_end", "saved",
          "save_as_failed", "save_as_end", "idle"},
   again : BOOLEAN, next : Buffer \cup {None}]

(* Where a command is, and the flags it may have there.                    *)
Good(r) ==
  /\ r.locked => r.modified /\ r.pc \notin {"out", "clean", "save_as_end",
                                            "gone", "killed"}
  /\ r.save_lock => r.pc \in SavePcs
  /\ r.pc \in SavePcs => r.cmd # "none"
  /\ r.cmd # "save_as" => r.exp = r.file
  /\ r.pc = "idle" => r.cmd = "none"
  /\ r.pc \in LockPcs =>
       \/ r.ret = "edit" /\ ~r.locked /\ r.target = r.file
       \/ r.ret = "save" /\ r.cmd # "none" /\ r.target = r.exp
  /\ r.pc \in UnlockPcs =>
       \/ /\ r.ret \in {"clean", "save_end", "save_as_end", "idle"}
          /\ ~r.locked
          /\ r.ret = "idle" => r.cmd = "none"
       \/ r.ret \in {"saved", "save_as_failed"} /\ r.cmd = "save_as"

(* The files whose link may name the editor.                               *)
Holding(r) ==
  {f \in Files : \/ r.pc = "killed"
                 \/ r.locked /\ f = r.file
                 \/ r.save_lock /\ f = r.exp
                 \/ r.pc \in UnlockPcs /\ f = r.target}

DiskTyped ==
  /\ disk \in [Names -> Texts \cup {None}]
  /\ fresh \subseteq Editors \X Files
  /\ lock \in [Files -> Editors \cup {None}]

IInv ==
  /\ DiskTyped
  /\ ed \in [Editors -> Command]
  /\ \A e \in Editors : Good(ed[e])
  /\ \A e \in Editors, f \in Files : lock[f] = e => f \in Holding(ed[e])

-----------------------------------------------------------------------------
(* What the helpers make of a command.                                     *)

LEMMA IdleFields ==
  ASSUME NEW r \in Command
  PROVE  /\ Idle(r) \in Command
         /\ Idle(r).pc = "idle" /\ Idle(r).file = r.file
         /\ Idle(r).locked = r.locked /\ Idle(r).modified = r.modified
         /\ Idle(r).save_lock = FALSE /\ Idle(r).cmd = "none"
         /\ Idle(r).exp = r.file /\ Idle(r).quitting = FALSE
         /\ Idle(r).text = r.text /\ Idle(r).delete_file = r.delete_file
         /\ Idle(r).lb = r.lb /\ Idle(r).next = None /\ Idle(r).res = 0
         /\ Idle(r).failed = r.failed
<1> DEFINE q == Idle(r)
<1> DEFINE c == Closed(r.file)
<1>0. /\ c = [pc |-> "out", file |-> r.file, text |-> Empty,
              delete_file |-> FALSE, locked |-> FALSE, modified |-> FALSE,
              lb |-> FALSE, failed |-> FALSE, cmd |-> "none",
              quitting |-> FALSE,
              save_lock |-> FALSE, res |-> 0, exp |-> r.file,
              target |-> r.file, ret |-> "none", again |-> FALSE,
              next |-> None]
      /\ q = [c EXCEPT
                !.pc = "idle",
                !.text = r.text, !.delete_file = r.delete_file,
                !.locked = r.locked, !.modified = r.modified, !.lb = r.lb,
                !.failed = r.failed]
  BY DEF Idle, Closed
<1> HIDE DEF q, c
<1>1. q = [pc |-> "idle", file |-> r.file, text |-> r.text,
           delete_file |-> r.delete_file, locked |-> r.locked,
           modified |-> r.modified, lb |-> r.lb,
           failed |-> r.failed, cmd |-> "none",
           quitting |-> FALSE, save_lock |-> FALSE, res |-> 0,
           exp |-> r.file, target |-> r.file, ret |-> "none",
           again |-> FALSE, next |-> None]
  BY <1>0
<1>2. q \in Command
  BY <1>1 DEF Command, Pcs
<1> QED BY <1>1, <1>2 DEF q

LEMMA CleanFields ==
  ASSUME NEW r \in Command, ~r.save_lock, r.locked => r.modified,
         r.cmd # "save_as" => r.exp = r.file
  PROVE  /\ CallClean(r) \in Command
         /\ Good(CallClean(r))
         /\ Holding(CallClean(r)) = {f \in Files : r.locked /\ f = r.file}
<1>1. CASE r.locked
  <2> DEFINE q == CallClean(r)
  <2>1. q = [r EXCEPT !.locked = FALSE, !.pc = "u_look", !.target = r.file,
                      !.ret = "clean"]
    BY <1>1 DEF CallClean, CallUnlock, Command
  <2>2. q \in Command
    BY <2>1 DEF Command, Pcs, UnlockPcs
  <2>3. /\ q.pc = "u_look" /\ q.locked = FALSE /\ q.save_lock = FALSE
        /\ q.ret = "clean" /\ q.cmd = r.cmd /\ q.exp = r.exp
        /\ q.file = r.file /\ q.target = r.file
    BY <2>1 DEF Command
  <2> HIDE DEF q
  <2>4. Good(q)
    BY <2>3 DEF Good, SavePcs, LockPcs, UnlockPcs
  <2>5. Holding(q) = {f \in Files : r.locked /\ f = r.file}
    BY <2>3, <1>1 DEF Holding, UnlockPcs
  <2> QED BY <2>2, <2>4, <2>5 DEF q
<1>2. CASE ~r.locked
  <2> DEFINE q == CallClean(r)
  <2>1. q = [r EXCEPT !.pc = "clean"]
    BY <1>2 DEF CallClean
  <2>2. q \in Command
    BY <2>1 DEF Command, Pcs
  <2>3. /\ q.pc = "clean" /\ q.locked = FALSE /\ q.save_lock = FALSE
        /\ q.cmd = r.cmd /\ q.exp = r.exp /\ q.file = r.file
    BY <2>1, <1>2 DEF Command
  <2> HIDE DEF q
  <2>4. Good(q)
    BY <2>3 DEF Good, SavePcs, LockPcs, UnlockPcs
  <2>5. Holding(q) = {f \in Files : r.locked /\ f = r.file}
    BY <2>3, <1>2 DEF Holding, UnlockPcs
  <2> QED BY <2>2, <2>4, <2>5 DEF q
<1> QED BY <1>1, <1>2 DEF Command

LEMMA ReturnFields ==
  ASSUME NEW r \in Command, NEW ok \in BOOLEAN, r.locked => r.modified
  PROVE  /\ Return(r, ok) \in Command
         /\ Good(Return(r, ok))
         /\ Holding(Return(r, ok)) = {f \in Files : r.locked /\ f = r.file}
<1> DEFINE q == Idle(r)
<1>1. /\ q \in Command /\ q.pc = "idle" /\ q.file = r.file
      /\ q.locked = r.locked /\ q.modified = r.modified
      /\ q.save_lock = FALSE /\ q.cmd = "none" /\ q.exp = r.file
  BY IdleFields
<1> HIDE DEF q
<1>2. CASE r.quitting /\ ok
  <2>1. Return(r, ok) = CallClean(q)
    BY <1>2 DEF Return, q
  <2> QED BY <2>1, <1>1, CleanFields
<1>3. CASE ~(r.quitting /\ ok)
  <2>1. Return(r, ok) = q
    BY <1>3 DEF Return, q
  <2>2. Good(q)
    BY <1>1 DEF Good, SavePcs, LockPcs, UnlockPcs
  <2>3. Holding(q) = {f \in Files : r.locked /\ f = r.file}
    BY <1>1 DEF Holding, UnlockPcs
  <2> QED BY <2>1, <2>2, <2>3, <1>1
<1> QED BY <1>2, <1>3

LEMMA SaveEndsFields ==
  ASSUME NEW r \in Command, ~r.save_lock, r.locked => r.modified,
         r.cmd # "save_as" => r.exp = r.file, r.res > 0 => ~r.locked
  PROVE  /\ SaveEnds(r) \in Command
         /\ Good(SaveEnds(r))
         /\ Holding(SaveEnds(r)) = {f \in Files : r.locked /\ f = r.file}
<1>1. CASE r.res = 0
  <2> DEFINE q == SaveEnds(r)
  <2>1. q = [r EXCEPT !.pc = "save_as"]
    BY <1>1 DEF SaveEnds
  <2>2. q \in Command
    BY <2>1 DEF Command, Pcs
  <2>3. /\ q.pc = "save_as" /\ q.locked = r.locked /\ q.save_lock = FALSE
        /\ q.modified = r.modified /\ q.cmd = r.cmd /\ q.exp = r.exp
        /\ q.file = r.file
    BY <2>1 DEF Command
  <2> HIDE DEF q
  <2>4. Good(q)
    BY <2>3 DEF Good, SavePcs, LockPcs, UnlockPcs
  <2>5. Holding(q) = {f \in Files : r.locked /\ f = r.file}
    BY <2>3 DEF Holding, UnlockPcs
  <2> QED BY <2>2, <2>4, <2>5 DEF q
<1>2. CASE r.res > 0
  <2> DEFINE q == [r EXCEPT !.delete_file = FALSE, !.modified = FALSE,
                         !.failed = FALSE]
  <2>0. r.res # 0
    BY <1>2 DEF Command
  <2>1. SaveEnds(r) = Return(q, TRUE)
    BY <1>2, <2>0 DEF SaveEnds
  <2>2. q \in Command
    BY DEF Command
  <2>3. q.locked = r.locked /\ q.file = r.file
    BY DEF Command
  <2> HIDE DEF q
  <2> QED BY <2>1, <2>2, <2>3, <1>2, ReturnFields
<1>3. CASE r.res < 0
  <2>0. r.res # 0 /\ ~(r.res > 0)
    BY <1>3 DEF Command
  <2>1. SaveEnds(r) = Return(r, TRUE)
    BY <2>0 DEF SaveEnds
  <2> QED BY <2>1, ReturnFields
<1> QED BY <1>1, <1>2, <1>3 DEF Command

(* Within one call, a flag changes only where the call returns.            *)
LEMMA SameCall ==
  ASSUME NEW r \in Command, NEW q \in Command, Good(r),
         \/ r.pc \in SavePcs /\ q.pc \in SavePcs
         \/ r.pc \in LockPcs /\ q.pc \in LockPcs
         \/ r.pc \in UnlockPcs /\ q.pc \in UnlockPcs,
         q.file = r.file, q.locked = r.locked, q.modified = r.modified,
         q.cmd = r.cmd, q.save_lock = r.save_lock, q.exp = r.exp,
         q.target = r.target, q.ret = r.ret
  PROVE  Good(q) /\ Holding(q) = Holding(r)
<1>1. Good(q)
  BY DEF Good, SavePcs, LockPcs, UnlockPcs
<1>2. Holding(q) = Holding(r)
  BY DEF Holding, SavePcs, LockPcs, UnlockPcs
<1> QED BY <1>1, <1>2

LEMMA NextPoint ==
  ASSUME NEW r \in Command, Good(r), NEW pc,
         \/ r.pc \in SavePcs /\ pc \in SavePcs
         \/ r.pc \in LockPcs /\ pc \in LockPcs
         \/ r.pc \in UnlockPcs /\ pc \in UnlockPcs
  PROVE  /\ [r EXCEPT !.pc = pc] \in Command
         /\ Good([r EXCEPT !.pc = pc])
         /\ Holding([r EXCEPT !.pc = pc]) = Holding(r)
<1> DEFINE q == [r EXCEPT !.pc = pc]
<1>1. q \in Command
  BY DEF Command, Pcs
<1>2. /\ q.pc = pc /\ q.file = r.file /\ q.locked = r.locked
      /\ q.modified = r.modified /\ q.cmd = r.cmd
      /\ q.save_lock = r.save_lock /\ q.exp = r.exp
      /\ q.target = r.target /\ q.ret = r.ret
  BY DEF Command
<1> HIDE DEF q
<1> QED BY <1>1, <1>2, SameCall DEF q

LEMMA Result ==
  ASSUME NEW r \in Command, Good(r), r.pc \in SavePcs, NEW n \in {-1, 0, 1}
  PROVE  /\ [r EXCEPT !.pc = "saved", !.res = n] \in Command
         /\ Good([r EXCEPT !.pc = "saved", !.res = n])
         /\ Holding([r EXCEPT !.pc = "saved", !.res = n]) = Holding(r)
<1> DEFINE q == [r EXCEPT !.pc = "saved", !.res = n]
<1>1. q \in Command
  BY DEF Command, Pcs, SavePcs
<1>2. /\ q.pc = "saved" /\ q.file = r.file /\ q.locked = r.locked
      /\ q.modified = r.modified /\ q.cmd = r.cmd
      /\ q.save_lock = r.save_lock /\ q.exp = r.exp
      /\ q.target = r.target /\ q.ret = r.ret
  BY DEF Command
<1> HIDE DEF q
<1>3. q.pc \in SavePcs
  BY <1>2 DEF SavePcs
<1> QED BY <1>1, <1>2, <1>3, SameCall DEF q

(* A save that fails after it has stored something.                        *)
LEMMA StoreFailsFields ==
  ASSUME NEW r \in Command, Good(r), r.pc \in SavePcs, NEW b \in BOOLEAN
  PROVE  LET q == [r EXCEPT !.pc = "saved", !.res = 0, !.failed = b]
         IN q \in Command /\ Good(q) /\ Holding(q) = Holding(r)
<1> DEFINE q == [r EXCEPT !.pc = "saved", !.res = 0, !.failed = b]
<1>1. q \in Command
  BY DEF Command, Pcs, SavePcs
<1>2. /\ q.pc = "saved" /\ q.file = r.file /\ q.locked = r.locked
      /\ q.modified = r.modified /\ q.cmd = r.cmd
      /\ q.save_lock = r.save_lock /\ q.exp = r.exp
      /\ q.target = r.target /\ q.ret = r.ret
  BY DEF Command
<1> HIDE DEF q
<1>3. q.pc \in SavePcs
  BY <1>2 DEF SavePcs
<1>4. Good(q) /\ Holding(q) = Holding(r)
  BY <1>1, <1>2, <1>3, SameCall
<1> QED BY <1>1, <1>4 DEF q

(* That is what StoreFails makes of the command.                           *)
LEMMA StoreFailsMeans ==
  ASSUME NEW e \in Editors, ed[e] \in Command, StoreFails(e)
  PROVE  \E b \in BOOLEAN :
           /\ Become(e, [ed[e] EXCEPT !.pc = "saved", !.res = 0, !.failed = b])
           /\ ~b => ~(ed[e].delete_file /\ ed[e].exp = ed[e].file)
           /\ ~b => ~ed[e].failed
<1> DEFINE b == ed[e].failed \/ (ed[e].delete_file /\ ed[e].exp = ed[e].file)
<1>1. b \in BOOLEAN
  BY DEF Command
<1>2. Become(e, [ed[e] EXCEPT !.pc = "saved", !.res = 0, !.failed = b])
  BY DEF StoreFails
<1> QED BY <1>1, <1>2

(* How a write of the file ends.                                           *)
LEMMA SaveWriteCases ==
  ASSUME NEW e \in Editors, SaveWrite(e)
  PROVE  \/ /\ Write(ed[e].exp, ed[e].text, {})
            /\ Become(e, IF ed[e].lb THEN Succeeded(e)
                         ELSE [ed[e] EXCEPT !.pc = "s_stat"])
         \/ \E t \in {Partial, ed[e].text}, who \in {{}, {e}} :
              Write(ed[e].exp, t, who) /\ StoreFails(e)
         \/ /\ UNCHANGED disk /\ SaveFails(e)
            /\ fresh' \in {fresh, Stat(e, ed[e].exp)}
         \/ /\ ed[e].lb /\ Become(e, Succeeded(e))
            /\ UNCHANGED <<disk, fresh>> \/ Write(ed[e].exp, Partial, {})
<1> DEFINE f == ed[e].exp
           asked == {{}} \cup IF ed[e].lb THEN {} ELSE {{e}}
<1>1. \A who \in asked : who \in {{}, {e}}
  OBVIOUS
<1>2. {} \in {{}, {e}}
  OBVIOUS
<1>3. \/ /\ Write(f, ed[e].text, {})
         /\ Become(e, IF ed[e].lb THEN Succeeded(e)
                      ELSE [ed[e] EXCEPT !.pc = "s_stat"])
      \/ Write(f, ed[e].text, {}) /\ StoreFails(e)
      \/ \E who \in asked : Write(f, Partial, who) /\ StoreFails(e)
      \/ /\ UNCHANGED disk /\ SaveFails(e)
         /\ UNCHANGED fresh \/ fresh' = Stat(e, f)
      \/ /\ ed[e].lb /\ Become(e, Succeeded(e))
         /\ UNCHANGED <<disk, fresh>> \/ Write(f, Partial, {})
  BY Zenon DEF SaveWrite
<1> HIDE DEF f, asked
<1> QED BY <1>1, <1>2, <1>3, Zenon DEF f

-----------------------------------------------------------------------------
(* What the helpers make of the files.                                     *)

LEMMA TextsTyped ==
  ASSUME NEW e \in Editors
  PROVE  Empty \in Texts /\ Partial \in Texts /\ NewText(e) \in Texts
<1>1. 0 \in 0 .. Drafts - 1 /\ 1 % Drafts \in 0 .. Drafts - 1
  BY EditAssumption
<1>2. NewText(e) \in Texts
  <2>1. CASE ed[e].text = <<e, 0>>
    BY <2>1, <1>1 DEF NewText, Texts
  <2>2. CASE ed[e].text # <<e, 0>>
    BY <2>2, <1>1 DEF NewText, Texts
  <2> QED BY <2>1, <2>2
<1>3. Empty \in Texts /\ Partial \in Texts
  BY DEF Texts
<1> QED BY <1>2, <1>3

LEMMA WriteTyped ==
  ASSUME DiskTyped, NEW f \in Files, NEW t \in Texts \cup {None},
         NEW who \in SUBSET Editors, Write(f, t, who), UNCHANGED lock
  PROVE  DiskTyped'
<1>1. disk' \in [Names -> Texts \cup {None}]
  BY DEF DiskTyped, Write
<1>2. fresh' \subseteq Editors \X Files
  <2>1. {p \in fresh : p[2] # f /\ p[1] \notin who} \subseteq Editors \X Files
    BY DEF DiskTyped
  <2>2. {<<e, f>> : e \in who} \subseteq Editors \X Files
    OBVIOUS
  <2> QED BY <2>1, <2>2 DEF Write
<1> QED BY <1>1, <1>2 DEF DiskTyped

LEMMA StatTyped ==
  ASSUME DiskTyped, NEW e \in Editors, NEW f \in Files
  PROVE  Stat(e, f) \subseteq Editors \X Files
BY DEF DiskTyped, Stat

LEMMA FreshTyped ==
  ASSUME DiskTyped, NEW e \in Editors,
         \/ fresh' = fresh
         \/ \E f \in Files : fresh' = Stat(e, f)
         \/ fresh' = {p \in fresh : p[1] # e},
         UNCHANGED <<disk, lock>>
  PROVE  DiskTyped'
<1>1. fresh' \subseteq Editors \X Files
  BY StatTyped DEF DiskTyped
<1> QED BY <1>1 DEF DiskTyped

LEMMA OpensTyped ==
  ASSUME DiskTyped, NEW e \in Editors, NEW f \in Files, Opens(e, f),
         UNCHANGED lock
  PROVE  DiskTyped' /\ Loaded(f) \in Buffer
<1>1. f \in Names
  BY DEF Names
<1>2. disk[f] \in Texts \cup {None}
  BY <1>1 DEF DiskTyped
<1>3. Loaded(f) \in Buffer
  <2>1. CASE disk[f] = None
    BY <2>1, TextsTyped DEF Loaded, Buffer
  <2>2. CASE disk[f] # None
    BY <2>2, <1>2 DEF Loaded, Buffer
  <2> QED BY <2>1, <2>2
<1>4. CASE disk[f] = None
  <2>1. Write(f, Empty, {e})
    BY <1>4 DEF Opens
  <2> QED BY <2>1, <1>3, WriteTyped, TextsTyped
<1>5. CASE disk[f] # None
  BY <1>5, <1>3, FreshTyped DEF Opens
<1> QED BY <1>4, <1>5

LEMMA EditsFields ==
  ASSUME NEW b \in Buffer
  PROVE  /\ Edits(b) \in Command
         /\ Edits(b).pc = "idle" /\ Edits(b).file = b.file
         /\ Edits(b).locked = FALSE /\ Edits(b).modified = FALSE
         /\ Edits(b).save_lock = FALSE /\ Edits(b).cmd = "none"
         /\ Edits(b).exp = b.file /\ Edits(b).text = b.text
         /\ Edits(b).delete_file = b.delete_file /\ Edits(b).lb = FALSE
         /\ Edits(b).next = None /\ Edits(b).res = 0
         /\ Edits(b).failed = FALSE
<1> DEFINE q == Edits(b)
           c == Closed(b.file)
<1>0. /\ c = [pc |-> "out", file |-> b.file, text |-> Empty,
              delete_file |-> FALSE, locked |-> FALSE, modified |-> FALSE,
              lb |-> FALSE, failed |-> FALSE, cmd |-> "none",
              quitting |-> FALSE,
              save_lock |-> FALSE, res |-> 0, exp |-> b.file,
              target |-> b.file, ret |-> "none", again |-> FALSE,
              next |-> None]
      /\ q = [c EXCEPT !.pc = "idle", !.text = b.text,
                       !.delete_file = b.delete_file]
  BY DEF Edits, Closed
<1> HIDE DEF q, c
<1>1. q = [pc |-> "idle", file |-> b.file, text |-> b.text,
           delete_file |-> b.delete_file, locked |-> FALSE,
           modified |-> FALSE, lb |-> FALSE, failed |-> FALSE, cmd |-> "none",
           quitting |-> FALSE, save_lock |-> FALSE, res |-> 0,
           exp |-> b.file, target |-> b.file, ret |-> "none",
           again |-> FALSE, next |-> None]
  BY <1>0
<1>2. b.file \in Files /\ b.text \in Texts /\ b.delete_file \in BOOLEAN
  BY DEF Buffer
<1>3. q \in Command
  BY <1>1, <1>2 DEF Command, Pcs
<1> QED BY <1>1, <1>3 DEF q

-----------------------------------------------------------------------------
(* A step of an editor that may take or drop its own links, and drop those *)
(* of others.                                                              *)
LEMMA Takes ==
  ASSUME IInv, NEW e \in Editors, NEW r \in Command, Good(r), Become(e, r),
         DiskTyped',
         \A f \in Files : lock'[f] \in {lock[f], None, e},
         \A f \in Files : lock'[f] = e => f \in Holding(r)
  PROVE  IInv'
<1>1. ed' = [ed EXCEPT ![e] = r] /\ ed' \in [Editors -> Command]
  BY DEF IInv, Become
<1>2. ASSUME NEW x \in Editors PROVE Good(ed'[x])
  BY <1>1 DEF IInv
<1>3. ASSUME NEW x \in Editors, NEW f \in Files, lock'[f] = x
      PROVE  f \in Holding(ed'[x])
  <2>1. CASE x = e
    BY <1>1, <1>3, <2>1 DEF IInv
  <2>2. CASE x # e
    <3>1. lock[f] = x
      BY <1>3, <2>2, EditAssumption
    <3>2. ed'[x] = ed[x]
      BY <1>1, <2>2 DEF IInv
    <3> QED BY <3>1, <3>2 DEF IInv
  <2> QED BY <2>1, <2>2
<1>4. (\A x \in Editors : Good(ed[x]))'
  BY <1>2
<1>5. (\A x \in Editors, f \in Files : lock[f] = x => f \in Holding(ed[x]))'
  BY <1>3 DEF Holding
<1> QED BY <1>1, <1>4, <1>5 DEF IInv

LEMMA Goes ==
  ASSUME IInv, NEW e \in Editors, NEW r \in Command, Good(r), Become(e, r),
         DiskTyped', UNCHANGED lock,
         \A f \in Holding(ed[e]) : lock[f] = e => f \in Holding(r)
  PROVE  IInv'
<1>1. \A f \in Files : lock'[f] = e => f \in Holding(r)
  BY DEF IInv
<1> QED BY <1>1, Takes

LEMMA Typed ==
  ASSUME IInv, NEW e \in Editors
  PROVE  /\ DiskTyped /\ ed[e] \in Command /\ Good(ed[e])
         /\ Holding(ed[e]) \subseteq Files
         /\ \A f \in Files : lock[f] = e => f \in Holding(ed[e])
BY DEF IInv, Holding

-----------------------------------------------------------------------------
(* edit_lock_file and edit_unlock_file.                                    *)

LEMMA LockReturnsKeeps ==
  ASSUME IInv, NEW e \in Editors, NEW got \in BOOLEAN,
         ed[e].pc \in LockPcs, LockReturns(e, got), DiskTyped',
         \A f \in Files : lock'[f] \in {lock[f], None, e},
         \A f \in Files : lock'[f] = e /\ lock[f] # e =>
           got /\ f = ed[e].target
  PROVE  IInv'
<1> DEFINE c == ed[e]
<1>1. /\ c \in Command /\ Good(c) /\ Holding(c) \subseteq Files
      /\ \A f \in Files : lock[f] = e => f \in Holding(c)
  BY Typed
<1>2. c.pc \in LockPcs /\ NewText(e) \in Texts
  BY TextsTyped
<1>3. /\ c.save_lock = FALSE
      /\ \A f \in Holding(c) : c.locked /\ f = c.file
  BY <1>1, <1>2 DEF Good, Holding, LockPcs, SavePcs, UnlockPcs, Command
<1>4. ASSUME NEW r \in Command, Good(r), Become(e, r),
             Holding(c) \subseteq Holding(r),
             got => c.target \in Holding(r)
      PROVE  IInv'
  <2>1. \A f \in Files : lock'[f] = e => f \in Holding(r)
    BY <1>4, <1>1
  <2> QED BY <2>1, <1>4, Takes
<1>5. CASE c.ret = "edit"
  <2> DEFINE q == [c EXCEPT !.locked = got, !.modified = TRUE,
                            !.text = NewText(e)]
             r == Return(q, FALSE)
  <2>1. Become(e, r)
    BY <1>5 DEF LockReturns
  <2>2. q \in Command
    BY <1>1, <1>2 DEF Command
  <2>3. q.locked = got /\ q.modified = TRUE /\ q.file = c.file
    BY <1>1 DEF Command
  <2> HIDE DEF q
  <2>4. /\ r \in Command /\ Good(r)
        /\ Holding(r) = {f \in Files : q.locked /\ f = q.file}
    BY <2>2, <2>3, ReturnFields
  <2>5. ~c.locked /\ c.target = c.file /\ c.file \in Files
    BY <1>1, <1>2, <1>5 DEF Good, Command
  <2> HIDE DEF r
  <2>6. Holding(c) \subseteq Holding(r) /\ (got => c.target \in Holding(r))
    BY <2>3, <2>4, <2>5, <1>3
  <2> QED BY <2>1, <2>4, <2>6, <1>4
<1>6. CASE c.ret # "edit"
  <2> DEFINE r == [c EXCEPT !.pc = "save", !.save_lock = got,
                            !.ret = "none", !.target = c.file]
  <2>1. Become(e, r)
    BY <1>6 DEF LockReturns
  <2>2. r \in Command
    BY <1>1 DEF Command, Pcs, SavePcs
  <2>3. /\ r.pc = "save" /\ r.save_lock = got /\ r.locked = c.locked
        /\ r.modified = c.modified /\ r.cmd = c.cmd /\ r.exp = c.exp
        /\ r.file = c.file /\ c.target \in Files
    BY <1>1 DEF Command
  <2>4. c.cmd # "none" /\ c.target = c.exp
    BY <1>1, <1>2, <1>6 DEF Good
  <2> HIDE DEF r, c
  <2>5. Good(r)
    BY <2>3, <2>4, <1>1 DEF Good, SavePcs, LockPcs, UnlockPcs
  <2>6. Holding(c) \subseteq Holding(r) /\ (got => c.target \in Holding(r))
    BY <2>3, <2>4, <1>1, <1>3 DEF Holding, UnlockPcs
  <2> QED BY <2>1, <2>2, <2>5, <2>6, <1>4
<1> QED BY <1>5, <1>6

LEMMA UnlockReturnsKeeps ==
  ASSUME IInv, NEW e \in Editors, ed[e].pc \in UnlockPcs, UnlockReturns(e),
         DiskTyped', lock'[ed[e].target] # e,
         \A f \in Files : lock'[f] \in {lock[f], None}
  PROVE  IInv'
<1> DEFINE c == ed[e]
           q == [c EXCEPT !.pc = c.ret, !.ret = "none", !.target = c.file]
<1>1. /\ c \in Command /\ Good(c)
      /\ \A f \in Files : lock[f] = e => f \in Holding(c)
  BY Typed
<1>2. c.pc \in UnlockPcs
  OBVIOUS
<1>3. c.ret \in {"clean", "save_end", "saved", "save_as_failed",
                 "save_as_end", "idle"}
  BY <1>1, <1>2 DEF Good
<1>4. q \in Command
  BY <1>1, <1>3 DEF Command, Pcs, SavePcs
<1>5. /\ q.pc = c.ret /\ q.locked = c.locked /\ q.modified = c.modified
      /\ q.save_lock = c.save_lock /\ q.cmd = c.cmd /\ q.exp = c.exp
      /\ q.file = c.file
  BY <1>1 DEF Command
<1>6. /\ ~c.save_lock /\ (c.locked => c.modified)
      /\ c.cmd # "save_as" => c.exp = c.file
      /\ c.locked => c.ret \in {"saved", "save_as_failed"}
      /\ c.ret \in {"saved", "save_as_failed"} => c.cmd = "save_as"
      /\ c.ret = "idle" => c.cmd = "none"
  BY <1>1, <1>2 DEF Good, UnlockPcs, SavePcs
<1>7. \A f \in Files : lock'[f] = e => c.locked /\ f = c.file
  <2>1. \A f \in Files : lock'[f] = e => lock[f] = e /\ f # c.target
    BY EditAssumption
  <2>2. \A f \in Holding(c) : f = c.target \/ (c.locked /\ f = c.file)
    BY <1>2, <1>6 DEF Holding, UnlockPcs
  <2> QED BY <2>1, <2>2, <1>1
<1>8. ASSUME NEW r \in Command, Good(r), Become(e, r),
             {f \in Files : c.locked /\ f = c.file} \subseteq Holding(r)
      PROVE  IInv'
  <2>1. \A f \in Files : lock'[f] = e => f \in Holding(r)
    BY <1>8, <1>7
  <2>2. \A f \in Files : lock'[f] \in {lock[f], None, e}
    OBVIOUS
  <2> QED BY <2>1, <2>2, <1>8, Takes
<1>9. CASE c.ret = "save_end"
  <2>1. Become(e, SaveEnds(q))
    BY <1>5, <1>9 DEF UnlockReturns
  <2>2. ~q.locked
    BY <1>5, <1>6, <1>9
  <2> HIDE DEF q, c
  <2>3. /\ SaveEnds(q) \in Command /\ Good(SaveEnds(q))
        /\ Holding(SaveEnds(q)) = {f \in Files : q.locked /\ f = q.file}
    BY <1>4, <1>5, <1>6, <2>2, SaveEndsFields
  <2> QED BY <2>1, <2>3, <1>5, <1>8
<1>10. CASE c.ret = "save_as_failed"
  <2>1. Become(e, Return(q, FALSE))
    BY <1>5, <1>10 DEF UnlockReturns
  <2> HIDE DEF q, c
  <2>2. /\ Return(q, FALSE) \in Command /\ Good(Return(q, FALSE))
        /\ Holding(Return(q, FALSE)) = {f \in Files : q.locked /\ f = q.file}
    BY <1>4, <1>5, <1>6, ReturnFields
  <2> QED BY <2>1, <2>2, <1>5, <1>8
<1>11. CASE c.ret \in {"clean", "saved", "save_as_end", "idle"}
  <2>1. Become(e, q)
    BY <1>5, <1>11 DEF UnlockReturns
  <2> HIDE DEF q, c
  <2>2. Good(q)
    BY <1>5, <1>6, <1>11 DEF Good, SavePcs, LockPcs, UnlockPcs
  <2>3. {f \in Files : c.locked /\ f = c.file} \subseteq Holding(q)
    BY <1>5 DEF Holding
  <2> QED BY <2>1, <2>2, <2>3, <1>4, <1>8
<1> QED BY <1>3, <1>9, <1>10, <1>11

LEMMA GotoKeeps ==
  ASSUME IInv, NEW e \in Editors, NEW pc, Goto(e, pc), DiskTyped',
         \A f \in Files : lock'[f] \in {lock[f], None},
         \/ ed[e].pc \in SavePcs /\ pc \in SavePcs
         \/ ed[e].pc \in LockPcs /\ pc \in LockPcs
         \/ ed[e].pc \in UnlockPcs /\ pc \in UnlockPcs
  PROVE  IInv'
<1> DEFINE c == ed[e]
           q == [c EXCEPT !.pc = pc]
<1>1. /\ c \in Command /\ Good(c)
      /\ \A f \in Files : lock[f] = e => f \in Holding(c)
  BY Typed
<1>2. q \in Command /\ Good(q) /\ Holding(q) = Holding(c)
  BY <1>1, NextPoint
<1>3. Become(e, q)
  BY DEF Goto
<1>4. \A f \in Files : lock'[f] = e => lock[f] = e
  BY EditAssumption
<1> HIDE DEF c, q
<1>5. \A f \in Files : lock'[f] = e => f \in Holding(q)
  BY <1>1, <1>2, <1>4
<1> QED BY <1>2, <1>3, <1>5, Takes

LEMMA LockingKeeps ==
  ASSUME IInv, NEW e \in Editors, Locking(e)
  PROVE  IInv'
<1> DEFINE t == ed[e].target
<1>1. ed[e] \in Command /\ t \in Files /\ DiskTyped
  BY Typed DEF Command
<1>2. UNCHANGED <<disk, fresh, lock>> => DiskTyped'
  BY <1>1 DEF DiskTyped
<1>3. ASSUME NEW x \in {None, e}, lock' = [lock EXCEPT ![t] = x],
             UNCHANGED <<disk, fresh>>
      PROVE  /\ DiskTyped' /\ lock'[t] = x
             /\ \A f \in Files : f # t => lock'[f] = lock[f]
  BY <1>1, <1>3 DEF DiskTyped
<1>4. CASE LockLook(e)
  <2>1. PICK pc \in LockPcs : Goto(e, pc)
    BY <1>4 DEF LockLook, LockPcs
  <2> QED BY <1>4, <2>1, <1>2, GotoKeeps DEF LockLook, At, LockPcs
<1>5. CASE LockRead(e)
  <2>1. ed[e].pc \in LockPcs /\ UNCHANGED <<disk, fresh, lock>>
    BY <1>5 DEF LockRead, At, LockPcs
  <2>2. CASE LockReturns(e, FALSE)
    BY <2>1, <2>2, <1>2, LockReturnsKeeps
  <2>3. CASE Goto(e, "l_remove")
    BY <2>1, <2>3, <1>2, GotoKeeps DEF LockPcs
  <2> QED BY <2>2, <2>3, <1>5 DEF LockRead
<1>6. CASE LockRemove(e)
  <2>1. /\ ed[e].pc \in LockPcs /\ Goto(e, "l_create")
        /\ lock' = [lock EXCEPT ![t] = None] /\ UNCHANGED <<disk, fresh>>
    BY <1>6 DEF LockRemove, At, LockPcs
  <2>2. DiskTyped' /\ \A f \in Files : lock'[f] \in {lock[f], None}
    BY <2>1, <1>3
  <2> QED BY <2>1, <2>2, GotoKeeps DEF LockPcs
<1>7. CASE LockCreate(e)
  <2>1. ed[e].pc \in LockPcs /\ UNCHANGED <<disk, fresh>>
    BY <1>7 DEF LockCreate, At, LockPcs
  <2>2. CASE UNCHANGED lock /\ LockReturns(e, FALSE)
    BY <2>1, <2>2, <1>2, LockReturnsKeeps
  <2>3. CASE lock' = [lock EXCEPT ![t] = e] /\ LockReturns(e, TRUE)
    <3>1. /\ DiskTyped' /\ lock'[t] = e
          /\ \A f \in Files : f # t => lock'[f] = lock[f]
      BY <2>1, <2>3, <1>3
    <3>2. /\ \A f \in Files : lock'[f] \in {lock[f], None, e}
          /\ \A f \in Files : lock'[f] = e /\ lock[f] # e => TRUE /\ f = t
      BY <3>1
    <3> QED BY <2>1, <2>3, <3>1, <3>2, LockReturnsKeeps
  <2> QED BY <2>2, <2>3, <1>7 DEF LockCreate
<1>8. CASE UnlockLook(e)
  <2>1. ed[e].pc \in UnlockPcs /\ UNCHANGED <<disk, fresh, lock>>
    BY <1>8 DEF UnlockLook, At, UnlockPcs
  <2>2. CASE lock[t] = None
    <3>1. lock'[t] # e
      BY <2>1, <2>2, EditAssumption
    <3>2. UnlockReturns(e)
      BY <1>8, <2>2 DEF UnlockLook
    <3> QED BY <2>1, <3>1, <3>2, <1>2, UnlockReturnsKeeps
  <2>3. CASE lock[t] # None
    <3>1. Goto(e, "u_read")
      BY <1>8, <2>3 DEF UnlockLook
    <3> QED BY <2>1, <3>1, <1>2, GotoKeeps DEF UnlockPcs
  <2> QED BY <2>2, <2>3
<1>9. CASE UnlockRead(e)
  <2>1. ed[e].pc \in UnlockPcs /\ UNCHANGED <<disk, fresh, lock>>
    BY <1>9 DEF UnlockRead, At, UnlockPcs
  <2>2. CASE lock[t] \notin {None, e}
    <3>1. UnlockReturns(e)
      BY <1>9, <2>2 DEF UnlockRead
    <3> QED BY <2>1, <2>2, <3>1, <1>2, UnlockReturnsKeeps
  <2>3. CASE lock[t] \in {None, e}
    <3>1. Goto(e, "u_remove")
      BY <1>9, <2>3 DEF UnlockRead
    <3> QED BY <2>1, <3>1, <1>2, GotoKeeps DEF UnlockPcs
  <2> QED BY <2>2, <2>3
<1>10. CASE UnlockRemove(e)
  <2>1. /\ ed[e].pc \in UnlockPcs /\ UnlockReturns(e)
        /\ lock' = [lock EXCEPT ![t] = None] /\ UNCHANGED <<disk, fresh>>
    BY <1>10 DEF UnlockRemove, At, UnlockPcs
  <2>2. /\ DiskTyped' /\ lock'[t] = None
        /\ \A f \in Files : lock'[f] \in {lock[f], None}
    BY <2>1, <1>3
  <2>3. lock'[t] # e
    BY <2>2, EditAssumption
  <2> QED BY <2>1, <2>2, <2>3, UnlockReturnsKeeps
<1> QED BY <1>4, <1>5, <1>6, <1>7, <1>8, <1>9, <1>10 DEF Locking

-----------------------------------------------------------------------------
(* The commands that begin or end a save.                                  *)

LEMMA CallLockFields ==
  ASSUME NEW r \in Command, NEW f \in Files, NEW ret \in {"edit", "save"},
         r.locked => r.modified, ~r.save_lock,
         r.cmd # "save_as" => r.exp = r.file,
         ret = "edit" => ~r.locked /\ f = r.file,
         ret = "save" => r.cmd # "none" /\ f = r.exp
  PROVE  /\ CallLock(r, f, ret) \in Command /\ Good(CallLock(r, f, ret))
         /\ {g \in Files : r.locked /\ g = r.file}
              \subseteq Holding(CallLock(r, f, ret))
<1> DEFINE q == CallLock(r, f, ret)
<1>1. q = [r EXCEPT !.pc = "l_look", !.target = f, !.ret = ret]
  BY DEF CallLock
<1>2. q \in Command
  BY <1>1 DEF Command, Pcs, LockPcs
<1>3. /\ q.pc = "l_look" /\ q.target = f /\ q.ret = ret
      /\ q.locked = r.locked /\ q.modified = r.modified
      /\ q.save_lock = r.save_lock /\ q.cmd = r.cmd /\ q.exp = r.exp
      /\ q.file = r.file
  BY <1>1 DEF Command
<1> HIDE DEF q
<1>4. Good(q)
  BY <1>3 DEF Good, SavePcs, LockPcs, UnlockPcs, Command
<1>5. {g \in Files : r.locked /\ g = r.file} \subseteq Holding(q)
  BY <1>3 DEF Holding
<1> QED BY <1>2, <1>4, <1>5 DEF q

LEMMA ToSaveFields ==
  ASSUME NEW r \in Command, r.locked => r.modified, ~r.save_lock,
         r.cmd # "none", r.cmd # "save_as" => r.exp = r.file
  PROVE  /\ [r EXCEPT !.pc = "save"] \in Command
         /\ Good([r EXCEPT !.pc = "save"])
         /\ {g \in Files : r.locked /\ g = r.file}
              \subseteq Holding([r EXCEPT !.pc = "save"])
<1> DEFINE q == [r EXCEPT !.pc = "save"]
<1>1. q \in Command
  BY DEF Command, Pcs, SavePcs
<1>2. /\ q.pc = "save" /\ q.locked = r.locked /\ q.modified = r.modified
      /\ q.save_lock = r.save_lock /\ q.cmd = r.cmd /\ q.exp = r.exp
      /\ q.file = r.file
  BY DEF Command
<1> HIDE DEF q
<1>3. Good(q)
  BY <1>2 DEF Good, SavePcs, LockPcs, UnlockPcs
<1>4. {g \in Files : r.locked /\ g = r.file} \subseteq Holding(q)
  BY <1>2 DEF Holding
<1> QED BY <1>1, <1>3, <1>4 DEF q

LEMMA CallUnlockFields ==
  ASSUME NEW r \in Command, NEW f \in Files, NEW ret,
         r.locked => r.modified, ~r.save_lock,
         r.cmd # "save_as" => r.exp = r.file,
         \/ ret \in {"clean", "save_end", "save_as_end", "idle"} /\ ~r.locked
            /\ (ret = "idle" => r.cmd = "none")
         \/ ret \in {"saved", "save_as_failed"} /\ r.cmd = "save_as"
  PROVE  /\ CallUnlock(r, f, ret) \in Command /\ Good(CallUnlock(r, f, ret))
         /\ {g \in Files : g = f \/ (r.locked /\ g = r.file)}
              \subseteq Holding(CallUnlock(r, f, ret))
<1> DEFINE q == CallUnlock(r, f, ret)
<1>1. q = [r EXCEPT !.pc = "u_look", !.target = f, !.ret = ret]
  BY DEF CallUnlock
<1>2. q \in Command
  BY <1>1 DEF Command, Pcs, UnlockPcs
<1>3. /\ q.pc = "u_look" /\ q.target = f /\ q.ret = ret
      /\ q.locked = r.locked /\ q.modified = r.modified
      /\ q.save_lock = r.save_lock /\ q.cmd = r.cmd /\ q.exp = r.exp
      /\ q.file = r.file
  BY <1>1 DEF Command
<1> HIDE DEF q
<1>4. Good(q)
  BY <1>3 DEF Good, SavePcs, LockPcs, UnlockPcs
<1>5. {g \in Files : g = f \/ (r.locked /\ g = r.file)} \subseteq Holding(q)
  BY <1>3 DEF Holding, UnlockPcs
<1> QED BY <1>2, <1>4, <1>5 DEF q

LEMMA DropFields ==
  ASSUME NEW r \in Command
  PROVE  /\ [r EXCEPT !.save_lock = FALSE] \in Command
         /\ [r EXCEPT !.save_lock = FALSE].save_lock = FALSE
         /\ [r EXCEPT !.save_lock = FALSE].locked = r.locked
         /\ [r EXCEPT !.save_lock = FALSE].modified = r.modified
         /\ [r EXCEPT !.save_lock = FALSE].cmd = r.cmd
         /\ [r EXCEPT !.save_lock = FALSE].exp = r.exp
         /\ [r EXCEPT !.save_lock = FALSE].file = r.file
         /\ [r EXCEPT !.locked = FALSE, !.save_lock = FALSE] \in Command
         /\ [r EXCEPT !.locked = FALSE, !.save_lock = FALSE].save_lock = FALSE
         /\ [r EXCEPT !.locked = FALSE, !.save_lock = FALSE].locked = FALSE
         /\ [r EXCEPT !.locked = FALSE, !.save_lock = FALSE].modified = r.modified
         /\ [r EXCEPT !.locked = FALSE, !.save_lock = FALSE].cmd = r.cmd
         /\ [r EXCEPT !.locked = FALSE, !.save_lock = FALSE].exp = r.exp
         /\ [r EXCEPT !.locked = FALSE, !.save_lock = FALSE].file = r.file
BY DEF Command

LEMMA SaveCmdKeeps ==
  ASSUME IInv, NEW e \in Editors, SaveCmd(e)
  PROVE  IInv'
<1> DEFINE c == ed[e]
<1>1. /\ c \in Command /\ Good(c) /\ DiskTyped
      /\ \A f \in Files : lock[f] = e => f \in Holding(c)
  BY Typed
<1>2. /\ c.pc = "idle" /\ DiskTyped' /\ UNCHANGED lock
  BY <1>1 DEF SaveCmd, At, DiskTyped
<1>3. /\ ~c.save_lock
      /\ c.cmd # "save_as" => c.exp = c.file
      /\ c.locked => c.modified
      /\ Holding(c) = {f \in Files : c.locked /\ f = c.file}
  BY <1>1, <1>2 DEF Good, Holding, SavePcs, UnlockPcs
<1>4. PICK q \in {FALSE, c.modified} :
        Become(e, IF ~c.locked /\ ~c.delete_file
                  THEN CallLock([c EXCEPT !.cmd = "save", !.quitting = q],
                                c.file, "save")
                  ELSE [[c EXCEPT !.cmd = "save", !.quitting = q]
                          EXCEPT !.pc = "save"])
  BY DEF SaveCmd
<1> DEFINE s == [c EXCEPT !.cmd = "save", !.quitting = q]
<1>5. s \in Command
  BY <1>1 DEF Command
<1>6. /\ s.cmd = "save" /\ s.locked = c.locked /\ s.modified = c.modified
      /\ s.save_lock = c.save_lock /\ s.exp = c.exp /\ s.file = c.file
      /\ c.exp \in Files /\ c.file \in Files
  BY <1>1 DEF Command
<1>6a. c.exp = c.file
  BY <1>1, <1>2 DEF Good
<1>7. CASE ~c.locked /\ ~c.delete_file
  <2>1. Become(e, CallLock(s, c.file, "save"))
    BY <1>4, <1>7
  <2> HIDE DEF s, c
  <2>2. /\ CallLock(s, c.file, "save") \in Command
        /\ Good(CallLock(s, c.file, "save"))
        /\ {g \in Files : s.locked /\ g = s.file}
             \subseteq Holding(CallLock(s, c.file, "save"))
    BY <1>3, <1>5, <1>6, <1>6a, CallLockFields
  <2> QED BY <2>1, <2>2, <1>2, <1>3, <1>6, Goes DEF c
<1>8. CASE ~(~c.locked /\ ~c.delete_file)
  <2>1. Become(e, [s EXCEPT !.pc = "save"])
    BY <1>4, <1>8
  <2> HIDE DEF s, c
  <2>2. /\ [s EXCEPT !.pc = "save"] \in Command
        /\ Good([s EXCEPT !.pc = "save"])
        /\ {g \in Files : s.locked /\ g = s.file}
             \subseteq Holding([s EXCEPT !.pc = "save"])
    BY <1>3, <1>5, <1>6, <1>6a, ToSaveFields
  <2> QED BY <2>1, <2>2, <1>2, <1>3, <1>6, Goes DEF c
<1> QED BY <1>7, <1>8

LEMMA SaveAsCmdKeeps ==
  ASSUME IInv, NEW e \in Editors, SaveAsCmd(e)
  PROVE  IInv'
<1> DEFINE c == ed[e]
<1>1. /\ c \in Command /\ Good(c) /\ DiskTyped
      /\ \A f \in Files : lock[f] = e => f \in Holding(c)
  BY Typed
<1>2. /\ c.pc \in {"idle", "save_as"} /\ DiskTyped' /\ UNCHANGED lock
  BY <1>1 DEF SaveAsCmd, At, DiskTyped
<1>3. /\ ~c.save_lock
      /\ c.locked => c.modified
      /\ Holding(c) = {f \in Files : c.locked /\ f = c.file}
  BY <1>1, <1>2 DEF Good, Holding, SavePcs, UnlockPcs
<1>4. CASE Become(e, Return(c, FALSE))
  <2>1. /\ Return(c, FALSE) \in Command /\ Good(Return(c, FALSE))
        /\ Holding(Return(c, FALSE)) = {f \in Files : c.locked /\ f = c.file}
    BY <1>1, <1>3, ReturnFields
  <2> QED BY <2>1, <1>2, <1>3, <1>4, Goes
<1>5. ASSUME NEW f \in Files, NEW lb \in {c.lb, LineBreaks}
      PROVE  LET s == [c EXCEPT !.cmd = "save_as", !.exp = f, !.lb = lb,
                                !.save_lock = FALSE]
             IN (Become(e, CallLock(s, f, "save"))
                   \/ Become(e, [s EXCEPT !.pc = "save"])) => IInv'
  <2> DEFINE s == [c EXCEPT !.cmd = "save_as", !.exp = f, !.lb = lb,
                            !.save_lock = FALSE]
  <2>1. s \in Command
    <3>1. lb \in BOOLEAN
      BY <1>1, EditAssumption DEF Command
    <3> QED BY <3>1, <1>1 DEF Command
  <2>2. /\ s.cmd = "save_as" /\ s.locked = c.locked
        /\ s.modified = c.modified /\ s.save_lock = FALSE
        /\ s.exp = f /\ s.file = c.file
    BY <1>1 DEF Command
  <2> HIDE DEF s, c
  <2>3. ASSUME Become(e, CallLock(s, f, "save")) PROVE IInv'
    <3>1. /\ CallLock(s, f, "save") \in Command
          /\ Good(CallLock(s, f, "save"))
          /\ {g \in Files : s.locked /\ g = s.file}
               \subseteq Holding(CallLock(s, f, "save"))
      BY <1>3, <2>1, <2>2, CallLockFields
    <3> QED BY <2>2, <2>3, <3>1, <1>2, <1>3, Goes DEF c
  <2>4. ASSUME Become(e, [s EXCEPT !.pc = "save"]) PROVE IInv'
    <3>1. /\ [s EXCEPT !.pc = "save"] \in Command
          /\ Good([s EXCEPT !.pc = "save"])
          /\ {g \in Files : s.locked /\ g = s.file}
               \subseteq Holding([s EXCEPT !.pc = "save"])
      BY <1>3, <2>1, <2>2, ToSaveFields
    <3> QED BY <2>2, <2>4, <3>1, <1>2, <1>3, Goes DEF c
  <2> QED BY <2>3, <2>4 DEF s
<1>6. \/ Become(e, Return(c, FALSE))
      \/ \E f \in Files, lb \in {c.lb, LineBreaks} :
           LET s == [c EXCEPT !.cmd = "save_as", !.exp = f, !.lb = lb,
                              !.save_lock = FALSE]
           IN \/ Become(e, CallLock(s, f, "save"))
              \/ Become(e, [s EXCEPT !.pc = "save"])
  BY Zenon DEF SaveAsCmd
<1> QED BY <1>4, <1>5, <1>6

(* edit_save_file writes, and remembers only the result.                   *)
LEMMA WritingKeeps ==
  ASSUME IInv, NEW e \in Editors,
         \/ SaveCheck(e) \/ SaveOpen(e) \/ SaveWrite(e) \/ SaveStat(e)
         \/ SaveBackup(e) \/ SaveRename(e)
  PROVE  IInv'
<1> DEFINE c == ed[e]
           x == c.exp
<1>1. /\ c \in Command /\ Good(c) /\ DiskTyped
      /\ \A f \in Files : lock[f] = e => f \in Holding(c)
  BY Typed
<1>2. x \in Files /\ c.text \in Texts
  BY <1>1 DEF Command
<1>3. c.pc \in SavePcs /\ UNCHANGED lock
  BY DEF SaveCheck, SaveOpen, SaveWrite, SaveStat, SaveBackup, SaveRename,
         At, SavePcs
<1>4. ASSUME NEW pc \in SavePcs, Become(e, [c EXCEPT !.pc = pc]), DiskTyped'
      PROVE  IInv'
  BY <1>1, <1>3, <1>4, NextPoint, Goes
<1>5. ASSUME NEW n \in {-1, 0, 1}, DiskTyped',
             Become(e, [c EXCEPT !.pc = "saved", !.res = n])
      PROVE  IInv'
  BY <1>1, <1>3, <1>5, Result, Goes
<1>15. ASSUME DiskTyped', StoreFails(e) PROVE IInv'
  <2>1. PICK b \in BOOLEAN :
          Become(e, [c EXCEPT !.pc = "saved", !.res = 0, !.failed = b])
    BY <1>1, <1>15, StoreFailsMeans
  <2> DEFINE q == [c EXCEPT !.pc = "saved", !.res = 0, !.failed = b]
  <2>2. q \in Command /\ Good(q) /\ Holding(q) = Holding(c)
    BY <1>1, <1>3, StoreFailsFields
  <2> HIDE DEF q, c
  <2> QED BY <2>1, <2>2, <1>1, <1>3, <1>15, Goes DEF q, c
<1>6. ASSUME NEW t \in Texts, NEW who \in SUBSET Editors, Write(x, t, who)
      PROVE  DiskTyped'
  BY <1>1, <1>2, <1>3, <1>6, WriteTyped
<1>7. ASSUME UNCHANGED disk, fresh' \in {fresh, Stat(e, x)}
      PROVE  DiskTyped'
  BY <1>1, <1>2, <1>3, <1>7, FreshTyped
<1>8. ASSUME TempFails(e) PROVE IInv'
  <2>1. DiskTyped'
    BY <1>1, <1>3, <1>8, FreshTyped DEF TempFails
  <2> QED BY <2>1, <1>5, <1>8 DEF TempFails, SaveFails
<1>9. CASE SaveCheck(e)
  <2>1. DiskTyped'
    BY <1>9, <1>7 DEF SaveCheck
  <2>2. \/ \E pc \in SavePcs : Become(e, [c EXCEPT !.pc = pc])
        \/ Become(e, [c EXCEPT !.pc = "saved", !.res = -1])
    BY <1>9 DEF SaveCheck, SavePcs
  <2> QED BY <2>1, <2>2, <1>4, <1>5
<1>10. CASE SaveOpen(e)
  <2>1. CASE Write(x, Empty, {}) /\ Goto(e, "s_write")
    BY <2>1, <1>6, <1>4, TextsTyped DEF Goto, SavePcs
  <2>2. CASE UNCHANGED <<disk, fresh>> /\ SaveFails(e)
    BY <2>2, <1>7, <1>5 DEF SaveFails
  <2> QED BY <2>1, <2>2, <1>10 DEF SaveOpen
<1>11. CASE SaveWrite(e)
  <2>1. DiskTyped'
    <3>1. ASSUME NEW t \in {Partial, c.text}, NEW who \in {{}, {e}},
                 Write(x, t, who)
          PROVE  DiskTyped'
      <4>1. t \in Texts /\ who \in SUBSET Editors
        BY <1>2, TextsTyped
      <4> QED BY <4>1, <3>1, <1>6
    <3>2. CASE UNCHANGED disk /\ fresh' \in {fresh, Stat(e, x)}
      BY <3>2, <1>7
    <3> QED BY <3>1, <3>2, <1>11, SaveWriteCases
  <2>2. \/ Become(e, [c EXCEPT !.pc = "s_stat"])
        \/ \E n \in {-1, 0, 1} : Become(e, [c EXCEPT !.pc = "saved", !.res = n])
        \/ StoreFails(e)
    BY <1>11, SaveWriteCases DEF Succeeded, SaveFails
  <2> QED BY <2>1, <2>2, <1>4, <1>5, <1>15 DEF SavePcs
<1>12. CASE SaveStat(e)
  <2>1. DiskTyped'
    BY <1>12, <1>7 DEF SaveStat
  <2>2. \/ \E n \in {-1, 0, 1} :
             Become(e, [c EXCEPT !.pc = "saved", !.res = n])
        \/ StoreFails(e)
    BY <1>12 DEF SaveStat, Succeeded
  <2> QED BY <2>1, <2>2, <1>5, <1>15
<1>13. CASE SaveBackup(e)
  <2>1. CASE /\ disk' = [disk EXCEPT ![Backup(x)] = disk[x], ![x] = None]
             /\ Goto(e, "s_rename") /\ UNCHANGED fresh
    <3>1. x \in Names /\ Backup(x) \in Names
      BY <1>2 DEF Names
    <3>2. disk' \in [Names -> Texts \cup {None}]
      BY <1>1, <2>1, <3>1 DEF DiskTyped
    <3>3. DiskTyped'
      BY <1>1, <1>3, <2>1, <3>2 DEF DiskTyped
    <3> QED BY <2>1, <3>3, <1>4 DEF Goto, SavePcs
  <2> QED BY <2>1, <1>8, <1>13 DEF SaveBackup
<1>14. CASE SaveRename(e)
  <2>1. CASE /\ Write(x, c.text, IF c.lb THEN {} ELSE {e})
             /\ Become(e, Succeeded(e))
    <3>1. (IF c.lb THEN {} ELSE {e}) \in SUBSET Editors
      OBVIOUS
    <3>2. DiskTyped'
      BY <1>2, <2>1, <3>1, <1>6
    <3> QED BY <2>1, <3>2, <1>5 DEF Succeeded
  <2> QED BY <2>1, <1>8, <1>14 DEF SaveRename
<1> QED BY <1>9, <1>10, <1>11, <1>12, <1>13, <1>14

LEMMA SaveUnlocksKeeps ==
  ASSUME IInv, NEW e \in Editors, SaveUnlocks(e)
  PROVE  IInv'
<1> DEFINE c == ed[e]
           d == [c EXCEPT !.locked = FALSE, !.save_lock = FALSE]
<1>1. /\ c \in Command /\ Good(c) /\ DiskTyped
      /\ \A f \in Files : lock[f] = e => f \in Holding(c)
  BY Typed
<1>2. /\ c.pc = "saved" /\ c.cmd = "save" /\ DiskTyped' /\ UNCHANGED lock
  BY <1>1 DEF SaveUnlocks, At, DiskTyped
<1>3. /\ c.exp = c.file
      /\ c.locked => c.modified
      /\ c.file \in Files
      /\ \A f \in Holding(c) : (c.locked \/ c.save_lock) /\ f = c.file
  BY <1>1, <1>2 DEF Good, Holding, UnlockPcs, Command
<1>4. CASE (c.res > 0 /\ c.locked) \/ c.save_lock
  <2>1. Become(e, CallUnlock(d, c.file, "save_end"))
    BY <1>4 DEF SaveUnlocks
  <2>2. /\ d \in Command /\ d.save_lock = FALSE /\ d.locked = FALSE
        /\ d.cmd = c.cmd /\ d.exp = c.exp /\ d.file = c.file
    BY <1>1, DropFields
  <2> HIDE DEF d, c
  <2>3. /\ CallUnlock(d, c.file, "save_end") \in Command
        /\ Good(CallUnlock(d, c.file, "save_end"))
        /\ {g \in Files : g = c.file \/ (d.locked /\ g = d.file)}
             \subseteq Holding(CallUnlock(d, c.file, "save_end"))
    BY <1>3, <2>2, CallUnlockFields
  <2> QED BY <2>1, <2>3, <1>2, <1>3, Goes DEF c
<1>5. CASE ~((c.res > 0 /\ c.locked) \/ c.save_lock)
  <2>1. Become(e, SaveEnds(c))
    BY <1>5 DEF SaveUnlocks
  <2> HIDE DEF c
  <2>2. /\ SaveEnds(c) \in Command /\ Good(SaveEnds(c))
        /\ Holding(SaveEnds(c)) = {f \in Files : c.locked /\ f = c.file}
    BY <1>1, <1>3, <1>5, SaveEndsFields DEF Command
  <2> QED BY <2>1, <2>2, <1>2, <1>3, <1>5, Goes DEF c
<1> QED BY <1>4, <1>5

LEMMA SaveAsUnlocksKeeps ==
  ASSUME IInv, NEW e \in Editors, SaveAsUnlocks(e)
  PROVE  IInv'
<1> DEFINE c == ed[e]
           a == [c EXCEPT !.save_lock = FALSE]
           d == [c EXCEPT !.locked = FALSE, !.save_lock = FALSE]
<1>1. /\ c \in Command /\ Good(c) /\ DiskTyped
      /\ \A f \in Files : lock[f] = e => f \in Holding(c)
  BY Typed
<1>2. /\ c.pc = "saved" /\ c.cmd = "save_as" /\ DiskTyped'
      /\ UNCHANGED lock
  BY <1>1 DEF SaveAsUnlocks, At, DiskTyped
<1>3. /\ c.locked => c.modified
      /\ c.file \in Files /\ c.exp \in Files /\ c.res \in {-1, 0, 1}
      /\ \A f \in Holding(c) : \/ c.locked /\ f = c.file
                               \/ c.save_lock /\ f = c.exp
  BY <1>1, <1>2 DEF Good, Holding, UnlockPcs, Command
<1>4. /\ a \in Command /\ a.save_lock = FALSE /\ a.locked = c.locked
      /\ a.modified = c.modified /\ a.cmd = c.cmd /\ a.exp = c.exp
      /\ a.file = c.file
      /\ d \in Command /\ d.save_lock = FALSE /\ d.locked = FALSE
      /\ d.cmd = c.cmd /\ d.exp = c.exp /\ d.file = c.file
  BY <1>1, DropFields
<1>5. \/ /\ c.save_lock
         /\ \/ Become(e, CallUnlock(a, c.exp, "save_as_failed"))
            \/ Become(e, CallUnlock(a, c.exp, "saved"))
      \/ ~c.save_lock /\ Become(e, Return(c, FALSE))
      \/ /\ ~(c.save_lock /\ c.exp # c.file)
         /\ Become(e, CallUnlock(d, c.file, "save_as_end"))
      \/ /\ ~c.locked /\ ~c.save_lock
         /\ Become(e, [c EXCEPT !.pc = "save_as_end"])
  <2>1. c.res <= 0 \/ c.res > 0
    BY <1>3
  <2> QED BY <2>1, Zenon DEF SaveAsUnlocks
<1> HIDE DEF c, a, d
<1>6. ASSUME NEW ret \in {"save_as_failed", "saved"}, c.save_lock,
             Become(e, CallUnlock(a, c.exp, ret))
      PROVE  IInv'
  <2>1. /\ CallUnlock(a, c.exp, ret) \in Command
        /\ Good(CallUnlock(a, c.exp, ret))
        /\ {g \in Files : g = c.exp \/ (a.locked /\ g = a.file)}
             \subseteq Holding(CallUnlock(a, c.exp, ret))
    BY <1>2, <1>3, <1>4, CallUnlockFields
  <2> QED BY <2>1, <1>2, <1>3, <1>4, <1>6, Goes DEF c
<1>7. CASE ~c.save_lock /\ Become(e, Return(c, FALSE))
  <2>1. /\ Return(c, FALSE) \in Command /\ Good(Return(c, FALSE))
        /\ Holding(Return(c, FALSE)) = {f \in Files : c.locked /\ f = c.file}
    BY <1>1, <1>3, ReturnFields
  <2> QED BY <2>1, <1>2, <1>3, <1>7, Goes DEF c
<1>8. CASE /\ ~(c.save_lock /\ c.exp # c.file)
           /\ Become(e, CallUnlock(d, c.file, "save_as_end"))
  <2>1. /\ CallUnlock(d, c.file, "save_as_end") \in Command
        /\ Good(CallUnlock(d, c.file, "save_as_end"))
        /\ {g \in Files : g = c.file \/ (d.locked /\ g = d.file)}
             \subseteq Holding(CallUnlock(d, c.file, "save_as_end"))
    BY <1>2, <1>3, <1>4, CallUnlockFields
  <2> QED BY <2>1, <1>2, <1>3, <1>8, Goes DEF c
<1>9. CASE /\ ~c.locked /\ ~c.save_lock
           /\ Become(e, [c EXCEPT !.pc = "save_as_end"])
  <2> DEFINE q == [c EXCEPT !.pc = "save_as_end"]
  <2>1. q \in Command
    BY <1>1 DEF Command, Pcs
  <2>2. /\ q.pc = "save_as_end" /\ q.locked = c.locked
        /\ q.save_lock = c.save_lock /\ q.cmd = c.cmd
    BY <1>1 DEF Command
  <2> HIDE DEF q
  <2>3. Good(q)
    BY <2>2, <1>2, <1>9 DEF Good, SavePcs, LockPcs, UnlockPcs
  <2> QED BY <2>1, <2>3, <1>2, <1>3, <1>9, Goes DEF c, q
<1> QED BY <1>5, <1>6, <1>7, <1>8, <1>9

LEMMA SaveAsEndsKeeps ==
  ASSUME IInv, NEW e \in Editors, SaveAsEnds(e)
  PROVE  IInv'
<1> DEFINE c == ed[e]
           r == [c EXCEPT !.file = c.exp, !.failed = FALSE]
<1>1. /\ c \in Command /\ Good(c) /\ DiskTyped
      /\ \A f \in Files : lock[f] = e => f \in Holding(c)
  BY Typed
<1>2. c.pc = "save_as_end" /\ UNCHANGED lock /\ c.exp \in Files
  BY <1>1 DEF SaveAsEnds, At, Command
<1>3. ~c.locked /\ ~c.save_lock /\ Holding(c) = {}
  BY <1>1, <1>2 DEF Good, Holding, SavePcs, UnlockPcs
<1>4. /\ r \in Command /\ r.locked = c.locked /\ r.save_lock = c.save_lock
      /\ r.exp = c.exp /\ r.file = c.exp /\ r.lb = c.lb
  BY <1>1 DEF Command
<1>5. CASE r.lb
  <2>1. /\ Opens(e, r.exp)
        /\ Become(e, [r EXCEPT !.pc = "clean", !.next = Loaded(r.exp)])
    BY <1>5 DEF SaveAsEnds
  <2>2. DiskTyped' /\ Loaded(r.exp) \in Buffer
    BY <2>1, <1>1, <1>2, <1>4, OpensTyped
  <2> DEFINE q == [r EXCEPT !.pc = "clean", !.next = Loaded(r.exp)]
  <2>3. q \in Command
    BY <1>4, <2>2 DEF Command, Pcs
  <2>4. /\ q.pc = "clean" /\ q.locked = r.locked /\ q.exp = r.exp
        /\ q.save_lock = r.save_lock /\ q.file = r.file
    BY <1>4 DEF Command
  <2> HIDE DEF q, r, c
  <2>5. Good(q)
    BY <2>4, <1>3, <1>4 DEF Good, SavePcs, LockPcs, UnlockPcs
  <2> QED BY <2>1, <2>2, <2>3, <2>5, <1>2, <1>3, Goes DEF q, c
<1>6. CASE ~r.lb
  <2> DEFINE q == [r EXCEPT !.delete_file = FALSE, !.modified = FALSE]
  <2>1. Become(e, Return(q, TRUE)) /\ UNCHANGED <<disk, fresh>>
    BY <1>6 DEF SaveAsEnds
  <2>2. q \in Command /\ q.locked = r.locked
    BY <1>4 DEF Command
  <2> HIDE DEF q, r
  <2>3. Return(q, TRUE) \in Command /\ Good(Return(q, TRUE))
    BY <2>2, <1>3, <1>4, ReturnFields
  <2>4. DiskTyped'
    BY <2>1, <1>1, <1>2 DEF DiskTyped
  <2> QED BY <2>1, <2>3, <2>4, <1>2, <1>3, Goes
<1> QED BY <1>5, <1>6

-----------------------------------------------------------------------------
(* The other commands.                                                     *)

LEMMA StartKeeps ==
  ASSUME IInv, NEW e \in Editors, NEW f \in Files, Start(e, f)
  PROVE  IInv'
<1>1. /\ ed[e] \in Command /\ Good(ed[e]) /\ DiskTyped /\ ed[e].pc = "out"
  BY Typed DEF Start, At
<1>2. Holding(ed[e]) = {}
  BY <1>1 DEF Good, Holding, SavePcs, UnlockPcs
<1>3. DiskTyped' /\ Loaded(f) \in Buffer
  BY <1>1, OpensTyped DEF Start
<1> DEFINE q == Edits(Loaded(f))
<1>4. /\ q \in Command /\ q.pc = "idle" /\ q.locked = FALSE
      /\ q.save_lock = FALSE /\ q.cmd = "none" /\ q.exp = q.file
  BY <1>3, EditsFields
<1>5. Become(e, q) /\ UNCHANGED lock
  BY DEF Start
<1> HIDE DEF q
<1>6. Good(q)
  BY <1>4 DEF Good, SavePcs, LockPcs, UnlockPcs
<1> QED BY <1>2, <1>3, <1>4, <1>5, <1>6, Goes

LEMMA ModifyKeeps ==
  ASSUME IInv, NEW e \in Editors, Modify(e)
  PROVE  IInv'
<1> DEFINE c == ed[e]
<1>1. /\ c \in Command /\ Good(c) /\ DiskTyped /\ c.file \in Files
  BY Typed DEF Command
<1>2. /\ c.pc = "idle" /\ ~c.modified /\ DiskTyped' /\ UNCHANGED lock
  BY <1>1 DEF Modify, At, DiskTyped
<1>3. /\ ~c.save_lock /\ ~c.locked
      /\ c.cmd # "save_as" => c.exp = c.file
      /\ c.cmd = "none"
      /\ Holding(c) = {}
  BY <1>1, <1>2 DEF Good, Holding, SavePcs, UnlockPcs
<1>4. CASE ~c.delete_file
  <2>1. Become(e, CallLock(c, c.file, "edit"))
    BY <1>4 DEF Modify
  <2>2. /\ CallLock(c, c.file, "edit") \in Command
        /\ Good(CallLock(c, c.file, "edit"))
    BY <1>1, <1>3, CallLockFields
  <2> QED BY <2>1, <2>2, <1>2, <1>3, Goes
<1>5. CASE c.delete_file
  <2> DEFINE q == [c EXCEPT !.modified = TRUE, !.text = NewText(e)]
  <2>1. Become(e, q)
    BY <1>5 DEF Modify
  <2>2. q \in Command
    BY <1>1, TextsTyped DEF Command
  <2>3. /\ q.pc = c.pc /\ q.locked = c.locked /\ q.cmd = c.cmd
        /\ q.save_lock = c.save_lock /\ q.exp = c.exp /\ q.file = c.file
    BY <1>1 DEF Command
  <2> HIDE DEF q
  <2>4. Good(q)
    BY <2>3, <1>2, <1>3 DEF Good, SavePcs, LockPcs, UnlockPcs
  <2> QED BY <2>1, <2>2, <2>4, <1>2, <1>3, Goes
<1> QED BY <1>4, <1>5

LEMMA LeaveKeeps ==
  ASSUME IInv, NEW e \in Editors,
         QuitCmd(e) \/ \E f \in Files : LoadCmd(e, f)
  PROVE  IInv'
<1> DEFINE c == ed[e]
<1>1. /\ c \in Command /\ Good(c) /\ DiskTyped
  BY Typed
<1>2. c.pc = "idle" /\ UNCHANGED lock
  BY DEF QuitCmd, LoadCmd, At
<1>3. /\ ~c.save_lock
      /\ c.locked => c.modified
      /\ c.cmd # "save_as" => c.exp = c.file
      /\ Holding(c) = {f \in Files : c.locked /\ f = c.file}
  BY <1>1, <1>2 DEF Good, Holding, SavePcs, UnlockPcs
<1>4. ASSUME NEW r \in Command, r.locked = c.locked, r.file = c.file,
             r.modified = c.modified, r.cmd = c.cmd, r.exp = c.exp,
             r.save_lock = c.save_lock, DiskTyped', Become(e, CallClean(r))
      PROVE  IInv'
  <2>1. /\ CallClean(r) \in Command /\ Good(CallClean(r))
        /\ Holding(CallClean(r)) = {f \in Files : r.locked /\ f = r.file}
    BY <1>3, <1>4, CleanFields
  <2> QED BY <2>1, <1>2, <1>3, <1>4, Goes
<1>5. CASE QuitCmd(e)
  <2>1. DiskTyped'
    BY <1>1, <1>5 DEF QuitCmd, DiskTyped
  <2> QED BY <2>1, <1>1, <1>4, <1>5 DEF QuitCmd
<1>6. ASSUME NEW f \in Files, LoadCmd(e, f) PROVE IInv'
  <2> DEFINE r == [c EXCEPT !.next = Loaded(f), !.again = c.locked]
  <2>1. DiskTyped' /\ Loaded(f) \in Buffer
    BY <1>1, <1>2, <1>6, OpensTyped DEF LoadCmd
  <2>2. r \in Command
    BY <1>1, <2>1 DEF Command
  <2>3. /\ r.locked = c.locked /\ r.file = c.file
        /\ r.modified = c.modified /\ r.cmd = c.cmd /\ r.exp = c.exp
        /\ r.save_lock = c.save_lock
    BY <1>1 DEF Command
  <2>4. Become(e, CallClean(r))
    BY <1>6 DEF LoadCmd
  <2> HIDE DEF r
  <2> QED BY <2>1, <2>2, <2>3, <2>4, <1>4
<1> QED BY <1>5, <1>6

LEMMA ClosedFields ==
  ASSUME NEW f \in Files, NEW pc \in {"out", "gone", "killed"}
  PROVE  /\ [Closed(f) EXCEPT !.pc = pc] \in Command
         /\ Good([Closed(f) EXCEPT !.pc = pc])
         /\ Holding([Closed(f) EXCEPT !.pc = pc]) =
              IF pc = "killed" THEN Files ELSE {}
<1> DEFINE c == Closed(f)
           q == [c EXCEPT !.pc = pc]
<1>0. /\ c = [pc |-> "out", file |-> f, text |-> Empty,
              delete_file |-> FALSE, locked |-> FALSE, modified |-> FALSE,
              lb |-> FALSE, failed |-> FALSE, cmd |-> "none",
              quitting |-> FALSE,
              save_lock |-> FALSE, res |-> 0, exp |-> f, target |-> f,
              ret |-> "none", again |-> FALSE, next |-> None]
      /\ q = [c EXCEPT !.pc = pc]
  BY DEF Closed
<1> HIDE DEF c, q
<1>1. q = [pc |-> pc, file |-> f, text |-> Empty, delete_file |-> FALSE,
           locked |-> FALSE, modified |-> FALSE, lb |-> FALSE,
           failed |-> FALSE,
           cmd |-> "none", quitting |-> FALSE, save_lock |-> FALSE,
           res |-> 0, exp |-> f, target |-> f, ret |-> "none",
           again |-> FALSE, next |-> None]
  BY <1>0
<1>2. Empty \in Texts
  BY DEF Texts
<1>3. q \in Command
  BY <1>1, <1>2 DEF Command, Pcs
<1>4. /\ q.pc = pc /\ ~q.locked /\ ~q.save_lock /\ q.cmd = "none"
      /\ q.exp = q.file
  BY <1>1
<1>5. Good(q)
  BY <1>4 DEF Good, SavePcs, LockPcs, UnlockPcs
<1>6. Holding(q) = IF pc = "killed" THEN Files ELSE {}
  BY <1>4 DEF Holding, UnlockPcs
<1> QED BY <1>3, <1>5, <1>6 DEF q, c

LEMMA CleanKeeps ==
  ASSUME IInv, NEW e \in Editors, Clean(e)
  PROVE  IInv'
<1> DEFINE c == ed[e]
           b == [Edits(c.next) EXCEPT !.quitting = c.quitting]
<1>1. /\ c \in Command /\ Good(c) /\ DiskTyped
  BY Typed
<1>2. c.pc = "clean" /\ UNCHANGED lock /\ c.file \in Files
  BY <1>1 DEF Clean, At, Command
<1>3. Holding(c) = {}
  BY <1>1, <1>2 DEF Good, Holding, SavePcs, UnlockPcs
<1>4. DiskTyped'
  <2>1. CASE c.delete_file
    <3>1. Write(c.file, None, {})
      BY <2>1 DEF Clean
    <3> QED BY <3>1, <1>1, <1>2, WriteTyped
  <2>2. CASE ~c.delete_file
    <3>1. UNCHANGED <<disk, fresh>>
      BY <2>2 DEF Clean
    <3> QED BY <3>1, <1>1, <1>2 DEF DiskTyped
  <2> QED BY <2>1, <2>2
<1>5. CASE c.next = None
  <2>1. Become(e, [Closed(c.file) EXCEPT !.pc = "gone"])
    BY <1>5 DEF Clean
  <2> QED BY <2>1, <1>2, <1>3, <1>4, ClosedFields, Goes
<1>6. CASE c.next # None
  <2>1. c.next \in Buffer /\ c.quitting \in BOOLEAN
    BY <1>1, <1>6 DEF Command
  <2>2. /\ Edits(c.next) \in Command
        /\ Edits(c.next).pc = "idle" /\ Edits(c.next).locked = FALSE
        /\ Edits(c.next).save_lock = FALSE /\ Edits(c.next).cmd = "none"
        /\ Edits(c.next).exp = Edits(c.next).file
    BY <2>1, EditsFields
  <2> DEFINE x == Edits(c.next)
  <2> HIDE DEF x
  <2>3. b = [x EXCEPT !.quitting = c.quitting]
    BY DEF x
  <2>4. b \in Command
    BY <2>1, <2>2, <2>3 DEF Command, x
  <2>5. /\ b.locked = FALSE /\ b.save_lock = FALSE /\ b.cmd = "none"
        /\ b.exp = b.file
    BY <2>2, <2>3 DEF Command, x
  <2>6. CASE c.again
    <3>1. Become(e, CallUnlock(b, c.file, "idle"))
      BY <1>6, <2>6 DEF Clean
    <3> HIDE DEF b, c
    <3>2. /\ CallUnlock(b, c.file, "idle") \in Command
          /\ Good(CallUnlock(b, c.file, "idle"))
      BY <2>4, <2>5, <1>2, CallUnlockFields
    <3> QED BY <3>1, <3>2, <1>2, <1>3, <1>4, Goes DEF c
  <2>7. CASE ~c.again
    <3> DEFINE d == b.delete_file /\ c.cmd # "save_as"
               q == [b EXCEPT !.delete_file = d]
    <3>1. Become(e, Return(q, TRUE))
      BY <1>6, <2>7 DEF Clean
    <3>2. d \in BOOLEAN
      BY <2>4 DEF Command
    <3> HIDE DEF d, b
    <3>3. q \in Command /\ q.locked = b.locked
      BY <2>4, <3>2 DEF Command
    <3> HIDE DEF q, c
    <3>4. Return(q, TRUE) \in Command /\ Good(Return(q, TRUE))
      BY <3>3, <2>5, ReturnFields
    <3> QED BY <3>1, <3>4, <1>2, <1>3, <1>4, Goes DEF c
  <2> QED BY <2>6, <2>7
<1> QED BY <1>5, <1>6

LEMMA CrashKeeps ==
  ASSUME IInv, NEW e \in Editors, Crash(e)
  PROVE  IInv'
<1>1. /\ ed[e] \in Command /\ DiskTyped /\ Holding(ed[e]) \subseteq Files
  BY Typed
<1>2. ed[e].file \in Files
  BY <1>1 DEF Command
<1>3. /\ DiskTyped' /\ UNCHANGED lock
      /\ Become(e, [Closed(ed[e].file) EXCEPT !.pc = "killed"])
  BY <1>1 DEF Crash, DiskTyped
<1> DEFINE q == [Closed(ed[e].file) EXCEPT !.pc = "killed"]
<1>4. q \in Command /\ Good(q) /\ Holding(q) = Files
  BY <1>2, ClosedFields
<1> HIDE DEF q
<1>5. Become(e, q)
  BY <1>3 DEF q
<1> QED BY <1>1, <1>3, <1>4, <1>5, Goes

-----------------------------------------------------------------------------
LEMMA InitHolds ==
  ASSUME Init
  PROVE  IInv
<1>1. PICK f \in Files : ed = [e \in Editors |-> Closed(f)]
  BY DEF Init
<1>2. Closed(f) \in Command /\ Good(Closed(f))
  <2> DEFINE c == Closed(f)
             q == [c EXCEPT !.pc = "out"]
  <2>1. c = [pc |-> "out", file |-> f, text |-> Empty,
             delete_file |-> FALSE, locked |-> FALSE, modified |-> FALSE,
             lb |-> FALSE, failed |-> FALSE, cmd |-> "none",
             quitting |-> FALSE,
             save_lock |-> FALSE, res |-> 0, exp |-> f, target |-> f,
             ret |-> "none", again |-> FALSE, next |-> None]
    BY DEF Closed
  <2>2. q = [c EXCEPT !.pc = "out"]
    OBVIOUS
  <2> HIDE DEF c, q
  <2>3. q = [pc |-> "out", file |-> f, text |-> Empty,
             delete_file |-> FALSE, locked |-> FALSE, modified |-> FALSE,
             lb |-> FALSE, failed |-> FALSE, cmd |-> "none",
             quitting |-> FALSE,
             save_lock |-> FALSE, res |-> 0, exp |-> f, target |-> f,
             ret |-> "none", again |-> FALSE, next |-> None]
    BY <2>1, <2>2
  <2>4. q = c
    BY <2>1, <2>3
  <2> QED BY <2>4, ClosedFields DEF c, q
<1>3. DiskTyped
  <2>1. disk \in [Names -> Texts \cup {None}]
    BY DEF Init, Texts
  <2> QED BY <2>1 DEF Init, DiskTyped
<1>4. \A e \in Editors, g \in Files : lock[g] # e
  BY EditAssumption DEF Init
<1> QED BY <1>1, <1>2, <1>3, <1>4 DEF IInv

LEMMA NextKeeps ==
  ASSUME IInv, [Next]_vars
  PROVE  IInv'
<1>1. ASSUME NEW e \in Editors, NEW f \in Files, Start(e, f) PROVE IInv'
  BY <1>1, StartKeeps
<1>2. ASSUME NEW e \in Editors, NEW f \in Files, LoadCmd(e, f) PROVE IInv'
  BY <1>2, LeaveKeeps
<1>3. ASSUME NEW e \in Editors, Modify(e) PROVE IInv'
  BY <1>3, ModifyKeeps
<1>4. ASSUME NEW e \in Editors, QuitCmd(e) PROVE IInv'
  BY <1>4, LeaveKeeps
<1>5. ASSUME NEW e \in Editors, Clean(e) PROVE IInv'
  BY <1>5, CleanKeeps
<1>6. ASSUME NEW e \in Editors, Crash(e) PROVE IInv'
  BY <1>6, CrashKeeps
<1>7. ASSUME NEW e \in Editors, Locking(e) PROVE IInv'
  BY <1>7, LockingKeeps
<1>8. ASSUME NEW e \in Editors, Saving(e) PROVE IInv'
  BY <1>8, SaveCmdKeeps, SaveAsCmdKeeps, WritingKeeps, SaveUnlocksKeeps,
     SaveAsUnlocksKeeps, SaveAsEndsKeeps DEF Saving
<1>9. CASE UNCHANGED vars
  BY <1>9 DEF vars, IInv, DiskTyped
<1> QED BY <1>1, <1>2, <1>3, <1>4, <1>5, <1>6, <1>7, <1>8, <1>9
        DEF Next, AllOut

LEMMA InvariantHolds == Spec => []IInv
<1>1. Init => IInv
  BY InitHolds
<1>2. IInv /\ [Next]_vars => IInv'
  BY NextKeeps
<1> QED BY <1>1, <1>2, PTL DEF Spec

LEMMA IInvGivesLocks ==
  ASSUME IInv
  PROVE  LocksFollowBuffers
<1>1. ASSUME NEW e \in Editors
      PROVE  /\ ed[e].file \in Files /\ ed[e].exp \in Files
             /\ ed[e].target \in Files /\ ed[e].text \in Texts
             /\ ed[e].next \in Buffer \cup {None}
             /\ ed[e].res \in {-1, 0, 1} /\ ed[e].failed \in BOOLEAN
  BY DEF IInv, Command
<1>2. TypeOK
  BY <1>1 DEF TypeOK, IInv, DiskTyped
<1>3. ASSUME NEW e \in Editors, NEW f \in Files, lock[f] = e,
             ed[e].pc \in {"idle", "gone"}
      PROVE  At(e, "idle") /\ ed[e].locked /\ ed[e].file = f
  <2>1. /\ ed[e] \in Command /\ Good(ed[e]) /\ f \in Holding(ed[e])
    BY <1>3, Typed
  <2> QED BY <2>1, <1>3 DEF Good, Holding, SavePcs, UnlockPcs, At
<1>4. LocksAccounted
  BY <1>3 DEF LocksAccounted
<1>5. LockedWhileModified
  BY DEF IInv, Good, LockedWhileModified
<1> QED BY <1>2, <1>4, <1>5 DEF LocksFollowBuffers

(* However many editors open, save, reload, leave and die on the same      *)
(* files, and whichever links they grab from each other: a link that names *)
(* an editor between two of its commands is that of the file the editor    *)
(* has locked, an editor that left holds none, and a file is locked only   *)
(* while its buffer has something to save (editlock.c, and the calls of    *)
(* edit_lock_file and edit_unlock_file in edit.c and editcmd.c).           *)
THEOREM LocksAreGivenBack == Spec => []LocksFollowBuffers
<1>1. IInv => LocksFollowBuffers
  BY IInvGivesLocks
<1> QED BY <1>1, InvariantHolds, PTL

-----------------------------------------------------------------------------
(***************************************************************************)
(* One editor at a time.  Two editors overwrite each other's files (a lock *)
(* may be grabbed, and none is taken for a new file), so what is on the    *)
(* disk can be related to a buffer only while nobody else writes.  Told    *)
(* relates them at every point of a command:                               *)
(*   - a save that has written the file found it as written, and nothing   *)
(*     it still does can change that;                                      *)
(*   - a buffer marked for deletion is that of a file nobody saved in,     *)
(*     unless a save is about to take the mark away, or one has stored     *)
(*     something and failed;                                               *)
(*   - a loaded buffer waits only for edit_clean.                          *)
(***************************************************************************)
Alone == \A a, b \in Editors : a = b

Written(r) ==
  \/ r.pc = "s_stat"
  \/ r.pc = "saved" /\ r.res > 0
  \/ r.pc \in UnlockPcs /\ r.ret = "saved" /\ r.res > 0

Clears(r) ==
  /\ r.exp = r.file
  /\ \/ r.pc \in {"s_stat", "save_as_end"}
     \/ r.pc = "saved" /\ r.res > 0
     \/ /\ r.pc \in UnlockPcs /\ r.res > 0
        /\ r.ret \in {"save_end", "saved", "save_as_end"}

Told(r, d) ==
  /\ r.lb => LineBreaks
  /\ Written(r) /\ ~r.lb => d[r.exp] = r.text
  /\ r.delete_file /\ ~r.lb /\ ~r.failed /\ ~Clears(r) =>
       d[r.file] \in {None, Empty}
  /\ r.next # None =>
       /\ \/ r.pc = "clean"
          \/ r.pc \in UnlockPcs /\ r.ret = "clean"
       /\ r.next.delete_file => d[r.next.file] \in {None, Empty}

AllTold == \A e \in Editors : Told(ed[e], disk)

(* What a buffer must be told of before a command returns to it.           *)
Calm(r, d) ==
  /\ r.lb => LineBreaks
  /\ r.delete_file /\ ~r.lb /\ ~r.failed => d[r.file] \in {None, Empty}

LEMMA CleanTold ==
  ASSUME NEW r \in Command, NEW d, Calm(r, d),
         r.next # None /\ r.next.delete_file =>
           d[r.next.file] \in {None, Empty}
  PROVE  Told(CallClean(r), d)
<1>1. CASE r.locked
  <2> DEFINE q == CallClean(r)
  <2>1. q = [r EXCEPT !.locked = FALSE, !.pc = "u_look", !.target = r.file,
                      !.ret = "clean"]
    BY <1>1 DEF CallClean, CallUnlock, Command
  <2>2. /\ q.pc = "u_look" /\ q.ret = "clean" /\ q.file = r.file
        /\ q.lb = r.lb /\ q.delete_file = r.delete_file
        /\ q.failed = r.failed /\ q.next = r.next
    BY <2>1 DEF Command
  <2> HIDE DEF q
  <2>3. ~Written(q)
    BY <2>2 DEF Written
  <2> QED BY <2>2, <2>3 DEF Told, Calm, UnlockPcs, q
<1>2. CASE ~r.locked
  <2> DEFINE q == CallClean(r)
  <2>1. q = [r EXCEPT !.pc = "clean"]
    BY <1>2 DEF CallClean
  <2>2. /\ q.pc = "clean" /\ q.file = r.file
        /\ q.lb = r.lb /\ q.delete_file = r.delete_file
        /\ q.failed = r.failed /\ q.next = r.next
    BY <2>1 DEF Command
  <2> HIDE DEF q
  <2>3. ~Written(q)
    BY <2>2 DEF Written, UnlockPcs
  <2> QED BY <2>2, <2>3 DEF Told, Calm, q
<1> QED BY <1>1, <1>2 DEF Command

LEMMA IdleTold ==
  ASSUME NEW r \in Command, NEW d, Calm(r, d), r.pc = "idle", r.next = None
  PROVE  Told(r, d)
<1>1. ~Written(r)
  BY DEF Written, UnlockPcs
<1> QED BY <1>1 DEF Told, Calm

LEMMA ReturnTold ==
  ASSUME NEW r \in Command, NEW ok \in BOOLEAN, NEW d, Calm(r, d)
  PROVE  Told(Return(r, ok), d)
<1> DEFINE q == Idle(r)
<1>1. /\ q \in Command /\ q.pc = "idle" /\ q.file = r.file
      /\ q.delete_file = r.delete_file
      /\ q.failed = r.failed /\ q.lb = r.lb /\ q.next = None
  BY IdleFields
<1>2. Return(r, ok) = q \/ Return(r, ok) = CallClean(q)
  BY DEF Return
<1> HIDE DEF q
<1>3. Calm(q, d)
  BY <1>1 DEF Calm
<1> QED BY <1>1, <1>2, <1>3, IdleTold, CleanTold

LEMMA SaveEndsTold ==
  ASSUME NEW r \in Command, NEW d, r.lb => LineBreaks, r.next = None,
         r.delete_file /\ ~r.lb /\ ~r.failed /\ ~(r.res > 0) =>
           d[r.file] \in {None, Empty}
  PROVE  Told(SaveEnds(r), d)
<1>1. CASE r.res = 0
  <2> DEFINE q == SaveEnds(r)
  <2>1. q = [r EXCEPT !.pc = "save_as"]
    BY <1>1 DEF SaveEnds
  <2>2. /\ q.pc = "save_as" /\ q.file = r.file /\ q.lb = r.lb
        /\ q.delete_file = r.delete_file
        /\ q.failed = r.failed /\ q.next = None
    BY <2>1 DEF Command
  <2>3. ~(r.res > 0)
    BY <1>1
  <2> HIDE DEF q
  <2>4. ~Written(q)
    BY <2>2 DEF Written, UnlockPcs
  <2> QED BY <2>2, <2>3, <2>4 DEF Told, q
<1>2. CASE r.res > 0
  <2> DEFINE q == [r EXCEPT !.delete_file = FALSE, !.modified = FALSE,
                         !.failed = FALSE]
  <2>0. r.res # 0
    BY <1>2 DEF Command
  <2>1. SaveEnds(r) = Return(q, TRUE)
    BY <1>2, <2>0 DEF SaveEnds
  <2>2. /\ q \in Command /\ q.delete_file = FALSE /\ q.lb = r.lb
    BY DEF Command
  <2> HIDE DEF q
  <2>3. Calm(q, d)
    BY <2>2 DEF Calm
  <2> QED BY <2>1, <2>2, <2>3, ReturnTold
<1>3. CASE r.res < 0
  <2>0. r.res # 0 /\ ~(r.res > 0)
    BY <1>3 DEF Command
  <2>1. SaveEnds(r) = Return(r, TRUE)
    BY <2>0 DEF SaveEnds
  <2>2. Calm(r, d)
    BY <2>0 DEF Calm
  <2> QED BY <2>1, <2>2, ReturnTold
<1> QED BY <1>1, <1>2, <1>3 DEF Command

LEMMA CallLockTold ==
  ASSUME NEW r \in Command, NEW d, NEW f, NEW ret, Calm(r, d),
         r.next = None
  PROVE  Told(CallLock(r, f, ret), d)
<1> DEFINE q == CallLock(r, f, ret)
<1>1. q = [r EXCEPT !.pc = "l_look", !.target = f, !.ret = ret]
  BY DEF CallLock
<1>2. /\ q.pc = "l_look" /\ q.file = r.file /\ q.lb = r.lb
      /\ q.delete_file = r.delete_file
      /\ q.failed = r.failed /\ q.next = r.next
  BY <1>1 DEF Command
<1> HIDE DEF q
<1>3. ~Written(q)
  BY <1>2 DEF Written, UnlockPcs
<1> QED BY <1>2, <1>3 DEF Told, Calm, q

LEMMA ToSaveTold ==
  ASSUME NEW r \in Command, NEW d, Calm(r, d), r.next = None
  PROVE  Told([r EXCEPT !.pc = "save"], d)
<1> DEFINE q == [r EXCEPT !.pc = "save"]
<1>1. /\ q.pc = "save" /\ q.file = r.file /\ q.lb = r.lb
      /\ q.delete_file = r.delete_file
      /\ q.failed = r.failed /\ q.next = r.next
  BY DEF Command
<1> HIDE DEF q
<1>2. ~Written(q)
  BY <1>1 DEF Written, UnlockPcs
<1> QED BY <1>1, <1>2 DEF Told, Calm, q

LEMMA CallUnlockTold ==
  ASSUME NEW r \in Command, NEW d, NEW f, NEW ret, r.lb => LineBreaks,
         r.next = None,
         ret = "saved" /\ r.res > 0 /\ ~r.lb => d[r.exp] = r.text,
         r.delete_file /\ ~r.lb /\ ~r.failed
           /\ ~(/\ r.exp = r.file /\ r.res > 0
                /\ ret \in {"save_end", "saved", "save_as_end"}) =>
           d[r.file] \in {None, Empty}
  PROVE  Told(CallUnlock(r, f, ret), d)
<1> DEFINE q == CallUnlock(r, f, ret)
<1>1. q = [r EXCEPT !.pc = "u_look", !.target = f, !.ret = ret]
  BY DEF CallUnlock
<1>2. /\ q.pc = "u_look" /\ q.ret = ret /\ q.file = r.file /\ q.lb = r.lb
      /\ q.delete_file = r.delete_file
      /\ q.failed = r.failed /\ q.next = r.next
      /\ q.exp = r.exp /\ q.res = r.res /\ q.text = r.text
  BY <1>1 DEF Command
<1> HIDE DEF q
<1>3. Written(q) /\ ~q.lb => d[q.exp] = q.text
  BY <1>2 DEF Written
<1>4. q.delete_file /\ ~q.lb /\ ~q.failed /\ ~Clears(q) =>
        d[q.file] \in {None, Empty}
  BY <1>2 DEF Clears, UnlockPcs
<1> QED BY <1>2, <1>3, <1>4 DEF Told, q

(* A step of an editor leaves it told of the disk it leaves.               *)
Tells(e) == \E r \in Command : Become(e, r) /\ Told(r, disk')

LEMMA LockingTold ==
  ASSUME IInv, AllTold, NEW e \in Editors, Locking(e)
  PROVE  Tells(e)
<1> DEFINE c == ed[e]
<1>1. c \in Command /\ Good(c) /\ Told(c, disk) /\ UNCHANGED disk
  BY Typed DEF AllTold, Locking, LockLook, LockRead, LockRemove, LockCreate,
               UnlockLook, UnlockRead, UnlockRemove
<1> HIDE DEF c
<1>2. ASSUME NEW pc,
             \/ c.pc \in LockPcs /\ pc \in LockPcs
             \/ c.pc \in UnlockPcs /\ pc \in UnlockPcs,
             Goto(e, pc)
      PROVE  Tells(e)
  <2> DEFINE q == [c EXCEPT !.pc = pc]
  <2>1. q \in Command
    BY <1>1, <1>2 DEF Command, Pcs
  <2>2. /\ q.pc = pc /\ q.ret = c.ret /\ q.file = c.file /\ q.lb = c.lb
        /\ q.delete_file = c.delete_file
        /\ q.failed = c.failed /\ q.next = c.next
        /\ q.exp = c.exp /\ q.res = c.res /\ q.text = c.text
    BY <1>1 DEF Command
  <2> HIDE DEF q
  <2>3. Written(q) = Written(c) /\ Clears(q) = Clears(c)
    BY <2>2, <1>2 DEF Written, Clears, LockPcs, UnlockPcs
  <2>4. Told(q, disk)
    BY <2>2, <2>3, <1>1, <1>2 DEF Told, LockPcs, UnlockPcs
  <2> QED BY <2>1, <2>4, <1>1, <1>2 DEF Goto, Tells, c, q
<1>3. ASSUME NEW got \in BOOLEAN, c.pc \in LockPcs, LockReturns(e, got)
      PROVE  Tells(e)
  <2>1. ~Written(c) /\ ~Clears(c) /\ c.next = None
    BY <1>1, <1>3 DEF Told, Written, Clears, LockPcs, UnlockPcs
  <2>2. Calm(c, disk)
    BY <2>1, <1>1 DEF Told, Calm
  <2>3. CASE c.ret = "edit"
    <3> DEFINE q == [c EXCEPT !.locked = got, !.modified = TRUE,
                              !.text = NewText(e)]
    <3>1. Become(e, Return(q, FALSE))
      BY <1>3, <2>3 DEF LockReturns, c
    <3>2. q \in Command
      BY <1>1, TextsTyped DEF Command
    <3>3. /\ q.file = c.file /\ q.lb = c.lb /\ q.modified = TRUE
          /\ q.delete_file = c.delete_file /\ q.failed = c.failed
      BY <1>1 DEF Command
    <3> HIDE DEF q
    <3>4. Calm(q, disk)
      BY <2>2, <3>3 DEF Calm
    <3> QED BY <3>1, <3>2, <3>3, <3>4, <1>1, ReturnFields, ReturnTold DEF Tells
  <2>4. CASE c.ret # "edit"
    <3> DEFINE q == [c EXCEPT !.pc = "save", !.save_lock = got,
                              !.ret = "none", !.target = c.file]
    <3>1. Become(e, q)
      BY <1>3, <2>4 DEF LockReturns, c
    <3>2. q \in Command
      BY <1>1 DEF Command, Pcs, SavePcs
    <3>3. /\ q.pc = "save" /\ q.file = c.file /\ q.lb = c.lb
          /\ q.delete_file = c.delete_file
          /\ q.failed = c.failed /\ q.next = c.next
      BY <1>1 DEF Command
    <3> HIDE DEF q
    <3>4. ~Written(q)
      BY <3>3 DEF Written, UnlockPcs
    <3>5. Told(q, disk)
      BY <2>1, <2>2, <3>3, <3>4 DEF Told, Calm
    <3> QED BY <3>1, <3>2, <3>5, <1>1 DEF Tells
  <2> QED BY <2>3, <2>4
<1>4. ASSUME c.pc \in UnlockPcs, UnlockReturns(e)
      PROVE  Tells(e)
  <2> DEFINE q == [c EXCEPT !.pc = c.ret, !.ret = "none", !.target = c.file]
  <2>1. /\ c.ret \in {"clean", "save_end", "saved", "save_as_failed",
                      "save_as_end", "idle"}
        /\ c.locked => c.modified
    BY <1>1, <1>4 DEF Good
  <2>2. q \in Command
    BY <1>1, <2>1 DEF Command, Pcs, SavePcs
  <2>3. /\ q.pc = c.ret /\ q.file = c.file /\ q.lb = c.lb
        /\ q.delete_file = c.delete_file
        /\ q.failed = c.failed /\ q.next = c.next
        /\ q.exp = c.exp /\ q.res = c.res /\ q.text = c.text
        /\ q.locked = c.locked /\ q.modified = c.modified
        /\ q.save_lock = c.save_lock /\ q.cmd = c.cmd
    BY <1>1 DEF Command
  <2>4. Become(e, CASE q.pc = "save_end" -> SaveEnds(q)
                    [] q.pc = "save_as_failed" -> Return(q, FALSE)
                    [] OTHER -> q)
    BY <1>4 DEF UnlockReturns, c
  <2> HIDE DEF q
  <2>5. /\ c.lb => LineBreaks
        /\ c.ret # "clean" => c.next = None
    BY <1>1, <1>4 DEF Told, UnlockPcs, LockPcs
  <2>6. CASE c.ret = "save_end"
    <3>1. Become(e, SaveEnds(q))
      BY <2>3, <2>4, <2>6
    <3>2. ~(c.res > 0) => ~Clears(c)
      BY <1>4, <2>6 DEF Clears, UnlockPcs
    <3>3. Told(SaveEnds(q), disk)
      BY <1>1, <2>2, <2>3, <2>5, <2>6, <3>2, SaveEndsTold DEF Told
    <3>4. /\ ~q.save_lock /\ (q.locked => q.modified) /\ ~q.locked
          /\ (q.cmd # "save_as" => q.exp = q.file)
      BY <1>1, <1>4, <2>3, <2>6 DEF Good, UnlockPcs, SavePcs
    <3>5. SaveEnds(q) \in Command
      BY <2>2, <3>4, SaveEndsFields
    <3> QED BY <3>1, <3>3, <3>5, <1>1 DEF Tells
  <2>7. CASE c.ret = "save_as_failed"
    <3>1. Become(e, Return(q, FALSE))
      BY <2>3, <2>4, <2>7
    <3>2. ~Clears(c)
      BY <1>4, <2>7 DEF Clears, UnlockPcs
    <3>3. Calm(q, disk)
      BY <1>1, <2>3, <3>2 DEF Told, Calm
    <3> QED BY <3>1, <3>3, <1>1, <2>1, <2>2, <2>3, ReturnTold, ReturnFields
            DEF Tells
  <2>8. CASE c.ret \in {"clean", "saved", "save_as_end", "idle"}
    <3>1. Become(e, q)
      BY <2>3, <2>4, <2>8
    <3>2. Written(q) => Written(c)
      BY <1>4, <2>3, <2>8 DEF Written, UnlockPcs
    <3>3. Clears(c) => Clears(q)
      BY <1>4, <2>3, <2>8 DEF Clears, UnlockPcs
    <3>4. Told(q, disk)
      BY <1>1, <2>3, <2>5, <3>2, <3>3 DEF Told
    <3> QED BY <3>1, <3>4, <1>1, <2>2 DEF Tells
  <2> QED BY <2>1, <2>6, <2>7, <2>8
<1>5. CASE LockLook(e)
  <2>1. \E pc \in LockPcs : Goto(e, pc)
    BY <1>5 DEF LockLook, LockPcs
  <2> QED BY <1>5, <2>1, <1>2 DEF LockLook, At, LockPcs, c
<1>6. CASE LockRead(e)
  <2>1. c.pc \in LockPcs /\ (Goto(e, "l_remove") \/ LockReturns(e, FALSE))
    BY <1>6 DEF LockRead, At, LockPcs, c
  <2> QED BY <2>1, <1>2, <1>3 DEF LockPcs
<1>7. CASE LockRemove(e)
  BY <1>7, <1>2 DEF LockRemove, At, LockPcs, c
<1>8. CASE LockCreate(e)
  <2>1. c.pc \in LockPcs /\ (LockReturns(e, TRUE) \/ LockReturns(e, FALSE))
    BY <1>8 DEF LockCreate, At, LockPcs, c
  <2> QED BY <2>1, <1>3
<1>9. CASE UnlockLook(e)
  <2>1. c.pc \in UnlockPcs /\ (Goto(e, "u_read") \/ UnlockReturns(e))
    BY <1>9 DEF UnlockLook, At, UnlockPcs, c
  <2> QED BY <2>1, <1>2, <1>4 DEF UnlockPcs
<1>10. CASE UnlockRead(e)
  <2>1. c.pc \in UnlockPcs /\ (Goto(e, "u_remove") \/ UnlockReturns(e))
    BY <1>10 DEF UnlockRead, At, UnlockPcs, c
  <2> QED BY <2>1, <1>2, <1>4 DEF UnlockPcs
<1>11. CASE UnlockRemove(e)
  <2>1. c.pc \in UnlockPcs /\ UnlockReturns(e)
    BY <1>11 DEF UnlockRemove, At, UnlockPcs, c
  <2> QED BY <2>1, <1>4
<1> QED BY <1>5, <1>6, <1>7, <1>8, <1>9, <1>10, <1>11 DEF Locking

(* Only one file of the disk changes.                                      *)
LEMMA WriteDisk ==
  ASSUME DiskTyped, NEW f \in Files, NEW t \in Texts \cup {None}, NEW who,
         Write(f, t, who)
  PROVE  /\ disk'[f] = t
         /\ \A g \in Files : g # f => disk'[g] = disk[g]
<1>1. f \in Names /\ \A g \in Files : g \in Names
  BY DEF Names
<1> QED BY <1>1 DEF Write, DiskTyped

LEMMA OpensDisk ==
  ASSUME DiskTyped, NEW e \in Editors, NEW f \in Files, Opens(e, f)
  PROVE  /\ \A g \in Files : disk[g] \in {None, Empty} => disk'[g] \in {None, Empty}
         /\ \A g \in Files : disk'[g] = None => disk[g] = None
         /\ Loaded(f).file = f
         /\ Loaded(f).delete_file => disk'[f] = Empty
<1>1. Loaded(f).file = f /\ Loaded(f).delete_file = (disk[f] = None)
  BY DEF Loaded
<1>2. CASE disk[f] = None
  <2>1. Write(f, Empty, {e})
    BY <1>2 DEF Opens
  <2>2. /\ disk'[f] = Empty
        /\ \A g \in Files : g # f => disk'[g] = disk[g]
    BY <2>1, WriteDisk, TextsTyped
  <2>3. Empty # None
    BY TextsTyped, EditAssumption
  <2> QED BY <2>2, <2>3, <1>1
<1>3. CASE disk[f] # None
  <2>1. disk' = disk
    BY <1>3 DEF Opens
  <2> QED BY <2>1, <1>1, <1>3
<1> QED BY <1>2, <1>3

(* A change of the point and the result only.                              *)
LEMMA PointTold ==
  ASSUME NEW c \in Command, NEW d, NEW d2, NEW pc \in SavePcs,
         NEW n \in {-1, 0, 1}, Told(c, d), c.pc \in SavePcs,
         NEW W, W = (pc = "s_stat" \/ (pc = "saved" /\ n > 0)),
         W /\ ~c.lb => d2[c.exp] = c.text,
         c.delete_file /\ ~c.lb /\ ~c.failed /\ ~(c.exp = c.file /\ W) =>
           d2[c.file] \in {None, Empty}
  PROVE  /\ [c EXCEPT !.pc = pc, !.res = n] \in Command
         /\ Told([c EXCEPT !.pc = pc, !.res = n], d2)
<1> DEFINE q == [c EXCEPT !.pc = pc, !.res = n]
<1>1. q \in Command
  BY DEF Command, Pcs
<1>2. /\ q.pc = pc /\ q.res = n /\ q.file = c.file /\ q.lb = c.lb
      /\ q.delete_file = c.delete_file
      /\ q.failed = c.failed /\ q.next = c.next
      /\ q.exp = c.exp /\ q.text = c.text
  BY DEF Command
<1> HIDE DEF q
<1>3. c.next = None
  BY DEF Told, SavePcs, UnlockPcs
<1>4. Written(q) => W
  BY <1>2 DEF Written, SavePcs, UnlockPcs
<1>5. c.exp = c.file /\ W => Clears(q)
  BY <1>2 DEF Clears
<1>6. q.delete_file /\ ~q.lb /\ ~q.failed /\ ~Clears(q) =>
        d2[q.file] \in {None, Empty}
  BY <1>2, <1>5
<1>7. Written(q) /\ ~q.lb => d2[q.exp] = q.text
  BY <1>2, <1>4
<1>8. q.lb => LineBreaks
  BY <1>2 DEF Told
<1> QED BY <1>1, <1>2, <1>3, <1>6, <1>7, <1>8 DEF Told, q

(* A save that fails after it has stored something in exp.                 *)
LEMMA StoreFailsTold ==
  ASSUME NEW e \in Editors, NEW d, ed[e] \in Command, Told(ed[e], d),
         ed[e].pc \in SavePcs, StoreFails(e),
         ed[e].exp # ed[e].file => disk'[ed[e].file] = d[ed[e].file]
  PROVE  Tells(e)
<1> DEFINE c == ed[e]
<1>1. PICK b \in BOOLEAN :
        /\ Become(e, [c EXCEPT !.pc = "saved", !.res = 0, !.failed = b])
        /\ ~b => ~(c.delete_file /\ c.exp = c.file)
        /\ ~b => ~c.failed
  BY StoreFailsMeans
<1> DEFINE q == [c EXCEPT !.pc = "saved", !.res = 0, !.failed = b]
<1>2. q \in Command
  BY DEF Command, Pcs, SavePcs
<1>3. /\ q.pc = "saved" /\ q.res = 0 /\ q.failed = b /\ q.file = c.file
      /\ q.lb = c.lb /\ q.next = c.next /\ q.delete_file = c.delete_file
  BY DEF Command
<1> HIDE DEF c, q
<1>4. c.next = None /\ (c.lb => LineBreaks)
  BY DEF Told, SavePcs, UnlockPcs, c
<1>5. ~Written(q)
  BY <1>3 DEF Written, UnlockPcs
<1>6. q.delete_file /\ ~q.lb /\ ~q.failed => disk'[q.file] \in {None, Empty}
  BY <1>1, <1>3 DEF Told, Clears, c
<1>7. Told(q, disk')
  BY <1>3, <1>4, <1>5, <1>6 DEF Told
<1> QED BY <1>1, <1>2, <1>7 DEF Tells, c, q

LEMMA WritingTold ==
  ASSUME IInv, AllTold, NEW e \in Editors,
         \/ SaveCheck(e) \/ SaveOpen(e) \/ SaveWrite(e) \/ SaveStat(e)
         \/ SaveBackup(e) \/ SaveRename(e)
  PROVE  Tells(e)
<1> DEFINE c == ed[e]
           x == c.exp
<1>1. c \in Command /\ Good(c) /\ Told(c, disk) /\ DiskTyped
  BY Typed DEF AllTold
<1>2. /\ x \in Files /\ c.file \in Files /\ c.text \in Texts
      /\ c.res \in {-1, 0, 1}
  BY <1>1 DEF Command
<1>3. c.pc \in SavePcs
  BY DEF SaveCheck, SaveOpen, SaveWrite, SaveStat, SaveBackup, SaveRename,
         At, SavePcs
<1> HIDE DEF c
(* A step that writes nothing or empties the file, and one that has put    *)
(* the text there.                                                         *)
<1>4. ASSUME NEW pc \in SavePcs, NEW n \in {-1, 0, 1},
             Become(e, [c EXCEPT !.pc = pc, !.res = n]),
             ~Clears(c), pc # "s_stat", ~(pc = "saved" /\ n > 0),
             \A g \in Files : disk[g] \in {None, Empty} =>
                                disk'[g] \in {None, Empty}
      PROVE  Tells(e)
  <2>1. c.delete_file /\ ~c.lb /\ ~c.failed => disk'[c.file] \in {None, Empty}
    BY <1>1, <1>2, <1>4 DEF Told
  <2>2. /\ [c EXCEPT !.pc = pc, !.res = n] \in Command
        /\ Told([c EXCEPT !.pc = pc, !.res = n], disk')
    BY <2>1, <1>1, <1>3, <1>4, PointTold
  <2> QED BY <2>2, <1>4 DEF Tells, c
<1>5. ASSUME NEW pc \in SavePcs, NEW n \in {-1, 0, 1},
             Become(e, [c EXCEPT !.pc = pc, !.res = n]),
             c.lb \/ disk'[x] = c.text,
             pc = "s_stat" \/ (pc = "saved" /\ n > 0),
             \A g \in Files : g # x => disk'[g] = disk[g]
      PROVE  Tells(e)
  <2>1. c.exp # c.file => ~Clears(c)
    BY DEF Clears
  <2>2. c.delete_file /\ ~c.lb /\ ~c.failed /\ c.exp # c.file =>
          disk'[c.file] \in {None, Empty}
    BY <1>1, <1>2, <1>5, <2>1 DEF Told
  <2>3. /\ [c EXCEPT !.pc = pc, !.res = n] \in Command
        /\ Told([c EXCEPT !.pc = pc, !.res = n], disk')
    BY <2>2, <1>1, <1>3, <1>5, PointTold, ZenonT(60)
  <2> QED BY <2>3, <1>5 DEF Tells, c
<1>6. ASSUME NEW pc, Become(e, [c EXCEPT !.pc = pc])
      PROVE  Become(e, [c EXCEPT !.pc = pc, !.res = c.res])
  <2> DEFINE q == [c EXCEPT !.pc = pc]
             r == [c EXCEPT !.pc = pc, !.res = c.res]
  <2>1. q = r
    BY <1>1 DEF Command
  <2> QED BY <2>1, <1>6
<1>7. ASSUME c.pc # "s_stat", c.pc # "saved"
      PROVE  ~Clears(c)
  BY <1>3, <1>7 DEF Clears, SavePcs, UnlockPcs
<1>8. ASSUME TempFails(e), c.pc \notin {"s_stat", "saved"}
      PROVE  Tells(e)
  <2>1. disk' = disk /\ Become(e, [c EXCEPT !.pc = "saved", !.res = 0])
    BY <1>8 DEF TempFails, SaveFails, c
  <2> QED BY <2>1, <1>4, <1>7, <1>8 DEF SavePcs
<1>9. CASE SaveCheck(e)
  <2>1. disk' = disk /\ c.pc = "save"
    BY <1>9 DEF SaveCheck, At, c
  <2>2. \/ \E pc \in {"s_open", "s_rename", "s_backup"} :
             Become(e, [c EXCEPT !.pc = pc])
        \/ Become(e, [c EXCEPT !.pc = "saved", !.res = -1])
    BY <1>9 DEF SaveCheck, c
  <2>3. ASSUME NEW pc \in {"s_open", "s_rename", "s_backup"},
               Become(e, [c EXCEPT !.pc = pc])
        PROVE  Tells(e)
    BY <2>1, <2>3, <1>2, <1>4, <1>6, <1>7 DEF SavePcs
  <2>4. ASSUME Become(e, [c EXCEPT !.pc = "saved", !.res = -1])
        PROVE  Tells(e)
    BY <2>1, <2>4, <1>4, <1>7 DEF SavePcs
  <2> QED BY <2>2, <2>3, <2>4
<1>10. CASE SaveOpen(e)
  <2>1. c.pc = "s_open"
    BY <1>10 DEF SaveOpen, At, c
  <2>2. CASE Write(x, Empty, {}) /\ Goto(e, "s_write")
    <3>1. \A g \in Files : disk[g] \in {None, Empty} =>
                             disk'[g] \in {None, Empty}
      BY <2>2, <1>1, <1>2, WriteDisk, TextsTyped
    <3>2. Become(e, [c EXCEPT !.pc = "s_write", !.res = c.res])
      BY <2>2, <1>6 DEF Goto, c
    <3> QED BY <2>1, <3>1, <3>2, <1>2, <1>4, <1>7 DEF SavePcs
  <2>3. CASE UNCHANGED disk /\ SaveFails(e)
    BY <2>1, <2>3, <1>4, <1>7 DEF SaveFails, SavePcs, c
  <2> QED BY <2>2, <2>3, <1>10 DEF SaveOpen, c
<1>11. CASE SaveWrite(e)
  <2>1. c.pc = "s_write"
    BY <1>11 DEF SaveWrite, At, c
  <2>2. ~Clears(c)
    BY <2>1, <1>7
  <2>3. CASE /\ Write(x, c.text, {})
             /\ Become(e, IF c.lb THEN Succeeded(e)
                          ELSE [c EXCEPT !.pc = "s_stat"])
    <3>1. disk'[x] = c.text /\ \A g \in Files : g # x => disk'[g] = disk[g]
      BY <2>3, <1>1, <1>2, WriteDisk
    <3>2. CASE c.lb
      <4>1. Become(e, [c EXCEPT !.pc = "saved", !.res = 1])
        BY <2>3, <3>2 DEF Succeeded, c
      <4> QED BY <3>1, <3>2, <4>1, <1>5 DEF SavePcs
    <3>3. CASE ~c.lb
      <4>1. Become(e, [c EXCEPT !.pc = "s_stat", !.res = c.res])
        BY <2>3, <3>3, <1>6
      <4> QED BY <3>1, <4>1, <1>2, <1>5 DEF SavePcs
    <3> QED BY <3>2, <3>3
  <2>4. CASE UNCHANGED disk /\ SaveFails(e)
    BY <2>1, <2>2, <2>4, <1>4 DEF SaveFails, SavePcs, c
  <2>5. CASE /\ c.lb /\ Become(e, Succeeded(e))
             /\ UNCHANGED disk \/ Write(x, Partial, {})
    <3>1. Become(e, [c EXCEPT !.pc = "saved", !.res = 1])
      BY <2>5 DEF Succeeded, c
    <3>2. \A g \in Files : g # x => disk'[g] = disk[g]
      BY <2>5, <1>1, <1>2, WriteDisk, TextsTyped
    <3> QED BY <2>5, <3>1, <3>2, <1>5 DEF SavePcs
  <2>6. ASSUME NEW t \in {Partial, c.text}, NEW who, Write(x, t, who),
               StoreFails(e)
        PROVE  Tells(e)
    <3>1. \A g \in Files : g # x => disk'[g] = disk[g]
      BY <2>6, <1>1, <1>2, WriteDisk, TextsTyped
    <3> QED BY <3>1, <2>6, <1>1, <1>2, <1>3, StoreFailsTold DEF c
  <2> QED BY <2>3, <2>4, <2>5, <2>6, <1>11, SaveWriteCases DEF c
<1>12. CASE SaveStat(e)
  <2>1. c.pc = "s_stat" /\ disk' = disk
    BY <1>12 DEF SaveStat, At, c
  <2>2. CASE StoreFails(e)
    BY <2>1, <2>2, <1>1, <1>3, StoreFailsTold DEF c
  <2>3. CASE Become(e, Succeeded(e))
    <3>1. Become(e, [c EXCEPT !.pc = "saved", !.res = 1])
      BY <2>3 DEF Succeeded, c
    <3>2. c.lb \/ disk'[x] = c.text
      BY <1>1, <2>1 DEF Told, Written
    <3> QED BY <2>1, <3>1, <3>2, <1>5 DEF SavePcs
  <2> QED BY <2>2, <2>3, <1>12 DEF SaveStat
<1>13. CASE SaveBackup(e)
  <2>1. c.pc = "s_backup"
    BY <1>13 DEF SaveBackup, At, c
  <2>2. CASE /\ disk' = [disk EXCEPT ![Backup(x)] = disk[x], ![x] = None]
             /\ Goto(e, "s_rename")
    <3>1. \A g \in Files : disk[g] \in {None, Empty} =>
                             disk'[g] \in {None, Empty}
      <4>1. x \in Names /\ \A g \in Files : g \in Names /\ g # Backup(x)
        BY <1>2, EditAssumption DEF Names
      <4> QED BY <1>1, <2>2, <4>1 DEF DiskTyped
    <3>2. Become(e, [c EXCEPT !.pc = "s_rename", !.res = c.res])
      BY <2>2, <1>6 DEF Goto, c
    <3> QED BY <2>1, <3>1, <3>2, <1>2, <1>4, <1>7 DEF SavePcs
  <2> QED BY <2>1, <2>2, <1>8, <1>13 DEF SaveBackup, c
<1>14. CASE SaveRename(e)
  <2>1. c.pc = "s_rename"
    BY <1>14 DEF SaveRename, At, c
  <2>2. CASE /\ Write(x, c.text, IF c.lb THEN {} ELSE {e})
             /\ Become(e, Succeeded(e))
    <3>1. disk'[x] = c.text /\ \A g \in Files : g # x => disk'[g] = disk[g]
      BY <2>2, <1>1, <1>2, WriteDisk
    <3>2. Become(e, [c EXCEPT !.pc = "saved", !.res = 1])
      BY <2>2 DEF Succeeded, c
    <3> QED BY <3>1, <3>2, <1>5 DEF SavePcs
  <2> QED BY <2>1, <2>2, <1>8, <1>14 DEF SaveRename, c
<1> QED BY <1>9, <1>10, <1>11, <1>12, <1>13, <1>14

LEMMA SaveCmdTold ==
  ASSUME IInv, AllTold, NEW e \in Editors, SaveCmd(e)
  PROVE  Tells(e)
<1> DEFINE c == ed[e]
<1>1. c \in Command /\ Good(c) /\ Told(c, disk)
  BY Typed DEF AllTold
<1>2. c.pc = "idle" /\ disk' = disk
  BY DEF SaveCmd, At
<1>3. ~Clears(c) /\ c.next = None
  BY <1>1, <1>2 DEF Told, Clears, UnlockPcs
<1>4. PICK q \in {FALSE, c.modified} :
        Become(e, IF ~c.locked /\ ~c.delete_file
                  THEN CallLock([c EXCEPT !.cmd = "save", !.quitting = q],
                                c.file, "save")
                  ELSE [[c EXCEPT !.cmd = "save", !.quitting = q]
                          EXCEPT !.pc = "save"])
  BY DEF SaveCmd
<1> DEFINE s == [c EXCEPT !.cmd = "save", !.quitting = q]
<1>5. s \in Command
  BY <1>1 DEF Command
<1>6. /\ s.file = c.file /\ s.lb = c.lb /\ s.next = None
      /\ s.delete_file = c.delete_file /\ s.failed = c.failed
  BY <1>1, <1>3 DEF Command
<1>7. \/ Become(e, CallLock(s, c.file, "save"))
      \/ Become(e, [s EXCEPT !.pc = "save"])
  BY <1>4
<1>8. c.file \in Files
  BY <1>1 DEF Command
<1> HIDE DEF s, c
<1>9. Calm(s, disk)
  BY <1>1, <1>3, <1>6 DEF Calm, Told
<1>10. CallLock(s, c.file, "save") \in Command
  BY <1>5, <1>8 DEF CallLock, Command, Pcs, LockPcs
<1>11. [s EXCEPT !.pc = "save"] \in Command
  BY <1>5 DEF Command, Pcs, SavePcs
<1> QED BY <1>2, <1>5, <1>6, <1>7, <1>9, <1>10, <1>11, CallLockTold,
           ToSaveTold DEF Tells

LEMMA SaveAsCmdTold ==
  ASSUME IInv, AllTold, NEW e \in Editors, SaveAsCmd(e)
  PROVE  Tells(e)
<1> DEFINE c == ed[e]
<1>1. c \in Command /\ Good(c) /\ Told(c, disk)
  BY Typed DEF AllTold
<1>2. c.pc \in {"idle", "save_as"} /\ disk' = disk
  BY DEF SaveAsCmd, At
<1>3. ~Clears(c) /\ c.next = None
  BY <1>1, <1>2 DEF Told, Clears, UnlockPcs
<1>4. Calm(c, disk)
  BY <1>1, <1>3 DEF Calm, Told
<1>5. CASE Become(e, Return(c, FALSE))
  <2>1. c.locked => c.modified
    BY <1>1 DEF Good
  <2> QED BY <2>1, <1>1, <1>2, <1>4, <1>5, ReturnFields, ReturnTold DEF Tells
<1>6. ASSUME NEW f \in Files, NEW lb \in {c.lb, LineBreaks}
      PROVE  LET s == [c EXCEPT !.cmd = "save_as", !.exp = f, !.lb = lb,
                                !.save_lock = FALSE]
             IN (Become(e, CallLock(s, f, "save"))
                   \/ Become(e, [s EXCEPT !.pc = "save"])) => Tells(e)
  <2> DEFINE s == [c EXCEPT !.cmd = "save_as", !.exp = f, !.lb = lb,
                            !.save_lock = FALSE]
  <2>1. lb \in BOOLEAN /\ (lb => LineBreaks) /\ (~lb => ~c.lb)
    BY <1>1, EditAssumption DEF Command, Told
  <2>2. s \in Command
    BY <1>1, <2>1 DEF Command
  <2>3. /\ s.file = c.file /\ s.lb = lb /\ s.next = None
        /\ s.delete_file = c.delete_file /\ s.failed = c.failed
    BY <1>1, <1>3 DEF Command
  <2> HIDE DEF s, c
  <2>4. Calm(s, disk)
    BY <1>4, <2>1, <2>3 DEF Calm
  <2>5. CallLock(s, f, "save") \in Command
    BY <2>2 DEF CallLock, Command, Pcs, LockPcs
  <2>6. [s EXCEPT !.pc = "save"] \in Command
    BY <2>2 DEF Command, Pcs, SavePcs
  <2>7. (Become(e, CallLock(s, f, "save"))
           \/ Become(e, [s EXCEPT !.pc = "save"])) => Tells(e)
    BY <1>2, <2>2, <2>3, <2>4, <2>5, <2>6, CallLockTold, ToSaveTold DEF Tells
  <2> QED BY <2>7 DEF s
<1>7. \/ Become(e, Return(c, FALSE))
      \/ \E f \in Files, lb \in {c.lb, LineBreaks} :
           LET s == [c EXCEPT !.cmd = "save_as", !.exp = f, !.lb = lb,
                              !.save_lock = FALSE]
           IN \/ Become(e, CallLock(s, f, "save"))
              \/ Become(e, [s EXCEPT !.pc = "save"])
  BY Zenon DEF SaveAsCmd
<1> QED BY <1>5, <1>6, <1>7

LEMMA UnlockTyped ==
  ASSUME NEW r \in Command, NEW f \in Files,
         NEW ret \in {"clean", "save_end", "saved", "save_as_failed",
                      "save_as_end", "idle"}
  PROVE  CallUnlock(r, f, ret) \in Command
BY DEF CallUnlock, Command, Pcs, UnlockPcs

LEMMA DropTold ==
  ASSUME NEW r \in Command
  PROVE  /\ [r EXCEPT !.save_lock = FALSE].lb = r.lb
         /\ [r EXCEPT !.save_lock = FALSE].next = r.next
         /\ [r EXCEPT !.save_lock = FALSE].res = r.res
         /\ [r EXCEPT !.save_lock = FALSE].text = r.text
         /\ [r EXCEPT !.save_lock = FALSE].delete_file = r.delete_file
         /\ [r EXCEPT !.save_lock = FALSE].failed = r.failed
         /\ [r EXCEPT !.locked = FALSE, !.save_lock = FALSE].lb = r.lb
         /\ [r EXCEPT !.locked = FALSE, !.save_lock = FALSE].next = r.next
         /\ [r EXCEPT !.locked = FALSE, !.save_lock = FALSE].res = r.res
         /\ [r EXCEPT !.locked = FALSE, !.save_lock = FALSE].text = r.text
         /\ [r EXCEPT !.locked = FALSE, !.save_lock = FALSE].delete_file =
              r.delete_file
         /\ [r EXCEPT !.locked = FALSE, !.save_lock = FALSE].failed = r.failed
BY DEF Command

LEMMA SaveUnlocksTold ==
  ASSUME IInv, AllTold, NEW e \in Editors, SaveUnlocks(e)
  PROVE  Tells(e)
<1> DEFINE c == ed[e]
           d == [c EXCEPT !.locked = FALSE, !.save_lock = FALSE]
<1>1. c \in Command /\ Good(c) /\ Told(c, disk) /\ c.file \in Files
  BY Typed DEF AllTold, Command
<1>2. c.pc = "saved" /\ c.cmd = "save" /\ disk' = disk
  BY DEF SaveUnlocks, At
<1>3. /\ c.exp = c.file /\ c.next = None /\ (c.lb => LineBreaks)
      /\ c.locked => c.modified
      /\ c.delete_file /\ ~c.lb /\ ~c.failed /\ ~(c.res > 0) =>
           disk[c.file] \in {None, Empty}
  BY <1>1, <1>2 DEF Told, Clears, UnlockPcs, Good
<1>4. CASE (c.res > 0 /\ c.locked) \/ c.save_lock
  <2>1. Become(e, CallUnlock(d, c.file, "save_end"))
    BY <1>4 DEF SaveUnlocks
  <2>2. /\ d \in Command /\ d.exp = c.exp /\ d.file = c.file /\ d.lb = c.lb
        /\ d.next = c.next /\ d.res = c.res
        /\ d.delete_file = c.delete_file /\ d.failed = c.failed
    BY <1>1, DropFields, DropTold
  <2> HIDE DEF d, c
  <2>3. Told(CallUnlock(d, c.file, "save_end"), disk)
    BY <1>3, <2>2, CallUnlockTold
  <2> QED BY <2>1, <2>2, <2>3, <1>1, <1>2, UnlockTyped DEF Tells
<1>5. CASE ~((c.res > 0 /\ c.locked) \/ c.save_lock)
  <2>1. Become(e, SaveEnds(c))
    BY <1>5 DEF SaveUnlocks
  <2> HIDE DEF c
  <2>2. SaveEnds(c) \in Command
    BY <1>1, <1>3, <1>5, SaveEndsFields DEF Command
  <2>3. Told(SaveEnds(c), disk)
    BY <1>1, <1>3, SaveEndsTold
  <2> QED BY <2>1, <2>2, <2>3, <1>2 DEF Tells
<1> QED BY <1>4, <1>5

LEMMA SaveAsUnlocksTold ==
  ASSUME IInv, AllTold, NEW e \in Editors, SaveAsUnlocks(e)
  PROVE  Tells(e)
<1> DEFINE c == ed[e]
           a == [c EXCEPT !.save_lock = FALSE]
           d == [c EXCEPT !.locked = FALSE, !.save_lock = FALSE]
<1>1. /\ c \in Command /\ Good(c) /\ Told(c, disk) /\ c.file \in Files
      /\ c.exp \in Files /\ c.res \in {-1, 0, 1}
  BY Typed DEF AllTold, Command
<1>2. c.pc = "saved" /\ disk' = disk
  BY DEF SaveAsUnlocks, At
<1>3. /\ c.next = None /\ (c.lb => LineBreaks)
      /\ c.locked => c.modified
      /\ c.delete_file /\ ~c.lb /\ ~c.failed
           /\ ~(c.exp = c.file /\ c.res > 0) =>
           disk[c.file] \in {None, Empty}
      /\ c.res > 0 /\ ~c.lb => disk[c.exp] = c.text
  BY <1>1, <1>2 DEF Told, Clears, Written, UnlockPcs, Good
<1>4. /\ a \in Command /\ a.exp = c.exp /\ a.file = c.file /\ a.lb = c.lb
      /\ a.next = c.next /\ a.res = c.res /\ a.text = c.text
      /\ a.delete_file = c.delete_file /\ a.failed = c.failed
      /\ d \in Command /\ d.exp = c.exp /\ d.file = c.file /\ d.lb = c.lb
      /\ d.next = c.next /\ d.res = c.res /\ d.text = c.text
      /\ d.delete_file = c.delete_file /\ d.failed = c.failed
  BY <1>1, DropFields, DropTold
<1>5. \/ c.res <= 0 /\ Become(e, CallUnlock(a, c.exp, "save_as_failed"))
      \/ c.res <= 0 /\ Become(e, Return(c, FALSE))
      \/ c.res > 0 /\ Become(e, CallUnlock(a, c.exp, "saved"))
      \/ c.res > 0 /\ Become(e, CallUnlock(d, c.file, "save_as_end"))
      \/ c.res > 0 /\ Become(e, [c EXCEPT !.pc = "save_as_end"])
  <2>1. c.res <= 0 \/ c.res > 0
    BY <1>1
  <2> QED BY <2>1, Zenon DEF SaveAsUnlocks
<1>6. c.res <= 0 <=> ~(c.res > 0)
  BY <1>1
<1> HIDE DEF c, a, d
<1>7. CASE c.res <= 0 /\ Become(e, CallUnlock(a, c.exp, "save_as_failed"))
  <2>1. Told(CallUnlock(a, c.exp, "save_as_failed"), disk)
    BY <1>3, <1>4, <1>6, <1>7, CallUnlockTold
  <2> QED BY <2>1, <1>1, <1>2, <1>4, <1>7, UnlockTyped DEF Tells
<1>8. CASE c.res <= 0 /\ Become(e, Return(c, FALSE))
  <2>1. Calm(c, disk)
    BY <1>3, <1>6, <1>8 DEF Calm
  <2> QED BY <2>1, <1>1, <1>2, <1>3, <1>8, ReturnTold, ReturnFields DEF Tells
<1>9. CASE c.res > 0 /\ Become(e, CallUnlock(a, c.exp, "saved"))
  <2>1. Told(CallUnlock(a, c.exp, "saved"), disk)
    BY <1>3, <1>4, <1>9, CallUnlockTold
  <2> QED BY <2>1, <1>1, <1>2, <1>4, <1>9, UnlockTyped DEF Tells
<1>10. CASE c.res > 0 /\ Become(e, CallUnlock(d, c.file, "save_as_end"))
  <2>1. Told(CallUnlock(d, c.file, "save_as_end"), disk)
    BY <1>3, <1>4, <1>10, CallUnlockTold
  <2> QED BY <2>1, <1>1, <1>2, <1>4, <1>10, UnlockTyped DEF Tells
<1>11. CASE c.res > 0 /\ Become(e, [c EXCEPT !.pc = "save_as_end"])
  <2> DEFINE q == [c EXCEPT !.pc = "save_as_end"]
  <2>1. q \in Command
    BY <1>1 DEF Command, Pcs
  <2>2. /\ q.pc = "save_as_end" /\ q.exp = c.exp /\ q.file = c.file
        /\ q.lb = c.lb /\ q.next = c.next /\ q.delete_file = c.delete_file
        /\ q.failed = c.failed
    BY <1>1 DEF Command
  <2> HIDE DEF q
  <2>3. ~Written(q) /\ (c.exp = c.file => Clears(q))
    BY <2>2 DEF Written, Clears, UnlockPcs
  <2>4. Told(q, disk)
    BY <2>2, <2>3, <1>3 DEF Told
  <2> QED BY <2>1, <2>4, <1>2, <1>11 DEF Tells, q
<1> QED BY <1>5, <1>7, <1>8, <1>9, <1>10, <1>11

LEMMA SaveAsEndsTold ==
  ASSUME IInv, AllTold, NEW e \in Editors, SaveAsEnds(e)
  PROVE  Tells(e)
<1> DEFINE c == ed[e]
           r == [c EXCEPT !.file = c.exp, !.failed = FALSE]
<1>1. c \in Command /\ Good(c) /\ Told(c, disk) /\ DiskTyped
  BY Typed DEF AllTold
<1>2. c.pc = "save_as_end" /\ c.exp \in Files /\ ~c.locked
  BY <1>1 DEF SaveAsEnds, At, Command, Good
<1>3. /\ r \in Command /\ r.exp = c.exp /\ r.lb = c.lb
      /\ r.locked = c.locked
  BY <1>1 DEF Command
<1>4. c.lb => LineBreaks
  BY <1>1 DEF Told
<1>5. CASE r.lb
  <2>1. /\ Opens(e, r.exp)
        /\ Become(e, [r EXCEPT !.pc = "clean", !.next = Loaded(r.exp)])
    BY <1>5 DEF SaveAsEnds
  <2>2. /\ Loaded(r.exp).file = r.exp
        /\ Loaded(r.exp).delete_file => disk'[r.exp] = Empty
    BY <2>1, <1>1, <1>2, <1>3, OpensDisk
  <2>3. Loaded(r.exp) \in Buffer
    BY <2>1, <1>1, <1>2, <1>3, OpensTyped DEF SaveAsEnds
  <2> DEFINE q == [r EXCEPT !.pc = "clean", !.next = Loaded(r.exp)]
  <2>4. q \in Command
    BY <1>3, <2>3 DEF Command, Pcs
  <2>5. q.pc = "clean" /\ q.lb = r.lb /\ q.next = Loaded(r.exp)
    BY <1>3 DEF Command
  <2> HIDE DEF q, r, c
  <2>6. ~Written(q)
    BY <2>5 DEF Written, UnlockPcs
  <2>7. Told(q, disk')
    BY <2>2, <2>5, <2>6, <1>3, <1>4, <1>5 DEF Told
  <2> QED BY <2>1, <2>4, <2>7 DEF Tells, q
<1>6. CASE ~r.lb
  <2> DEFINE q == [r EXCEPT !.delete_file = FALSE, !.modified = FALSE]
  <2>1. Become(e, Return(q, TRUE))
    BY <1>6 DEF SaveAsEnds
  <2>2. /\ q \in Command /\ q.locked = r.locked /\ q.lb = r.lb
        /\ q.delete_file = FALSE
    BY <1>3 DEF Command
  <2> HIDE DEF q, r
  <2>3. Calm(q, disk')
    BY <2>2, <1>6 DEF Calm
  <2> QED BY <2>1, <2>2, <2>3, <1>2, <1>3, ReturnFields, ReturnTold DEF Tells
<1> QED BY <1>5, <1>6

LEMMA StartTold ==
  ASSUME IInv, AllTold, NEW e \in Editors, NEW f \in Files, Start(e, f)
  PROVE  Tells(e)
<1>1. DiskTyped
  BY Typed
<1>2. Opens(e, f) /\ UNCHANGED lock /\ Become(e, Edits(Loaded(f)))
  BY DEF Start
<1>3. /\ Loaded(f) \in Buffer /\ Loaded(f).file = f
      /\ Loaded(f).delete_file => disk'[f] = Empty
  BY <1>1, <1>2, OpensTyped, OpensDisk
<1> DEFINE q == Edits(Loaded(f))
<1>4. /\ q \in Command /\ q.pc = "idle" /\ q.lb = FALSE /\ q.next = None
      /\ q.file = Loaded(f).file
      /\ q.delete_file = Loaded(f).delete_file
  BY <1>3, EditsFields
<1> HIDE DEF q
<1>5. Calm(q, disk')
  BY <1>3, <1>4 DEF Calm
<1> QED BY <1>2, <1>4, <1>5, IdleTold DEF Tells, q

LEMMA ModifyTold ==
  ASSUME IInv, AllTold, NEW e \in Editors, Modify(e)
  PROVE  Tells(e)
<1> DEFINE c == ed[e]
<1>1. c \in Command /\ Good(c) /\ Told(c, disk) /\ c.file \in Files
  BY Typed DEF AllTold, Command
<1>2. c.pc = "idle" /\ disk' = disk
  BY DEF Modify, At
<1>3. ~Clears(c) /\ c.next = None
  BY <1>1, <1>2 DEF Told, Clears, UnlockPcs
<1>4. Calm(c, disk)
  BY <1>1, <1>3 DEF Calm, Told
<1>5. CASE Become(e, CallLock(c, c.file, "edit"))
  <2>1. CallLock(c, c.file, "edit") \in Command
    BY <1>1 DEF CallLock, Command, Pcs, LockPcs
  <2> QED BY <2>1, <1>1, <1>2, <1>3, <1>4, <1>5, CallLockTold DEF Tells
<1>6. CASE Become(e, [c EXCEPT !.modified = TRUE, !.text = NewText(e)])
  <2> DEFINE q == [c EXCEPT !.modified = TRUE, !.text = NewText(e)]
  <2>1. q \in Command
    BY <1>1, TextsTyped DEF Command
  <2>2. /\ q.pc = c.pc /\ q.file = c.file /\ q.lb = c.lb
        /\ q.next = c.next /\ q.delete_file = c.delete_file
        /\ q.failed = c.failed
    BY <1>1 DEF Command
  <2> HIDE DEF q
  <2>3. Calm(q, disk)
    BY <1>4, <2>2 DEF Calm
  <2> QED BY <2>1, <2>2, <2>3, <1>2, <1>3, <1>6, IdleTold DEF Tells, q
<1> QED BY <1>5, <1>6 DEF Modify

LEMMA LeaveTold ==
  ASSUME IInv, AllTold, NEW e \in Editors,
         QuitCmd(e) \/ \E f \in Files : LoadCmd(e, f)
  PROVE  Tells(e)
<1> DEFINE c == ed[e]
<1>1. /\ c \in Command /\ Good(c) /\ Told(c, disk) /\ DiskTyped
      /\ c.file \in Files
  BY Typed DEF AllTold, Command
<1>2. c.pc = "idle" /\ UNCHANGED lock
  BY DEF QuitCmd, LoadCmd, At
<1>3. ~Clears(c) /\ c.next = None
  BY <1>1, <1>2 DEF Told, Clears, UnlockPcs
<1>4. Calm(c, disk)
  BY <1>1, <1>3 DEF Calm, Told
<1>5. /\ ~c.save_lock
      /\ c.locked => c.modified
      /\ c.cmd # "save_as" => c.exp = c.file
      /\ c.cmd = "none"
  BY <1>1, <1>2 DEF Good, SavePcs
<1>6. CASE QuitCmd(e)
  <2>1. Become(e, CallClean(c)) /\ disk' = disk
    BY <1>6 DEF QuitCmd
  <2>2. CallClean(c) \in Command /\ Told(CallClean(c), disk)
    BY <1>1, <1>3, <1>4, <1>5, CleanFields, CleanTold
  <2> QED BY <2>1, <2>2 DEF Tells
<1>7. ASSUME NEW f \in Files, LoadCmd(e, f) PROVE Tells(e)
  <2> DEFINE r == [c EXCEPT !.next = Loaded(f), !.again = c.locked]
  <2>1. Opens(e, f) /\ Become(e, CallClean(r))
    BY <1>7 DEF LoadCmd
  <2>2. /\ Loaded(f) \in Buffer /\ Loaded(f).file = f
        /\ Loaded(f).delete_file => disk'[f] = Empty
        /\ disk[c.file] \in {None, Empty} => disk'[c.file] \in {None, Empty}
    BY <2>1, <1>1, <1>2, OpensTyped, OpensDisk
  <2>3. r \in Command
    BY <1>1, <2>2 DEF Command
  <2>4. /\ r.locked = c.locked /\ r.file = c.file
        /\ r.modified = c.modified /\ r.cmd = c.cmd /\ r.exp = c.exp
        /\ r.save_lock = c.save_lock /\ r.lb = c.lb
        /\ r.delete_file = c.delete_file
        /\ r.failed = c.failed /\ r.next = Loaded(f)
    BY <1>1 DEF Command
  <2> HIDE DEF r, c
  <2>5. Calm(r, disk')
    BY <1>4, <2>2, <2>4 DEF Calm
  <2>6. Told(CallClean(r), disk')
    BY <2>2, <2>3, <2>4, <2>5, CleanTold
  <2>7. CallClean(r) \in Command
    BY <2>3, <2>4, <1>5, CleanFields
  <2> QED BY <2>1, <2>6, <2>7 DEF Tells
<1> QED BY <1>6, <1>7

LEMMA ClosedTold ==
  ASSUME NEW f \in Files, NEW pc \in {"out", "gone", "killed"}, NEW d
  PROVE  /\ [Closed(f) EXCEPT !.pc = pc] \in Command
         /\ Told([Closed(f) EXCEPT !.pc = pc], d)
<1> DEFINE c == Closed(f)
           q == [c EXCEPT !.pc = pc]
<1>1. /\ c = [pc |-> "out", file |-> f, text |-> Empty,
              delete_file |-> FALSE, locked |-> FALSE, modified |-> FALSE,
              lb |-> FALSE, failed |-> FALSE, cmd |-> "none",
              quitting |-> FALSE,
              save_lock |-> FALSE, res |-> 0, exp |-> f, target |-> f,
              ret |-> "none", again |-> FALSE, next |-> None]
      /\ q = [c EXCEPT !.pc = pc]
  BY DEF Closed
<1>2. q \in Command
  BY ClosedFields
<1> HIDE DEF c, q
<1>3. /\ q.pc = pc /\ q.lb = FALSE /\ q.delete_file = FALSE
      /\ q.next = None
  BY <1>1
<1>4. ~Written(q)
  BY <1>3 DEF Written, UnlockPcs
<1>5. Told(q, d)
  BY <1>3, <1>4 DEF Told
<1> QED BY <1>2, <1>5 DEF c, q

LEMMA CleanStepTold ==
  ASSUME IInv, AllTold, NEW e \in Editors, Clean(e)
  PROVE  Tells(e)
<1> DEFINE c == ed[e]
           b == [Edits(c.next) EXCEPT !.quitting = c.quitting]
<1>1. /\ c \in Command /\ Good(c) /\ Told(c, disk) /\ DiskTyped
      /\ c.file \in Files
  BY Typed DEF AllTold, Command
<1>2. c.pc = "clean"
  BY DEF Clean, At
<1>3. \A g \in Files : disk[g] \in {None, Empty} => disk'[g] \in {None, Empty}
  <2>1. CASE c.delete_file
    <3>1. Write(c.file, None, {})
      BY <2>1 DEF Clean
    <3> QED BY <3>1, <1>1, WriteDisk
  <2>2. CASE ~c.delete_file
    BY <2>2 DEF Clean
  <2> QED BY <2>1, <2>2
<1>4. CASE c.next = None
  <2>1. Become(e, [Closed(c.file) EXCEPT !.pc = "gone"])
    BY <1>4 DEF Clean
  <2> QED BY <2>1, <1>1, ClosedTold DEF Tells
<1>5. CASE c.next # None
  <2>1. /\ c.next \in Buffer /\ c.quitting \in BOOLEAN
        /\ c.next.file \in Files
    BY <1>1, <1>5 DEF Command, Buffer
  <2>2. c.next.delete_file => disk'[c.next.file] \in {None, Empty}
    BY <1>1, <1>3, <1>5, <2>1 DEF Told
  <2> DEFINE x == Edits(c.next)
  <2>3. /\ x \in Command /\ x.file = c.next.file /\ x.lb = FALSE
        /\ x.delete_file = c.next.delete_file /\ x.next = None
        /\ x.locked = FALSE /\ x.res = 0
    BY <2>1, EditsFields
  <2> HIDE DEF x
  <2>4. b = [x EXCEPT !.quitting = c.quitting]
    BY DEF x
  <2>5. /\ b \in Command /\ b.file = x.file /\ b.lb = x.lb
        /\ b.delete_file = x.delete_file
        /\ b.failed = x.failed /\ b.next = x.next
        /\ b.locked = x.locked /\ b.res = x.res
    BY <2>1, <2>3, <2>4 DEF Command
  <2>6. b.lb = FALSE /\ b.next = None /\ b.locked = FALSE /\ b.res = 0
    BY <2>3, <2>5
  <2>7. Calm(b, disk')
    BY <2>2, <2>3, <2>5 DEF Calm
  <2>8. CASE c.again
    <3>1. Become(e, CallUnlock(b, c.file, "idle"))
      BY <1>5, <2>8 DEF Clean
    <3> HIDE DEF b, c
    <3>2. Told(CallUnlock(b, c.file, "idle"), disk')
      BY <2>5, <2>6, <2>7, CallUnlockTold DEF Calm
    <3> QED BY <3>1, <3>2, <1>1, <2>5, UnlockTyped DEF Tells
  <2>9. CASE ~c.again
    <3> DEFINE y == b.delete_file /\ c.cmd # "save_as"
               q == [b EXCEPT !.delete_file = y]
    <3>1. Become(e, Return(q, TRUE))
      BY <1>5, <2>9 DEF Clean
    <3>2. y \in BOOLEAN /\ (y => b.delete_file)
      BY <2>5 DEF Command
    <3> HIDE DEF y, b
    <3>3. /\ q \in Command /\ q.locked = b.locked /\ q.lb = b.lb
          /\ q.file = b.file /\ q.failed = b.failed /\ q.delete_file = y
      BY <2>5, <3>2 DEF Command
    <3> HIDE DEF q, c
    <3>4. Calm(q, disk')
      BY <2>7, <3>2, <3>3 DEF Calm
    <3> QED BY <3>1, <3>3, <3>4, <2>6, ReturnFields, ReturnTold DEF Tells
  <2> QED BY <2>8, <2>9
<1> QED BY <1>4, <1>5

LEMMA CrashTold ==
  ASSUME IInv, AllTold, NEW e \in Editors, Crash(e)
  PROVE  Tells(e)
<1>1. ed[e].file \in Files
  BY Typed DEF Command
<1>2. Become(e, [Closed(ed[e].file) EXCEPT !.pc = "killed"])
  BY DEF Crash
<1> QED BY <1>1, <1>2, ClosedTold DEF Tells

LEMMA InitTold ==
  ASSUME Init
  PROVE  AllTold
<1>1. PICK f \in Files : ed = [e \in Editors |-> Closed(f)]
  BY DEF Init
<1> DEFINE c == Closed(f)
<1>2. /\ c.pc = "out" /\ c.lb = FALSE /\ c.delete_file = FALSE
      /\ c.next = None
  BY DEF Closed
<1> HIDE DEF c
<1>3. ~Written(c)
  BY <1>2 DEF Written, UnlockPcs
<1>4. Told(c, disk)
  BY <1>2, <1>3 DEF Told
<1> QED BY <1>1, <1>4 DEF AllTold, c

LEMMA NextTold ==
  ASSUME Alone, IInv, AllTold, [Next]_vars
  PROVE  AllTold'
<1>1. ASSUME NEW e \in Editors, Tells(e) PROVE AllTold'
  <2>1. PICK r \in Command : Become(e, r) /\ Told(r, disk')
    BY <1>1 DEF Tells
  <2>2. \A x \in Editors : x = e /\ ed'[x] = r
    BY <2>1 DEF Alone, Become, IInv
  <2>3. \A x \in Editors : Told(ed'[x], disk')
    BY <2>1, <2>2
  <2> QED BY <2>3 DEF AllTold, Told, Written, Clears
<1>2. ASSUME NEW e \in Editors, NEW f \in Files, Start(e, f) PROVE AllTold'
  BY <1>1, <1>2, StartTold
<1>3. ASSUME NEW e \in Editors, NEW f \in Files, LoadCmd(e, f) PROVE AllTold'
  BY <1>1, <1>3, LeaveTold
<1>4. ASSUME NEW e \in Editors, Modify(e) PROVE AllTold'
  BY <1>1, <1>4, ModifyTold
<1>5. ASSUME NEW e \in Editors, QuitCmd(e) PROVE AllTold'
  BY <1>1, <1>5, LeaveTold
<1>6. ASSUME NEW e \in Editors, Clean(e) PROVE AllTold'
  BY <1>1, <1>6, CleanStepTold
<1>7. ASSUME NEW e \in Editors, Crash(e) PROVE AllTold'
  BY <1>1, <1>7, CrashTold
<1>8. ASSUME NEW e \in Editors, Locking(e) PROVE AllTold'
  BY <1>1, <1>8, LockingTold
<1>9. ASSUME NEW e \in Editors, Saving(e) PROVE AllTold'
  BY <1>1, <1>9, SaveCmdTold, SaveAsCmdTold, WritingTold, SaveUnlocksTold,
     SaveAsUnlocksTold, SaveAsEndsTold DEF Saving
<1>10. CASE UNCHANGED vars
  BY <1>10 DEF vars, AllTold, Told, Written, Clears
<1> QED BY <1>2, <1>3, <1>4, <1>5, <1>6, <1>7, <1>8, <1>9, <1>10
        DEF Next, AllOut

LEMMA OneEditorTold == Alone => (Spec => [](IInv /\ AllTold))
<1> SUFFICES ASSUME Alone PROVE Spec => [](IInv /\ AllTold)
  OBVIOUS
<1>1. Init => IInv /\ AllTold
  BY InitHolds, InitTold
<1>2. IInv /\ AllTold /\ [Next]_vars => IInv' /\ AllTold'
  BY NextKeeps, NextTold
<1> QED BY <1>1, <1>2, PTL DEF Spec

(* As long as one editor works at a time: when edit_save_file has reported *)
(* success for a file whose line breaks were left alone, the text of the   *)
(* buffer is on the disk, until the command that saved it is done with it, *)
(* in every save mode and whatever failed before; and the editor holds no  *)
(* lock but that of its buffer (edit.c:edit_save_file, editcmd.c).         *)
THEOREM SavesReachTheDisk == Alone => (Spec => []SavesAreKept)
<1>1. IInv /\ AllTold => SavesAreKept
  <2> SUFFICES ASSUME IInv, AllTold PROVE SavesAreKept
    OBVIOUS
  <2>1. LocksAccounted
    BY IInvGivesLocks DEF LocksFollowBuffers
  <2>2. SavedIsOnDisk
    BY DEF SavedIsOnDisk, AllTold, Told, Written, At
  <2> QED BY <2>1, <2>2 DEF SavesAreKept
<1> QED BY <1>1, OneEditorTold, PTL

-----------------------------------------------------------------------------
LEMMA TextIsNotRemoved ==
  ASSUME IInv, AllTold, [Next]_vars, \A e \in Editors : ~ed[e].lb,
         NEW f \in Files, disk'[f] = None
  PROVE  \/ disk[f] \in {None, Empty, disk'[Backup(f)]}
         \/ \E e \in Editors : At(e, "clean") /\ ed[e].file = f /\ ed[e].failed
<1>1. DiskTyped
  BY DEF IInv
<1>2. CASE disk' = disk
  BY <1>2
<1>3. ASSUME NEW g \in Files, NEW t \in Texts, NEW who, Write(g, t, who)
      PROVE  disk[f] = None
  <2>1. t # None
    BY EditAssumption
  <2> QED BY <2>1, <1>1, <1>3, WriteDisk
<1>4. ASSUME NEW e \in Editors, NEW g \in Files, Opens(e, g)
      PROVE  disk[f] = None
  BY <1>1, <1>4, OpensDisk
<1>5. ASSUME NEW e \in Editors
      PROVE  ed[e].file \in Files /\ ed[e].exp \in Files /\ ed[e].text \in Texts
  BY Typed DEF Command
<1>6. ASSUME NEW e \in Editors, NEW g \in Files, Start(e, g) \/ LoadCmd(e, g)
      PROVE  disk[f] = None
  BY <1>4, <1>6 DEF Start, LoadCmd
<1>7. ASSUME NEW e \in Editors,
             Modify(e) \/ QuitCmd(e) \/ Crash(e) \/ Locking(e)
      PROVE  disk' = disk
  BY <1>7 DEF Modify, QuitCmd, Crash, Locking, LockLook, LockRead, LockRemove,
              LockCreate, UnlockLook, UnlockRead, UnlockRemove
<1>8. ASSUME NEW e \in Editors, Clean(e)
      PROVE  \/ disk[f] \in {None, Empty}
             \/ At(e, "clean") /\ ed[e].file = f /\ ed[e].failed
  <2>1. CASE ed[e].delete_file
    <3>1. Write(ed[e].file, None, {})
      BY <1>8, <2>1 DEF Clean
    <3>2. ~Clears(ed[e])
      BY <1>8 DEF Clean, At, Clears, UnlockPcs
    <3>3. ed[e].failed \/ disk[ed[e].file] \in {None, Empty}
      BY <2>1, <3>2 DEF AllTold, Told
    <3>4. CASE f = ed[e].file
      BY <1>8, <3>3, <3>4 DEF Clean
    <3>5. CASE f # ed[e].file
      BY <3>1, <3>5, <1>1, <1>5, WriteDisk
    <3> QED BY <3>4, <3>5
  <2>2. CASE ~ed[e].delete_file
    BY <1>8, <2>2 DEF Clean
  <2> QED BY <2>1, <2>2
<1>9. ASSUME NEW e \in Editors, SaveBackup(e)
      PROVE  disk[f] \in {None, disk'[Backup(f)]}
  <2> DEFINE x == ed[e].exp
  <2>1. CASE disk' = disk
    BY <2>1
  <2>2. CASE disk' = [disk EXCEPT ![Backup(x)] = disk[x], ![x] = None]
    <3>1. /\ x \in Names /\ Backup(x) \in Names /\ f \in Names
          /\ f # Backup(x) /\ x # Backup(x)
      BY <1>5, EditAssumption DEF Names
    <3>2. CASE f = x
      BY <1>1, <2>2, <3>1, <3>2 DEF DiskTyped
    <3>3. CASE f # x
      BY <1>1, <2>2, <3>1, <3>3 DEF DiskTyped
    <3> QED BY <3>2, <3>3
  <2> QED BY <1>9, <2>1, <2>2 DEF SaveBackup, TempFails
<1>10. ASSUME NEW e \in Editors, Saving(e), ~SaveBackup(e)
       PROVE  disk[f] = None
  <2>1. CASE SaveOpen(e) \/ SaveWrite(e) \/ SaveRename(e)
    <3>1. \/ disk' = disk
          \/ \E t \in Texts, who \in SUBSET Editors : Write(ed[e].exp, t, who)
      <4>1. Empty \in Texts /\ Partial \in Texts /\ ed[e].text \in Texts
        BY <1>5, TextsTyped
      <4>2. {} \in SUBSET Editors /\ {e} \in SUBSET Editors
        OBVIOUS
      <4>3. CASE SaveOpen(e)
        BY <4>1, <4>2, <4>3 DEF SaveOpen
      <4>4. CASE SaveWrite(e)
        BY <4>1, <4>2, <4>4, SaveWriteCases
      <4>5. CASE SaveRename(e)
        BY <4>1, <4>2, <4>5 DEF SaveRename, TempFails
      <4> QED BY <2>1, <4>3, <4>4, <4>5
    <3> QED BY <3>1, <1>3, <1>5
  <2>2. CASE SaveAsEnds(e)
    <3>1. ed[e].exp \in Files /\ ed[e] \in Command
      BY <1>5, Typed
    <3>2. [ed[e] EXCEPT !.file = ed[e].exp, !.failed = FALSE].exp = ed[e].exp
      BY <3>1 DEF Command
    <3>3. Opens(e, ed[e].exp) \/ disk' = disk
      BY <2>2, <3>2 DEF SaveAsEnds
    <3> QED BY <3>1, <3>3, <1>4
  <2>3. CASE \/ SaveCmd(e) \/ SaveAsCmd(e) \/ SaveCheck(e) \/ SaveStat(e)
             \/ SaveUnlocks(e) \/ SaveAsUnlocks(e)
    BY <2>3 DEF SaveCmd, SaveAsCmd, SaveCheck, SaveStat, SaveUnlocks,
                SaveAsUnlocks
  <2> QED BY <1>10, <2>1, <2>2, <2>3 DEF Saving
<1>11. CASE UNCHANGED vars
  BY <1>11 DEF vars
<1> QED BY <1>2, <1>6, <1>7, <1>8, <1>9, <1>10, <1>11 DEF Next, AllOut

(* As long as one editor works at a time and leaves the line breaks alone, *)
(* a step never takes a text from the disk without leaving it in the       *)
(* backup, with one exception: what a save of a new file had stored when   *)
(* it failed goes when that editor leaves the file, for delete_file is     *)
(* still set (edit.c:888).  Otherwise a file that a buffer marks for       *)
(* deletion is empty or gone.                                              *)
THEOREM TextsAreNotRemoved == Alone => (Spec => NeverDeletesText)
<1> DEFINE Intact ==
      (\A e \in Editors : ~ed[e].lb) =>
        \A f \in Files : disk'[f] = None =>
          \/ disk[f] \in {None, Empty, disk'[Backup(f)]}
          \/ \E e \in Editors :
               At(e, "clean") /\ ed[e].file = f /\ ed[e].failed
<1>1. IInv /\ AllTold /\ [Next]_vars => [Intact]_vars
  BY TextIsNotRemoved
<1>2. Alone => (Spec => [][Intact]_vars)
  BY <1>1, OneEditorTold, PTL DEF Spec
<1> QED BY <1>2 DEF NeverDeletesText

-----------------------------------------------------------------------------
(* The buffer (EditBuffer).                                                *)

-----------------------------------------------------------------------------
(* Numbers.                                                                *)

LEMMA LeastNatural ==
  ASSUME NEW S \in SUBSET Nat, S # {}
  PROVE  \E n \in S : \A m \in S : n <= m
<1> DEFINE T == {0 .. n : n \in S}
           R == StrictSubsetOrdering(Nat)
<1>1. T \subseteq FiniteSubsetsOf(Nat) /\ T # {}
  <2>1. \A n \in S : IsFiniteSet(0 .. n) /\ 0 .. n \in SUBSET Nat
    BY FS_Interval
  <2> QED BY <2>1 DEF FiniteSubsetsOf
<1>2. IsWellFoundedOn(R, FiniteSubsetsOf(Nat))
  BY FS_StrictSubsetOrderingWellFounded
<1>3. PICK x \in T : \A y \in T : <<y, x>> \notin R
  BY <1>1, <1>2, WFMin
<1>4. PICK n \in S : x = 0 .. n
  OBVIOUS
<1>5. ASSUME NEW m \in S, m < n PROVE FALSE
  <2>1. 0 .. m \in T /\ 0 .. m \subseteq 0 .. n /\ n \notin 0 .. m
    BY <1>5
  <2>2. n \in 0 .. n /\ 0 .. m \in SUBSET Nat /\ 0 .. n \in SUBSET Nat
    OBVIOUS
  <2>3. <<0 .. m, 0 .. n>> \in R
    BY <2>1, <2>2 DEF StrictSubsetOrdering
  <2> QED BY <2>1, <2>3, <1>3, <1>4
<1> QED BY <1>5

(* Induction up to n, of membership in a set.                              *)
LEMMA UpTo ==
  ASSUME NEW n \in Nat, NEW T, 0 \in T,
         \A k \in 0 .. n - 1 : k \in T => k + 1 \in T
  PROVE  \A k \in 0 .. n : k \in T
<1> DEFINE S == {k \in 0 .. n : k \notin T}
<1> SUFFICES ASSUME S # {} PROVE FALSE
  OBVIOUS
<1>1. PICK k \in S : \A m \in S : k <= m
  <2>1. S \in SUBSET Nat
    OBVIOUS
  <2> HIDE DEF S
  <2> QED BY <2>1, LeastNatural
<1>2. k # 0 /\ k - 1 \in 0 .. n - 1
  OBVIOUS
<1>3. k - 1 \notin S
  BY <1>1, <1>2
<1>4. k - 1 \in T
  BY <1>2, <1>3
<1> QED BY <1>2, <1>4

(* A set of numbers with a bound has a greatest and a least element.       *)
LEMMA Greatest ==
  ASSUME NEW a \in Int, NEW b \in Int, NEW S \in SUBSET (a .. b), S # {}
  PROVE  Max(S) \in S /\ \A m \in S : m <= Max(S)
<1> DEFINE D == {b - m : m \in S}
<1>1. PICK d \in D : \A m \in D : d <= m
  <2>0. \A m \in S : m \in a .. b
    OBVIOUS
  <2>1. \A d \in D : d \in Nat
    BY <2>0
  <2>2. D # {}
    OBVIOUS
  <2> HIDE DEF D
  <2> QED BY <2>1, <2>2, LeastNatural
<1>2. PICK n \in S : d = b - n
  OBVIOUS
<1>3. \A m \in S : b - n <= b - m
  BY <1>1, <1>2
<1>4. \E k \in S : \A m \in S : m <= k
  BY <1>3
<1> QED BY <1>4 DEF Max

LEMMA Least ==
  ASSUME NEW a \in Int, NEW b \in Int, NEW S \in SUBSET (a .. b), S # {}
  PROVE  Min(S) \in S /\ \A m \in S : Min(S) <= m
<1> DEFINE D == {m - a : m \in S}
<1>1. PICK d \in D : \A m \in D : d <= m
  <2>0. \A m \in S : m \in a .. b
    OBVIOUS
  <2>1. \A d \in D : d \in Nat
    BY <2>0
  <2>2. D # {}
    OBVIOUS
  <2> HIDE DEF D
  <2> QED BY <2>1, <2>2, LeastNatural
<1>2. PICK n \in S : d = n - a
  OBVIOUS
<1>3. \A m \in S : n - a <= m - a
  BY <1>1, <1>2
<1>4. \E k \in S : \A m \in S : k <= m
  BY <1>3
<1> QED BY <1>4 DEF Min

-----------------------------------------------------------------------------
(* Texts.                                                                  *)

Byte == 0 .. 255

(* Byte c put behind the first i bytes of t; t without the byte there.     *)
Inserted(t, i, c) ==
  [j \in 1 .. Len(t) + 1 |-> IF j <= i THEN t[j] ELSE IF j = i + 1 THEN c ELSE t[j - 1]]
Removed(t, i) == [j \in 1 .. Len(t) - 1 |-> IF j <= i THEN t[j] ELSE t[j + 1]]

(* Newlines among the first n bytes.                                       *)
LinesTo(t, n) == Cardinality({i \in 1 .. n : t[i] = Newline})

LEMMA SeqIs ==
  \A t \in Seq(Byte) : /\ Len(t) \in Nat /\ t = [i \in 1 .. Len(t) |-> t[i]]
                       /\ \A i \in 1 .. Len(t) : t[i] \in Byte
OBVIOUS

LEMMA BytesAre ==
  \A n \in Nat : \A f \in [1 .. n -> Byte] : f \in Seq(Byte) /\ Len(f) = n
OBVIOUS

LEMMA SameSeq ==
  ASSUME NEW f \in Seq(Byte), NEW g \in Seq(Byte), Len(f) = Len(g),
         \A i \in 1 .. Len(f) : f[i] = g[i]
  PROVE  f = g
<1>1. f = [i \in 1 .. Len(f) |-> f[i]] /\ g = [i \in 1 .. Len(g) |-> g[i]]
  BY SeqIs
<1> QED BY <1>1

LEMMA InsertedIs ==
  \A t \in Seq(Byte) : \A i \in 0 .. Len(t), c \in Byte :
     /\ Inserted(t, i, c) \in Seq(Byte) /\ Len(Inserted(t, i, c)) = Len(t) + 1
     /\ \A j \in 1 .. Len(t) + 1 :
          Inserted(t, i, c)[j] = IF j <= i THEN t[j] ELSE IF j = i + 1 THEN c ELSE t[j - 1]
BY DEF Inserted

LEMMA RemovedIs ==
  \A t \in Seq(Byte) : \A i \in 0 .. Len(t) - 1 :
     /\ Removed(t, i) \in Seq(Byte) /\ Len(Removed(t, i)) = Len(t) - 1
     /\ \A j \in 1 .. Len(t) - 1 : Removed(t, i)[j] = IF j <= i THEN t[j] ELSE t[j + 1]
BY DEF Removed

LEMMA RemovedInserted ==
  ASSUME NEW t \in Seq(Byte), NEW i \in 0 .. Len(t), NEW c \in Byte
  PROVE  Removed(Inserted(t, i, c), i) = t
<1> DEFINE u == Inserted(t, i, c)
<1>1. u \in Seq(Byte) /\ Len(u) = Len(t) + 1
      /\ \A j \in 1 .. Len(t) + 1 : u[j] = IF j <= i THEN t[j] ELSE IF j = i + 1 THEN c ELSE t[j - 1]
  BY InsertedIs
<1> HIDE DEF u
<1>2. i \in 0 .. Len(u) - 1 /\ Len(t) \in Nat
  BY <1>1
<1>3. Removed(u, i) \in Seq(Byte) /\ Len(Removed(u, i)) = Len(u) - 1
      /\ \A j \in 1 .. Len(u) - 1 : Removed(u, i)[j] = IF j <= i THEN u[j] ELSE u[j + 1]
  BY <1>1, <1>2, RemovedIs
<1>4. Len(u) - 1 = Len(t)
  BY <1>1, <1>2
<1>5. ASSUME NEW j \in 1 .. Len(t) PROVE Removed(u, i)[j] = t[j]
  <2>1. j \in 1 .. Len(u) - 1 /\ j \in 1 .. Len(t) + 1 /\ j + 1 \in 1 .. Len(t) + 1
    BY <1>4, <1>2
  <2>2. CASE j <= i
    BY <2>1, <2>2, <1>1, <1>3
  <2>3. CASE j > i
    <3>1. u[j + 1] = t[j]
      BY <2>1, <2>3, <1>1
    <3> QED BY <2>1, <3>1, <2>3, <1>3
  <2> QED BY <2>2, <2>3
<1>6. Removed(u, i) = t
  BY <1>3, <1>4, <1>5, SameSeq
<1> QED BY <1>6 DEF u

LEMMA LinesType ==
  ASSUME NEW t, NEW n \in Nat
  PROVE  LinesTo(t, n) \in Nat
<1>1. IsFiniteSet(1 .. n)
  BY FS_Interval
<1>2. IsFiniteSet({i \in 1 .. n : t[i] = Newline})
  BY <1>1, FS_Subset
<1> QED BY <1>2, FS_CardinalityType DEF LinesTo

LEMMA LinesNone ==
  ASSUME NEW t
  PROVE  LinesTo(t, 0) = 0
<1>1. {i \in 1 .. 0 : t[i] = Newline} = {}
  OBVIOUS
<1> QED BY <1>1, FS_EmptySet DEF LinesTo

LEMMA LinesNext ==
  ASSUME NEW t, NEW n \in Nat
  PROVE  LinesTo(t, n + 1) = LinesTo(t, n) + One(t[n + 1] = Newline)
<1> DEFINE S == {i \in 1 .. n : t[i] = Newline}
           R == {i \in 1 .. n + 1 : t[i] = Newline}
<1>1. IsFiniteSet(S) /\ n + 1 \notin S /\ Cardinality(S) \in Nat
  <2>1. IsFiniteSet(1 .. n)
    BY FS_Interval
  <2>2. IsFiniteSet(S)
    BY <2>1, FS_Subset
  <2> QED BY <2>2, FS_CardinalityType
<1>2. CASE t[n + 1] = Newline
  <2>1. R = S \cup {n + 1}
    BY <1>2
  <2>2. Cardinality(S \cup {n + 1}) = Cardinality(S) + 1
    BY <1>1, FS_AddElement
  <2> QED BY <2>1, <2>2, <1>2 DEF LinesTo, One
<1>3. CASE t[n + 1] # Newline
  <2>1. R = S
    BY <1>3
  <2> QED BY <2>1, <1>1, <1>3 DEF LinesTo, One
<1> QED BY <1>2, <1>3

LEMMA LinesSame ==
  ASSUME NEW t, NEW u, NEW n \in Nat, \A i \in 1 .. n : t[i] = u[i]
  PROVE  LinesTo(t, n) = LinesTo(u, n)
<1>1. {i \in 1 .. n : t[i] = Newline} = {i \in 1 .. n : u[i] = Newline}
  OBVIOUS
<1> QED BY <1>1 DEF LinesTo

(* Lines up to a place at or behind an insertion, and at or before it.     *)
LEMMA LinesBehind ==
  ASSUME NEW t \in Seq(Byte), NEW i \in 0 .. Len(t), NEW c \in Byte, NEW n \in i .. Len(t)
  PROVE  LinesTo(Inserted(t, i, c), n + 1) = LinesTo(t, n) + One(c = Newline)
<1> DEFINE u == Inserted(t, i, c)
           T == {k \in 0 .. n - i : LinesTo(u, i + k + 1) = LinesTo(t, i + k) + One(c = Newline)}
<1>0. Len(t) \in Nat
  BY SeqIs
<1>1. u \in Seq(Byte) /\ Len(u) = Len(t) + 1
      /\ \A j \in 1 .. Len(t) + 1 : u[j] = IF j <= i THEN t[j] ELSE IF j = i + 1 THEN c ELSE t[j - 1]
  BY InsertedIs
<1> HIDE DEF u
<1>2. 0 \in T
  <2>1. LinesTo(u, i + 1) = LinesTo(u, i) + One(u[i + 1] = Newline)
    BY LinesNext
  <2>2. u[i + 1] = c /\ \A j \in 1 .. i : u[j] = t[j]
    BY <1>0, <1>1
  <2>3. LinesTo(u, i) = LinesTo(t, i)
    BY <2>2, LinesSame
  <2>4. i + 0 + 1 = i + 1 /\ i + 0 = i /\ 0 \in 0 .. n - i
    BY <1>0, <1>1
  <2> QED BY <2>1, <2>2, <2>3, <2>4
<1>3. ASSUME NEW k \in 0 .. n - i - 1, k \in T PROVE k + 1 \in T
  <2> DEFINE m == i + k + 1
  <2>1. m \in Nat /\ m - 1 \in Nat /\ m <= Len(t) /\ m > i
    BY <1>0, <1>1
  <2>2. LinesTo(u, m + 1) = LinesTo(u, m) + One(u[m + 1] = Newline)
    BY <2>1, LinesNext
  <2>3. u[m + 1] = t[m]
    BY <2>1, <1>0, <1>1, SMTT(60)
  <2>4. LinesTo(t, m - 1 + 1) = LinesTo(t, m - 1) + One(t[m - 1 + 1] = Newline)
    BY <2>1, LinesNext
  <2>5. m - 1 + 1 = m /\ m - 1 = i + k /\ i + (k + 1) = m /\ i + (k + 1) + 1 = m + 1
    BY <1>0, <1>1
  <2>6. LinesTo(u, m) = LinesTo(t, m - 1) + One(c = Newline)
    BY <1>3, <2>5
  <2>7. LinesTo(t, m) = LinesTo(t, m - 1) + One(t[m] = Newline)
    BY <2>4, <2>5
  <2>8. LinesTo(t, m - 1) \in Nat /\ One(c = Newline) \in Nat /\ One(t[m] = Newline) \in Nat
    BY <2>1, LinesType DEF One
  <2>9. LinesTo(u, m + 1) = LinesTo(t, m) + One(c = Newline)
    BY <2>2, <2>3, <2>6, <2>7, <2>8
  <2>10. k + 1 \in 0 .. n - i
    BY <1>0, <1>1
  <2> QED BY <2>9, <2>10, <2>5
<1>4. \A k \in 0 .. n - i : k \in T
  <2>1. n - i \in Nat /\ \A k \in 0 .. n - i - 1 : k \in T => k + 1 \in T
    BY <1>1, <1>3
  <2> HIDE DEF T
  <2> QED BY <2>1, <1>2, UpTo
<1>5. n - i \in 0 .. n - i /\ i + (n - i) = n
  BY <1>0, <1>1
<1>6. n - i \in T
  BY <1>4, <1>5
<1> QED BY <1>5, <1>6 DEF u

LEMMA LinesAhead ==
  ASSUME NEW t \in Seq(Byte), NEW i \in 0 .. Len(t), NEW c \in Byte, NEW n \in 0 .. i
  PROVE  LinesTo(Inserted(t, i, c), n) = LinesTo(t, n)
<1>1. ASSUME NEW j \in 1 .. n PROVE Inserted(t, i, c)[j] = t[j]
  <2>1. j \in 1 .. Len(t) + 1 /\ j <= i
    OBVIOUS
  <2> QED BY <2>1, InsertedIs
<1> QED BY <1>1, LinesSame

-----------------------------------------------------------------------------
(* Blocks.                                                                 *)

Blocks1(n) == {BlockOf(p) : p \in 0 .. n - 1}
Blocks2(n) == 0 .. BlockOf(n)
Block == [0 .. EDIT_BUF_SIZE - 1 -> Byte]

LEMMA Places ==
  ASSUME NEW p \in Nat
  PROVE  /\ BlockOf(p) \in Nat /\ Forth(p) \in 0 .. EDIT_BUF_SIZE - 1
         /\ Back(p) \in 0 .. EDIT_BUF_SIZE - 1
         /\ p = EDIT_BUF_SIZE * BlockOf(p) + Forth(p)
BY EditBufferAssumption DEF BlockOf, Forth, Back

LEMMA PlacesNext ==
  ASSUME NEW p \in Nat
  PROVE  /\ Forth(p + 1) = 0 => /\ BlockOf(p + 1) = BlockOf(p) + 1
                                /\ Forth(p) = EDIT_BUF_SIZE - 1
         /\ Forth(p + 1) # 0 => /\ BlockOf(p + 1) = BlockOf(p)
                                /\ Forth(p + 1) = Forth(p) + 1
BY EditBufferAssumption DEF BlockOf, Forth

LEMMA PlacesUp ==
  ASSUME NEW p \in Nat, NEW q \in Nat, p <= q
  PROVE  BlockOf(p) <= BlockOf(q)
BY EditBufferAssumption DEF BlockOf

LEMMA PlacesDiffer ==
  ASSUME NEW p \in Nat, NEW q \in Nat, BlockOf(p) = BlockOf(q), Forth(p) = Forth(q)
  PROVE  p = q
<1>1. p = EDIT_BUF_SIZE * BlockOf(p) + Forth(p) /\ q = EDIT_BUF_SIZE * BlockOf(q) + Forth(q)
  BY Places
<1> QED BY <1>1

LEMMA BackDiffers ==
  ASSUME NEW p \in Nat, NEW q \in Nat, BlockOf(p) = BlockOf(q), Back(p) = Back(q)
  PROVE  p = q
<1>1. Forth(p) \in Int /\ Forth(q) \in Int /\ EDIT_BUF_SIZE \in Int
  BY Places, EditBufferAssumption
<1>2. Forth(p) = Forth(q)
  BY <1>1 DEF Back
<1> QED BY <1>2, PlacesDiffer

LEMMA FirstPlace == BlockOf(0) = 0 /\ Forth(0) = 0
BY EditBufferAssumption DEF BlockOf, Forth

LEMMA FewBlocks ==
  ASSUME NEW p \in Nat, p <= SIZE_LIMIT
  PROVE  BlockOf(p) <= MAXBUFF
<1>1. p = EDIT_BUF_SIZE * BlockOf(p) + Forth(p) /\ BlockOf(p) \in Nat /\ Forth(p) \in Nat
  BY Places
<1>2. EDIT_BUF_SIZE \in Nat /\ EDIT_BUF_SIZE > 0 /\ MAXBUFF \in Nat
  BY EditBufferAssumption
<1>3. SUFFICES ASSUME BlockOf(p) >= MAXBUFF + 1 PROVE FALSE
  BY <1>1, <1>2
<1>4. EDIT_BUF_SIZE * BlockOf(p) >= EDIT_BUF_SIZE * (MAXBUFF + 1)
  BY <1>1, <1>2, <1>3
<1>5. EDIT_BUF_SIZE * (MAXBUFF + 1) = EDIT_BUF_SIZE * (MAXBUFF - 2) + 3 * EDIT_BUF_SIZE
  BY <1>2
<1> QED BY <1>1, <1>2, <1>4, <1>5 DEF SIZE_LIMIT

LEMMA Blocks1Next ==
  ASSUME NEW n \in Nat
  PROVE  /\ Blocks1(n + 1) = Blocks1(n) \cup {BlockOf(n)}
         /\ Forth(n) # 0 => BlockOf(n) \in Blocks1(n)
         /\ Forth(n) = 0 => BlockOf(n) \notin Blocks1(n)
<1>1. 0 .. n + 1 - 1 = (0 .. n - 1) \cup {n}
  OBVIOUS
<1>2. Blocks1(n + 1) = Blocks1(n) \cup {BlockOf(n)}
  BY <1>1 DEF Blocks1
<1>3. ASSUME Forth(n) # 0 PROVE BlockOf(n) \in Blocks1(n)
  <2>1. n # 0
    BY <1>3, FirstPlace
  <2>2. n - 1 \in Nat /\ n - 1 + 1 = n /\ n - 1 \in 0 .. n - 1
    BY <2>1
  <2>3. BlockOf(n) = BlockOf(n - 1)
    BY <2>2, <1>3, PlacesNext
  <2> QED BY <2>2, <2>3 DEF Blocks1
<1>4. ASSUME Forth(n) = 0, NEW p \in 0 .. n - 1 PROVE BlockOf(p) # BlockOf(n)
  <2>1. n - 1 \in Nat /\ n - 1 + 1 = n /\ p \in Nat /\ p <= n - 1
    OBVIOUS
  <2>2. BlockOf(n) = BlockOf(n - 1) + 1
    BY <2>1, <1>4, PlacesNext
  <2>3. BlockOf(p) <= BlockOf(n - 1)
    BY <2>1, PlacesUp
  <2> QED BY <2>1, <2>2, <2>3, Places
<1> QED BY <1>2, <1>3, <1>4 DEF Blocks1

LEMMA Blocks2Next ==
  ASSUME NEW n \in Nat
  PROVE  /\ Forth(n + 1) = 0 => /\ Blocks2(n + 1) = Blocks2(n) \cup {BlockOf(n + 1)}
                                /\ BlockOf(n + 1) \notin Blocks2(n)
         /\ Forth(n + 1) # 0 => Blocks2(n + 1) = Blocks2(n)
         /\ BlockOf(n) \in Blocks2(n)
<1>1. BlockOf(n) \in Nat
  BY Places
<1>2. (0 .. BlockOf(n) + 1) = (0 .. BlockOf(n)) \cup {BlockOf(n) + 1}
  BY <1>1
<1> QED BY <1>1, <1>2, PlacesNext DEF Blocks2

LEMMA NewBlockIs == NewBlock \in Block
BY EditBufferAssumption DEF NewBlock, Block, Byte

(* What a table keeps after a byte is written.                             *)
LEMMA PutIs ==
  ASSUME NEW D, NEW b \in [D -> Block], NEW k \in D,
         NEW i \in 0 .. EDIT_BUF_SIZE - 1, NEW c \in Byte
  PROVE  /\ Put(b, k, i, c) \in [D -> Block]
         /\ Put(b, k, i, c)[k][i] = c
         /\ \A l \in D : \A j \in 0 .. EDIT_BUF_SIZE - 1 :
              <<l, j>> # <<k, i>> => Put(b, k, i, c)[l][j] = b[l][j]
<1>1. Put(b, k, i, c) = [b EXCEPT ![k] = [b[k] EXCEPT ![i] = c]]
  BY DEF Put
<1>2. b[k] \in Block
  OBVIOUS
<1> DEFINE r == [b[k] EXCEPT ![i] = c]
<1>3. r \in Block /\ r[i] = c /\ \A j \in 0 .. EDIT_BUF_SIZE - 1 : j # i => r[j] = b[k][j]
  BY <1>2 DEF Block
<1> HIDE DEF r
<1>4. [b EXCEPT ![k] = r] \in [D -> Block]
  BY <1>3
<1> DEFINE w == [b EXCEPT ![k] = r]
<1>5. w[k] = r /\ \A l \in D : l # k => w[l] = b[l]
  OBVIOUS
<1>6. Put(b, k, i, c) = w
  BY <1>1 DEF r
<1> HIDE DEF w
<1>7. w \in [D -> Block]
  BY <1>4 DEF w
<1> QED BY <1>3, <1>5, <1>6, <1>7

(* A byte is stored behind the n bytes a table keeps; the last of n + 1    *)
(* bytes is given up.                                                      *)
Stored1(b, n, c) ==
  Put(IF Forth(n) = 0 THEN Alloc(b, BlockOf(n)) ELSE b, BlockOf(n), Forth(n), c)
Stored2(b, n, c) ==
  Put(IF Forth(n + 1) = 0 THEN Alloc(b, BlockOf(n + 1)) ELSE b, BlockOf(n), Back(n), c)
GivenUp1(b, n) == IF Forth(n) = 0 THEN Free(b, BlockOf(n + 1)) ELSE b
GivenUp2(b, n) == IF Forth(n + 1) = 0 THEN Free(b, BlockOf(n + 1)) ELSE b

LEMMA StoredIs1 ==
  ASSUME NEW n \in Nat, NEW b \in [Blocks1(n) -> Block], NEW c \in Byte
  PROVE  /\ Stored1(b, n, c) \in [Blocks1(n + 1) -> Block]
         /\ \A i \in 0 .. n : Get(Stored1(b, n, c), BlockOf(i), Forth(i))
                                = IF i = n THEN c ELSE Get(b, BlockOf(i), Forth(i))
<1> DEFINE a == IF Forth(n) = 0 THEN Alloc(b, BlockOf(n)) ELSE b
           w == Put(a, BlockOf(n), Forth(n), c)
<1>1. a \in [Blocks1(n + 1) -> Block] /\ \A j \in Blocks1(n) : a[j] = b[j]
  <2>1. CASE Forth(n) = 0
    <3>1. BlockOf(n) \notin Blocks1(n) /\ Blocks1(n + 1) = Blocks1(n) \cup {BlockOf(n)}
      BY <2>1, Blocks1Next
    <3> DEFINE x == Alloc(b, BlockOf(n))
    <3>2. x \in [Blocks1(n) \cup {BlockOf(n)} -> Block] /\ \A j \in Blocks1(n) : x[j] = b[j]
      BY <3>1, NewBlockIs DEF Alloc
    <3> QED BY <2>1, <3>1, <3>2
  <2>2. CASE Forth(n) # 0
    <3>1. Blocks1(n + 1) = Blocks1(n)
      BY <2>2, Blocks1Next
    <3> QED BY <2>2, <3>1
  <2> QED BY <2>1, <2>2
<1> HIDE DEF a
<1>2. BlockOf(n) \in Blocks1(n + 1) /\ Forth(n) \in 0 .. EDIT_BUF_SIZE - 1
  BY Blocks1Next, Places
<1>3. /\ w \in [Blocks1(n + 1) -> Block] /\ w[BlockOf(n)][Forth(n)] = c
      /\ \A l \in Blocks1(n + 1) : \A j \in 0 .. EDIT_BUF_SIZE - 1 :
           <<l, j>> # <<BlockOf(n), Forth(n)>> => w[l][j] = a[l][j]
  BY <1>1, <1>2, PutIs
<1> HIDE DEF w
<1>4. ASSUME NEW i \in 0 .. n
      PROVE  Get(w, BlockOf(i), Forth(i)) = IF i = n THEN c ELSE Get(b, BlockOf(i), Forth(i))
  <2>1. CASE i = n
    BY <2>1, <1>2, <1>3 DEF Get
  <2>2. CASE i # n
    <3>1. i \in 0 .. n - 1 /\ i \in Nat
      BY <2>2
    <3>2. BlockOf(i) \in Blocks1(n) /\ Forth(i) \in 0 .. EDIT_BUF_SIZE - 1
      BY <3>1, Places DEF Blocks1
    <3>3. BlockOf(i) \in Blocks1(n + 1)
      BY <3>2, Blocks1Next
    <3>4. <<BlockOf(i), Forth(i)>> # <<BlockOf(n), Forth(n)>>
      BY <3>1, <2>2, PlacesDiffer
    <3>5. w[BlockOf(i)][Forth(i)] = b[BlockOf(i)][Forth(i)]
      BY <3>2, <3>3, <3>4, <1>1, <1>3
    <3> QED BY <2>2, <3>2, <3>3, <3>5, <1>3 DEF Get
  <2> QED BY <2>1, <2>2
<1>5. Stored1(b, n, c) = w
  BY DEF Stored1, w, a
<1> QED BY <1>3, <1>4, <1>5

LEMMA StoredIs2 ==
  ASSUME NEW n \in Nat, NEW b \in [Blocks2(n) -> Block], NEW c \in Byte
  PROVE  /\ Stored2(b, n, c) \in [Blocks2(n + 1) -> Block]
         /\ \A i \in 0 .. n : Get(Stored2(b, n, c), BlockOf(i), Back(i))
                                = IF i = n THEN c ELSE Get(b, BlockOf(i), Back(i))
<1> DEFINE a == IF Forth(n + 1) = 0 THEN Alloc(b, BlockOf(n + 1)) ELSE b
           w == Put(a, BlockOf(n), Back(n), c)
<1>1. a \in [Blocks2(n + 1) -> Block] /\ \A j \in Blocks2(n) : a[j] = b[j]
  <2>1. CASE Forth(n + 1) = 0
    <3>1. BlockOf(n + 1) \notin Blocks2(n) /\ Blocks2(n + 1) = Blocks2(n) \cup {BlockOf(n + 1)}
      BY <2>1, Blocks2Next
    <3> DEFINE x == Alloc(b, BlockOf(n + 1))
    <3>2. x \in [Blocks2(n) \cup {BlockOf(n + 1)} -> Block] /\ \A j \in Blocks2(n) : x[j] = b[j]
      BY <3>1, NewBlockIs DEF Alloc
    <3> QED BY <2>1, <3>1, <3>2
  <2>2. CASE Forth(n + 1) # 0
    <3>1. Blocks2(n + 1) = Blocks2(n)
      BY <2>2, Blocks2Next
    <3> QED BY <2>2, <3>1
  <2> QED BY <2>1, <2>2
<1> HIDE DEF a
<1>2. BlockOf(n) \in Blocks2(n + 1) /\ Back(n) \in 0 .. EDIT_BUF_SIZE - 1
  BY Blocks2Next, Places
<1>3. /\ w \in [Blocks2(n + 1) -> Block] /\ w[BlockOf(n)][Back(n)] = c
      /\ \A l \in Blocks2(n + 1) : \A j \in 0 .. EDIT_BUF_SIZE - 1 :
           <<l, j>> # <<BlockOf(n), Back(n)>> => w[l][j] = a[l][j]
  BY <1>1, <1>2, PutIs
<1> HIDE DEF w
<1>4. ASSUME NEW i \in 0 .. n
      PROVE  Get(w, BlockOf(i), Back(i)) = IF i = n THEN c ELSE Get(b, BlockOf(i), Back(i))
  <2>1. CASE i = n
    BY <2>1, <1>2, <1>3 DEF Get
  <2>2. CASE i # n
    <3>1. i \in Nat /\ i <= n
      BY <2>2
    <3>2. BlockOf(i) \in Blocks2(n) /\ Back(i) \in 0 .. EDIT_BUF_SIZE - 1
      <4>1. BlockOf(i) \in Nat /\ BlockOf(n) \in Nat /\ Back(i) \in 0 .. EDIT_BUF_SIZE - 1
        BY <3>1, Places
      <4>2. BlockOf(i) <= BlockOf(n)
        BY <3>1, PlacesUp
      <4> QED BY <4>1, <4>2 DEF Blocks2
    <3>3. BlockOf(i) \in Blocks2(n + 1)
      BY <3>2, Blocks2Next
    <3>4. <<BlockOf(i), Back(i)>> # <<BlockOf(n), Back(n)>>
      BY <3>1, <2>2, BackDiffers
    <3>5. w[BlockOf(i)][Back(i)] = b[BlockOf(i)][Back(i)]
      BY <3>2, <3>3, <3>4, <1>1, <1>3
    <3> QED BY <2>2, <3>2, <3>3, <3>5, <1>3 DEF Get
  <2> QED BY <2>1, <2>2
<1>5. Stored2(b, n, c) = w
  BY DEF Stored2, w, a
<1> QED BY <1>3, <1>4, <1>5

LEMMA GivenUpIs1 ==
  ASSUME NEW n \in Nat, NEW b \in [Blocks1(n + 1) -> Block]
  PROVE  /\ GivenUp1(b, n) \in [Blocks1(n) -> Block]
         /\ \A i \in 0 .. n - 1 : Get(GivenUp1(b, n), BlockOf(i), Forth(i))
                                    = Get(b, BlockOf(i), Forth(i))
<1>1. Blocks1(n + 1) = Blocks1(n) \cup {BlockOf(n)}
  BY Blocks1Next
<1>2. ASSUME NEW i \in 0 .. n - 1 PROVE BlockOf(i) \in Blocks1(n)
  BY DEF Blocks1
<1>3. CASE Forth(n) = 0
  <2>1. BlockOf(n) \notin Blocks1(n)
    BY <1>3, Blocks1Next
  <2>2. BlockOf(n + 1) = BlockOf(n)
    BY <1>3, PlacesNext, EditBufferAssumption
  <2>3. Blocks1(n + 1) \ {BlockOf(n)} = Blocks1(n)
    BY <1>1, <2>1
  <2>4. GivenUp1(b, n) = Free(b, BlockOf(n))
    BY <1>3, <2>2 DEF GivenUp1
  <2> DEFINE x == Free(b, BlockOf(n))
  <2>5. /\ x \in [Blocks1(n + 1) \ {BlockOf(n)} -> Block]
        /\ \A j \in Blocks1(n + 1) \ {BlockOf(n)} : x[j] = b[j]
    BY DEF Free
  <2> QED BY <2>3, <2>4, <2>5, <1>1, <1>2 DEF Get
<1>4. CASE Forth(n) # 0
  <2>1. Blocks1(n + 1) = Blocks1(n)
    BY <1>4, Blocks1Next
  <2> QED BY <2>1, <1>4 DEF GivenUp1
<1> QED BY <1>3, <1>4

LEMMA GivenUpIs2 ==
  ASSUME NEW n \in Nat, NEW b \in [Blocks2(n + 1) -> Block]
  PROVE  /\ GivenUp2(b, n) \in [Blocks2(n) -> Block]
         /\ \A i \in 0 .. n - 1 : Get(GivenUp2(b, n), BlockOf(i), Back(i))
                                    = Get(b, BlockOf(i), Back(i))
<1>2. ASSUME NEW i \in 0 .. n - 1 PROVE BlockOf(i) \in Blocks2(n)
  <2>1. i \in Nat /\ i <= n
    OBVIOUS
  <2>2. BlockOf(i) \in Nat /\ BlockOf(n) \in Nat
    BY <2>1, Places
  <2>3. BlockOf(i) <= BlockOf(n)
    BY <2>1, PlacesUp
  <2> QED BY <2>2, <2>3 DEF Blocks2
<1>3. CASE Forth(n + 1) = 0
  <2>1. Blocks2(n + 1) = Blocks2(n) \cup {BlockOf(n + 1)} /\ BlockOf(n + 1) \notin Blocks2(n)
    BY <1>3, Blocks2Next
  <2>2. Blocks2(n + 1) \ {BlockOf(n + 1)} = Blocks2(n)
    BY <2>1
  <2>3. GivenUp2(b, n) = Free(b, BlockOf(n + 1))
    BY <1>3 DEF GivenUp2
  <2> DEFINE x == Free(b, BlockOf(n + 1))
  <2>4. /\ x \in [Blocks2(n + 1) \ {BlockOf(n + 1)} -> Block]
        /\ \A j \in Blocks2(n + 1) \ {BlockOf(n + 1)} : x[j] = b[j]
    BY DEF Free
  <2> QED BY <2>1, <2>2, <2>3, <2>4, <1>2 DEF Get
<1>4. CASE Forth(n + 1) # 0
  <2>1. Blocks2(n + 1) = Blocks2(n)
    BY <1>4, Blocks2Next
  <2> QED BY <2>1, <1>4 DEF GivenUp2
<1> QED BY <1>3, <1>4

-----------------------------------------------------------------------------
(* The text the tables keep.                                               *)

At1(e, i) == Get(e.buffers1, BlockOf(i), Forth(i))
At2(e, p) == Get(e.buffers2, BlockOf(p), Back(p))

Tabled(e) ==
  /\ e.curs1 \in Nat /\ e.curs2 \in Nat /\ e.last_byte = e.curs1 + e.curs2
  /\ e.buffers1 \in [Blocks1(e.curs1) -> Block]
  /\ e.buffers2 \in [Blocks2(e.curs2) -> Block]

LEMMA At1Is ==
  ASSUME NEW e, Tabled(e), NEW i \in 0 .. e.curs1 - 1
  PROVE  At1(e, i) \in Byte
<1>1. i \in Nat /\ e.curs1 \in Nat
  BY DEF Tabled
<1>2. BlockOf(i) \in Blocks1(e.curs1) /\ Forth(i) \in 0 .. EDIT_BUF_SIZE - 1
  BY <1>1, Places DEF Blocks1
<1>3. e.buffers1 \in [Blocks1(e.curs1) -> Block]
  BY DEF Tabled
<1>4. e.buffers1[BlockOf(i)] \in Block
  BY <1>2, <1>3
<1>5. e.buffers1[BlockOf(i)][Forth(i)] \in Byte
  BY <1>2, <1>4 DEF Block
<1> QED BY <1>2, <1>3, <1>5 DEF At1, Get

LEMMA At2Is ==
  ASSUME NEW e, Tabled(e), NEW p \in 0 .. e.curs2
  PROVE  At2(e, p) \in Byte
<1>1. p \in Nat /\ e.curs2 \in Nat /\ p <= e.curs2
  BY DEF Tabled
<1>2. BlockOf(p) \in Nat /\ BlockOf(e.curs2) \in Nat /\ Back(p) \in 0 .. EDIT_BUF_SIZE - 1
  BY <1>1, Places
<1>3. BlockOf(p) <= BlockOf(e.curs2)
  BY <1>1, PlacesUp
<1>4. e.buffers2 \in [Blocks2(e.curs2) -> Block] /\ BlockOf(p) \in Blocks2(e.curs2)
  BY <1>2, <1>3 DEF Tabled, Blocks2
<1>5. e.buffers2[BlockOf(p)] \in Block
  BY <1>4
<1>6. e.buffers2[BlockOf(p)][Back(p)] \in Byte
  BY <1>2, <1>5 DEF Block
<1> QED BY <1>4, <1>6 DEF At2, Get

LEMMA ByteIs ==
  ASSUME NEW e, Tabled(e), NEW i \in Int
  PROVE  /\ GetByte(e, i) \in Byte
         /\ (i < 0 \/ i >= e.last_byte) => GetByte(e, i) = Newline
         /\ 0 <= i /\ i < e.curs1 => GetByte(e, i) = At1(e, i)
         /\ e.curs1 <= i /\ i < e.last_byte => GetByte(e, i) = At2(e, e.last_byte - i - 1)
<1>1. e.curs1 \in Nat /\ e.curs2 \in Nat /\ e.last_byte = e.curs1 + e.curs2
  BY DEF Tabled
<1>2. CASE i < 0 \/ i >= e.last_byte
  BY <1>1, <1>2 DEF GetByte, Newline, Byte
<1>3. CASE 0 <= i /\ i < e.curs1
  <2>1. GetByte(e, i) = At1(e, i)
    BY <1>1, <1>3 DEF GetByte, At1
  <2>2. i \in 0 .. e.curs1 - 1
    BY <1>1, <1>3
  <2>3. At1(e, i) \in Byte
    BY <2>2, At1Is
  <2> QED BY <2>1, <2>3, <1>1, <1>3
<1>4. CASE e.curs1 <= i /\ i < e.last_byte
  <2>1. GetByte(e, i) = At2(e, e.last_byte - i - 1)
    BY <1>1, <1>4 DEF GetByte, At2
  <2> DEFINE p == e.last_byte - i - 1
  <2>2. p \in 0 .. e.curs2
    BY <1>1, <1>4
  <2> HIDE DEF p
  <2>3. At2(e, p) \in Byte
    BY <2>2, At2Is
  <2> QED BY <2>1, <2>3, <1>1, <1>4 DEF p
<1> QED BY <1>1, <1>2, <1>3, <1>4

LEMMA TextIs ==
  ASSUME NEW e, Tabled(e)
  PROVE  /\ Text(e) \in Seq(Byte) /\ Len(Text(e)) = e.last_byte
         /\ \A j \in 1 .. e.last_byte : Text(e)[j] = GetByte(e, j - 1)
<1>1. e.last_byte \in Nat
  BY DEF Tabled
<1>2. ASSUME NEW j \in 1 .. e.last_byte PROVE GetByte(e, j - 1) \in Byte
  <2>1. j - 1 \in Int
    OBVIOUS
  <2> QED BY <2>1, ByteIs
<1>3. Text(e) \in [1 .. e.last_byte -> Byte]
  BY <1>2 DEF Text
<1> DEFINE t == Text(e)
           n == e.last_byte
<1> HIDE DEF t, n
<1>4. t \in [1 .. n -> Byte] /\ n \in Nat
  BY <1>1, <1>3 DEF t, n
<1>5. t \in Seq(Byte) /\ Len(t) = n
  BY <1>4
<1> QED BY <1>5 DEF Text, t, n

(* A byte put before the cursor, or behind it.                             *)
LEMMA TextInserted ==
  ASSUME NEW e, Tabled(e), NEW f, Tabled(f), NEW c \in Byte,
         f.curs1 = e.curs1 + 1, f.curs2 = e.curs2,
         \A i \in 0 .. e.curs1 : At1(f, i) = IF i = e.curs1 THEN c ELSE At1(e, i),
         \A p \in 0 .. e.curs2 - 1 : At2(f, p) = At2(e, p)
  PROVE  Text(f) = Inserted(Text(e), e.curs1, c)
<1>1. /\ e.curs1 \in Nat /\ e.curs2 \in Nat /\ e.last_byte = e.curs1 + e.curs2
      /\ f.last_byte = e.last_byte + 1
  BY DEF Tabled
<1> DEFINE t == Text(e)
           u == Text(f)
           n == e.last_byte
<1>2. t \in Seq(Byte) /\ Len(t) = n /\ \A j \in 1 .. n : t[j] = GetByte(e, j - 1)
  BY TextIs
<1>3. u \in Seq(Byte) /\ Len(u) = f.last_byte /\ \A j \in 1 .. f.last_byte : u[j] = GetByte(f, j - 1)
  BY TextIs
<1> HIDE DEF t, u, n
<1>4. e.curs1 \in 0 .. Len(t) /\ n \in Nat
  BY <1>1, <1>2 DEF n
<1> DEFINE v == Inserted(t, e.curs1, c)
<1>5. v \in Seq(Byte) /\ Len(v) = Len(t) + 1
      /\ \A j \in 1 .. Len(t) + 1 :
           v[j] = IF j <= e.curs1 THEN t[j] ELSE IF j = e.curs1 + 1 THEN c ELSE t[j - 1]
  <2>1. \A i \in 0 .. Len(t), x \in Byte :
          /\ Inserted(t, i, x) \in Seq(Byte) /\ Len(Inserted(t, i, x)) = Len(t) + 1
          /\ \A j \in 1 .. Len(t) + 1 :
               Inserted(t, i, x)[j] = IF j <= i THEN t[j] ELSE IF j = i + 1 THEN x ELSE t[j - 1]
    BY <1>2, InsertedIs
  <2> QED BY <1>4, <2>1
<1> HIDE DEF v
<1>6. Len(u) = Len(v) /\ Len(u) = n + 1
  BY <1>1, <1>2, <1>3, <1>5 DEF n
<1>7. ASSUME NEW j \in 1 .. Len(u) PROVE u[j] = v[j]
  <2>1. j \in 1 .. Len(t) + 1 /\ j \in 1 .. f.last_byte /\ j - 1 \in Int /\ j - 1 >= 0 /\ j - 1 < f.last_byte
    BY <1>1, <1>2, <1>3, <1>6 DEF n
  <2>2. u[j] = GetByte(f, j - 1)
    BY <2>1, <1>3
  <2>3. CASE j <= e.curs1
    <3>1. j \in 1 .. n /\ j - 1 \in 0 .. e.curs1 /\ j - 1 < e.curs1 /\ j - 1 < f.curs1
      BY <2>1, <2>3, <1>1 DEF n
    <3>2. GetByte(f, j - 1) = At1(f, j - 1) /\ GetByte(e, j - 1) = At1(e, j - 1)
      BY <2>1, <3>1, ByteIs
    <3>3. At1(f, j - 1) = At1(e, j - 1)
      BY <3>1
    <3> QED BY <2>1, <2>2, <2>3, <3>1, <3>2, <3>3, <1>2, <1>5
  <2>4. CASE j = e.curs1 + 1
    <3>1. j - 1 = e.curs1 /\ j - 1 < f.curs1 /\ j - 1 \in 0 .. e.curs1 /\ ~ (j <= e.curs1)
      BY <2>4, <1>1
    <3>2. GetByte(f, j - 1) = At1(f, j - 1)
      BY <2>1, <3>1, ByteIs
    <3>3. At1(f, j - 1) = c
      BY <3>1
    <3> QED BY <2>1, <2>2, <2>4, <3>1, <3>2, <3>3, <1>5
  <2>5. CASE j > e.curs1 + 1
    <3> DEFINE q == j - 1
               p == n - q
    <3>1. q \in 1 .. n /\ q - 1 \in Int /\ q - 1 >= e.curs1 /\ q - 1 < n
          /\ p = f.last_byte - q - 1 /\ p = e.last_byte - (q - 1) - 1 /\ p \in 0 .. e.curs2 - 1
      <4>1. n = e.curs1 + e.curs2 /\ f.last_byte = n + 1 /\ j <= n + 1
        BY <2>1, <1>1, <1>2 DEF n
      <4>2. q \in 1 .. n /\ q - 1 \in Int /\ q - 1 >= e.curs1 /\ q - 1 < n
        BY <2>1, <2>5, <1>1, <4>1
      <4>3. p = f.last_byte - q - 1
        BY <4>1
      <4>4. p = e.last_byte - (q - 1) - 1
        BY <4>1, <1>1
      <4>5. p \in 0 .. e.curs2 - 1
        BY <4>1, <4>2, <1>1, SMTT(60)
      <4> QED BY <4>2, <4>3, <4>4, <4>5
    <3>2. GetByte(f, q) = At2(f, p)
      <4>1. q \in Int /\ f.curs1 <= q /\ q < f.last_byte
        BY <2>1, <2>5, <1>1
      <4> QED BY <3>1, <4>1, ByteIs
    <3>3. GetByte(e, q - 1) = At2(e, p)
      BY <3>1, ByteIs, <1>1 DEF n
    <3>4. At2(f, p) = At2(e, p)
      BY <3>1
    <3>5. v[j] = t[q] /\ t[q] = GetByte(e, q - 1)
      BY <2>1, <2>5, <3>1, <1>1, <1>2, <1>5, SMTT(30)
    <3> QED BY <2>2, <3>2, <3>3, <3>4, <3>5
  <2> QED BY <2>1, <2>3, <2>4, <2>5, <1>1
<1>8. u = v
  BY <1>3, <1>5, <1>6, <1>7, SameSeq
<1> QED BY <1>8 DEF u, v, t

LEMMA TextInsertedAhead ==
  ASSUME NEW e, Tabled(e), NEW f, Tabled(f), NEW c \in Byte,
         f.curs1 = e.curs1, f.curs2 = e.curs2 + 1,
         \A i \in 0 .. e.curs1 - 1 : At1(f, i) = At1(e, i),
         \A p \in 0 .. e.curs2 : At2(f, p) = IF p = e.curs2 THEN c ELSE At2(e, p)
  PROVE  Text(f) = Inserted(Text(e), e.curs1, c)
<1>1. /\ e.curs1 \in Nat /\ e.curs2 \in Nat /\ e.last_byte = e.curs1 + e.curs2
      /\ f.last_byte = e.last_byte + 1
  BY DEF Tabled
<1> DEFINE t == Text(e)
           u == Text(f)
           n == e.last_byte
<1>2. t \in Seq(Byte) /\ Len(t) = n /\ \A j \in 1 .. n : t[j] = GetByte(e, j - 1)
  BY TextIs
<1>3. u \in Seq(Byte) /\ Len(u) = f.last_byte /\ \A j \in 1 .. f.last_byte : u[j] = GetByte(f, j - 1)
  BY TextIs
<1> HIDE DEF t, u, n
<1>4. e.curs1 \in 0 .. Len(t) /\ n \in Nat
  BY <1>1, <1>2 DEF n
<1> DEFINE v == Inserted(t, e.curs1, c)
<1>5. v \in Seq(Byte) /\ Len(v) = Len(t) + 1
      /\ \A j \in 1 .. Len(t) + 1 :
           v[j] = IF j <= e.curs1 THEN t[j] ELSE IF j = e.curs1 + 1 THEN c ELSE t[j - 1]
  <2>1. \A i \in 0 .. Len(t), x \in Byte :
          /\ Inserted(t, i, x) \in Seq(Byte) /\ Len(Inserted(t, i, x)) = Len(t) + 1
          /\ \A j \in 1 .. Len(t) + 1 :
               Inserted(t, i, x)[j] = IF j <= i THEN t[j] ELSE IF j = i + 1 THEN x ELSE t[j - 1]
    BY <1>2, InsertedIs
  <2> QED BY <1>4, <2>1
<1> HIDE DEF v
<1>6. Len(u) = Len(v) /\ Len(u) = n + 1
  BY <1>1, <1>2, <1>3, <1>5 DEF n
<1>7. ASSUME NEW j \in 1 .. Len(u) PROVE u[j] = v[j]
  <2>1. j \in 1 .. Len(t) + 1 /\ j \in 1 .. f.last_byte /\ j - 1 \in Int /\ j - 1 >= 0 /\ j - 1 < f.last_byte
    BY <1>1, <1>2, <1>3, <1>6 DEF n
  <2>2. u[j] = GetByte(f, j - 1)
    BY <2>1, <1>3
  <2>3. CASE j <= e.curs1
    <3>1. j \in 1 .. n /\ j - 1 \in 0 .. e.curs1 - 1 /\ j - 1 < e.curs1 /\ j - 1 < f.curs1
      BY <2>1, <2>3, <1>1 DEF n
    <3>2. GetByte(f, j - 1) = At1(f, j - 1) /\ GetByte(e, j - 1) = At1(e, j - 1)
      BY <2>1, <3>1, ByteIs
    <3>3. At1(f, j - 1) = At1(e, j - 1)
      BY <3>1
    <3> QED BY <2>1, <2>2, <2>3, <3>1, <3>2, <3>3, <1>2, <1>5
  <2>4. CASE j = e.curs1 + 1
    <3>1. j - 1 = e.curs1 /\ j - 1 >= f.curs1 /\ f.last_byte - (j - 1) - 1 = e.curs2
          /\ ~ (j <= e.curs1) /\ e.curs2 \in 0 .. e.curs2
      <4>1. j - 1 = e.curs1 /\ ~ (j <= e.curs1) /\ e.curs2 \in 0 .. e.curs2
        BY <2>4, <1>1
      <4>2. j - 1 >= f.curs1
        BY <4>1, <1>1
      <4>3. f.last_byte - (j - 1) - 1 = e.curs2
        BY <4>1, <1>1
      <4> QED BY <4>1, <4>2, <4>3
    <3>2. GetByte(f, j - 1) = At2(f, e.curs2)
      BY <2>1, <3>1, ByteIs
    <3>3. At2(f, e.curs2) = c
      BY <3>1
    <3> QED BY <2>1, <2>2, <2>4, <3>1, <3>2, <3>3, <1>5
  <2>5. CASE j > e.curs1 + 1
    <3> DEFINE q == j - 1
               p == n - q
    <3>1. q \in 1 .. n /\ q - 1 \in Int /\ q - 1 >= e.curs1 /\ q - 1 < n
          /\ p = f.last_byte - q - 1 /\ p = e.last_byte - (q - 1) - 1 /\ p \in 0 .. e.curs2 - 1
          /\ p \in 0 .. e.curs2 /\ p # e.curs2
      <4>1. n = e.curs1 + e.curs2 /\ f.last_byte = n + 1 /\ j <= n + 1
        BY <1>1, <1>6 DEF n
      <4>2. q \in 1 .. n /\ q - 1 \in Int /\ q - 1 >= e.curs1 /\ q - 1 < n
        BY <2>1, <2>5, <1>1, <4>1
      <4>3. p = f.last_byte - q - 1 /\ p = e.last_byte - (q - 1) - 1
        BY <4>1, <4>2, <1>1, SMTT(60)
      <4>4. p \in 0 .. e.curs2 - 1 /\ p \in 0 .. e.curs2 /\ p # e.curs2
        <5>1. e.curs2 \in Nat /\ n = e.curs1 + e.curs2 /\ q \in Int /\ q <= n /\ q - 1 >= e.curs1
          BY <4>1, <4>2, <1>1
        <5> DEFINE a == e.curs1
                   b == e.curs2
        <5>2. a \in Nat /\ b \in Nat /\ n = a + b /\ q \in Int /\ q <= n /\ q - 1 >= a
          BY <5>1, <1>1
        <5> HIDE DEF a, b, n, q
        <5>3. p \in 0 .. b - 1 /\ p \in 0 .. b /\ p # b
          BY <5>2
        <5> QED BY <5>3 DEF b
      <4> QED BY <4>2, <4>3, <4>4
    <3>2. GetByte(f, q) = At2(f, p)
      <4>1. q \in Int /\ f.curs1 <= q /\ q < f.last_byte
        BY <2>1, <2>5, <1>1
      <4> QED BY <3>1, <4>1, ByteIs
    <3>3. GetByte(e, q - 1) = At2(e, p)
      BY <3>1, ByteIs, <1>1 DEF n
    <3>4. At2(f, p) = At2(e, p)
      BY <3>1
    <3>5. v[j] = t[q] /\ t[q] = GetByte(e, q - 1)
      BY <2>1, <2>5, <3>1, <1>1, <1>2, <1>5, SMTT(30)
    <3> QED BY <2>2, <3>2, <3>3, <3>4, <3>5
  <2> QED BY <2>1, <2>3, <2>4, <2>5, <1>1
<1>8. u = v
  BY <1>3, <1>5, <1>6, <1>7, SameSeq
<1> QED BY <1>8 DEF u, v, t

(* A byte passes the cursor.                                               *)
LEMMA TextPassed ==
  ASSUME NEW e, Tabled(e), NEW f, Tabled(f),
         f.curs1 = e.curs1 + 1, f.curs2 = e.curs2 - 1,
         \A i \in 0 .. e.curs1 - 1 : At1(f, i) = At1(e, i),
         At1(f, e.curs1) = At2(e, e.curs2 - 1),
         \A p \in 0 .. e.curs2 - 2 : At2(f, p) = At2(e, p)
  PROVE  Text(f) = Text(e)
<1>1. /\ e.curs1 \in Nat /\ e.curs2 \in Nat /\ e.last_byte = e.curs1 + e.curs2
      /\ f.last_byte = e.last_byte /\ f.curs2 \in Nat
  BY DEF Tabled
<1> DEFINE t == Text(e)
           u == Text(f)
           n == e.last_byte
<1>2. t \in Seq(Byte) /\ Len(t) = n /\ \A j \in 1 .. n : t[j] = GetByte(e, j - 1)
  BY TextIs
<1>3. u \in Seq(Byte) /\ Len(u) = n /\ \A j \in 1 .. n : u[j] = GetByte(f, j - 1)
  BY TextIs, <1>1
<1> HIDE DEF t, u
<1>4. ASSUME NEW j \in 1 .. n PROVE GetByte(f, j - 1) = GetByte(e, j - 1)
  <2> DEFINE q == j - 1
             p == n - q - 1
  <2>1. q \in Int /\ 0 <= q /\ q < n
    BY <1>1
  <2>2. CASE q < e.curs1
    <3>1. q \in 0 .. e.curs1 - 1 /\ q < f.curs1
      BY <2>1, <2>2, <1>1
    <3>2. GetByte(f, q) = At1(f, q) /\ GetByte(e, q) = At1(e, q)
      BY <2>1, <2>2, <3>1, ByteIs
    <3> QED BY <3>1, <3>2
  <2>3. CASE q = e.curs1
    <3>1. q < f.curs1 /\ e.curs1 <= q /\ p = e.curs2 - 1 /\ q < e.last_byte
      BY <2>1, <2>3, <1>1
    <3>2. GetByte(f, q) = At1(f, q)
      <4>1. q \in Int /\ 0 <= q /\ q < f.curs1
        BY <2>1, <3>1
      <4> HIDE DEF q
      <4> QED BY <4>1, ByteIs
    <3>3. GetByte(e, q) = At2(e, p)
      <4> HIDE DEF q
      <4>1. GetByte(e, q) = At2(e, e.last_byte - q - 1)
        BY <2>1, <3>1, ByteIs
      <4> QED BY <4>1
    <3> QED BY <2>3, <3>1, <3>2, <3>3
  <2>4. CASE q > e.curs1
    <3>1. q >= f.curs1 /\ q >= e.curs1 /\ p \in 0 .. e.curs2 - 2
      BY <2>1, <2>4, <1>1
    <3>2. GetByte(f, q) = At2(f, p) /\ GetByte(e, q) = At2(e, p)
      BY <2>1, <3>1, ByteIs, <1>1
    <3> QED BY <3>1, <3>2
  <2> QED BY <2>1, <2>2, <2>3, <2>4, <1>1
<1>5. ASSUME NEW j \in 1 .. Len(u) PROVE u[j] = t[j]
  BY <1>2, <1>3, <1>4
<1>6. u = t
  BY <1>2, <1>3, <1>5, SameSeq
<1> QED BY <1>6 DEF u, t

-----------------------------------------------------------------------------
(* The four routines, and the cursor's, field by field.                    *)

Fields == {"buffers1", "buffers2", "curs1", "curs2", "last_byte", "curs_line",
           "total_lines", "prev_col", "start_display", "start_line",
           "mark1", "mark2", "stack", "stack_disable"}
IsEdit(e) == e = [x \in Fields |-> e[x]]

Pushed(e, c) == IF e.stack_disable THEN Grown(e.stack) ELSE PushAction(Grown(e.stack), c)

LEMMA PushIs ==
  ASSUME NEW e, IsEdit(e), NEW c
  PROVE  /\ IsEdit(Push(e, c))
         /\ Push(e, c).stack = Pushed(e, c)
         /\ \A x \in Fields \ {"stack"} : Push(e, c)[x] = e[x]
<1>1. Push(e, c) = [e EXCEPT !.stack = Pushed(e, c)]
  BY DEF Push, Pushed
<1> DEFINE p == Pushed(e, c)
<1> HIDE DEF p
<1>2. IsEdit([e EXCEPT !.stack = p]) /\ [e EXCEPT !.stack = p].stack = p
      /\ \A x \in Fields \ {"stack"} : [e EXCEPT !.stack = p][x] = e[x]
  BY DEF IsEdit, Fields
<1> QED BY <1>1, <1>2 DEF p

LEMMA InsertIs ==
  ASSUME NEW e, IsEdit(e), NEW c, ~ (e.last_byte >= SIZE_LIMIT)
  PROVE  LET f == Insert(e, c)
         IN /\ IsEdit(f)
            /\ f.buffers1 = Stored1(e.buffers1, e.curs1, c)
            /\ f.buffers2 = e.buffers2
            /\ f.curs1 = e.curs1 + 1 /\ f.curs2 = e.curs2
            /\ f.last_byte = e.last_byte + 1
            /\ f.curs_line = e.curs_line + One(c = Newline)
            /\ f.total_lines = e.total_lines + 1 * One(c = Newline)
            /\ f.prev_col = e.prev_col
            /\ f.start_display = e.start_display + 1 * One(e.curs1 < e.start_display)
            /\ f.start_line = e.start_line + 1 * One(e.curs1 < e.start_display /\ c = Newline)
            /\ f.mark1 = e.mark1 + One(e.mark1 > e.curs1)
            /\ f.mark2 = e.mark2 + One(e.mark2 > e.curs1)
            /\ f.stack = Pushed(e, BACKSPACE)
            /\ f.stack_disable = e.stack_disable
<1> DEFINE g == Counted(e, c, 1, e.curs1 < e.start_display)
<1>1. /\ IsEdit(g)
      /\ g.last_byte = e.last_byte + 1
      /\ g.total_lines = e.total_lines + 1 * One(c = Newline)
      /\ g.start_display = e.start_display + 1 * One(e.curs1 < e.start_display)
      /\ g.start_line = e.start_line + 1 * One(e.curs1 < e.start_display /\ c = Newline)
      /\ \A x \in Fields \ {"last_byte", "total_lines", "start_display", "start_line"} :
           g[x] = e[x]
  BY DEF Counted, IsEdit, Fields
<1> DEFINE h == Push(g, BACKSPACE)
<1>2. /\ IsEdit(h) /\ h.stack = Pushed(g, BACKSPACE)
      /\ \A x \in Fields \ {"stack"} : h[x] = g[x]
  BY <1>1, PushIs
<1>3. Pushed(g, BACKSPACE) = Pushed(e, BACKSPACE)
  BY <1>1 DEF Pushed, Fields
<1>4. Insert(e, c) =
        [h EXCEPT !.buffers1 = Stored1(e.buffers1, e.curs1, c),
                  !.curs1 = @ + 1,
                  !.curs_line = @ + One(c = Newline),
                  !.mark1 = @ + One(@ > e.curs1),
                  !.mark2 = @ + One(@ > e.curs1)]
  BY DEF Insert, Stored1, g, h
<1> DEFINE w == [h EXCEPT !.buffers1 = Stored1(e.buffers1, e.curs1, c),
                          !.curs1 = @ + 1,
                          !.curs_line = @ + One(c = Newline),
                          !.mark1 = @ + One(@ > e.curs1),
                          !.mark2 = @ + One(@ > e.curs1)]
<1> HIDE DEF g, h
<1>5. /\ IsEdit(w)
      /\ w.buffers1 = Stored1(e.buffers1, e.curs1, c)
      /\ w.curs1 = h.curs1 + 1
      /\ w.curs_line = h.curs_line + One(c = Newline)
      /\ w.mark1 = h.mark1 + One(h.mark1 > e.curs1)
      /\ w.mark2 = h.mark2 + One(h.mark2 > e.curs1)
      /\ \A x \in Fields \ {"buffers1", "curs1", "curs_line", "mark1", "mark2"} : w[x] = h[x]
  BY <1>2 DEF IsEdit, Fields
<1> HIDE DEF w
<1>6. Insert(e, c) = w
  BY <1>4 DEF w
<1>7. h.curs1 = e.curs1 /\ h.curs_line = e.curs_line /\ h.mark1 = e.mark1 /\ h.mark2 = e.mark2
  BY <1>1, <1>2 DEF Fields
<1>8. /\ w.buffers2 = e.buffers2 /\ w.curs2 = e.curs2 /\ w.prev_col = e.prev_col
      /\ w.stack_disable = e.stack_disable /\ w.stack = h.stack
      /\ w.last_byte = g.last_byte /\ w.total_lines = g.total_lines
      /\ w.start_display = g.start_display /\ w.start_line = g.start_line
  BY <1>1, <1>2, <1>5 DEF Fields
<1> QED BY <1>1, <1>2, <1>3, <1>5, <1>6, <1>7, <1>8

LEMMA InsertAheadIs ==
  ASSUME NEW e, IsEdit(e), NEW c, ~ (e.last_byte >= SIZE_LIMIT)
  PROVE  LET f == InsertAhead(e, c)
         IN /\ IsEdit(f)
            /\ f.buffers1 = e.buffers1
            /\ f.buffers2 = Stored2(e.buffers2, e.curs2, c)
            /\ f.curs1 = e.curs1
            /\ f.curs2 = e.curs2 + 1
            /\ f.last_byte = e.last_byte + 1
            /\ f.curs_line = e.curs_line
            /\ f.total_lines = e.total_lines + 1 * One(c = Newline)
            /\ f.prev_col = e.prev_col
            /\ f.start_display = e.start_display + 1 * One(e.curs1 < e.start_display)
            /\ f.start_line = e.start_line + 1 * One(e.curs1 < e.start_display /\ c = Newline)
            /\ f.mark1 = e.mark1 + One(e.mark1 >= e.curs1)
            /\ f.mark2 = e.mark2 + One(e.mark2 >= e.curs1)
            /\ f.stack = Pushed(e, DELCHAR)
            /\ f.stack_disable = e.stack_disable
<1> DEFINE g == Counted(e, c, 1, e.curs1 < e.start_display)
<1>1. /\ IsEdit(g)
      /\ g.last_byte = e.last_byte + 1
      /\ g.total_lines = e.total_lines + 1 * One(c = Newline)
      /\ g.start_display = e.start_display + 1 * One(e.curs1 < e.start_display)
      /\ g.start_line = e.start_line + 1 * One(e.curs1 < e.start_display /\ c = Newline)
      /\ \A x \in Fields \ {"last_byte", "total_lines", "start_display", "start_line"} :
           g[x] = e[x]
  <2> DEFINE q1 == e.last_byte + 1
             q2 == e.total_lines + 1 * One(c = Newline)
             q3 == e.start_display + 1 * One(e.curs1 < e.start_display)
             q4 == e.start_line + 1 * One(e.curs1 < e.start_display /\ c = Newline)
  <2>1. g = [e EXCEPT !.last_byte = q1, !.total_lines = q2, !.start_display = q3,
                      !.start_line = q4]
    BY DEF Counted
  <2> HIDE DEF q1, q2, q3, q4, g
  <2>2. /\ IsEdit(g)
        /\ g.last_byte = q1 /\ g.total_lines = q2 /\ g.start_display = q3 /\ g.start_line = q4
        /\ \A x \in Fields \ {"last_byte", "total_lines", "start_display", "start_line"} :
             g[x] = e[x]
    BY <2>1 DEF IsEdit, Fields
  <2> QED BY <2>2 DEF q1, q2, q3, q4
<1> DEFINE h == Push(g, DELCHAR)
<1>2. /\ IsEdit(h) /\ h.stack = Pushed(g, DELCHAR)
      /\ \A x \in Fields \ {"stack"} : h[x] = g[x]
  BY <1>1, PushIs
<1>3. Pushed(g, DELCHAR) = Pushed(e, DELCHAR)
  BY <1>1 DEF Pushed, Fields
<1> DEFINE w == [h EXCEPT !.buffers2 = Stored2(e.buffers2, e.curs2, c),
                          !.curs2 = @ + 1,
                          !.mark1 = @ + One(@ >= e.curs1),
                          !.mark2 = @ + One(@ >= e.curs1)]
<1>4. InsertAhead(e, c) = w
  BY DEF InsertAhead, Stored1, Stored2, GivenUp1, GivenUp2, At1, At2, g, h, w
<1> HIDE DEF g, h
<1>5. /\ IsEdit(w)
      /\ w.buffers2 = Stored2(e.buffers2, e.curs2, c)
      /\ w.curs2 = h.curs2 + 1
      /\ w.mark1 = h.mark1 + One(h.mark1 >= e.curs1)
      /\ w.mark2 = h.mark2 + One(h.mark2 >= e.curs1)
      /\ \A x \in Fields \ {"buffers2", "curs2", "mark1", "mark2"} : w[x] = h[x]
  BY <1>2 DEF IsEdit, Fields
<1> HIDE DEF w
<1>7. h.buffers2 = e.buffers2 /\ h.curs2 = e.curs2 /\ h.mark1 = e.mark1 /\ h.mark2 = e.mark2
  BY <1>1, <1>2 DEF Fields
<1>8. /\ w.buffers1 = e.buffers1
      /\ w.curs1 = e.curs1
      /\ w.last_byte = g.last_byte
      /\ w.curs_line = e.curs_line
      /\ w.total_lines = g.total_lines
      /\ w.prev_col = e.prev_col
      /\ w.start_display = g.start_display
      /\ w.start_line = g.start_line
      /\ w.stack = h.stack
      /\ w.stack_disable = e.stack_disable
  BY <1>1, <1>2, <1>5 DEF Fields
<1> QED BY <1>1, <1>2, <1>3, <1>4, <1>5, <1>7, <1>8

LEMMA DeleteIs ==
  ASSUME NEW e, IsEdit(e), e.curs2 \in Nat \ {0}
  PROVE  LET f == Delete(e)
             p == At2(e, e.curs2 - 1)
         IN /\ IsEdit(f)
            /\ f.buffers1 = e.buffers1
            /\ f.buffers2 = GivenUp2(e.buffers2, e.curs2 - 1)
            /\ f.curs1 = e.curs1
            /\ f.curs2 = e.curs2 - 1
            /\ f.last_byte = e.last_byte + (-1)
            /\ f.curs_line = e.curs_line
            /\ f.total_lines = e.total_lines + (-1) * One(p = Newline)
            /\ f.prev_col = e.prev_col
            /\ f.start_display = e.start_display + (-1) * One(e.curs1 < e.start_display)
            /\ f.start_line = e.start_line + (-1) * One(e.curs1 < e.start_display /\ p = Newline)
            /\ f.mark1 = e.mark1 - One(e.mark1 > e.curs1)
            /\ f.mark2 = e.mark2 - One(e.mark2 > e.curs1)
            /\ f.stack = Pushed(e, p + 256)
            /\ f.stack_disable = e.stack_disable
<1>0. e.curs2 # 0 /\ e.curs2 - 1 + 1 = e.curs2
  OBVIOUS
<1> DEFINE p == At2(e, e.curs2 - 1)
<1> DEFINE g == Counted(e, p, (-1), e.curs1 < e.start_display)
<1> HIDE DEF p
<1>1. /\ IsEdit(g)
      /\ g.last_byte = e.last_byte + (-1)
      /\ g.total_lines = e.total_lines + (-1) * One(p = Newline)
      /\ g.start_display = e.start_display + (-1) * One(e.curs1 < e.start_display)
      /\ g.start_line = e.start_line + (-1) * One(e.curs1 < e.start_display /\ p = Newline)
      /\ \A x \in Fields \ {"last_byte", "total_lines", "start_display", "start_line"} :
           g[x] = e[x]
  <2> DEFINE q1 == e.last_byte + (-1)
             q2 == e.total_lines + (-1) * One(p = Newline)
             q3 == e.start_display + (-1) * One(e.curs1 < e.start_display)
             q4 == e.start_line + (-1) * One(e.curs1 < e.start_display /\ p = Newline)
  <2>1. g = [e EXCEPT !.last_byte = q1, !.total_lines = q2, !.start_display = q3,
                      !.start_line = q4]
    BY DEF Counted
  <2> HIDE DEF q1, q2, q3, q4, g
  <2>2. /\ IsEdit(g)
        /\ g.last_byte = q1 /\ g.total_lines = q2 /\ g.start_display = q3 /\ g.start_line = q4
        /\ \A x \in Fields \ {"last_byte", "total_lines", "start_display", "start_line"} :
             g[x] = e[x]
    BY <2>1 DEF IsEdit, Fields
  <2> QED BY <2>2 DEF q1, q2, q3, q4
<1> DEFINE h == Push(g, p + 256)
<1>2. /\ IsEdit(h) /\ h.stack = Pushed(g, p + 256)
      /\ \A x \in Fields \ {"stack"} : h[x] = g[x]
  BY <1>1, PushIs
<1>3. Pushed(g, p + 256) = Pushed(e, p + 256)
  BY <1>1 DEF Pushed, Fields
<1> DEFINE w == [h EXCEPT !.buffers2 = IF Forth(e.curs2) = 0 THEN Free(@, BlockOf(e.curs2)) ELSE @,
                          !.curs2 = @ - 1,
                          !.mark1 = @ - One(@ > e.curs1),
                          !.mark2 = @ - One(@ > e.curs1)]
<1>4. Delete(e) = w
  BY <1>0 DEF Delete, Stored1, Stored2, GivenUp1, GivenUp2, At1, At2, g, h, w, p
<1> HIDE DEF g, h
<1>5. /\ IsEdit(w)
      /\ w.buffers2 = IF Forth(e.curs2) = 0 THEN Free(h.buffers2, BlockOf(e.curs2)) ELSE h.buffers2
      /\ w.curs2 = h.curs2 - 1
      /\ w.mark1 = h.mark1 - One(h.mark1 > e.curs1)
      /\ w.mark2 = h.mark2 - One(h.mark2 > e.curs1)
      /\ \A x \in Fields \ {"buffers2", "curs2", "mark1", "mark2"} : w[x] = h[x]
  BY <1>2 DEF IsEdit, Fields
<1> HIDE DEF w
<1>7. h.buffers2 = e.buffers2 /\ h.curs2 = e.curs2 /\ h.mark1 = e.mark1 /\ h.mark2 = e.mark2
  BY <1>1, <1>2 DEF Fields
<1>8. /\ w.buffers1 = e.buffers1
      /\ w.curs1 = e.curs1
      /\ w.last_byte = g.last_byte
      /\ w.curs_line = e.curs_line
      /\ w.total_lines = g.total_lines
      /\ w.prev_col = e.prev_col
      /\ w.start_display = g.start_display
      /\ w.start_line = g.start_line
      /\ w.stack = h.stack
      /\ w.stack_disable = e.stack_disable
  BY <1>1, <1>2, <1>5 DEF Fields
<1>9. GivenUp2(e.buffers2, e.curs2 - 1) = IF Forth(e.curs2) = 0 THEN Free(e.buffers2, BlockOf(e.curs2)) ELSE e.buffers2
  BY <1>0 DEF GivenUp2
<1> QED BY <1>1, <1>2, <1>3, <1>4, <1>5, <1>7, <1>8, <1>9 DEF p

LEMMA BackspaceIs ==
  ASSUME NEW e, IsEdit(e), e.curs1 \in Nat \ {0}
  PROVE  LET f == Backspace(e)
             p == At1(e, e.curs1 - 1)
         IN /\ IsEdit(f)
            /\ f.buffers1 = GivenUp1(e.buffers1, e.curs1 - 1)
            /\ f.buffers2 = e.buffers2
            /\ f.curs1 = e.curs1 - 1
            /\ f.curs2 = e.curs2
            /\ f.last_byte = e.last_byte + (-1)
            /\ f.curs_line = e.curs_line - One(p = Newline)
            /\ f.total_lines = e.total_lines + (-1) * One(p = Newline)
            /\ f.prev_col = e.prev_col
            /\ f.start_display = e.start_display + (-1) * One(e.curs1 - 1 < e.start_display)
            /\ f.start_line = e.start_line + (-1) * One(e.curs1 - 1 < e.start_display /\ p = Newline)
            /\ f.mark1 = e.mark1 - One(e.mark1 >= e.curs1)
            /\ f.mark2 = e.mark2 - One(e.mark2 >= e.curs1)
            /\ f.stack = Pushed(e, p)
            /\ f.stack_disable = e.stack_disable
<1>0. e.curs1 # 0 /\ e.curs1 - 1 + 1 = e.curs1
  OBVIOUS
<1> DEFINE p == At1(e, e.curs1 - 1)
<1> DEFINE g == Counted(e, p, (-1), e.curs1 - 1 < e.start_display)
<1> HIDE DEF p
<1>1. /\ IsEdit(g)
      /\ g.last_byte = e.last_byte + (-1)
      /\ g.total_lines = e.total_lines + (-1) * One(p = Newline)
      /\ g.start_display = e.start_display + (-1) * One(e.curs1 - 1 < e.start_display)
      /\ g.start_line = e.start_line + (-1) * One(e.curs1 - 1 < e.start_display /\ p = Newline)
      /\ \A x \in Fields \ {"last_byte", "total_lines", "start_display", "start_line"} :
           g[x] = e[x]
  <2> DEFINE q1 == e.last_byte + (-1)
             q2 == e.total_lines + (-1) * One(p = Newline)
             q3 == e.start_display + (-1) * One(e.curs1 - 1 < e.start_display)
             q4 == e.start_line + (-1) * One(e.curs1 - 1 < e.start_display /\ p = Newline)
  <2>1. g = [e EXCEPT !.last_byte = q1, !.total_lines = q2, !.start_display = q3,
                      !.start_line = q4]
    BY DEF Counted
  <2> HIDE DEF q1, q2, q3, q4, g
  <2>2. /\ IsEdit(g)
        /\ g.last_byte = q1 /\ g.total_lines = q2 /\ g.start_display = q3 /\ g.start_line = q4
        /\ \A x \in Fields \ {"last_byte", "total_lines", "start_display", "start_line"} :
             g[x] = e[x]
    BY <2>1 DEF IsEdit, Fields
  <2> QED BY <2>2 DEF q1, q2, q3, q4
<1> DEFINE h == Push(g, p)
<1>2. /\ IsEdit(h) /\ h.stack = Pushed(g, p)
      /\ \A x \in Fields \ {"stack"} : h[x] = g[x]
  BY <1>1, PushIs
<1>3. Pushed(g, p) = Pushed(e, p)
  BY <1>1 DEF Pushed, Fields
<1> DEFINE w == [h EXCEPT !.buffers1 = GivenUp1(@, e.curs1 - 1),
                          !.curs1 = @ - 1,
                          !.curs_line = @ - One(p = Newline),
                          !.mark1 = @ - One(@ >= e.curs1),
                          !.mark2 = @ - One(@ >= e.curs1)]
<1>4. Backspace(e) = w
  BY <1>0 DEF Backspace, Stored1, Stored2, GivenUp1, GivenUp2, At1, At2, g, h, w, p
<1> HIDE DEF g, h
<1>5. /\ IsEdit(w)
      /\ w.buffers1 = GivenUp1(h.buffers1, e.curs1 - 1)
      /\ w.curs1 = h.curs1 - 1
      /\ w.curs_line = h.curs_line - One(p = Newline)
      /\ w.mark1 = h.mark1 - One(h.mark1 >= e.curs1)
      /\ w.mark2 = h.mark2 - One(h.mark2 >= e.curs1)
      /\ \A x \in Fields \ {"buffers1", "curs1", "curs_line", "mark1", "mark2"} : w[x] = h[x]
  BY <1>2 DEF IsEdit, Fields
<1> HIDE DEF w
<1>7. h.buffers1 = e.buffers1 /\ h.curs1 = e.curs1 /\ h.curs_line = e.curs_line /\ h.mark1 = e.mark1 /\ h.mark2 = e.mark2
  BY <1>1, <1>2 DEF Fields
<1>8. /\ w.buffers2 = e.buffers2
      /\ w.curs2 = e.curs2
      /\ w.last_byte = g.last_byte
      /\ w.total_lines = g.total_lines
      /\ w.prev_col = e.prev_col
      /\ w.start_display = g.start_display
      /\ w.start_line = g.start_line
      /\ w.stack = h.stack
      /\ w.stack_disable = e.stack_disable
  BY <1>1, <1>2, <1>5 DEF Fields
<1> QED BY <1>1, <1>2, <1>3, <1>4, <1>5, <1>7, <1>8 DEF p

LEMMA LeftIs ==
  ASSUME NEW e, IsEdit(e), e.curs1 \in Nat \ {0}
  PROVE  LET f == Left(e)
             p == GetByte(e, e.curs1 - 1)
         IN /\ IsEdit(f)
            /\ f.buffers1 = GivenUp1(e.buffers1, e.curs1 - 1)
            /\ f.buffers2 = Stored2(e.buffers2, e.curs2, p)
            /\ f.curs1 = e.curs1 - 1
            /\ f.curs2 = e.curs2 + 1
            /\ f.last_byte = e.last_byte
            /\ f.curs_line = e.curs_line - One(p = Newline)
            /\ f.total_lines = e.total_lines
            /\ f.prev_col = e.prev_col
            /\ f.start_display = e.start_display
            /\ f.start_line = e.start_line
            /\ f.mark1 = e.mark1
            /\ f.mark2 = e.mark2
            /\ f.stack = Pushed(e, CURS_RIGHT)
            /\ f.stack_disable = e.stack_disable
<1>0. e.curs1 # 0 /\ e.curs1 - 1 + 1 = e.curs1
  OBVIOUS
<1> DEFINE p == GetByte(e, e.curs1 - 1)
<1> DEFINE h == Push(e, CURS_RIGHT)
<1>2. /\ IsEdit(h) /\ h.stack = Pushed(e, CURS_RIGHT)
      /\ \A x \in Fields \ {"stack"} : h[x] = e[x]
  BY PushIs
<1> DEFINE w == [h EXCEPT !.buffers1 = GivenUp1(@, e.curs1 - 1),
                          !.buffers2 = Stored2(e.buffers2, e.curs2, p),
                          !.curs1 = @ - 1,
                          !.curs2 = @ + 1,
                          !.curs_line = @ - One(p = Newline)]
<1>4. Left(e) = w
  BY <1>0 DEF Left, Stored1, Stored2, GivenUp1, GivenUp2, At1, At2, h, w, p
<1> HIDE DEF h
<1>5. /\ IsEdit(w)
      /\ w.buffers1 = GivenUp1(h.buffers1, e.curs1 - 1)
      /\ w.buffers2 = Stored2(e.buffers2, e.curs2, p)
      /\ w.curs1 = h.curs1 - 1
      /\ w.curs2 = h.curs2 + 1
      /\ w.curs_line = h.curs_line - One(p = Newline)
      /\ \A x \in Fields \ {"buffers1", "buffers2", "curs1", "curs2", "curs_line"} : w[x] = h[x]
  BY <1>2 DEF IsEdit, Fields
<1> HIDE DEF w
<1>7. h.buffers1 = e.buffers1 /\ h.buffers2 = e.buffers2 /\ h.curs1 = e.curs1 /\ h.curs2 = e.curs2 /\ h.curs_line = e.curs_line
  BY <1>2 DEF Fields
<1>8. /\ w.last_byte = e.last_byte
      /\ w.total_lines = e.total_lines
      /\ w.prev_col = e.prev_col
      /\ w.start_display = e.start_display
      /\ w.start_line = e.start_line
      /\ w.mark1 = e.mark1
      /\ w.mark2 = e.mark2
      /\ w.stack = h.stack
      /\ w.stack_disable = e.stack_disable
  BY <1>2, <1>5 DEF Fields
<1> QED BY <1>2, <1>4, <1>5, <1>7, <1>8 DEF p

LEMMA RightIs ==
  ASSUME NEW e, IsEdit(e), e.curs2 \in Nat \ {0}
  PROVE  LET f == Right(e)
             p == GetByte(e, e.curs1)
         IN /\ IsEdit(f)
            /\ f.buffers1 = Stored1(e.buffers1, e.curs1, p)
            /\ f.buffers2 = GivenUp2(e.buffers2, e.curs2 - 1)
            /\ f.curs1 = e.curs1 + 1
            /\ f.curs2 = e.curs2 - 1
            /\ f.last_byte = e.last_byte
            /\ f.curs_line = e.curs_line + One(p = Newline)
            /\ f.total_lines = e.total_lines
            /\ f.prev_col = e.prev_col
            /\ f.start_display = e.start_display
            /\ f.start_line = e.start_line
            /\ f.mark1 = e.mark1
            /\ f.mark2 = e.mark2
            /\ f.stack = Pushed(e, CURS_LEFT)
            /\ f.stack_disable = e.stack_disable
<1>0. e.curs2 # 0 /\ e.curs2 - 1 + 1 = e.curs2
  OBVIOUS
<1> DEFINE p == GetByte(e, e.curs1)
<1> DEFINE h == Push(e, CURS_LEFT)
<1>2. /\ IsEdit(h) /\ h.stack = Pushed(e, CURS_LEFT)
      /\ \A x \in Fields \ {"stack"} : h[x] = e[x]
  BY PushIs
<1> DEFINE w == [h EXCEPT !.buffers1 = Stored1(e.buffers1, e.curs1, p),
                          !.buffers2 = IF Forth(e.curs2) = 0 THEN Free(@, BlockOf(e.curs2)) ELSE @,
                          !.curs1 = @ + 1,
                          !.curs2 = @ - 1,
                          !.curs_line = @ + One(p = Newline)]
<1>4. Right(e) = w
  BY <1>0 DEF Right, Stored1, Stored2, GivenUp1, GivenUp2, At1, At2, h, w, p
<1> HIDE DEF h
<1>5. /\ IsEdit(w)
      /\ w.buffers1 = Stored1(e.buffers1, e.curs1, p)
      /\ w.buffers2 = IF Forth(e.curs2) = 0 THEN Free(h.buffers2, BlockOf(e.curs2)) ELSE h.buffers2
      /\ w.curs1 = h.curs1 + 1
      /\ w.curs2 = h.curs2 - 1
      /\ w.curs_line = h.curs_line + One(p = Newline)
      /\ \A x \in Fields \ {"buffers1", "buffers2", "curs1", "curs2", "curs_line"} : w[x] = h[x]
  BY <1>2 DEF IsEdit, Fields
<1> HIDE DEF w
<1>7. h.buffers1 = e.buffers1 /\ h.buffers2 = e.buffers2 /\ h.curs1 = e.curs1 /\ h.curs2 = e.curs2 /\ h.curs_line = e.curs_line
  BY <1>2 DEF Fields
<1>8. /\ w.last_byte = e.last_byte
      /\ w.total_lines = e.total_lines
      /\ w.prev_col = e.prev_col
      /\ w.start_display = e.start_display
      /\ w.start_line = e.start_line
      /\ w.mark1 = e.mark1
      /\ w.mark2 = e.mark2
      /\ w.stack = h.stack
      /\ w.stack_disable = e.stack_disable
  BY <1>2, <1>5 DEF Fields
<1>9. GivenUp2(e.buffers2, e.curs2 - 1) = IF Forth(e.curs2) = 0 THEN Free(e.buffers2, BlockOf(e.curs2)) ELSE e.buffers2
  BY <1>0 DEF GivenUp2
<1> QED BY <1>2, <1>4, <1>5, <1>7, <1>8, <1>9 DEF p

(* The text behind each of them.                                           *)

LEMMA InsertText ==
  ASSUME NEW e, IsEdit(e), Tabled(e), NEW c \in Byte, ~ (e.last_byte >= SIZE_LIMIT)
  PROVE  /\ Tabled(Insert(e, c))
         /\ Text(Insert(e, c)) = Inserted(Text(e), e.curs1, c)
<1> DEFINE f == Insert(e, c)
<1>1. /\ f.buffers1 = Stored1(e.buffers1, e.curs1, c) /\ f.buffers2 = e.buffers2
      /\ f.curs1 = e.curs1 + 1 /\ f.curs2 = e.curs2 /\ f.last_byte = e.last_byte + 1
  BY InsertIs
<1> HIDE DEF f
<1>2. e.curs1 \in Nat /\ e.curs2 \in Nat /\ e.last_byte = e.curs1 + e.curs2
      /\ e.buffers1 \in [Blocks1(e.curs1) -> Block] /\ e.buffers2 \in [Blocks2(e.curs2) -> Block]
  BY DEF Tabled
<1>3. /\ f.buffers1 \in [Blocks1(e.curs1 + 1) -> Block]
      /\ \A i \in 0 .. e.curs1 : At1(f, i) = IF i = e.curs1 THEN c ELSE At1(e, i)
  BY <1>1, <1>2, StoredIs1 DEF At1
<1>4. Tabled(f)
  BY <1>1, <1>2, <1>3 DEF Tabled
<1>5. \A p \in 0 .. e.curs2 - 1 : At2(f, p) = At2(e, p)
  BY <1>1 DEF At2
<1>6. Text(f) = Inserted(Text(e), e.curs1, c)
  BY <1>1, <1>3, <1>4, <1>5, TextInserted
<1> QED BY <1>4, <1>6 DEF f

LEMMA InsertAheadText ==
  ASSUME NEW e, IsEdit(e), Tabled(e), NEW c \in Byte, ~ (e.last_byte >= SIZE_LIMIT)
  PROVE  /\ Tabled(InsertAhead(e, c))
         /\ Text(InsertAhead(e, c)) = Inserted(Text(e), e.curs1, c)
<1> DEFINE f == InsertAhead(e, c)
<1>1. /\ f.buffers2 = Stored2(e.buffers2, e.curs2, c) /\ f.buffers1 = e.buffers1
      /\ f.curs1 = e.curs1 /\ f.curs2 = e.curs2 + 1 /\ f.last_byte = e.last_byte + 1
  BY InsertAheadIs
<1> HIDE DEF f
<1>2. e.curs1 \in Nat /\ e.curs2 \in Nat /\ e.last_byte = e.curs1 + e.curs2
      /\ e.buffers1 \in [Blocks1(e.curs1) -> Block] /\ e.buffers2 \in [Blocks2(e.curs2) -> Block]
  BY DEF Tabled
<1>3. /\ f.buffers2 \in [Blocks2(e.curs2 + 1) -> Block]
      /\ \A p \in 0 .. e.curs2 : At2(f, p) = IF p = e.curs2 THEN c ELSE At2(e, p)
  BY <1>1, <1>2, StoredIs2 DEF At2
<1>4. Tabled(f)
  BY <1>1, <1>2, <1>3 DEF Tabled
<1>5. \A i \in 0 .. e.curs1 - 1 : At1(f, i) = At1(e, i)
  BY <1>1 DEF At1
<1>6. Text(f) = Inserted(Text(e), e.curs1, c)
  BY <1>1, <1>3, <1>4, <1>5, TextInsertedAhead
<1> QED BY <1>4, <1>6 DEF f

LEMMA DeleteText ==
  ASSUME NEW e, IsEdit(e), Tabled(e), e.curs2 # 0
  PROVE  LET p == At2(e, e.curs2 - 1)
         IN /\ Tabled(Delete(e)) /\ p \in Byte /\ p = Text(e)[e.curs1 + 1]
            /\ Text(Delete(e)) = Removed(Text(e), e.curs1)
            /\ Text(e) = Inserted(Text(Delete(e)), e.curs1, p)
<1> DEFINE f == Delete(e)
           n == e.curs2 - 1
           p == At2(e, n)
<1>2. e.curs1 \in Nat /\ e.curs2 \in Nat \ {0} /\ e.last_byte = e.curs1 + e.curs2
      /\ e.buffers1 \in [Blocks1(e.curs1) -> Block] /\ e.buffers2 \in [Blocks2(e.curs2) -> Block]
  BY DEF Tabled
<1>1. /\ f.buffers2 = GivenUp2(e.buffers2, n) /\ f.buffers1 = e.buffers1
      /\ f.curs1 = e.curs1 /\ f.curs2 = e.curs2 - 1 /\ f.last_byte = e.last_byte + (-1)
  BY <1>2, DeleteIs
<1>3. n \in Nat /\ e.curs2 = n + 1 /\ n \in 0 .. e.curs2
  BY <1>2
<1>4. p \in Byte
  BY <1>3, At2Is
<1>5. p = Text(e)[e.curs1 + 1]
  <2>1. e.curs1 + 1 \in 1 .. e.last_byte /\ e.curs1 + 1 - 1 = e.curs1 /\ e.curs1 < e.last_byte
        /\ e.last_byte - e.curs1 - 1 = n /\ e.curs1 \in Int /\ e.curs1 <= e.curs1
    BY <1>2, <1>3
  <2>2. GetByte(e, e.curs1) = At2(e, e.last_byte - e.curs1 - 1)
    BY <2>1, ByteIs
  <2>3. Text(e)[e.curs1 + 1] = GetByte(e, e.curs1 + 1 - 1)
    BY <2>1, TextIs
  <2> QED BY <2>1, <2>2, <2>3
<1> HIDE DEF f, p
<1>6. /\ f.buffers2 \in [Blocks2(n) -> Block]
      /\ \A i \in 0 .. n - 1 : At2(f, i) = At2(e, i)
  BY <1>1, <1>2, <1>3, GivenUpIs2 DEF At2
<1>7. Tabled(f)
  BY <1>1, <1>2, <1>3, <1>6 DEF Tabled
<1>8. Text(e) = Inserted(Text(f), f.curs1, p)
  <2>1. \A i \in 0 .. f.curs1 - 1 : At1(e, i) = At1(f, i)
    BY <1>1 DEF At1
  <2>2. \A i \in 0 .. f.curs2 : At2(e, i) = IF i = f.curs2 THEN p ELSE At2(f, i)
    <3>1. f.curs2 = n
      BY <1>1
    <3> QED BY <3>1, <1>3, <1>6 DEF p
  <2>3. e.curs1 = f.curs1 /\ e.curs2 = f.curs2 + 1
    BY <1>1, <1>2
  <2> QED BY <2>1, <2>2, <2>3, <1>4, <1>7, TextInsertedAhead
<1>9. Text(f) = Removed(Text(e), e.curs1)
  <2>1. Text(f) \in Seq(Byte) /\ Len(Text(f)) = f.last_byte
    BY <1>7, TextIs
  <2>2. f.curs1 \in 0 .. Len(Text(f))
    BY <2>1, <1>7 DEF Tabled
  <2> DEFINE t == Text(f)
  <2> HIDE DEF t
  <2>3. Removed(Inserted(t, f.curs1, p), f.curs1) = t
    BY <2>1, <2>2, <1>4, RemovedInserted DEF t
  <2> QED BY <2>3, <1>8, <1>1 DEF t
<1> QED BY <1>1, <1>4, <1>5, <1>7, <1>8, <1>9 DEF f, p

LEMMA BackspaceText ==
  ASSUME NEW e, IsEdit(e), Tabled(e), e.curs1 # 0
  PROVE  LET p == At1(e, e.curs1 - 1)
         IN /\ Tabled(Backspace(e)) /\ p \in Byte /\ p = Text(e)[e.curs1]
            /\ Text(Backspace(e)) = Removed(Text(e), e.curs1 - 1)
            /\ Text(e) = Inserted(Text(Backspace(e)), e.curs1 - 1, p)
<1> DEFINE f == Backspace(e)
           n == e.curs1 - 1
           p == At1(e, n)
<1>2. e.curs2 \in Nat /\ e.curs1 \in Nat \ {0} /\ e.last_byte = e.curs1 + e.curs2
      /\ e.buffers1 \in [Blocks1(e.curs1) -> Block] /\ e.buffers2 \in [Blocks2(e.curs2) -> Block]
  BY DEF Tabled
<1>1. /\ f.buffers1 = GivenUp1(e.buffers1, n) /\ f.buffers2 = e.buffers2
      /\ f.curs2 = e.curs2 /\ f.curs1 = n /\ f.last_byte = e.last_byte + (-1)
  BY <1>2, BackspaceIs
<1>3. n \in Nat /\ e.curs1 = n + 1 /\ n \in 0 .. e.curs1 - 1
  BY <1>2
<1>4. p \in Byte
  BY <1>3, At1Is
<1>5. p = Text(e)[e.curs1]
  <2>1. e.curs1 \in 1 .. e.last_byte /\ n \in Int /\ n >= 0 /\ n < e.curs1
    BY <1>2, <1>3
  <2>2. GetByte(e, n) = At1(e, n)
    BY <2>1, ByteIs
  <2>3. Text(e)[e.curs1] = GetByte(e, n)
    BY <2>1, TextIs
  <2> QED BY <2>1, <2>2, <2>3
<1> HIDE DEF f, p
<1>6. /\ f.buffers1 \in [Blocks1(n) -> Block]
      /\ \A i \in 0 .. n - 1 : At1(f, i) = At1(e, i)
  BY <1>1, <1>2, <1>3, GivenUpIs1 DEF At1
<1>7. Tabled(f)
  BY <1>1, <1>2, <1>3, <1>6 DEF Tabled
<1>8. Text(e) = Inserted(Text(f), f.curs1, p)
  <2>1. \A i \in 0 .. f.curs2 - 1 : At2(e, i) = At2(f, i)
    BY <1>1 DEF At2
  <2>2. \A i \in 0 .. f.curs1 : At1(e, i) = IF i = f.curs1 THEN p ELSE At1(f, i)
    BY <1>1, <1>3, <1>6 DEF p
  <2>3. e.curs2 = f.curs2 /\ e.curs1 = f.curs1 + 1
    BY <1>1, <1>2
  <2> QED BY <2>1, <2>2, <2>3, <1>4, <1>7, TextInserted
<1>9. Text(f) = Removed(Text(e), n)
  <2>1. Text(f) \in Seq(Byte) /\ Len(Text(f)) = f.last_byte
    BY <1>7, TextIs
  <2>2. f.curs1 \in 0 .. Len(Text(f))
    BY <2>1, <1>7 DEF Tabled
  <2> DEFINE t == Text(f)
  <2> HIDE DEF t
  <2>3. Removed(Inserted(t, f.curs1, p), f.curs1) = t
    BY <2>1, <2>2, <1>4, RemovedInserted DEF t
  <2> QED BY <2>3, <1>8, <1>1 DEF t
<1> QED BY <1>1, <1>4, <1>5, <1>7, <1>8, <1>9 DEF f, p

LEMMA LeftText ==
  ASSUME NEW e, IsEdit(e), Tabled(e), e.curs1 # 0
  PROVE  LET p == GetByte(e, e.curs1 - 1)
         IN Tabled(Left(e)) /\ p = Text(e)[e.curs1] /\ Text(Left(e)) = Text(e)
<1> DEFINE f == Left(e)
           n == e.curs1 - 1
           p == GetByte(e, n)
<1>2. e.curs2 \in Nat /\ e.curs1 \in Nat \ {0} /\ e.last_byte = e.curs1 + e.curs2
      /\ e.buffers1 \in [Blocks1(e.curs1) -> Block] /\ e.buffers2 \in [Blocks2(e.curs2) -> Block]
  BY DEF Tabled
<1>1. /\ f.buffers1 = GivenUp1(e.buffers1, n) /\ f.buffers2 = Stored2(e.buffers2, e.curs2, p)
      /\ f.curs2 = e.curs2 + 1 /\ f.curs1 = n /\ f.last_byte = e.last_byte
  BY <1>2, LeftIs
<1>3. n \in Nat /\ e.curs1 = n + 1 /\ n \in 0 .. e.curs1 - 1 /\ n \in Int /\ n >= 0 /\ n < e.curs1
      /\ e.curs1 \in 1 .. e.last_byte
  BY <1>2
<1>4. p \in Byte /\ p = At1(e, n) /\ p = Text(e)[e.curs1]
  BY <1>3, ByteIs, TextIs
<1> HIDE DEF f, p
<1>6. /\ f.buffers1 \in [Blocks1(n) -> Block]
      /\ \A i \in 0 .. n - 1 : At1(f, i) = At1(e, i)
  BY <1>1, <1>2, <1>3, GivenUpIs1 DEF At1
<1>61. /\ f.buffers2 \in [Blocks2(e.curs2 + 1) -> Block]
       /\ \A i \in 0 .. e.curs2 : At2(f, i) = IF i = e.curs2 THEN p ELSE At2(e, i)
  BY <1>1, <1>2, <1>4, StoredIs2 DEF At2
<1>7. Tabled(f)
  BY <1>1, <1>2, <1>3, <1>6, <1>61 DEF Tabled
<1>8. Text(e) = Text(f)
  <2>1. \A i \in 0 .. f.curs1 - 1 : At1(e, i) = At1(f, i)
    BY <1>1, <1>6
  <2>2. At1(e, f.curs1) = At2(f, f.curs2 - 1)
    <3>1. f.curs2 - 1 = e.curs2 /\ e.curs2 \in 0 .. e.curs2
      BY <1>1, <1>2
    <3> QED BY <3>1, <1>1, <1>4, <1>61
  <2>3. \A i \in 0 .. f.curs2 - 2 : At2(e, i) = At2(f, i)
    <3>1. f.curs2 - 2 = e.curs2 - 1
      BY <1>1, <1>2
    <3>2. \A i \in 0 .. e.curs2 - 1 : i \in 0 .. e.curs2 /\ i # e.curs2
      BY <1>2
    <3> QED BY <3>1, <3>2, <1>61
  <2>4. e.curs2 = f.curs2 - 1 /\ e.curs1 = f.curs1 + 1
    BY <1>1, <1>2
  <2> QED BY <2>1, <2>2, <2>3, <2>4, <1>7, TextPassed
<1> QED BY <1>4, <1>7, <1>8 DEF f, p

LEMMA RightText ==
  ASSUME NEW e, IsEdit(e), Tabled(e), e.curs2 # 0
  PROVE  LET p == GetByte(e, e.curs1)
         IN Tabled(Right(e)) /\ p = Text(e)[e.curs1 + 1] /\ Text(Right(e)) = Text(e)
<1> DEFINE f == Right(e)
           n == e.curs2 - 1
           p == GetByte(e, e.curs1)
<1>2. e.curs1 \in Nat /\ e.curs2 \in Nat \ {0} /\ e.last_byte = e.curs1 + e.curs2
      /\ e.buffers1 \in [Blocks1(e.curs1) -> Block] /\ e.buffers2 \in [Blocks2(e.curs2) -> Block]
  BY DEF Tabled
<1>1. /\ f.buffers2 = GivenUp2(e.buffers2, n) /\ f.buffers1 = Stored1(e.buffers1, e.curs1, p)
      /\ f.curs2 = n /\ f.curs1 = e.curs1 + 1 /\ f.last_byte = e.last_byte
  BY <1>2, RightIs
<1>3. n \in Nat /\ e.curs2 = n + 1 /\ e.curs1 \in Int /\ e.curs1 <= e.curs1 /\ e.curs1 < e.last_byte
      /\ e.curs1 + 1 \in 1 .. e.last_byte /\ e.last_byte - e.curs1 - 1 = n /\ e.curs1 + 1 - 1 = e.curs1
  BY <1>2
<1>4. p \in Byte /\ p = At2(e, n) /\ p = Text(e)[e.curs1 + 1]
  <2>1. p \in Byte /\ p = At2(e, e.last_byte - e.curs1 - 1)
    BY <1>3, ByteIs
  <2>2. Text(e)[e.curs1 + 1] = GetByte(e, e.curs1 + 1 - 1)
    BY <1>3, TextIs
  <2> QED BY <2>1, <2>2, <1>3
<1> HIDE DEF f, p
<1>6. /\ f.buffers2 \in [Blocks2(n) -> Block]
      /\ \A i \in 0 .. n - 1 : At2(f, i) = At2(e, i)
  BY <1>1, <1>2, <1>3, GivenUpIs2 DEF At2
<1>61. /\ f.buffers1 \in [Blocks1(e.curs1 + 1) -> Block]
       /\ \A i \in 0 .. e.curs1 : At1(f, i) = IF i = e.curs1 THEN p ELSE At1(e, i)
  BY <1>1, <1>2, <1>4, StoredIs1 DEF At1
<1>7. Tabled(f)
  BY <1>1, <1>2, <1>3, <1>6, <1>61 DEF Tabled
<1>8. Text(f) = Text(e)
  <2>1. \A i \in 0 .. e.curs1 - 1 : At1(f, i) = At1(e, i)
    <3>2. \A i \in 0 .. e.curs1 - 1 : i \in 0 .. e.curs1 /\ i # e.curs1
      BY <1>2
    <3> QED BY <3>2, <1>61
  <2>2. At1(f, e.curs1) = At2(e, e.curs2 - 1)
    <3>1. e.curs1 \in 0 .. e.curs1
      BY <1>2
    <3> QED BY <3>1, <1>4, <1>61
  <2>3. \A i \in 0 .. e.curs2 - 2 : At2(f, i) = At2(e, i)
    <3>1. e.curs2 - 2 = n - 1
      BY <1>2
    <3> QED BY <3>1, <1>6
  <2>4. f.curs2 = e.curs2 - 1 /\ f.curs1 = e.curs1 + 1
    BY <1>1, <1>2
  <2> QED BY <2>1, <2>2, <2>3, <2>4, <1>7, TextPassed
<1> QED BY <1>4, <1>7, <1>8 DEF f, p

(* What the routines keep: types, counters, the window and the marks.      *)
Lined(e) ==
  /\ e.curs_line = LinesTo(Text(e), e.curs1)
  /\ e.total_lines = LinesTo(Text(e), e.last_byte)
Windowed(e) ==
  /\ e.start_display \in 0 .. e.last_byte
  /\ e.start_line = LinesTo(Text(e), e.start_display)
Markable(e) == e.mark1 \in 0 .. e.last_byte /\ e.mark2 \in -1 .. e.last_byte
InRange(e) == Windowed(e) /\ Markable(e)

Plain(e) ==
  /\ e.last_byte <= SIZE_LIMIT
  /\ e.start_display \in Nat /\ e.start_line \in Int /\ e.prev_col \in Int
  /\ e.mark1 \in Int /\ e.mark1 >= -2 /\ e.mark2 \in Int /\ e.mark2 >= -2
Sound(e) == IsEdit(e) /\ Tabled(e) /\ Plain(e) /\ Lined(e)

LEMMA SizeLimitIs == SIZE_LIMIT \in Int
BY EditBufferAssumption DEF SIZE_LIMIT

LEMMA InsertSound ==
  ASSUME NEW e, Sound(e), NEW c \in Byte, ~ (e.last_byte >= SIZE_LIMIT)
  PROVE  Sound(Insert(e, c)) /\ (InRange(e) => InRange(Insert(e, c)))
<1> DEFINE f == Insert(e, c)
           t == Text(e)
           i == e.curs1
           nl == One(c = Newline)
<1>1. IsEdit(e) /\ Tabled(e) /\ Plain(e) /\ Lined(e)
  BY DEF Sound
<1>2. /\ IsEdit(f) /\ f.curs1 = e.curs1 + 1 /\ f.last_byte = e.last_byte + 1
      /\ f.curs_line = e.curs_line + nl
      /\ f.total_lines = e.total_lines + 1 * nl
      /\ f.prev_col = e.prev_col
      /\ f.start_display = e.start_display + 1 * One(e.curs1 < e.start_display)
      /\ f.start_line = e.start_line + 1 * One(e.curs1 < e.start_display /\ c = Newline)
      /\ f.mark1 = e.mark1 + One(e.mark1 > e.curs1)
      /\ f.mark2 = e.mark2 + One(e.mark2 > e.curs1)
  BY <1>1, InsertIs
<1>3. Tabled(f) /\ Text(f) = Inserted(t, i, c)
  BY <1>1, InsertText
<1> HIDE DEF f
<1>4. t \in Seq(Byte) /\ Len(t) = e.last_byte /\ i \in 0 .. Len(t) /\ e.last_byte \in Nat
  <2>1. t \in Seq(Byte) /\ Len(t) = e.last_byte
    BY <1>1, TextIs
  <2> QED BY <2>1, <1>1 DEF Tabled
<1>5. nl \in {0, 1} /\ (c = Newline => nl = 1) /\ (c # Newline => nl = 0)
  BY DEF One
<1> HIDE DEF t, i, nl
<1>6. \A n \in 0 .. e.last_byte : LinesTo(t, n) \in Nat
  BY LinesType
<1>7. /\ \A n \in 0 .. i : LinesTo(Text(f), n) = LinesTo(t, n)
      /\ \A n \in i .. e.last_byte : LinesTo(Text(f), n + 1) = LinesTo(t, n) + nl
  BY <1>3, <1>4, LinesAhead, LinesBehind DEF nl
<1>8. Lined(f)
  <2>1. i \in i .. e.last_byte /\ e.last_byte \in i .. e.last_byte
    BY <1>4
  <2>2. LinesTo(Text(f), i + 1) = LinesTo(t, i) + nl
    BY <2>1, <1>7
  <2>3. LinesTo(Text(f), e.last_byte + 1) = LinesTo(t, e.last_byte) + nl
    BY <2>1, <1>7
  <2>4. e.curs_line = LinesTo(t, i) /\ e.total_lines = LinesTo(t, e.last_byte)
    BY <1>1 DEF Lined, t, i
  <2> QED BY <2>2, <2>3, <2>4, <1>2, <1>5 DEF Lined, i
<1>9. Plain(f)
  <2>1. f.last_byte <= SIZE_LIMIT
    BY <1>2, <1>4, SizeLimitIs
  <2>2. /\ One(e.curs1 < e.start_display) \in {0, 1}
        /\ One(e.curs1 < e.start_display /\ c = Newline) \in {0, 1}
        /\ One(e.mark1 > e.curs1) \in {0, 1} /\ One(e.mark2 > e.curs1) \in {0, 1}
    BY DEF One
  <2>3. f.start_display \in Nat /\ f.start_line \in Int
    BY <2>2, <1>1, <1>2 DEF Plain
  <2>4. f.mark1 \in Int /\ f.mark1 >= -2 /\ f.mark2 \in Int /\ f.mark2 >= -2
    BY <2>2, <1>1, <1>2 DEF Plain
  <2>5. f.prev_col \in Int
    BY <1>1, <1>2 DEF Plain
  <2> QED BY <2>1, <2>3, <2>4, <2>5 DEF Plain
<1>10. ASSUME InRange(e) PROVE InRange(f)
  <2>1. Markable(f)
    BY <1>2, <1>4, <1>10 DEF InRange, Markable, One
  <2> DEFINE d == e.start_display
  <2>2. d \in 0 .. e.last_byte /\ e.start_line = LinesTo(t, d)
    BY <1>10 DEF InRange, Windowed, t, d
  <2> HIDE DEF d
  <2>3. CASE i < d
    <3>1. f.start_display = d + 1 /\ f.start_line = e.start_line + nl
      BY <2>2, <2>3, <1>2, <1>4, <1>5 DEF One, i, d
    <3>2. d \in i .. e.last_byte /\ d + 1 \in 0 .. e.last_byte + 1
      BY <2>2, <2>3, <1>4
    <3>3. LinesTo(Text(f), d + 1) = LinesTo(t, d) + nl
      BY <3>2, <1>7
    <3> QED BY <3>1, <3>2, <3>3, <2>1, <2>2, <1>2 DEF InRange, Windowed
  <2>4. CASE ~ (i < d)
    <3>1. f.start_display = d /\ f.start_line = e.start_line
      <4>1. One(e.curs1 < e.start_display) = 0 /\ One(e.curs1 < e.start_display /\ c = Newline) = 0
        BY <2>4 DEF One, i, d
      <4>2. LinesTo(t, d) \in Nat
        BY <1>6, <2>2
      <4> QED BY <4>1, <4>2, <2>2, <1>2, <1>4 DEF d
    <3>2. d \in 0 .. i /\ d \in 0 .. e.last_byte + 1
      BY <2>2, <2>4, <1>4
    <3>3. LinesTo(Text(f), d) = LinesTo(t, d)
      BY <3>2, <1>7
    <3> QED BY <3>1, <3>2, <3>3, <2>1, <2>2, <1>2, <1>4 DEF InRange, Windowed
  <2> QED BY <2>3, <2>4
<1> QED BY <1>2, <1>3, <1>8, <1>9, <1>10 DEF Sound, f
LEMMA InsertAheadSound ==
  ASSUME NEW e, Sound(e), NEW c \in Byte, ~ (e.last_byte >= SIZE_LIMIT)
  PROVE  Sound(InsertAhead(e, c)) /\ (InRange(e) => InRange(InsertAhead(e, c)))
<1> DEFINE f == InsertAhead(e, c)
           t == Text(e)
           i == e.curs1
           nl == One(c = Newline)
<1>1. IsEdit(e) /\ Tabled(e) /\ Plain(e) /\ Lined(e)
  BY DEF Sound
<1>2. /\ IsEdit(f) /\ f.curs1 = e.curs1 /\ f.last_byte = e.last_byte + 1
      /\ f.curs_line = e.curs_line
      /\ f.total_lines = e.total_lines + 1 * nl
      /\ f.prev_col = e.prev_col
      /\ f.start_display = e.start_display + 1 * One(e.curs1 < e.start_display)
      /\ f.start_line = e.start_line + 1 * One(e.curs1 < e.start_display /\ c = Newline)
      /\ f.mark1 = e.mark1 + One(e.mark1 >= e.curs1)
      /\ f.mark2 = e.mark2 + One(e.mark2 >= e.curs1)
  BY <1>1, InsertAheadIs
<1>3. Tabled(f) /\ Text(f) = Inserted(t, i, c)
  BY <1>1, InsertAheadText
<1> HIDE DEF f
<1>4. t \in Seq(Byte) /\ Len(t) = e.last_byte /\ i \in 0 .. Len(t) /\ e.last_byte \in Nat
  <2>1. t \in Seq(Byte) /\ Len(t) = e.last_byte
    BY <1>1, TextIs
  <2> QED BY <2>1, <1>1 DEF Tabled
<1>5. nl \in {0, 1} /\ (c = Newline => nl = 1) /\ (c # Newline => nl = 0)
  BY DEF One
<1> HIDE DEF t, i, nl
<1>6. \A n \in 0 .. e.last_byte : LinesTo(t, n) \in Nat
  BY LinesType
<1>7. /\ \A n \in 0 .. i : LinesTo(Text(f), n) = LinesTo(t, n)
      /\ \A n \in i .. e.last_byte : LinesTo(Text(f), n + 1) = LinesTo(t, n) + nl
  BY <1>3, <1>4, LinesAhead, LinesBehind DEF nl
<1>8. Lined(f)
  <2>1. i \in 0 .. i /\ e.last_byte \in i .. e.last_byte
    BY <1>4
  <2>2. LinesTo(Text(f), i) = LinesTo(t, i)
    BY <2>1, <1>7
  <2>3. LinesTo(Text(f), e.last_byte + 1) = LinesTo(t, e.last_byte) + nl
    BY <2>1, <1>7
  <2>4. e.curs_line = LinesTo(t, i) /\ e.total_lines = LinesTo(t, e.last_byte)
    BY <1>1 DEF Lined, t, i
  <2> QED BY <2>2, <2>3, <2>4, <1>2, <1>5 DEF Lined, i
<1>9. Plain(f)
  <2>1. f.last_byte <= SIZE_LIMIT
    BY <1>2, <1>4, SizeLimitIs
  <2>2. /\ One(e.curs1 < e.start_display) \in {0, 1}
        /\ One(e.curs1 < e.start_display /\ c = Newline) \in {0, 1}
        /\ One(e.mark1 >= e.curs1) \in {0, 1} /\ One(e.mark2 >= e.curs1) \in {0, 1}
    BY DEF One
  <2>3. f.start_display \in Nat /\ f.start_line \in Int
    BY <2>2, <1>1, <1>2 DEF Plain
  <2>4. f.mark1 \in Int /\ f.mark1 >= -2 /\ f.mark2 \in Int /\ f.mark2 >= -2
    BY <2>2, <1>1, <1>2 DEF Plain
  <2>5. f.prev_col \in Int
    BY <1>1, <1>2 DEF Plain
  <2> QED BY <2>1, <2>3, <2>4, <2>5 DEF Plain
<1>10. ASSUME InRange(e) PROVE InRange(f)
  <2>1. Markable(f)
    BY <1>2, <1>4, <1>10, SMTT(60) DEF InRange, Markable, One
  <2> DEFINE d == e.start_display
  <2>2. d \in 0 .. e.last_byte /\ e.start_line = LinesTo(t, d)
    BY <1>10 DEF InRange, Windowed, t, d
  <2> HIDE DEF d
  <2>3. CASE i < d
    <3>1. f.start_display = d + 1 /\ f.start_line = e.start_line + nl
      BY <2>2, <2>3, <1>2, <1>4, <1>5 DEF One, i, d
    <3>2. d \in i .. e.last_byte /\ d + 1 \in 0 .. e.last_byte + 1
      BY <2>2, <2>3, <1>4
    <3>3. LinesTo(Text(f), d + 1) = LinesTo(t, d) + nl
      BY <3>2, <1>7
    <3> QED BY <3>1, <3>2, <3>3, <2>1, <2>2, <1>2 DEF InRange, Windowed
  <2>4. CASE ~ (i < d)
    <3>1. f.start_display = d /\ f.start_line = e.start_line
      <4>1. One(e.curs1 < e.start_display) = 0 /\ One(e.curs1 < e.start_display /\ c = Newline) = 0
        BY <2>4 DEF One, i, d
      <4>2. LinesTo(t, d) \in Nat
        BY <1>6, <2>2
      <4> QED BY <4>1, <4>2, <2>2, <1>2, <1>4 DEF d
    <3>2. d \in 0 .. i /\ d \in 0 .. e.last_byte + 1
      BY <2>2, <2>4, <1>4
    <3>3. LinesTo(Text(f), d) = LinesTo(t, d)
      BY <3>2, <1>7
    <3> QED BY <3>1, <3>2, <3>3, <2>1, <2>2, <1>2, <1>4 DEF InRange, Windowed
  <2> QED BY <2>3, <2>4
<1> QED BY <1>2, <1>3, <1>8, <1>9, <1>10 DEF Sound, f
LEMMA DeleteSound ==
  ASSUME NEW e, Sound(e), e.curs2 # 0
  PROVE  Sound(Delete(e)) /\ (InRange(e) => InRange(Delete(e)))
<1> DEFINE f == Delete(e)
           p == At2(e, e.curs2 - 1)
           t == Text(f)
           i == e.curs1
           nl == One(p = Newline)
           n == e.last_byte - 1
<1>1. IsEdit(e) /\ Tabled(e) /\ Plain(e) /\ Lined(e)
  BY DEF Sound
<1>11. e.curs1 \in Nat /\ e.curs2 \in Nat /\ e.last_byte = e.curs1 + e.curs2
       /\ e.curs2 \in Nat \ {0} /\ i \in 0 .. n
  BY <1>1 DEF Tabled
<1>2. /\ IsEdit(f) /\ f.curs1 = i /\ f.last_byte = e.last_byte + (-1)
      /\ f.curs_line = e.curs_line
      /\ f.total_lines = e.total_lines + (-1) * nl
      /\ f.prev_col = e.prev_col
      /\ f.start_display = e.start_display + (-1) * One(e.curs1 < e.start_display)
      /\ f.start_line = e.start_line + (-1) * One(e.curs1 < e.start_display /\ p = Newline)
      /\ f.mark1 = e.mark1 - One(e.mark1 > e.curs1)
      /\ f.mark2 = e.mark2 - One(e.mark2 > e.curs1)
  BY <1>1, <1>11, DeleteIs
<1>3. Tabled(f) /\ p \in Byte /\ Text(e) = Inserted(t, i, p)
  BY <1>1, DeleteText
<1> HIDE DEF f, p
<1>4. t \in Seq(Byte) /\ Len(t) = n /\ i \in 0 .. Len(t) /\ n \in Nat /\ f.last_byte = n
      /\ e.last_byte = n + 1
  <2>1. t \in Seq(Byte) /\ Len(t) = f.last_byte
    BY <1>3, TextIs
  <2>2. f.last_byte = n /\ n \in Nat /\ e.last_byte = n + 1
    BY <1>2, <1>11
  <2> QED BY <2>1, <2>2, <1>11
<1>5. nl \in {0, 1} /\ (p = Newline => nl = 1) /\ (p # Newline => nl = 0)
  BY DEF One
<1> HIDE DEF t, i, nl, n
<1>6. \A k \in 0 .. n : LinesTo(t, k) \in Nat
  BY LinesType
<1>7. /\ \A k \in 0 .. i : LinesTo(Text(e), k) = LinesTo(t, k)
      /\ \A k \in i .. n : LinesTo(Text(e), k + 1) = LinesTo(t, k) + nl
  BY <1>3, <1>4, LinesAhead, LinesBehind DEF nl
<1>61. i \in 0 .. n /\ n \in 0 .. n /\ i \in 0 .. i /\ i \in i .. n /\ n \in i .. n
  BY <1>4
<1>62. LinesTo(t, i) \in Nat /\ LinesTo(t, n) \in Nat
  BY <1>6, <1>61
<1>8. Lined(f)
  <2>2. LinesTo(Text(e), i) = LinesTo(t, i)
    BY <1>61, <1>7
  <2>3. LinesTo(Text(e), n + 1) = LinesTo(t, n) + nl
    BY <1>61, <1>7
  <2>4. e.curs_line = LinesTo(Text(e), e.curs1) /\ e.total_lines = LinesTo(Text(e), n + 1)
    BY <1>1, <1>4 DEF Lined
  <2>5. e.curs1 = i
    BY <1>11 DEF i
  <2>6. f.curs_line = LinesTo(t, i)
    BY <2>2, <2>4, <2>5, <1>2, <1>5, <1>62
  <2>7. f.total_lines = LinesTo(t, n)
    BY <2>3, <2>4, <1>2, <1>5, <1>62
  <2> QED BY <2>6, <2>7, <1>2, <1>4 DEF Lined, t
<1>9. Plain(f)
  <2>1. f.last_byte <= SIZE_LIMIT
    BY <1>1, <1>4, SizeLimitIs DEF Plain
  <2>2. /\ One(e.curs1 < e.start_display) \in {0, 1}
        /\ One(e.curs1 < e.start_display /\ p = Newline) \in {0, 1}
        /\ One(e.mark1 > e.curs1) \in {0, 1} /\ One(e.mark2 > e.curs1) \in {0, 1}
    BY DEF One
  <2>3. f.start_display \in Nat /\ f.start_line \in Int
    <3>1. CASE e.curs1 < e.start_display
      BY <3>1, <2>2, <1>1, <1>2, <1>11 DEF Plain
    <3>2. CASE ~ (e.curs1 < e.start_display)
      <4>1. One(e.curs1 < e.start_display) = 0
        BY <3>2 DEF One
      <4> QED BY <4>1, <2>2, <1>1, <1>2 DEF Plain
    <3> QED BY <3>1, <3>2
  <2>4. f.mark1 \in Int /\ f.mark1 >= -2 /\ f.mark2 \in Int /\ f.mark2 >= -2
    BY <1>1, <1>2, <1>11 DEF Plain, One
  <2>5. f.prev_col \in Int
    BY <1>1, <1>2 DEF Plain
  <2> QED BY <2>1, <2>3, <2>4, <2>5 DEF Plain
<1>10. ASSUME InRange(e) PROVE InRange(f)
  <2>1. Markable(f)
    <3>1. e.mark1 \in 0 .. e.last_byte /\ e.mark2 \in -1 .. e.last_byte
      BY <1>10 DEF InRange, Markable
    <3>2. f.mark1 \in 0 .. n
      BY <3>1, <1>2, <1>4, <1>11 DEF One
    <3>3. f.mark2 \in -1 .. n
      BY <3>1, <1>2, <1>4, <1>11 DEF One
    <3> QED BY <3>2, <3>3, <1>4 DEF Markable
  <2> DEFINE d == e.start_display
  <2>2. d \in 0 .. n + 1 /\ e.start_line = LinesTo(Text(e), d)
    BY <1>10, <1>4 DEF InRange, Windowed, d
  <2> HIDE DEF d
  <2>3. CASE i < d
    <3>1. f.start_display = d - 1 /\ f.start_line = e.start_line - nl
      <4>1. e.curs1 < e.start_display
        BY <2>3 DEF d, i
      <4>2. One(e.curs1 < e.start_display) = 1
        BY <4>1 DEF One
      <4>3. One(e.curs1 < e.start_display /\ p = Newline) = nl
        BY <4>1 DEF One, nl
      <4> QED BY <4>2, <4>3, <2>2, <1>2, <1>4, <1>5, LinesType DEF d
    <3> DEFINE q == d - 1
    <3>2. q \in i .. n /\ q \in 0 .. n /\ q + 1 = d
      BY <2>2, <2>3, <1>4
    <3> HIDE DEF q
    <3>3. LinesTo(Text(e), q + 1) = LinesTo(t, q) + nl /\ LinesTo(t, q) \in Nat
      BY <3>2, <1>6, <1>7
    <3>4. f.start_display = q
      BY <3>1 DEF q
    <3>5. f.start_line = LinesTo(t, q)
      BY <3>1, <3>2, <3>3, <2>2, <1>5
    <3> QED BY <3>2, <3>4, <3>5, <2>1, <1>4 DEF InRange, Windowed, t
  <2>4. CASE ~ (i < d)
    <3>1. f.start_display = d /\ f.start_line = e.start_line
      <4>1. One(e.curs1 < e.start_display) = 0 /\ One(e.curs1 < e.start_display /\ p = Newline) = 0
        BY <2>4 DEF One, i, d
      <4>2. e.start_line \in Int
        BY <1>1 DEF Plain
      <4> QED BY <4>1, <4>2, <2>2, <1>2, <1>4 DEF d
    <3>2. d \in 0 .. i /\ d \in 0 .. n
      BY <2>2, <2>4, <1>4
    <3>3. LinesTo(Text(e), d) = LinesTo(t, d)
      BY <3>2, <1>7
    <3> QED BY <3>1, <3>2, <3>3, <2>1, <2>2, <1>4 DEF InRange, Windowed, t
  <2> QED BY <2>3, <2>4
<1> QED BY <1>2, <1>3, <1>8, <1>9, <1>10 DEF Sound, f

LEMMA BackspaceSound ==
  ASSUME NEW e, Sound(e), e.curs1 # 0
  PROVE  Sound(Backspace(e)) /\ (InRange(e) => InRange(Backspace(e)))
<1> DEFINE f == Backspace(e)
           p == At1(e, e.curs1 - 1)
           t == Text(f)
           i == e.curs1 - 1
           nl == One(p = Newline)
           n == e.last_byte - 1
<1>1. IsEdit(e) /\ Tabled(e) /\ Plain(e) /\ Lined(e)
  BY DEF Sound
<1>11. e.curs1 \in Nat /\ e.curs2 \in Nat /\ e.last_byte = e.curs1 + e.curs2
       /\ e.curs1 \in Nat \ {0} /\ i \in 0 .. n
  BY <1>1 DEF Tabled
<1>2. /\ IsEdit(f) /\ f.curs1 = i /\ f.last_byte = e.last_byte + (-1)
      /\ f.curs_line = e.curs_line - nl
      /\ f.total_lines = e.total_lines + (-1) * nl
      /\ f.prev_col = e.prev_col
      /\ f.start_display = e.start_display + (-1) * One(e.curs1 - 1 < e.start_display)
      /\ f.start_line = e.start_line + (-1) * One(e.curs1 - 1 < e.start_display /\ p = Newline)
      /\ f.mark1 = e.mark1 - One(e.mark1 >= e.curs1)
      /\ f.mark2 = e.mark2 - One(e.mark2 >= e.curs1)
  BY <1>1, <1>11, BackspaceIs
<1>3. Tabled(f) /\ p \in Byte /\ Text(e) = Inserted(t, i, p)
  BY <1>1, BackspaceText
<1> HIDE DEF f, p
<1>4. t \in Seq(Byte) /\ Len(t) = n /\ i \in 0 .. Len(t) /\ n \in Nat /\ f.last_byte = n
      /\ e.last_byte = n + 1
  <2>1. t \in Seq(Byte) /\ Len(t) = f.last_byte
    BY <1>3, TextIs
  <2>2. f.last_byte = n /\ n \in Nat /\ e.last_byte = n + 1
    BY <1>2, <1>11
  <2> QED BY <2>1, <2>2, <1>11
<1>5. nl \in {0, 1} /\ (p = Newline => nl = 1) /\ (p # Newline => nl = 0)
  BY DEF One
<1> HIDE DEF t, i, nl, n
<1>6. \A k \in 0 .. n : LinesTo(t, k) \in Nat
  BY LinesType
<1>7. /\ \A k \in 0 .. i : LinesTo(Text(e), k) = LinesTo(t, k)
      /\ \A k \in i .. n : LinesTo(Text(e), k + 1) = LinesTo(t, k) + nl
  BY <1>3, <1>4, LinesAhead, LinesBehind DEF nl
<1>61. i \in 0 .. n /\ n \in 0 .. n /\ i \in 0 .. i /\ i \in i .. n /\ n \in i .. n
  BY <1>4
<1>62. LinesTo(t, i) \in Nat /\ LinesTo(t, n) \in Nat
  BY <1>6, <1>61
<1>8. Lined(f)
  <2>2. LinesTo(Text(e), i + 1) = LinesTo(t, i) + nl
    BY <1>61, <1>7
  <2>3. LinesTo(Text(e), n + 1) = LinesTo(t, n) + nl
    BY <1>61, <1>7
  <2>4. e.curs_line = LinesTo(Text(e), e.curs1) /\ e.total_lines = LinesTo(Text(e), n + 1)
    BY <1>1, <1>4 DEF Lined
  <2>5. e.curs1 = i + 1
    BY <1>11 DEF i
  <2>6. f.curs_line = LinesTo(t, i)
    BY <2>2, <2>4, <2>5, <1>2, <1>5, <1>62
  <2>7. f.total_lines = LinesTo(t, n)
    BY <2>3, <2>4, <1>2, <1>5, <1>62
  <2> QED BY <2>6, <2>7, <1>2, <1>4 DEF Lined, t
<1>9. Plain(f)
  <2>1. f.last_byte <= SIZE_LIMIT
    BY <1>1, <1>4, SizeLimitIs DEF Plain
  <2>2. /\ One(e.curs1 - 1 < e.start_display) \in {0, 1}
        /\ One(e.curs1 - 1 < e.start_display /\ p = Newline) \in {0, 1}
        /\ One(e.mark1 >= e.curs1) \in {0, 1} /\ One(e.mark2 >= e.curs1) \in {0, 1}
    BY DEF One
  <2>3. f.start_display \in Nat /\ f.start_line \in Int
    <3>1. CASE e.curs1 - 1 < e.start_display
      BY <3>1, <2>2, <1>1, <1>2, <1>11 DEF Plain
    <3>2. CASE ~ (e.curs1 - 1 < e.start_display)
      <4>1. One(e.curs1 - 1 < e.start_display) = 0
        BY <3>2 DEF One
      <4> QED BY <4>1, <2>2, <1>1, <1>2 DEF Plain
    <3> QED BY <3>1, <3>2
  <2>4. f.mark1 \in Int /\ f.mark1 >= -2 /\ f.mark2 \in Int /\ f.mark2 >= -2
    BY <1>1, <1>2, <1>11 DEF Plain, One
  <2>5. f.prev_col \in Int
    BY <1>1, <1>2 DEF Plain
  <2> QED BY <2>1, <2>3, <2>4, <2>5 DEF Plain
<1>10. ASSUME InRange(e) PROVE InRange(f)
  <2>1. Markable(f)
    <3>1. e.mark1 \in 0 .. e.last_byte /\ e.mark2 \in -1 .. e.last_byte
      BY <1>10 DEF InRange, Markable
    <3>2. f.mark1 \in 0 .. n
      BY <3>1, <1>2, <1>4, <1>11 DEF One
    <3>3. f.mark2 \in -1 .. n
      BY <3>1, <1>2, <1>4, <1>11 DEF One
    <3> QED BY <3>2, <3>3, <1>4 DEF Markable
  <2> DEFINE d == e.start_display
  <2>2. d \in 0 .. n + 1 /\ e.start_line = LinesTo(Text(e), d)
    BY <1>10, <1>4 DEF InRange, Windowed, d
  <2> HIDE DEF d
  <2>3. CASE i < d
    <3>1. f.start_display = d - 1 /\ f.start_line = e.start_line - nl
      <4>1. e.curs1 - 1 < e.start_display
        BY <2>3 DEF d, i
      <4>2. One(e.curs1 - 1 < e.start_display) = 1
        BY <4>1 DEF One
      <4>3. One(e.curs1 - 1 < e.start_display /\ p = Newline) = nl
        BY <4>1 DEF One, nl
      <4> QED BY <4>2, <4>3, <2>2, <1>2, <1>4, <1>5, LinesType DEF d
    <3> DEFINE q == d - 1
    <3>2. q \in i .. n /\ q \in 0 .. n /\ q + 1 = d
      BY <2>2, <2>3, <1>4
    <3> HIDE DEF q
    <3>3. LinesTo(Text(e), q + 1) = LinesTo(t, q) + nl /\ LinesTo(t, q) \in Nat
      BY <3>2, <1>6, <1>7
    <3>4. f.start_display = q
      BY <3>1 DEF q
    <3>5. f.start_line = LinesTo(t, q)
      BY <3>1, <3>2, <3>3, <2>2, <1>5
    <3> QED BY <3>2, <3>4, <3>5, <2>1, <1>4 DEF InRange, Windowed, t
  <2>4. CASE ~ (i < d)
    <3>1. f.start_display = d /\ f.start_line = e.start_line
      <4>1. One(e.curs1 - 1 < e.start_display) = 0 /\ One(e.curs1 - 1 < e.start_display /\ p = Newline) = 0
        BY <2>4 DEF One, i, d
      <4>2. e.start_line \in Int
        BY <1>1 DEF Plain
      <4> QED BY <4>1, <4>2, <2>2, <1>2, <1>4 DEF d
    <3>2. d \in 0 .. i /\ d \in 0 .. n
      BY <2>2, <2>4, <1>4
    <3>3. LinesTo(Text(e), d) = LinesTo(t, d)
      BY <3>2, <1>7
    <3> QED BY <3>1, <3>2, <3>3, <2>1, <2>2, <1>4 DEF InRange, Windowed, t
  <2> QED BY <2>3, <2>4
<1> QED BY <1>2, <1>3, <1>8, <1>9, <1>10 DEF Sound, f

LEMMA LeftSound ==
  ASSUME NEW e, Sound(e), e.curs1 # 0
  PROVE  Sound(Left(e)) /\ (InRange(e) => InRange(Left(e)))
<1> DEFINE f == Left(e)
           p == GetByte(e, e.curs1 - 1)
           i == e.curs1 - 1
           nl == One(p = Newline)
<1>1. IsEdit(e) /\ Tabled(e) /\ Plain(e) /\ Lined(e)
  BY DEF Sound
<1>11. e.curs1 \in Nat /\ e.curs2 \in Nat /\ e.curs1 \in Nat \ {0}
  BY <1>1 DEF Tabled
<1>2. /\ IsEdit(f) /\ f.curs1 = e.curs1 - 1 /\ f.last_byte = e.last_byte
      /\ f.curs_line = e.curs_line - nl
      /\ f.total_lines = e.total_lines /\ f.prev_col = e.prev_col
      /\ f.start_display = e.start_display /\ f.start_line = e.start_line
      /\ f.mark1 = e.mark1 /\ f.mark2 = e.mark2
  BY <1>1, <1>11, LeftIs
<1>3. Tabled(f) /\ Text(f) = Text(e) /\ p = Text(e)[e.curs1]
  BY <1>1, LeftText
<1> HIDE DEF f, p
<1>4. i \in Nat /\ e.curs1 = i + 1 /\ f.curs1 = i
  BY <1>2, <1>11
<1> HIDE DEF i
<1>5. LinesTo(Text(e), i + 1) = LinesTo(Text(e), i) + nl
  <2>1. Text(e)[i + 1] = p
    BY <1>3, <1>4
  <2> QED BY <2>1, <1>4, LinesNext
<1>6. LinesTo(Text(e), i) \in Nat /\ nl \in {0, 1}
  BY <1>4, LinesType DEF One
<1> HIDE DEF nl
<1>7. Lined(f)
  BY <1>1, <1>2, <1>3, <1>4, <1>5, <1>6 DEF Lined
<1>8. Plain(f)
  BY <1>1, <1>2 DEF Plain
<1>9. InRange(e) => InRange(f)
  BY <1>2, <1>3 DEF InRange, Windowed, Markable
<1> QED BY <1>2, <1>3, <1>7, <1>8, <1>9 DEF Sound, f

LEMMA RightSound ==
  ASSUME NEW e, Sound(e), e.curs2 # 0
  PROVE  Sound(Right(e)) /\ (InRange(e) => InRange(Right(e)))
<1> DEFINE f == Right(e)
           p == GetByte(e, e.curs1)
           i == e.curs1
           nl == One(p = Newline)
<1>1. IsEdit(e) /\ Tabled(e) /\ Plain(e) /\ Lined(e)
  BY DEF Sound
<1>11. e.curs1 \in Nat /\ e.curs2 \in Nat /\ e.curs2 \in Nat \ {0}
  BY <1>1 DEF Tabled
<1>2. /\ IsEdit(f) /\ f.curs1 = e.curs1 + 1 /\ f.last_byte = e.last_byte
      /\ f.curs_line = e.curs_line + nl
      /\ f.total_lines = e.total_lines /\ f.prev_col = e.prev_col
      /\ f.start_display = e.start_display /\ f.start_line = e.start_line
      /\ f.mark1 = e.mark1 /\ f.mark2 = e.mark2
  BY <1>1, <1>11, RightIs
<1>3. Tabled(f) /\ Text(f) = Text(e) /\ p = Text(e)[e.curs1 + 1]
  BY <1>1, RightText
<1> HIDE DEF f, p
<1>4. i \in Nat /\ e.curs1 = i /\ f.curs1 = i + 1
  BY <1>2, <1>11
<1> HIDE DEF i
<1>5. LinesTo(Text(e), i + 1) = LinesTo(Text(e), i) + nl
  <2>1. Text(e)[i + 1] = p
    BY <1>3, <1>4
  <2> QED BY <2>1, <1>4, LinesNext
<1>6. LinesTo(Text(e), i) \in Nat /\ nl \in {0, 1}
  BY <1>4, LinesType DEF One
<1> HIDE DEF nl
<1>7. Lined(f)
  BY <1>1, <1>2, <1>3, <1>4, <1>5, <1>6 DEF Lined
<1>8. Plain(f)
  BY <1>1, <1>2 DEF Plain
<1>9. InRange(e) => InRange(f)
  BY <1>2, <1>3 DEF InRange, Windowed, Markable
<1> QED BY <1>2, <1>3, <1>7, <1>8, <1>9 DEF Sound, f

-----------------------------------------------------------------------------
(* The ring of the undo stack as a sequence of entries.                    *)

IsRing(u) ==
  /\ u = [x \in {"undo_stack", "stack_pointer", "stack_bottom", "stack_size"} |-> u[x]]
  /\ u.stack_size \in Nat /\ u.stack_size > 5
  /\ u.undo_stack \in [0 .. u.stack_size - 1 -> Int]
  /\ u.stack_pointer \in 0 .. u.stack_size - 1
  /\ u.stack_bottom \in 0 .. u.stack_size - 1
Ring(u) ==
  /\ IsRing(u) /\ u.stack_size > Slack
  /\ Depth(u) <= u.stack_size - 4
  /\ u.stack_size < MaxUndo => u.stack_bottom = 0

Slot(u, k) == (u.stack_bottom + k - 1) % u.stack_size
Entries(u) == [k \in 1 .. Depth(u) |-> Entry(u, u.stack_bottom + k - 1)]

LEMMA ModIs ==
  ASSUME NEW n \in Nat, n > 0, NEW x \in Int
  PROVE  /\ 0 <= x /\ x < n => x % n = x
         /\ n <= x /\ x < 2 * n => x % n = x - n
         /\ -n <= x /\ x < 0 => x % n = x + n
OBVIOUS

LEMMA DepthIs ==
  ASSUME NEW u, IsRing(u)
  PROVE  /\ Depth(u) \in 0 .. u.stack_size - 1
         /\ u.stack_pointer >= u.stack_bottom => Depth(u) = u.stack_pointer - u.stack_bottom
         /\ u.stack_pointer < u.stack_bottom =>
              Depth(u) = u.stack_pointer - u.stack_bottom + u.stack_size
<1> DEFINE n == u.stack_size
           p == u.stack_pointer
           b == u.stack_bottom
<1>1. n \in Nat /\ n > 5 /\ p \in 0 .. n - 1 /\ b \in 0 .. n - 1
  BY DEF IsRing
<1>2. Depth(u) = (p - b) % n
  BY DEF Depth
<1> HIDE DEF n, p, b
<1>3. CASE p >= b
  <2>1. p - b \in Int /\ 0 <= p - b /\ p - b < n
    BY <1>1, <1>3
  <2>2. (p - b) % n = p - b
    BY <2>1, <1>1, ModIs
  <2> QED BY <2>1, <2>2, <1>1, <1>2, <1>3 DEF n, p, b
<1>4. CASE p < b
  <2>1. p - b \in Int /\ -n <= p - b /\ p - b < 0
    BY <1>1, <1>4
  <2>2. (p - b) % n = p - b + n
    BY <2>1, <1>1, ModIs
  <2> QED BY <2>1, <2>2, <1>1, <1>2, <1>4 DEF n, p, b
<1> QED BY <1>1, <1>3, <1>4

LEMMA SlotIs ==
  ASSUME NEW u, IsRing(u), NEW k \in 1 .. u.stack_size
  PROVE  /\ Slot(u, k) \in 0 .. u.stack_size - 1
         /\ u.stack_bottom + k - 1 < u.stack_size => Slot(u, k) = u.stack_bottom + k - 1
         /\ u.stack_bottom + k - 1 >= u.stack_size =>
              Slot(u, k) = u.stack_bottom + k - 1 - u.stack_size
<1> DEFINE n == u.stack_size
           b == u.stack_bottom
           x == b + k - 1
<1>1. n \in Nat /\ n > 5 /\ b \in 0 .. n - 1 /\ k \in 1 .. n
  BY DEF IsRing
<1>2. Slot(u, k) = x % n
  BY DEF Slot
<1> HIDE DEF n, b
<1>3. x \in Int /\ 0 <= x /\ x < 2 * n
  BY <1>1
<1> HIDE DEF x
<1>4. CASE x < n
  <2>1. x % n = x
    BY <1>1, <1>3, <1>4, ModIs
  <2> QED BY <2>1, <1>1, <1>2, <1>3, <1>4 DEF n, b, x
<1>5. CASE x >= n
  <2>1. x % n = x - n
    BY <1>1, <1>3, <1>5, ModIs
  <2> QED BY <2>1, <1>1, <1>2, <1>3, <1>5 DEF n, b, x
<1> QED BY <1>1, <1>3, <1>4, <1>5

LEMMA SlotsDiffer ==
  ASSUME NEW u, IsRing(u), NEW k \in 1 .. u.stack_size, NEW l \in 1 .. u.stack_size,
         Slot(u, k) = Slot(u, l)
  PROVE  k = l
<1>1. u.stack_size \in Nat /\ u.stack_bottom \in 0 .. u.stack_size - 1
  BY DEF IsRing
<1>2. /\ u.stack_bottom + k - 1 < u.stack_size => Slot(u, k) = u.stack_bottom + k - 1
      /\ u.stack_bottom + k - 1 >= u.stack_size =>
              Slot(u, k) = u.stack_bottom + k - 1 - u.stack_size
  BY SlotIs
<1>3. /\ u.stack_bottom + l - 1 < u.stack_size => Slot(u, l) = u.stack_bottom + l - 1
      /\ u.stack_bottom + l - 1 >= u.stack_size =>
              Slot(u, l) = u.stack_bottom + l - 1 - u.stack_size
  BY SlotIs
<1> QED BY <1>1, <1>2, <1>3

(* The places next to the stack pointer.                                   *)
LEMMA PointerIs ==
  ASSUME NEW u, IsRing(u)
  PROVE  /\ Slot(u, Depth(u) + 1) = u.stack_pointer
         /\ Depth(u) >= 1 => (u.stack_pointer - 1) % u.stack_size = Slot(u, Depth(u))
         /\ Depth(u) >= 2 => (u.stack_pointer - 2) % u.stack_size = Slot(u, Depth(u) - 1)
<1> DEFINE n == u.stack_size
           p == u.stack_pointer
           b == u.stack_bottom
           d == Depth(u)
<1>1. n \in Nat /\ n > 5 /\ n > 0 /\ p \in 0 .. n - 1 /\ b \in 0 .. n - 1
  BY DEF IsRing
<1>2. d \in 0 .. n - 1 /\ (p >= b => d = p - b) /\ (p < b => d = p - b + n)
  BY DepthIs
<1>3. ASSUME NEW k \in 1 .. n
      PROVE  /\ b + k - 1 < n => Slot(u, k) = b + k - 1
             /\ b + k - 1 >= n => Slot(u, k) = b + k - 1 - n
  BY SlotIs
<1> HIDE DEF n, p, b, d
<1>4. Slot(u, d + 1) = p
  <2>1. d + 1 \in 1 .. n
    BY <1>1, <1>2
  <2>2. /\ b + (d + 1) - 1 < n => Slot(u, d + 1) = b + (d + 1) - 1
        /\ b + (d + 1) - 1 >= n => Slot(u, d + 1) = b + (d + 1) - 1 - n
    BY <2>1, <1>3
  <2> QED BY <2>2, <1>1, <1>2
<1>5. ASSUME d >= 1 PROVE (p - 1) % n = Slot(u, d)
  <2>1. d \in 1 .. n
    BY <1>1, <1>2, <1>5
  <2>2. /\ b + d - 1 < n => Slot(u, d) = b + d - 1
        /\ b + d - 1 >= n => Slot(u, d) = b + d - 1 - n
    BY <2>1, <1>3
  <2>3. (0 <= p - 1 /\ p - 1 < n => (p - 1) % n = p - 1)
        /\ (-n <= p - 1 /\ p - 1 < 0 => (p - 1) % n = p - 1 + n)
    <3>1. p - 1 \in Int
      BY <1>1
    <3> QED BY <3>1, <1>1, ModIs
  <2> QED BY <2>1, <2>2, <2>3, <1>1, <1>2
<1>6. ASSUME d >= 2 PROVE (p - 2) % n = Slot(u, d - 1)
  <2>1. d - 1 \in 1 .. n
    BY <1>1, <1>2, <1>6
  <2>2. /\ b + (d - 1) - 1 < n => Slot(u, d - 1) = b + (d - 1) - 1
        /\ b + (d - 1) - 1 >= n => Slot(u, d - 1) = b + (d - 1) - 1 - n
    BY <2>1, <1>3
  <2>3. (0 <= p - 2 /\ p - 2 < n => (p - 2) % n = p - 2)
        /\ (-n <= p - 2 /\ p - 2 < 0 => (p - 2) % n = p - 2 + n)
    <3>1. p - 2 \in Int
      BY <1>1
    <3> QED BY <3>1, <1>1, ModIs
  <2> QED BY <2>1, <2>2, <2>3, <1>1, <1>2
<1> QED BY <1>4, <1>5, <1>6 DEF n, p, b, d

LEMMA EntriesAre ==
  ASSUME NEW u, IsRing(u)
  PROVE  /\ Entries(u) \in Seq(Int) /\ Len(Entries(u)) = Depth(u)
         /\ \A k \in 1 .. Depth(u) : Entries(u)[k] = u.undo_stack[Slot(u, k)]
         /\ Depth(u) = 0 <=> u.stack_pointer = u.stack_bottom
         /\ Depth(u) >= 1 => Entry(u, u.stack_pointer - 1) = Entries(u)[Depth(u)]
         /\ Depth(u) >= 2 => Entry(u, u.stack_pointer - 2) = Entries(u)[Depth(u) - 1]
<1> DEFINE d == Depth(u)
           s == Entries(u)
<1>1. d \in Nat /\ d <= u.stack_size - 1 /\ u.stack_size \in Nat
  BY DepthIs DEF IsRing
<1>2. \A k \in 1 .. d : s[k] = u.undo_stack[Slot(u, k)]
  BY DEF Entries, Entry, Slot
<1>3. \A k \in 1 .. d : s[k] \in Int
  <2> SUFFICES ASSUME NEW k \in 1 .. d PROVE u.undo_stack[Slot(u, k)] \in Int
    BY <1>2
  <2>1. k \in 1 .. u.stack_size
    BY <1>1
  <2>2. Slot(u, k) \in 0 .. u.stack_size - 1
    BY <2>1, SlotIs
  <2> QED BY <2>2 DEF IsRing
<1>4. s = [k \in 1 .. d |-> s[k]]
  BY DEF Entries
<1> HIDE DEF d, s
<1>5. s \in Seq(Int) /\ Len(s) = d
  BY <1>1, <1>3, <1>4
<1>6. d = 0 <=> u.stack_pointer = u.stack_bottom
  BY DepthIs DEF d, IsRing
<1>7. ASSUME d >= 1 PROVE Entry(u, u.stack_pointer - 1) = s[d]
  <2>1. d \in 1 .. d
    BY <1>1, <1>7
  <2>2. (u.stack_pointer - 1) % u.stack_size = Slot(u, d)
    BY <1>7, PointerIs DEF d
  <2> QED BY <2>1, <2>2, <1>2 DEF Entry
<1>8. ASSUME d >= 2 PROVE Entry(u, u.stack_pointer - 2) = s[d - 1]
  <2>1. d - 1 \in 1 .. d
    BY <1>1, <1>8
  <2>2. (u.stack_pointer - 2) % u.stack_size = Slot(u, d - 1)
    BY <1>8, PointerIs DEF d
  <2> QED BY <2>1, <2>2, <1>2 DEF Entry
<1> QED BY <1>2, <1>5, <1>6, <1>7, <1>8 DEF d, s

Roomy(u) == u.stack_size < MaxUndo => u.stack_pointer <= u.stack_size - 5

LEMMA SameEntries ==
  ASSUME NEW u, IsRing(u), NEW v, IsRing(v), Depth(v) = Depth(u),
         \A k \in 1 .. Depth(u) : v.undo_stack[Slot(v, k)] = u.undo_stack[Slot(u, k)]
  PROVE  Entries(v) = Entries(u)
BY DEF Entries, Entry, Slot

LEMMA SameDepth ==
  ASSUME NEW u, NEW v, v.stack_pointer = u.stack_pointer, v.stack_bottom = u.stack_bottom,
         v.stack_size = u.stack_size
  PROVE  Depth(v) = Depth(u) /\ \A k : Slot(v, k) = Slot(u, k)
BY DEF Depth, Slot

LEMMA OnStackIs ==
  ASSUME NEW u, IsRing(u)
  PROVE  /\ \A k \in 1 .. Depth(u) : Slot(u, k) \in OnStack(u)
         /\ \A i \in OnStack(u) : \E k \in 1 .. Depth(u) : i = Slot(u, k)
<1>0. Depth(u) \in Nat /\ u.stack_bottom \in Nat
  BY DepthIs DEF IsRing
<1>1. ASSUME NEW k \in 1 .. Depth(u) PROVE Slot(u, k) \in OnStack(u)
  <2>1. k - 1 \in 0 .. Depth(u) - 1 /\ u.stack_bottom + (k - 1) = u.stack_bottom + k - 1
    BY <1>0
  <2> QED BY <2>1 DEF Slot, OnStack
<1>2. ASSUME NEW i \in OnStack(u) PROVE \E k \in 1 .. Depth(u) : i = Slot(u, k)
  <2>1. PICK j \in 0 .. Depth(u) - 1 : i = (u.stack_bottom + j) % u.stack_size
    BY DEF OnStack
  <2>2. j + 1 \in 1 .. Depth(u) /\ u.stack_bottom + (j + 1) - 1 = u.stack_bottom + j
    BY <1>0
  <2>3. i = Slot(u, j + 1)
    BY <2>1, <2>2 DEF Slot
  <2> QED BY <2>2, <2>3
<1> QED BY <1>1, <1>2

LEMMA ClearedIs ==
  ASSUME NEW u, IsRing(u)
  PROVE  LET v == Cleared(u)
         IN /\ IsRing(v) /\ v.stack_pointer = u.stack_pointer
            /\ v.stack_bottom = u.stack_bottom /\ v.stack_size = u.stack_size
            /\ Depth(v) = Depth(u) /\ Entries(v) = Entries(u)
<1> DEFINE v == Cleared(u)
           w == [i \in 0 .. u.stack_size - 1 |-> IF i \in OnStack(u) THEN u.undo_stack[i] ELSE 0]
<1>1. v = [u EXCEPT !.undo_stack = w]
  BY DEF Cleared, IsRing
<1>2. w \in [0 .. u.stack_size - 1 -> Int]
  BY DEF IsRing
<1>3. \A i \in 0 .. u.stack_size - 1 : i \in OnStack(u) => w[i] = u.undo_stack[i]
  OBVIOUS
<1> HIDE DEF v, w
<1>4. /\ IsRing(v) /\ v.stack_pointer = u.stack_pointer /\ v.undo_stack = w
      /\ v.stack_bottom = u.stack_bottom /\ v.stack_size = u.stack_size
  BY <1>1, <1>2 DEF IsRing
<1>5. Depth(v) = Depth(u) /\ \A k : Slot(v, k) = Slot(u, k)
  BY <1>4, SameDepth
<1>6. ASSUME NEW k \in 1 .. Depth(u)
      PROVE  v.undo_stack[Slot(v, k)] = u.undo_stack[Slot(u, k)]
  <2>1. k \in 1 .. u.stack_size
    BY DepthIs DEF IsRing
  <2>2. Slot(u, k) \in 0 .. u.stack_size - 1 /\ Slot(u, k) \in OnStack(u)
    BY <2>1, SlotIs, OnStackIs
  <2> QED BY <2>2, <1>3, <1>4, <1>5
<1>7. Entries(v) = Entries(u)
  BY <1>4, <1>5, <1>6, SameEntries
<1> QED BY <1>4, <1>5, <1>7 DEF v

LEMMA GrownIs ==
  ASSUME NEW u, Ring(u)
  PROVE  Ring(Grown(u)) /\ Roomy(Grown(u)) /\ Entries(Grown(u)) = Entries(u)
<1>1. IsRing(u) /\ u.stack_size > Slack /\ Depth(u) <= u.stack_size - 4
      /\ (u.stack_size < MaxUndo => u.stack_bottom = 0)
      /\ u.stack_size \in Nat /\ u.stack_pointer \in 0 .. u.stack_size - 1
      /\ u.undo_stack \in [0 .. u.stack_size - 1 -> Int]
  BY DEF Ring, IsRing
<1>2. Slack \in Nat /\ Slack > 4 /\ MaxUndo \in Nat
  BY UndoStackAssumption
<1>3. CASE u.stack_pointer > u.stack_size - Slack /\ u.stack_size < MaxUndo
  <2> DEFINE w == [i \in 0 .. 2 * u.stack_size - 1 |->
                     IF i \in DOMAIN u.undo_stack THEN u.undo_stack[i] ELSE 0]
             v == [u EXCEPT !.stack_size = 2 * @, !.undo_stack = w]
  <2>1. Grown(u) = v
    BY <1>3 DEF Grown
  <2>2. w \in [0 .. 2 * u.stack_size - 1 -> Int]
        /\ \A i \in 0 .. u.stack_size - 1 : w[i] = u.undo_stack[i]
    BY <1>1, SMTT(60)
  <2> HIDE DEF w
  <2>3. /\ v.undo_stack = w /\ v.stack_size = 2 * u.stack_size
        /\ v.stack_pointer = u.stack_pointer /\ v.stack_bottom = u.stack_bottom
        /\ v = [x \in {"undo_stack", "stack_pointer", "stack_bottom", "stack_size"} |-> v[x]]
    BY <1>1 DEF IsRing
  <2> HIDE DEF v
  <2>4. u.stack_bottom = 0
    BY <1>1, <1>3
  <2>5. IsRing(v)
    BY <2>2, <2>3, <2>4, <1>1 DEF IsRing
  <2>6. Depth(u) = u.stack_pointer /\ Depth(v) = u.stack_pointer
    BY <2>3, <2>4, <2>5, <1>1, DepthIs
  <2>7. ASSUME NEW k \in 1 .. Depth(u)
        PROVE  v.undo_stack[Slot(v, k)] = u.undo_stack[Slot(u, k)]
    <3>1. k \in 1 .. u.stack_size /\ k \in 1 .. v.stack_size /\ 0 + k - 1 < u.stack_size
          /\ 0 + k - 1 < v.stack_size /\ k - 1 \in 0 .. u.stack_size - 1
      BY <2>3, <2>6, <1>1, SMTT(60)
    <3>2. Slot(u, k) = 0 + k - 1 /\ Slot(v, k) = 0 + k - 1
      BY <3>1, <2>3, <2>4, <2>5, <1>1, SlotIs, ZenonT(60)
    <3> QED BY <3>1, <3>2, <2>2, <2>3
  <2>8. Entries(v) = Entries(u)
    BY <2>5, <2>6, <2>7, <1>1, SameEntries
  <2>9. /\ v.stack_size > Slack /\ Depth(v) <= v.stack_size - 4
        /\ v.stack_pointer <= v.stack_size - 5
    <3>1. v.stack_size = 2 * u.stack_size /\ u.stack_pointer <= u.stack_size - 1
          /\ Depth(v) = u.stack_pointer /\ v.stack_pointer = u.stack_pointer
          /\ u.stack_size > 5 /\ u.stack_size > Slack
      BY <2>3, <2>6, <1>1 DEF IsRing
    <3> QED BY <3>1, <1>1, <1>2
  <2>10. Ring(v) /\ Roomy(v)
    BY <2>3, <2>4, <2>5, <2>9 DEF Ring, Roomy
  <2> QED BY <2>1, <2>8, <2>10
<1>4. CASE ~ (u.stack_pointer > u.stack_size - Slack /\ u.stack_size < MaxUndo)
  <2>1. Grown(u) = u
    BY <1>4 DEF Grown
  <2>2. Roomy(u)
    BY <1>1, <1>2, <1>4 DEF Roomy
  <2> QED BY <2>1, <2>2
<1> QED BY <1>3, <1>4

LEMMA NextDepth ==
  ASSUME NEW n \in Nat, n > 5, NEW sp \in 0 .. n - 1, NEW b \in 0 .. n - 1,
         NEW d \in 0 .. n - 1, d <= n - 4, NEW q \in 0 .. n - 1, NEW e \in 0 .. n - 1,
         sp >= b => d = sp - b, sp < b => d = sp - b + n,
         q >= b => e = q - b, q < b => e = q - b + n,
         sp + 1 < n => q = sp + 1, sp + 1 = n => q = 0
  PROVE  e = d + 1 /\ d \in Nat /\ d + 1 \in 1 .. n
OBVIOUS

(* An entry on top, before the bottom is looked after.                     *)
Topped(u, c) == [u EXCEPT !.undo_stack[u.stack_pointer] = c,
                          !.stack_pointer = (@ + 1) % u.stack_size]

LEMMA ToppedIs ==
  ASSUME NEW u, IsRing(u), Depth(u) <= u.stack_size - 4, NEW c \in Int
  PROVE  LET v == Topped(u, c)
         IN /\ IsRing(v) /\ Depth(v) = Depth(u) + 1
            /\ v.stack_bottom = u.stack_bottom /\ v.stack_size = u.stack_size
            /\ Entries(v) = Append(Entries(u), c)
            /\ v.stack_pointer = (u.stack_pointer + 1) % u.stack_size
<1> DEFINE v == Topped(u, c)
           n == u.stack_size
           d == Depth(u)
           sp == u.stack_pointer
           w == [u.undo_stack EXCEPT ![u.stack_pointer] = c]
           q == (sp + 1) % n
<1>1. n \in Nat /\ n > 5 /\ n > 0 /\ u.stack_pointer \in 0 .. n - 1 /\ u.stack_bottom \in 0 .. n - 1
      /\ u.undo_stack \in [0 .. n - 1 -> Int]
  BY DEF IsRing
<1>2. v = [u EXCEPT !.undo_stack = w, !.stack_pointer = q]
  BY DEF Topped
<1>3. w \in [0 .. n - 1 -> Int] /\ w[u.stack_pointer] = c
      /\ \A i \in 0 .. n - 1 : i # u.stack_pointer => w[i] = u.undo_stack[i]
  BY <1>1
<1>4. q \in 0 .. n - 1 /\ (sp + 1 < n => q = sp + 1) /\ (sp + 1 = n => q = 0)
  <2>0. n \in Nat /\ n > 5 /\ n > 0 /\ sp \in 0 .. n - 1
    BY <1>1
  <2> HIDE DEF n, sp
  <2>1. sp + 1 \in Int /\ 0 <= sp + 1 /\ sp + 1 < 2 * n
    BY <2>0
  <2>2. (sp + 1 < n => q = sp + 1) /\ (n <= sp + 1 => q = sp + 1 - n)
    BY <2>0, <2>1, ModIs
  <2> QED BY <2>0, <2>1, <2>2
<1> HIDE DEF v, w, q
<1>5. /\ v.undo_stack = w /\ v.stack_pointer = q
      /\ v.stack_bottom = u.stack_bottom /\ v.stack_size = n /\ IsRing(v)
  BY <1>1, <1>2, <1>3, <1>4 DEF IsRing
<1>6. d \in Nat /\ Depth(v) = d + 1 /\ d + 1 \in 1 .. n
  <2>1. /\ d \in 0 .. n - 1
        /\ u.stack_pointer >= u.stack_bottom => d = u.stack_pointer - u.stack_bottom
        /\ u.stack_pointer < u.stack_bottom => d = u.stack_pointer - u.stack_bottom + n
    BY DepthIs
  <2>2. /\ Depth(v) \in 0 .. n - 1
        /\ q >= u.stack_bottom => Depth(v) = q - u.stack_bottom
        /\ q < u.stack_bottom => Depth(v) = q - u.stack_bottom + n
    BY <1>5, DepthIs
  <2>3. d <= n - 4
    OBVIOUS
  <2>4. sp \in 0 .. n - 1 /\ u.stack_bottom \in 0 .. n - 1 /\ n \in Nat /\ n > 5
    BY <1>1
  <2> HIDE DEF d, n
  <2> QED BY <2>1, <2>2, <2>3, <2>4, <1>4, NextDepth
<1>7. /\ Slot(u, d + 1) = u.stack_pointer
      /\ \A k : Slot(v, k) = Slot(u, k)
  BY <1>5, PointerIs DEF Slot
<1>8. /\ Entries(u) \in Seq(Int) /\ Len(Entries(u)) = d
      /\ \A k \in 1 .. d : Entries(u)[k] = u.undo_stack[Slot(u, k)]
  BY EntriesAre
<1>9. /\ Entries(v) \in Seq(Int) /\ Len(Entries(v)) = d + 1
      /\ \A k \in 1 .. d + 1 : Entries(v)[k] = w[Slot(u, k)]
  BY <1>5, <1>6, <1>7, EntriesAre
<1>10. Entries(v)[d + 1] = c
  BY <1>3, <1>6, <1>7, <1>9
<1>11. ASSUME NEW k \in 1 .. d PROVE Entries(v)[k] = Entries(u)[k]
  <2>1. k \in 1 .. n /\ k \in 1 .. d + 1 /\ k # d + 1
    <3>1. n \in Nat
      BY <1>1
    <3> HIDE DEF n, d
    <3> QED BY <3>1, <1>6
  <2>2. Slot(u, k) \in 0 .. n - 1 /\ Slot(u, k) # u.stack_pointer
    BY <2>1, <1>6, <1>7, SlotIs, SlotsDiffer
  <2> QED BY <2>1, <2>2, <1>3, <1>8, <1>9
<1>12. Entries(v) = Append(Entries(u), c)
  <2> DEFINE s == Entries(u)
             r == Entries(v)
  <2> HIDE DEF s, r, d
  <2> QED BY <1>6, <1>8, <1>9, <1>10, <1>11 DEF s, r
<1> QED BY <1>5, <1>6, <1>12 DEF v, q

LEMMA KeyPressIs == KEY_PRESS \in Nat
BY DEF KEY_PRESS

(* The bottom goes up by m entries.                                        *)
Raised(u, m) == [u EXCEPT !.stack_bottom = (u.stack_bottom + m) % u.stack_size]

LEMMA RaisedDepth ==
  ASSUME NEW n \in Nat, n > 5, NEW sp \in 0 .. n - 1, NEW b \in 0 .. n - 1,
         NEW d \in 0 .. n - 1, NEW c \in 0 .. n - 1, NEW e \in 0 .. n - 1, NEW m \in 0 .. d,
         sp >= b => d = sp - b, sp < b => d = sp - b + n,
         sp >= c => e = sp - c, sp < c => e = sp - c + n,
         b + m < n => c = b + m, b + m >= n => c = b + m - n
  PROVE  e = d - m
OBVIOUS

LEMMA RaisedSlot ==
  ASSUME NEW n \in Nat, n > 5, NEW b \in 0 .. n - 1, NEW c \in 0 .. n - 1,
         NEW m \in 0 .. n - 1, NEW k \in 1 .. n - m, NEW x \in Int, NEW y \in Int,
         b + m < n => c = b + m, b + m >= n => c = b + m - n,
         c + k - 1 < n => x = c + k - 1, c + k - 1 >= n => x = c + k - 1 - n,
         b + (k + m) - 1 < n => y = b + (k + m) - 1,
         b + (k + m) - 1 >= n => y = b + (k + m) - 1 - n
  PROVE  x = y
OBVIOUS

LEMMA RaisedIs ==
  ASSUME NEW u, IsRing(u), NEW m \in 0 .. Depth(u)
  PROVE  LET v == Raised(u, m)
         IN /\ IsRing(v) /\ v.stack_pointer = u.stack_pointer /\ v.stack_size = u.stack_size
            /\ Depth(v) = Depth(u) - m
            /\ Entries(v) = SubSeq(Entries(u), m + 1, Depth(u))
<1> DEFINE n == u.stack_size
           b == u.stack_bottom
           d == Depth(u)
           c == (b + m) % n
           v == Raised(u, m)
<1>1. n \in Nat /\ n > 5 /\ n > 0 /\ u.stack_pointer \in 0 .. n - 1 /\ b \in 0 .. n - 1
  BY DEF IsRing
<1>2. /\ d \in 0 .. n - 1
      /\ u.stack_pointer >= b => d = u.stack_pointer - b
      /\ u.stack_pointer < b => d = u.stack_pointer - b + n
  BY DepthIs
<1>3. v = [u EXCEPT !.stack_bottom = c]
  BY DEF Raised
<1>30. m \in 0 .. d
  OBVIOUS
<1> HIDE DEF n, b, d, v
<1>31. m \in 0 .. n - 1 /\ d \in Nat
  BY <1>1, <1>2, <1>30
<1>4. c \in 0 .. n - 1 /\ (b + m < n => c = b + m) /\ (b + m >= n => c = b + m - n)
  <2>1. b + m \in Int /\ 0 <= b + m /\ b + m < 2 * n
    BY <1>1, <1>31
  <2>2. (b + m < n => c = b + m) /\ (n <= b + m => c = b + m - n)
    BY <2>1, <1>1, ModIs
  <2> QED BY <2>1, <2>2, <1>1
<1> HIDE DEF c
<1>5. /\ IsRing(v) /\ v.stack_pointer = u.stack_pointer /\ v.stack_size = n
      /\ v.stack_bottom = c /\ v.undo_stack = u.undo_stack
  BY <1>3, <1>4 DEF IsRing, n
<1>6. Depth(v) = d - m
  <2>1. /\ Depth(v) \in 0 .. n - 1
        /\ u.stack_pointer >= c => Depth(v) = u.stack_pointer - c
        /\ u.stack_pointer < c => Depth(v) = u.stack_pointer - c + n
    BY <1>5, DepthIs
  <2> QED BY <2>1, <1>1, <1>2, <1>30, <1>4, RaisedDepth
<1>7. ASSUME NEW k \in 1 .. d - m PROVE Slot(v, k) = Slot(u, k + m) /\ k + m \in 1 .. d
  <2>1. k \in 1 .. n /\ k + m \in 1 .. n /\ k + m \in 1 .. d /\ k \in 1 .. n - m
    BY <1>2, <1>31, <1>30, <1>1
  <2>2. /\ Slot(v, k) \in 0 .. n - 1
        /\ c + k - 1 < n => Slot(v, k) = c + k - 1
        /\ c + k - 1 >= n => Slot(v, k) = c + k - 1 - n
    BY <2>1, <1>5, SlotIs
  <2>3. /\ Slot(u, k + m) \in 0 .. n - 1
        /\ b + (k + m) - 1 < n => Slot(u, k + m) = b + (k + m) - 1
        /\ b + (k + m) - 1 >= n => Slot(u, k + m) = b + (k + m) - 1 - n
    <3> DEFINE j == k + m
    <3>1. j \in 1 .. u.stack_size
      BY <2>1 DEF n
    <3> HIDE DEF j
    <3>2. /\ Slot(u, j) \in 0 .. u.stack_size - 1
          /\ u.stack_bottom + j - 1 < u.stack_size => Slot(u, j) = u.stack_bottom + j - 1
          /\ u.stack_bottom + j - 1 >= u.stack_size =>
               Slot(u, j) = u.stack_bottom + j - 1 - u.stack_size
      BY <3>1, SlotIs
    <3> QED BY <3>2 DEF j, n, b
  <2>4. Slot(v, k) = Slot(u, k + m)
    BY <2>1, <2>2, <2>3, <1>1, <1>31, <1>4, RaisedSlot
  <2> QED BY <2>1, <2>4
<1> DEFINE s == Entries(u)
           r == Entries(v)
<1>8. /\ s \in Seq(Int) /\ Len(s) = d
      /\ \A k \in 1 .. d : s[k] = u.undo_stack[Slot(u, k)]
  BY EntriesAre DEF d
<1>9. /\ r \in Seq(Int) /\ Len(r) = d - m
      /\ \A k \in 1 .. d - m : r[k] = u.undo_stack[Slot(v, k)]
  BY <1>5, <1>6, EntriesAre
<1>10. \A k \in 1 .. d - m : r[k] = s[k + m]
  BY <1>7, <1>8, <1>9
<1> HIDE DEF s, r
<1>11. r = SubSeq(s, m + 1, d)
  BY <1>8, <1>9, <1>10, <1>31, <1>30
<1> QED BY <1>5, <1>6, <1>11 DEF d, n, s, r, v

(* Where the search for the next key press ends.                           *)
LEMMA NextKeyPressIs ==
  ASSUME NEW u, IsRing(u), Depth(u) >= 1
  PROVE  \E m \in 1 .. Depth(u) :
           /\ NextKeyPress(u) = (u.stack_bottom + m) % u.stack_size
           /\ m < Depth(u) => Entries(u)[m + 1] >= KEY_PRESS
<1> DEFINE n == u.stack_size
           d == Depth(u)
           Stops(k) == \/ Entry(u, u.stack_bottom + k) >= KEY_PRESS
                       \/ (u.stack_bottom + k) % u.stack_size = u.stack_pointer
           P(k) == Stops(k) /\ \A l \in 1 .. k - 1 : ~Stops(l)
           S == {k \in 1 .. n : Stops(k)}
           m == CHOOSE k \in 1 .. n : P(k)
<1>1. d \in 1 .. n /\ d <= n - 1 /\ n \in Nat /\ u.stack_bottom \in Int
  BY DepthIs DEF IsRing
<1>2. \A k \in 0 .. d : (u.stack_bottom + k) % u.stack_size = Slot(u, k + 1)
  <2> SUFFICES ASSUME NEW k \in 0 .. d
               PROVE  (u.stack_bottom + k) % u.stack_size = Slot(u, k + 1)
    OBVIOUS
  <2>1. u.stack_bottom + (k + 1) - 1 = u.stack_bottom + k
    BY <1>1
  <2> QED BY <2>1 DEF Slot
<1>3. Stops(d)
  <2>1. d \in 0 .. d
    BY <1>1
  <2> QED BY <2>1, <1>2, PointerIs
<1>4. \E k \in 1 .. n : P(k)
  <2>1. S \in SUBSET Nat /\ S # {}
    BY <1>1, <1>3
  <2> HIDE DEF Stops
  <2>2. PICK k \in S : \A l \in S : k <= l
    <3> HIDE DEF S
    <3> QED BY <2>1, LeastNatural
  <2>3. \A l \in 1 .. k - 1 : ~Stops(l)
    BY <2>2, <1>1
  <2> QED BY <2>2, <2>3
<1>5. m \in 1 .. n /\ P(m)
  <2> HIDE DEF P
  <2> QED BY <1>4
<1>6. NextKeyPress(u) = (u.stack_bottom + m) % u.stack_size
  BY DEF NextKeyPress
<1> HIDE DEF m, P
<1>7. m <= d
  BY <1>1, <1>3, <1>5 DEF P
<1>8. ASSUME m < d PROVE Entries(u)[m + 1] >= KEY_PRESS
  <2>1. m \in 0 .. d /\ m + 1 \in 1 .. n /\ m + 1 \in 1 .. d /\ d + 1 \in 1 .. n /\ m # d
    BY <1>1, <1>5, <1>8
  <2>2. (u.stack_bottom + m) % u.stack_size = Slot(u, m + 1)
    BY <2>1, <1>2
  <2>3. Slot(u, m + 1) # Slot(u, d + 1)
    <3> DEFINE i == m + 1
               j == d + 1
    <3>1. i \in 1 .. u.stack_size /\ j \in 1 .. u.stack_size /\ i # j
      BY <2>1, <1>1
    <3> HIDE DEF i, j
    <3>2. Slot(u, i) # Slot(u, j)
      BY <3>1, SlotsDiffer
    <3> QED BY <3>2 DEF i, j
  <2>4. Slot(u, d + 1) = u.stack_pointer
    BY PointerIs
  <2>5. Entry(u, u.stack_bottom + m) >= KEY_PRESS
    BY <2>2, <2>3, <2>4, <1>5 DEF P
  <2>6. Entries(u)[m + 1] = u.undo_stack[Slot(u, m + 1)]
    BY <2>1, EntriesAre
  <2> QED BY <2>2, <2>5, <2>6 DEF Entry
<1> QED BY <1>1, <1>5, <1>6, <1>7, <1>8

LEMMA NotCrowded ==
  ASSUME NEW n \in Nat, n > 5, NEW sp \in 0 .. n - 1, NEW b \in 0 .. n - 1,
         NEW d \in 0 .. n - 1, NEW q \in Int, d <= n - 3,
         sp >= b => d = sp - b, sp < b => d = sp - b + n,
         sp + 3 < n => q = sp + 3, sp + 3 >= n => q = sp + 3 - n, q # b
  PROVE  d <= n - 4
OBVIOUS

LEMMA CrowdedIs ==
  ASSUME NEW u, IsRing(u), Depth(u) <= u.stack_size - 3
  PROVE  /\ ~Crowded(u) => Depth(u) <= u.stack_size - 4
         /\ Crowded(u) => Depth(u) >= 1
         /\ Crowded(u) /\ u.stack_bottom = 0 => u.stack_pointer > u.stack_size - 4
<1> DEFINE n == u.stack_size
           b == u.stack_bottom
           d == Depth(u)
           sp == u.stack_pointer
<1>1. n \in Nat /\ n > 5 /\ n > 0 /\ sp \in 0 .. n - 1 /\ b \in 0 .. n - 1
  BY DEF IsRing
<1>2. d \in 0 .. n - 1 /\ (sp >= b => d = sp - b) /\ (sp < b => d = sp - b + n) /\ d <= n - 3
  BY DepthIs
<1>3. Crowded(u) <=> (sp + 2) % n = b \/ (sp + 3) % n = b
  BY DEF Crowded
<1> HIDE DEF n, b, d, sp
<1>4. /\ sp + 2 < n => (sp + 2) % n = sp + 2
      /\ sp + 2 >= n => (sp + 2) % n = sp + 2 - n
  <2>1. sp + 2 \in Int /\ 0 <= sp + 2 /\ sp + 2 < 2 * n
    BY <1>1
  <2> QED BY <2>1, <1>1, ModIs
<1>5. /\ sp + 3 < n => (sp + 3) % n = sp + 3
      /\ sp + 3 >= n => (sp + 3) % n = sp + 3 - n
      /\ (sp + 3) % n \in Int
  <2>1. sp + 3 \in Int /\ 0 <= sp + 3 /\ sp + 3 < 2 * n
    BY <1>1
  <2>2. /\ sp + 3 < n => (sp + 3) % n = sp + 3
        /\ sp + 3 >= n => (sp + 3) % n = sp + 3 - n
    BY <2>1, <1>1, ModIs
  <2> QED BY <2>1, <2>2, <1>1
<1>6. ASSUME ~Crowded(u) PROVE d <= n - 4
  BY <1>1, <1>2, <1>3, <1>5, <1>6, NotCrowded
<1>7. ASSUME Crowded(u) PROVE d >= 1
  <2>1. d # 0
    BY <1>1, <1>2, <1>3, <1>4, <1>5, <1>7
  <2> QED BY <2>1, <1>1, <1>2
<1>8. ASSUME Crowded(u), b = 0 PROVE sp > n - 4
  BY <1>1, <1>3, <1>4, <1>5, <1>8
<1> QED BY <1>6, <1>7, <1>8 DEF n, b, d, sp

(* A full ring gives up its oldest entries, as far as a key press.         *)
LEMMA BottomRaisedIs ==
  ASSUME NEW u, IsRing(u), Depth(u) <= u.stack_size - 3,
         u.stack_size < MaxUndo => u.stack_bottom = 0 /\ u.stack_pointer <= u.stack_size - 4
  PROVE  LET v == BottomRaised(u)
         IN /\ IsRing(v) /\ v.stack_size = u.stack_size
            /\ Depth(v) <= v.stack_size - 4
            /\ v.stack_size < MaxUndo => v.stack_bottom = 0
            /\ \E m \in 0 .. Depth(u) :
                 /\ Depth(v) = Depth(u) - m
                 /\ Entries(v) = SubSeq(Entries(u), m + 1, Depth(u))
<1>1. u.stack_size \in Nat /\ Depth(u) \in Nat /\ u.stack_size > 5 /\ u.stack_pointer \in Int
  BY DepthIs DEF IsRing
<1>2. CASE ~Crowded(u)
  <2>1. BottomRaised(u) = u /\ Depth(u) <= u.stack_size - 4
    BY <1>2, CrowdedIs DEF BottomRaised
  <2>2. Entries(u) = SubSeq(Entries(u), 0 + 1, Depth(u))
    <3>1. Entries(u) \in Seq(Int) /\ Len(Entries(u)) = Depth(u)
      BY EntriesAre
    <3> DEFINE s == Entries(u)
               d == Depth(u)
    <3> HIDE DEF s, d
    <3>2. s = SubSeq(s, 0 + 1, d)
      BY <3>1 DEF s, d
    <3> QED BY <3>2 DEF s, d
  <2>3. Depth(u) = Depth(u) - 0 /\ 0 \in 0 .. Depth(u)
    BY <1>1
  <2> QED BY <2>1, <2>2, <2>3
<1>3. CASE Crowded(u)
  <2>1. Depth(u) >= 1 /\ ~ (u.stack_size < MaxUndo)
    BY <1>3, <1>1, CrowdedIs
  <2>2. PICK m \in 1 .. Depth(u) : NextKeyPress(u) = (u.stack_bottom + m) % u.stack_size
    BY <2>1, NextKeyPressIs
  <2>3. BottomRaised(u) = Raised(u, m)
    BY <2>2, <1>3 DEF BottomRaised, Raised
  <2>4. m \in 0 .. Depth(u)
    OBVIOUS
  <2> DEFINE v == Raised(u, m)
  <2>5. /\ IsRing(v) /\ v.stack_size = u.stack_size /\ Depth(v) = Depth(u) - m
        /\ Entries(v) = SubSeq(Entries(u), m + 1, Depth(u))
    BY <2>4, RaisedIs
  <2>6. Depth(v) <= v.stack_size - 4
    BY <2>5, <1>1
  <2> QED BY <2>1, <2>3, <2>4, <2>5, <2>6
<1> QED BY <1>2, <1>3

(* What the stack holds after a push: the latest part of what it held and  *)
(* the new entry, from a key press on.                                     *)
LEMMA PushEntryIs ==
  ASSUME NEW u, Ring(u), Roomy(u), NEW c \in Int
  PROVE  LET v == PushEntry(u, c)
             s == Append(Entries(u), c)
         IN /\ Ring(v)
            /\ \E m \in 0 .. Len(s) : Entries(v) = SubSeq(s, m + 1, Len(s))
            /\ Len(Entries(v)) > 0 => Entries(v)[1] >= KEY_PRESS
<1> DEFINE u1 == Topped(u, c)
           u2 == BottomRaised(u1)
           v == PushEntry(u, c)
           s == Append(Entries(u), c)
<1>1. IsRing(u) /\ u.stack_size > Slack /\ Depth(u) <= u.stack_size - 4
      /\ (u.stack_size < MaxUndo => u.stack_bottom = 0 /\ u.stack_pointer <= u.stack_size - 5)
      /\ u.stack_size \in Nat /\ u.stack_pointer \in 0 .. u.stack_size - 1
      /\ u.stack_size > 5
  BY DEF Ring, Roomy, IsRing
<1>2. /\ IsRing(u1) /\ Depth(u1) = Depth(u) + 1
      /\ u1.stack_bottom = u.stack_bottom /\ u1.stack_size = u.stack_size
      /\ Entries(u1) = s
      /\ u1.stack_pointer = (u.stack_pointer + 1) % u.stack_size
  BY <1>1, ToppedIs
<1>3. v = BottomIsKeyPress(u2)
  BY DEF PushEntry, Topped
<1> HIDE DEF u1, u2, v, s
<1>30. Depth(u) \in Nat
  BY <1>1, DepthIs
<1>31. Len(s) = Depth(u1) /\ s \in Seq(Int)
  BY <1>2, EntriesAre
<1>4. Depth(u1) <= u1.stack_size - 3
  BY <1>1, <1>2, <1>30
<1>5. ASSUME u1.stack_size < MaxUndo
      PROVE  u1.stack_bottom = 0 /\ u1.stack_pointer <= u1.stack_size - 4
  <2> DEFINE n == u.stack_size
             x == u.stack_pointer + 1
  <2>1. n \in Nat /\ n > 0 /\ x \in Int /\ 0 <= x /\ x < n /\ x <= n - 4
    BY <1>1, <1>2, <1>5
  <2> HIDE DEF n, x
  <2>2. x % n = x
    BY <2>1, ModIs
  <2> QED BY <2>1, <2>2, <1>1, <1>2, <1>5 DEF n, x
<1>6. /\ IsRing(u2) /\ u2.stack_size = u1.stack_size
      /\ Depth(u2) <= u2.stack_size - 4
      /\ u2.stack_size < MaxUndo => u2.stack_bottom = 0
      /\ \E m \in 0 .. Depth(u1) :
           /\ Depth(u2) = Depth(u1) - m
           /\ Entries(u2) = SubSeq(Entries(u1), m + 1, Depth(u1))
  BY <1>2, <1>4, <1>5, BottomRaisedIs DEF u2
<1>7. PICK m \in 0 .. Len(s) :
        Depth(u2) = Depth(u1) - m /\ Entries(u2) = SubSeq(s, m + 1, Len(s))
  BY <1>2, <1>6, <1>31
<1>8. u2.stack_size > Slack
  BY <1>1, <1>2, <1>6
<1>9. CASE u2.stack_pointer # u2.stack_bottom /\ Entry(u2, u2.stack_bottom) < KEY_PRESS
  <2> DEFINE u3 == [u2 EXCEPT !.stack_pointer = 0, !.stack_bottom = 0]
  <2>1. v = Cleared(u3)
    BY <1>3, <1>9 DEF BottomIsKeyPress
  <2>2. IsRing(u3) /\ u3.stack_pointer = 0 /\ u3.stack_bottom = 0 /\ u3.stack_size = u2.stack_size
    <3>1. u2.stack_size \in Nat /\ u2.stack_size > 5 /\ 0 \in 0 .. u2.stack_size - 1
      BY <1>6 DEF IsRing
    <3>2. u3.stack_pointer = 0 /\ u3.stack_bottom = 0 /\ u3.stack_size = u2.stack_size
          /\ u3.undo_stack = u2.undo_stack
          /\ u3 = [x \in {"undo_stack", "stack_pointer", "stack_bottom", "stack_size"} |-> u3[x]]
      BY <1>6 DEF IsRing
    <3> HIDE DEF u3
    <3> QED BY <3>1, <3>2, <1>6 DEF IsRing
  <2> HIDE DEF u3
  <2>3. Depth(u3) = 0
    BY <2>2, EntriesAre
  <2>4. /\ IsRing(v) /\ v.stack_bottom = 0 /\ v.stack_size = u2.stack_size /\ Depth(v) = 0
    BY <2>1, <2>2, <2>3, ClearedIs
  <2>5. Ring(v)
    BY <2>4, <1>8, SMTT(60) DEF Ring, IsRing
  <2>6. Entries(v) = SubSeq(s, Len(s) + 1, Len(s)) /\ Len(Entries(v)) = 0
    <3>1. Entries(v) \in Seq(Int) /\ Len(Entries(v)) = 0
      BY <2>4, EntriesAre
    <3> DEFINE r == Entries(v)
    <3> HIDE DEF r
    <3>2. r = << >>
      BY <3>1 DEF r
    <3>3. SubSeq(s, Len(s) + 1, Len(s)) = << >>
      BY <1>31
    <3> QED BY <3>1, <3>2, <3>3 DEF r
  <2>7. Len(s) \in 0 .. Len(s)
    BY <1>31
  <2> QED BY <2>5, <2>6, <2>7 DEF s, v
<1>10. CASE ~ (u2.stack_pointer # u2.stack_bottom /\ Entry(u2, u2.stack_bottom) < KEY_PRESS)
  <2>1. v = Cleared(u2)
    BY <1>3, <1>10 DEF BottomIsKeyPress
  <2>2. /\ IsRing(v) /\ v.stack_bottom = u2.stack_bottom /\ v.stack_size = u2.stack_size
        /\ Depth(v) = Depth(u2) /\ Entries(v) = Entries(u2)
    BY <2>1, <1>6, ClearedIs
  <2>3. Ring(v)
    BY <2>2, <1>6, <1>8 DEF Ring
  <2>4. ASSUME Len(Entries(v)) > 0 PROVE Entries(v)[1] >= KEY_PRESS
    <3>1. Len(Entries(u2)) = Depth(u2) /\ Depth(u2) \in Nat
      <4>1. Len(Entries(u2)) = Depth(u2) /\ u2.stack_size \in Nat
        BY <1>6, EntriesAre DEF IsRing
      <4>2. Depth(u2) \in 0 .. u2.stack_size - 1
        BY <1>6, DepthIs
      <4> QED BY <4>1, <4>2
    <3>2. Depth(u2) > 0 /\ 1 \in 1 .. Depth(u2) /\ Depth(u2) # 0
      BY <3>1, <2>2, <2>4
    <3>3. Entry(u2, u2.stack_bottom) >= KEY_PRESS
      <4>1. u2.stack_pointer # u2.stack_bottom
        BY <3>2, <1>6, EntriesAre
      <4>2. Entry(u2, u2.stack_bottom) \in Int
        <5>1. u2.stack_bottom \in 0 .. u2.stack_size - 1 /\ u2.stack_size \in Nat
          BY <1>6 DEF IsRing
        <5>2. u2.stack_bottom % u2.stack_size = u2.stack_bottom
          BY <5>1
        <5> QED BY <5>1, <5>2, <1>6 DEF Entry, IsRing
      <4> QED BY <4>1, <4>2, <1>10, KeyPressIs
    <3>4. Entries(u2)[1] = Entry(u2, u2.stack_bottom)
      <4>1. u2.stack_bottom \in Int
        BY <1>6 DEF IsRing
      <4>2. u2.stack_bottom + 1 - 1 = u2.stack_bottom
        BY <4>1
      <4> QED BY <4>2, <3>2 DEF Entries
    <3> QED BY <3>3, <3>4, <2>2
  <2> QED BY <2>2, <2>3, <2>4, <1>7 DEF s, v
<1> QED BY <1>9, <1>10

(* The entry on top is counted up or down, or taken off.                   *)
LEMMA SetCountIs ==
  ASSUME NEW u, Ring(u), Depth(u) >= 1, NEW n \in Int
  PROVE  LET v == SetCount(u, n)
         IN Ring(v) /\ Entries(v) = [Entries(u) EXCEPT ![Depth(u)] = n]
<1> DEFINE z == u.stack_size
           d == Depth(u)
           i == (u.stack_pointer - 1) % z
           w == [u.undo_stack EXCEPT ![i] = n]
           v == SetCount(u, n)
<1>1. IsRing(u) /\ z \in Nat /\ u.undo_stack \in [0 .. z - 1 -> Int]
  BY DEF Ring, IsRing
<1>2. d \in 1 .. z /\ d \in Nat
  BY <1>1, DepthIs
<1>3. i = Slot(u, d) /\ i \in 0 .. z - 1
  BY <1>1, <1>2, PointerIs, SlotIs
<1>4. v = [u EXCEPT !.undo_stack = w]
  BY DEF SetCount
<1> HIDE DEF i, v, d
<1>5. w \in [0 .. z - 1 -> Int] /\ w[i] = n /\ \A j \in 0 .. z - 1 : j # i => w[j] = u.undo_stack[j]
  BY <1>1, <1>3
<1> HIDE DEF w
<1>6. /\ IsRing(v) /\ v.stack_pointer = u.stack_pointer /\ v.undo_stack = w
      /\ v.stack_bottom = u.stack_bottom /\ v.stack_size = z
  BY <1>1, <1>4, <1>5 DEF IsRing
<1>7. Depth(v) = d /\ \A k : Slot(v, k) = Slot(u, k)
  BY <1>6, SameDepth DEF d
<1>8. Ring(v)
  BY <1>6, <1>7 DEF Ring, d
<1> DEFINE s == Entries(u)
           r == Entries(v)
<1>9. s \in Seq(Int) /\ Len(s) = d /\ \A k \in 1 .. d : s[k] = u.undo_stack[Slot(u, k)]
  BY <1>1, EntriesAre DEF d
<1>10. r \in Seq(Int) /\ Len(r) = d /\ \A k \in 1 .. d : r[k] = w[Slot(u, k)]
  BY <1>6, <1>7, EntriesAre
<1>11. r[d] = n
  BY <1>2, <1>3, <1>5, <1>10
<1>12. ASSUME NEW k \in 1 .. d, k # d PROVE r[k] = s[k]
  <2>1. k \in 1 .. u.stack_size /\ d \in 1 .. u.stack_size
    BY <1>1, <1>2
  <2>2. Slot(u, k) \in 0 .. z - 1 /\ Slot(u, k) # i
    BY <2>1, <1>1, <1>3, <1>12, SlotIs, SlotsDiffer
  <2> QED BY <2>2, <1>5, <1>9, <1>10
<1> HIDE DEF s, r
<1>13. r = [s EXCEPT ![d] = n]
  BY <1>2, <1>9, <1>10, <1>11, <1>12
<1> QED BY <1>8, <1>13 DEF s, r, v, d

LEMMA DropEntryIs ==
  ASSUME NEW u, Ring(u), Depth(u) >= 1
  PROVE  LET v == DropEntry(u)
         IN Ring(v) /\ Entries(v) = SubSeq(Entries(u), 1, Depth(u) - 1)
<1> DEFINE n == u.stack_size
           d == Depth(u)
           b == u.stack_bottom
           sp == u.stack_pointer
           q == (sp - 1) % n
           w == [u EXCEPT !.stack_pointer = q]
           v == DropEntry(u)
<1>1. IsRing(u) /\ n \in Nat /\ n > 5 /\ n > 0 /\ sp \in 0 .. n - 1 /\ b \in 0 .. n - 1
  BY DEF Ring, IsRing
<1>2. d \in 1 .. n /\ d \in Nat /\ (sp >= b => d = sp - b) /\ (sp < b => d = sp - b + n)
  BY <1>1, DepthIs
<1>3. v = Cleared(w)
  BY DEF DropEntry
<1>4. q \in 0 .. n - 1 /\ (sp >= 1 => q = sp - 1) /\ (sp = 0 => q = n - 1)
  <2> HIDE DEF n, sp
  <2>1. sp - 1 \in Int /\ -n <= sp - 1 /\ sp - 1 < n
    BY <1>1
  <2>2. (0 <= sp - 1 /\ sp - 1 < n => q = sp - 1)
        /\ (-n <= sp - 1 /\ sp - 1 < 0 => q = sp - 1 + n)
    BY <2>1, <1>1, ModIs
  <2> QED BY <2>1, <2>2, <1>1
<1> HIDE DEF v, q
<1>5. IsRing(w) /\ w.stack_pointer = q /\ w.stack_bottom = b /\ w.stack_size = n
      /\ w.undo_stack = u.undo_stack
  BY <1>1, <1>4 DEF IsRing
<1> HIDE DEF w
<1>6. /\ Depth(w) \in 0 .. n - 1 /\ (q >= b => Depth(w) = q - b)
      /\ (q < b => Depth(w) = q - b + n)
  BY <1>5, DepthIs
<1>7. Depth(w) = d - 1
  <2> HIDE DEF n, d, b, sp
  <2> QED BY <1>1, <1>2, <1>4, <1>6
<1>8. /\ IsRing(v) /\ v.stack_bottom = b /\ v.stack_size = n /\ Depth(v) = d - 1
      /\ Entries(v) = Entries(w)
  BY <1>3, <1>5, <1>7, ClearedIs
<1>9. Ring(v)
  <2>1. n > Slack /\ d <= n - 4 /\ (n < MaxUndo => b = 0)
    BY DEF Ring
  <2>2. Depth(v) <= n - 4
    BY <2>1, <1>1, <1>2, <1>8
  <2> QED BY <2>1, <2>2, <1>8 DEF Ring
<1> DEFINE s == Entries(u)
           r == Entries(w)
<1>10. s \in Seq(Int) /\ Len(s) = d /\ \A k \in 1 .. d : s[k] = u.undo_stack[Slot(u, k)]
  BY <1>1, EntriesAre
<1>11. r \in Seq(Int) /\ Len(r) = d - 1 /\ \A k \in 1 .. d - 1 : r[k] = u.undo_stack[Slot(u, k)]
  BY <1>5, <1>7, EntriesAre DEF Slot
<1> HIDE DEF s, r, d
<1>12. r = SubSeq(s, 1, d - 1)
  BY <1>2, <1>10, <1>11, SMTT(60)
<1> QED BY <1>8, <1>9, <1>12 DEF s, r, v, d

-----------------------------------------------------------------------------
(* Entries: the codes of actions, and counts.                              *)

Code(n) ==
  \/ n \in {CURS_LEFT, CURS_RIGHT, DELCHAR, BACKSPACE} \cup (0 .. 511)
  \/ n \in Int /\ n >= MARK_1 - 2

(* A count stands above the action it repeats, and never at the bottom,    *)
(* which is a key press.                                                   *)
Formed(s) ==
  /\ s \in Seq(Int)
  /\ \A k \in 1 .. Len(s) :
       \/ s[k] >= 0 /\ Code(s[k])
       \/ s[k] <= -2 /\ k > 1 /\ s[k - 1] >= 0 /\ s[k - 1] < KEY_PRESS
Shape(s) == Formed(s) /\ (Len(s) > 0 => s[1] >= KEY_PRESS)

LEMMA CodeIs ==
  ASSUME NEW n, Code(n)
  PROVE  n \in Int /\ n >= 0
BY DEF Code, CURS_LEFT, CURS_RIGHT, DELCHAR, BACKSPACE, MARK_1

LEMMA DeepIs ==
  ASSUME NEW u, IsRing(u), Deep(u)
  PROVE  Depth(u) >= 3
<1> DEFINE n == u.stack_size
           b == u.stack_bottom
           d == Depth(u)
           sp == u.stack_pointer
<1>1. n \in Nat /\ n > 5 /\ n > 0 /\ sp \in 0 .. n - 1 /\ b \in 0 .. n - 1
  BY DEF IsRing
<1>2. d \in 0 .. n - 1 /\ (sp >= b => d = sp - b) /\ (sp < b => d = sp - b + n)
  BY DepthIs
<1>3. ASSUME NEW k \in 0 .. 2 PROVE (sp - k) % n # b
  BY DEF Deep
<1> HIDE DEF n, b, d, sp
<1>4. ASSUME NEW k \in 0 .. 2, d = k PROVE FALSE
  <2>1. sp - k \in Int /\ -n <= sp - k /\ sp - k < n
    BY <1>1
  <2>2. (0 <= sp - k /\ sp - k < n => (sp - k) % n = sp - k)
        /\ (-n <= sp - k /\ sp - k < 0 => (sp - k) % n = sp - k + n)
    BY <2>1, <1>1, ModIs
  <2>3. (sp - k) % n = b
    BY <2>1, <2>2, <1>1, <1>2, <1>4
  <2> QED BY <2>3, <1>3
<1>5. d # 0 /\ d # 1 /\ d # 2
  BY <1>4
<1>6. d >= 3
  BY <1>5, <1>2, <1>1
<1> QED BY <1>6 DEF d

(* What is left of s when its oldest entries give way.                     *)
Latest(r, s) ==
  /\ \E m \in 0 .. Len(s) : r = SubSeq(s, m + 1, Len(s))
  /\ Len(r) > 0 => r[1] >= KEY_PRESS

(* A push as a change of the entries s to r.                               *)
Pushes(s, c, r) ==
  \/ /\ Len(s) >= 3 /\ s[Len(s)] = c /\ c >= KEY_PRESS /\ r = s
  \/ /\ Len(s) >= 3 /\ s[Len(s)] < 0 /\ s[Len(s) - 1] = c /\ c < KEY_PRESS
     /\ r = [s EXCEPT ![Len(s)] = s[Len(s)] - 1]
  \/ /\ Len(s) >= 3 /\ s[Len(s)] >= 0 /\ s[Len(s)] = c /\ c < KEY_PRESS
     /\ Latest(r, Append(s, -2))
  \/ /\ Len(s) >= 3 /\ s[Len(s)] < -2 /\ Opposite(c, s[Len(s) - 1])
     /\ r = [s EXCEPT ![Len(s)] = s[Len(s)] + 1]
  \/ /\ Len(s) >= 3 /\ s[Len(s)] = -2 /\ Opposite(c, s[Len(s) - 1])
     /\ r = SubSeq(s, 1, Len(s) - 1)
  \/ /\ Len(s) >= 3 /\ s[Len(s)] >= 0 /\ Opposite(c, s[Len(s)])
     /\ r = SubSeq(s, 1, Len(s) - 1)
  \/ Latest(r, Append(s, c))

LEMMA PushActionIs ==
  ASSUME NEW u, Ring(u), Roomy(u), Shape(Entries(u)), NEW c \in Int
  PROVE  Ring(PushAction(u, c)) /\ Pushes(Entries(u), c, Entries(PushAction(u, c)))
<1> DEFINE s == Entries(u)
           d == Depth(u)
           n == Entry(u, u.stack_pointer - 1)
           v == PushAction(u, c)
<1>1. IsRing(u)
  BY DEF Ring
<1>2. /\ s \in Seq(Int) /\ Len(s) = d /\ d \in Nat
      /\ d >= 1 => n = s[d]
      /\ d >= 2 => Entry(u, u.stack_pointer - 2) = s[d - 1]
  BY <1>1, EntriesAre
<1>3. Deep(u) => d >= 3
  BY <1>1, DeepIs
<1>4. ASSUME Deep(u)
      PROVE  /\ Counts(u) <=> s[d] < 0
             /\ LastPush(u) = IF s[d] < 0 THEN s[d - 1] ELSE s[d]
  BY <1>2, <1>3, <1>4 DEF Counts, LastPush
<1>5. ~ (Again(u, c) /\ Cancels(u, c))
  BY DEF Again, Cancels, Opposite, CURS_LEFT, CURS_RIGHT
<1>6. \A k \in 1 .. d : s[k] \in Int /\ (s[k] >= 0 \/ (s[k] <= -2 /\ s[k - 1] < KEY_PRESS))
  BY <1>2 DEF Shape, Formed
<1>7. d >= 1 => d \in 1 .. d
  BY <1>2
<1>8. ASSUME NEW x \in Int PROVE Ring(PushEntry(u, x)) /\ Latest(Entries(PushEntry(u, x)), Append(s, x))
  BY PushEntryIs DEF Latest
<1>9. ASSUME d >= 1, NEW x \in Int
      PROVE  Ring(SetCount(u, x)) /\ Entries(SetCount(u, x)) = [s EXCEPT ![d] = x]
  BY <1>9, SetCountIs
<1>10. ASSUME d >= 1 PROVE Ring(DropEntry(u)) /\ Entries(DropEntry(u)) = SubSeq(s, 1, d - 1)
  BY <1>10, DropEntryIs
<1>11. v = CASE Again(u, c) /\ c >= KEY_PRESS     -> u
             [] Again(u, c) /\ c < KEY_PRESS      -> IF Counts(u) THEN SetCount(u, n - 1)
                                                           ELSE PushEntry(u, -2)
             [] Cancels(u, c)                     -> IF Counts(u) /\ n # -2
                                               THEN SetCount(u, n + 1) ELSE DropEntry(u)
             [] ~Again(u, c) /\ ~Cancels(u, c)    -> PushEntry(u, c)
  BY DEF PushAction
<1> HIDE DEF s, d, n, v
<1>12. CASE Again(u, c) /\ c >= KEY_PRESS
  <2>1. v = u
    BY <1>12, <1>11, <1>5, KeyPressIs
  <2>2. Deep(u) /\ LastPush(u) = c
    BY <1>12 DEF Again
  <2>3. s[d] = c /\ d >= 3
    BY <2>2, <1>12, <1>2, <1>3, <1>4, <1>6, <1>7, KeyPressIs
  <2> QED BY <2>1, <2>3, <1>2, <1>12 DEF Pushes, s, v
<1>13. CASE Again(u, c) /\ c < KEY_PRESS
  <2>1. v = IF Counts(u) THEN SetCount(u, n - 1) ELSE PushEntry(u, -2)
    BY <1>13, <1>11, <1>5, KeyPressIs
  <2>2. Deep(u) /\ LastPush(u) = c
    BY <1>13 DEF Again
  <2>3. d >= 3 /\ d >= 1 /\ d \in 1 .. d /\ n = s[d] /\ s[d] \in Int
    BY <2>2, <1>2, <1>3, <1>6
  <2>4. CASE Counts(u)
    <3>1. s[d] < 0 /\ s[d - 1] = c
      BY <2>2, <2>4, <1>4
    <3>2. v = SetCount(u, s[d] - 1)
      BY <2>1, <2>3, <2>4
    <3>3. Ring(v) /\ Entries(v) = [s EXCEPT ![d] = s[d] - 1]
      BY <3>2, <2>3, <1>9
    <3> QED BY <3>1, <3>3, <2>3, <1>2, <1>13 DEF Pushes, s, v
  <2>5. CASE ~Counts(u)
    <3>1. s[d] >= 0 /\ s[d] = c
      BY <2>2, <2>3, <2>5, <1>4
    <3>2. v = PushEntry(u, -2)
      BY <2>1, <2>5
    <3>3. Ring(v) /\ Latest(Entries(v), Append(s, -2))
      BY <3>2, <1>8
    <3> QED BY <3>1, <3>3, <2>3, <1>2, <1>13 DEF Pushes, s, v
  <2> QED BY <2>4, <2>5
<1>14. CASE Cancels(u, c)
  <2>1. v = IF Counts(u) /\ n # -2 THEN SetCount(u, n + 1) ELSE DropEntry(u)
    BY <1>14, <1>11, <1>5
  <2>2. Deep(u) /\ Opposite(c, LastPush(u))
    BY <1>14 DEF Cancels
  <2>3. d >= 3 /\ d >= 1 /\ d \in 1 .. d /\ n = s[d] /\ s[d] \in Int
    BY <2>2, <1>2, <1>3, <1>6
  <2>4. CASE Counts(u) /\ n # -2
    <3>1. s[d] < -2 /\ Opposite(c, s[d - 1])
      BY <2>2, <2>3, <2>4, <1>4, <1>6
    <3>2. v = SetCount(u, s[d] + 1)
      BY <2>1, <2>3, <2>4
    <3>3. Ring(v) /\ Entries(v) = [s EXCEPT ![d] = s[d] + 1]
      BY <3>2, <2>3, <1>9
    <3> QED BY <3>1, <3>3, <2>3, <1>2 DEF Pushes, s, v
  <2>5. CASE ~ (Counts(u) /\ n # -2)
    <3>1. \/ s[d] = -2 /\ Opposite(c, s[d - 1])
          \/ s[d] >= 0 /\ Opposite(c, s[d])
      BY <2>2, <2>3, <2>5, <1>4
    <3>2. Ring(v) /\ Entries(v) = SubSeq(s, 1, d - 1)
      BY <2>1, <2>3, <2>5, <1>10
    <3> QED BY <3>1, <3>2, <2>3, <1>2 DEF Pushes, s, v
  <2> QED BY <2>4, <2>5
<1>15. CASE ~Again(u, c) /\ ~Cancels(u, c)
  <2>1. v = PushEntry(u, c)
    BY <1>15, <1>11
  <2>2. Ring(v) /\ Latest(Entries(v), Append(s, c))
    BY <2>1, <1>8
  <2> QED BY <2>2 DEF Pushes, s, v
<1>16. c >= KEY_PRESS \/ c < KEY_PRESS
  BY KeyPressIs
<1> QED BY <1>12, <1>13, <1>14, <1>15, <1>16

(* A pop as a change of the entries.                                       *)
LEMMA PopActionIs ==
  ASSUME NEW u, Ring(u), Shape(Entries(u))
  PROVE  LET p == PopAction(u)
             s == Entries(u)
             r == Entries(p.stack)
             d == Len(s)
         IN /\ Ring(p.stack) /\ d \in Nat
            /\ d = 0 => p.action = STACK_BOTTOM /\ r = s
            /\ d > 0 /\ s[d] >= 0 => p.action = s[d] /\ r = SubSeq(s, 1, d - 1)
            /\ d > 0 /\ s[d] < 0 =>
                 /\ s[d] <= -2 /\ d > 1 /\ p.action = s[d - 1]
                 /\ s[d] = -2 => r = SubSeq(s, 1, d - 1)
                 /\ s[d] < -2 => r = [s EXCEPT ![d] = s[d] + 1]
<1> DEFINE s == Entries(u)
           d == Depth(u)
           n == Entry(u, u.stack_pointer - 1)
           p == PopAction(u)
<1>1. IsRing(u)
  BY DEF Ring
<1>2. /\ s \in Seq(Int) /\ Len(s) = d /\ d \in Nat
      /\ d >= 1 => n = s[d]
      /\ d >= 2 => Entry(u, u.stack_pointer - 2) = s[d - 1]
  BY <1>1, EntriesAre
<1>3. \A k \in 1 .. d : s[k] \in Int /\ (s[k] >= 0 \/ (s[k] <= -2 /\ k > 1))
  BY <1>2 DEF Shape, Formed
<1>4. p = IF d = 0 \/ (n < 0 /\ d = 1) THEN [action |-> STACK_BOTTOM, stack |-> u]
          ELSE IF n >= 0 THEN [action |-> n, stack |-> DropEntry(u)]
          ELSE [action |-> Entry(u, u.stack_pointer - 2),
                stack |-> IF n = -2 THEN DropEntry(u) ELSE SetCount(u, n + 1)]
  BY DEF PopAction
<1>9. ASSUME d >= 1, NEW x \in Int
      PROVE  Ring(SetCount(u, x)) /\ Entries(SetCount(u, x)) = [s EXCEPT ![d] = x]
  BY <1>9, SetCountIs
<1>10. ASSUME d >= 1 PROVE Ring(DropEntry(u)) /\ Entries(DropEntry(u)) = SubSeq(s, 1, d - 1)
  BY <1>10, DropEntryIs
<1> HIDE DEF d, n, p
<1>11. CASE d = 0
  BY <1>2, <1>4, <1>11 DEF p
<1>12. CASE d > 0
  <2>1. d >= 1 /\ d \in 1 .. d /\ n = s[d] /\ s[d] \in Int /\ (s[d] >= 0 \/ (s[d] <= -2 /\ d > 1))
    BY <1>2, <1>3, <1>12
  <2>2. CASE s[d] >= 0
    <3>1. p = [action |-> s[d], stack |-> DropEntry(u)]
      BY <2>1, <2>2, <1>4
    <3>2. Ring(p.stack) /\ p.action = s[d] /\ Entries(p.stack) = SubSeq(s, 1, d - 1)
      BY <3>1, <2>1, <1>10
    <3> QED BY <3>2, <2>1, <2>2, <1>2 DEF p
  <2>3. CASE s[d] < 0
    <3>1. p = [action |-> s[d - 1],
               stack |-> IF s[d] = -2 THEN DropEntry(u) ELSE SetCount(u, s[d] + 1)]
      BY <2>1, <2>3, <1>2, <1>4
    <3>2. CASE s[d] = -2
      <4>1. p.action = s[d - 1] /\ p.stack = DropEntry(u)
        BY <3>1, <3>2
      <4>2. Ring(p.stack) /\ Entries(p.stack) = SubSeq(s, 1, d - 1)
        BY <4>1, <2>1, <1>10
      <4> QED BY <4>1, <4>2, <3>2, <2>1, <2>3, <1>2 DEF p
    <3>3. CASE s[d] # -2
      <4>1. p.action = s[d - 1] /\ p.stack = SetCount(u, s[d] + 1)
        BY <3>1, <3>3
      <4>2. s[d] + 1 \in Int
        BY <2>1
      <4>3. Ring(p.stack) /\ Entries(p.stack) = [s EXCEPT ![d] = s[d] + 1]
        BY <4>1, <4>2, <2>1, <1>9
      <4> QED BY <4>1, <4>3, <3>3, <2>1, <2>3, <1>2 DEF p
    <3> QED BY <3>2, <3>3
  <2> QED BY <2>1, <2>2, <2>3
<1> QED BY <1>2, <1>11, <1>12

-----------------------------------------------------------------------------
(* The actions the entries s stand for, one by one: the first f[i] actions *)
(* of q are those of the first i entries.                                  *)
Layout(s, q, f) ==
  /\ f \in [0 .. Len(s) -> Nat] /\ f[0] = 0 /\ f[Len(s)] = Len(q)
  /\ \A i \in 1 .. Len(s) :
       /\ s[i] >= 0 => f[i] = f[i - 1] + 1 /\ q[f[i]] = s[i]
       /\ s[i] < 0 => /\ f[i] = f[i - 1] - s[i] - 1
                      /\ \A k \in f[i - 1] + 1 .. f[i] : q[k] = s[i - 1]

LEMMA FormedIs ==
  ASSUME NEW s, Formed(s)
  PROVE  /\ s \in Seq(Int) /\ Len(s) \in Nat
         /\ \A k \in 1 .. Len(s) : /\ s[k] \in Int
                                   /\ s[k] >= 0 \/ (s[k] <= -2 /\ k > 1 /\ k - 1 \in 1 .. Len(s))
<1>1. s \in Seq(Int) /\ Len(s) \in Nat
  BY DEF Formed
<1> SUFFICES ASSUME NEW k \in 1 .. Len(s)
             PROVE  s[k] \in Int /\ (s[k] >= 0 \/ (s[k] <= -2 /\ k > 1 /\ k - 1 \in 1 .. Len(s)))
  BY <1>1
<1>2. s[k] \in Int
  BY <1>1
<1>3. s[k] >= 0 \/ (s[k] <= -2 /\ k > 1)
  BY DEF Formed
<1> QED BY <1>1, <1>2, <1>3

LEMMA LayoutStep ==
  ASSUME NEW s, Formed(s), NEW q, NEW f, Layout(s, q, f), NEW i \in 1 .. Len(s)
  PROVE  /\ i - 1 \in 0 .. Len(s) /\ f[i - 1] \in Nat /\ f[i] \in Nat /\ f[i] > f[i - 1]
         /\ s[i] \in Int
<1>1. Len(s) \in Nat /\ s[i] \in Int /\ (s[i] >= 0 \/ s[i] <= -2)
  BY FormedIs
<1>2. f \in [0 .. Len(s) -> Nat]
  BY DEF Layout
<1>3. i \in 0 .. Len(s) /\ i - 1 \in 0 .. Len(s)
  BY <1>1
<1>4. f[i] \in Nat /\ f[i - 1] \in Nat
  BY <1>2, <1>3
<1>5. /\ s[i] >= 0 => f[i] = f[i - 1] + 1
      /\ s[i] < 0 => f[i] = f[i - 1] - s[i] - 1
  BY DEF Layout
<1> DEFINE x == f[i]
           y == f[i - 1]
           z == s[i]
<1> HIDE DEF x, y, z
<1>6. x \in Nat /\ y \in Nat /\ z \in Int /\ (z >= 0 \/ z <= -2)
      /\ (z >= 0 => x = y + 1) /\ (z < 0 => x = y - z - 1)
  BY <1>1, <1>4, <1>5 DEF x, y, z
<1>7. x > y
  BY <1>6
<1> QED BY <1>1, <1>3, <1>4, <1>7 DEF x, y

LEMMA LayoutUp ==
  ASSUME NEW s, Formed(s), NEW q, NEW f, Layout(s, q, f)
  PROVE  \A i \in 0 .. Len(s) : \A j \in i .. Len(s) : f[i] \in Nat /\ f[j] \in Nat /\ f[i] <= f[j]
<1> SUFFICES ASSUME NEW i \in 0 .. Len(s)
             PROVE  \A j \in i .. Len(s) : f[i] \in Nat /\ f[j] \in Nat /\ f[i] <= f[j]
  OBVIOUS
<1> DEFINE n == Len(s) - i
           T == {k \in 0 .. n : f[i + k] \in Nat /\ f[i] <= f[i + k]}
<1>1. Len(s) \in Nat /\ n \in Nat
  BY FormedIs
<1>2. f[i] \in Nat
  BY DEF Layout
<1>3. 0 \in T
  <2>1. f[i + 0] = f[i] /\ 0 \in 0 .. n
    BY <1>1
  <2> QED BY <2>1, <1>2
<1>4. ASSUME NEW k \in 0 .. n - 1, k \in T PROVE k + 1 \in T
  <2>1. i + (k + 1) \in 1 .. Len(s) /\ i + (k + 1) - 1 = i + k /\ k + 1 \in 0 .. n
    BY <1>1
  <2> DEFINE j == i + (k + 1)
  <2>2. j \in 1 .. Len(s) /\ j - 1 = i + k
    BY <2>1
  <2> HIDE DEF j
  <2>3. f[j - 1] \in Nat /\ f[j] \in Nat /\ f[j] > f[j - 1]
    BY <2>2, LayoutStep
  <2>4. f[i] <= f[i + k]
    BY <1>4
  <2>5. f[i] <= f[j] /\ f[j] \in Nat
    BY <2>2, <2>3, <2>4, <1>2
  <2> QED BY <2>1, <2>5 DEF j
<1>5. \A k \in 0 .. n : k \in T
  <2> HIDE DEF T, n
  <2> QED BY <1>1, <1>3, <1>4, UpTo
<1> SUFFICES ASSUME NEW j \in i .. Len(s) PROVE f[j] \in Nat /\ f[i] <= f[j]
  BY <1>2
<1>6. j - i \in 0 .. n /\ i + (j - i) = j
  BY <1>1
<1>7. j - i \in T
  BY <1>5, <1>6
<1> QED BY <1>6, <1>7

(* The last action.                                                        *)
LEMMA LayoutTop ==
  ASSUME NEW s, Formed(s), NEW q, NEW f, Layout(s, q, f)
  PROVE  /\ Len(q) \in Nat /\ (Len(s) = 0 <=> Len(q) = 0)
         /\ Len(s) > 0 /\ s[Len(s)] >= 0 => q[Len(q)] = s[Len(s)] /\ f[Len(s) - 1] = Len(q) - 1
         /\ Len(s) > 0 /\ s[Len(s)] < 0 => /\ q[Len(q)] = s[Len(s) - 1]
                                           /\ f[Len(s) - 1] = Len(q) + s[Len(s)] + 1
<1>1. Len(s) \in Nat
  BY FormedIs
<1>2. f[0] = 0 /\ f[Len(s)] = Len(q) /\ f[Len(s)] \in Nat
  BY <1>1 DEF Layout
<1>3. CASE Len(s) = 0
  BY <1>2, <1>3
<1>4. CASE Len(s) > 0
  <2> DEFINE d == Len(s)
             y == f[d - 1]
             z == s[d]
             n == Len(q)
  <2>1. d \in 1 .. d /\ d \in Nat
    BY <1>1, <1>4
  <2>2. y \in Nat /\ n \in Nat /\ n > y /\ z \in Int
    BY <2>1, <1>2, LayoutStep
  <2>3. /\ z >= 0 => n = y + 1 /\ q[n] = z
        /\ z < 0 => n = y - z - 1 /\ \A k \in y + 1 .. n : q[k] = s[d - 1]
    BY <2>1, <1>2 DEF Layout
  <2> HIDE DEF d, y, z, n
  <2>4. n \in y + 1 .. n
    BY <2>2
  <2>5. z < 0 => q[n] = s[d - 1] /\ y = n + z + 1
    BY <2>2, <2>3, <2>4
  <2>6. z >= 0 => q[n] = z /\ y = n - 1
    BY <2>2, <2>3
  <2>7. n # 0
    BY <2>2
  <2> QED BY <2>2, <2>5, <2>6, <2>7, <1>4 DEF d, y, z, n
<1> QED BY <1>1, <1>3, <1>4

(* The first m entries stay; there is one more at most, and q2 follows.    *)
Extends(s, q, f, m, r, q2) ==
  /\ m \in 0 .. Len(s) /\ r \in Seq(Int) /\ q2 \in Seq(Nat)
  /\ Len(r) \in {m, m + 1} /\ \A i \in 1 .. m : r[i] = s[i]
  /\ \A k \in 1 .. f[m] : q2[k] = q[k]
  /\ Len(r) = m => Len(q2) = f[m]
  /\ Len(r) = m + 1 /\ r[m + 1] >= 0 => Len(q2) = f[m] + 1 /\ q2[f[m] + 1] = r[m + 1]
  /\ Len(r) = m + 1 /\ r[m + 1] < 0 =>
       /\ m >= 1 /\ Len(q2) = f[m] - r[m + 1] - 1
       /\ \A k \in f[m] + 1 .. Len(q2) : q2[k] = s[m]

LEMMA LayoutKept ==
  ASSUME NEW s, Formed(s), NEW q, NEW f, Layout(s, q, f), NEW m, NEW r, NEW q2,
         Extends(s, q, f, m, r, q2)
  PROVE  \E g : Layout(r, q2, g)
<1>0. /\ m \in 0 .. Len(s) /\ r \in Seq(Int) /\ q2 \in Seq(Nat)
      /\ Len(r) \in {m, m + 1} /\ \A i \in 1 .. m : r[i] = s[i]
      /\ \A k \in 1 .. f[m] : q2[k] = q[k]
      /\ Len(r) = m => Len(q2) = f[m]
      /\ Len(r) = m + 1 /\ r[m + 1] >= 0 => Len(q2) = f[m] + 1 /\ q2[f[m] + 1] = r[m + 1]
      /\ Len(r) = m + 1 /\ r[m + 1] < 0 =>
           /\ m >= 1 /\ Len(q2) = f[m] - r[m + 1] - 1
           /\ \A k \in f[m] + 1 .. Len(q2) : q2[k] = s[m]
  BY DEF Extends
<1> DEFINE g == [i \in 0 .. Len(r) |-> IF i <= m THEN f[i] ELSE Len(q2)]
           n == Len(q2)
<1>1. Len(s) \in Nat /\ m \in Nat /\ n \in Nat /\ Len(r) \in Nat
  BY <1>0, FormedIs
<1>2. ASSUME NEW i \in 0 .. m PROVE f[i] \in Nat /\ f[i] <= f[m]
  <2>1. i \in 0 .. Len(s) /\ m \in i .. Len(s)
    BY <1>0, <1>1
  <2> QED BY <1>0, <2>1, LayoutUp
<1>3. g \in [0 .. Len(r) -> Nat]
  BY <1>0, <1>1, <1>2, SMTT(60)
<1>4. /\ \A i \in 0 .. m : g[i] = f[i]
      /\ Len(r) = m + 1 => g[m + 1] = n
  BY <1>0, <1>1
<1> HIDE DEF g
<1>5. g[0] = 0
  BY <1>0, <1>1, <1>4 DEF Layout
<1>6. g[Len(r)] = n
  <2>1. CASE Len(r) = m
    BY <1>0, <2>1, <1>1, <1>4
  <2>2. CASE Len(r) = m + 1
    BY <1>0, <2>2, <1>1, <1>4
  <2> QED BY <1>0, <2>1, <2>2
<1>7. ASSUME NEW i \in 1 .. m
      PROVE  /\ r[i] >= 0 => g[i] = g[i - 1] + 1 /\ q2[g[i]] = r[i]
             /\ r[i] < 0 => /\ g[i] = g[i - 1] - r[i] - 1
                            /\ \A k \in g[i - 1] + 1 .. g[i] : q2[k] = r[i - 1]
  <2>1. i \in 0 .. m /\ i - 1 \in 0 .. m /\ i \in 1 .. Len(s)
    BY <1>0, <1>1
  <2>2. g[i] = f[i] /\ g[i - 1] = f[i - 1] /\ r[i] = s[i]
    BY <1>0, <2>1, <1>4
  <2>3. /\ s[i] >= 0 => f[i] = f[i - 1] + 1 /\ q[f[i]] = s[i]
        /\ s[i] < 0 => /\ f[i] = f[i - 1] - s[i] - 1
                       /\ \A k \in f[i - 1] + 1 .. f[i] : q[k] = s[i - 1]
    BY <1>0, <2>1 DEF Layout
  <2>4. f[i] \in Nat /\ f[i - 1] \in Nat /\ f[i] > f[i - 1] /\ f[i] <= f[m] /\ f[m] \in Nat
    BY <1>0, <2>1, <1>2, LayoutStep
  <2>5. ASSUME NEW k \in f[i - 1] + 1 .. f[i] PROVE q2[k] = q[k]
    <3> DEFINE x == f[i]
               y == f[i - 1]
               z == f[m]
    <3>1. x \in Nat /\ y \in Nat /\ z \in Nat /\ x <= z /\ k \in y + 1 .. x
      BY <1>0, <2>4
    <3> HIDE DEF x, y, z
    <3>2. k \in 1 .. z
      BY <3>1
    <3> QED BY <1>0, <3>2 DEF z
  <2>6. f[i] \in f[i - 1] + 1 .. f[i]
    <3>1. \A x, y \in Nat : x > y => x \in y + 1 .. x
      OBVIOUS
    <3> QED BY <3>1, <2>4
  <2>7. s[i] \in Int /\ (s[i] < 0 => r[i - 1] = s[i - 1])
    <3>1. s[i] \in Int /\ (s[i] >= 0 \/ i > 1)
      BY <1>0, <2>1, FormedIs
    <3>2. i > 1 => i - 1 \in 1 .. m
      BY <1>0, <1>1
    <3> QED BY <1>0, <3>1, <3>2
  <2> QED BY <1>0, <2>2, <2>3, <2>5, <2>6, <2>7
<1>8. ASSUME Len(r) = m + 1
      PROVE  /\ r[m + 1] >= 0 => g[m + 1] = g[m] + 1 /\ q2[g[m + 1]] = r[m + 1]
             /\ r[m + 1] < 0 => /\ g[m + 1] = g[m] - r[m + 1] - 1
                                /\ \A k \in g[m] + 1 .. g[m + 1] : q2[k] = r[m]
  <2>1. g[m + 1] = n /\ g[m] = f[m]
    BY <1>0, <1>1, <1>4, <1>8
  <2>2. r[m + 1] < 0 => r[m] = s[m]
    <3>1. m >= 1 => m \in 1 .. m
      BY <1>0, <1>1
    <3> QED BY <1>0, <3>1, <1>8
  <2> QED BY <1>0, <2>1, <2>2, <1>8
<1>9. ASSUME NEW i \in 1 .. Len(r)
      PROVE  /\ r[i] >= 0 => g[i] = g[i - 1] + 1 /\ q2[g[i]] = r[i]
             /\ r[i] < 0 => /\ g[i] = g[i - 1] - r[i] - 1
                            /\ \A k \in g[i - 1] + 1 .. g[i] : q2[k] = r[i - 1]
  <2>1. CASE i \in 1 .. m
    BY <1>0, <2>1, <1>7
  <2>2. CASE ~ (i \in 1 .. m)
    <3>1. i = m + 1 /\ Len(r) = m + 1 /\ i - 1 = m
      BY <1>0, <2>2, <1>1
    <3> QED BY <3>1, <1>8
  <2> QED BY <1>0, <2>1, <2>2
<1>10. Layout(r, q2, g)
  BY <1>0, <1>3, <1>5, <1>6, <1>9 DEF Layout
<1> QED BY <1>0, <1>10

LEMMA TailIs ==
  ASSUME NEW S, NEW t \in Seq(S), NEW k \in 0 .. Len(t)
  PROVE  /\ SubSeq(t, k + 1, Len(t)) \in Seq(S) /\ Len(SubSeq(t, k + 1, Len(t))) = Len(t) - k
         /\ \A i \in 1 .. Len(t) - k : SubSeq(t, k + 1, Len(t))[i] = t[k + i]
<1> DEFINE n == Len(t)
           b == k + 1
           r == SubSeq(t, b, n)
<1>1. n \in Nat /\ k \in Nat /\ k <= n /\ b \in Int /\ b = k + 1
  OBVIOUS
<1>2. \A i \in b .. n : t[i] \in S
  BY <1>1
<1> HIDE DEF n, b
<1>3. /\ r \in Seq(S)
      /\ Len(r) = IF b <= n THEN n - b + 1 ELSE 0
      /\ \A i \in 1 .. n - b + 1 : r[i] = t[b + i - 1]
  BY <1>1, <1>2, SubSeqProperties
<1> HIDE DEF r
<1>4. Len(r) = n - k
  BY <1>1, <1>3
<1>5. \A i \in 1 .. n - k : i \in 1 .. n - b + 1 /\ b + i - 1 = k + i
  BY <1>1
<1> QED BY <1>3, <1>4, <1>5 DEF r, b, n

LEMMA LayoutSuffix ==
  ASSUME NEW s, Formed(s), NEW q \in Seq(Nat), NEW f, Layout(s, q, f), NEW m \in 0 .. Len(s),
         m < Len(s) => s[m + 1] >= 0
  PROVE  LET r == SubSeq(s, m + 1, Len(s))
             q2 == SubSeq(q, f[m] + 1, Len(q))
         IN f[m] \in 0 .. Len(q) /\ q2 \in Seq(Nat) /\ \E g : Layout(r, q2, g)
<1> DEFINE d == Len(s)
           n == Len(q)
           a == f[m]
           r == SubSeq(s, m + 1, d)
           q2 == SubSeq(q, a + 1, n)
           g == [i \in 0 .. d - m |-> f[m + i] - a]
<1>1. d \in Nat /\ s \in Seq(Int) /\ n \in Nat /\ m \in Nat
  BY FormedIs
<1>2. \A i \in 0 .. d - m : f[m + i] \in Nat /\ a <= f[m + i] /\ a \in Nat
  <2>1. \A j \in m .. d : f[m] \in Nat /\ f[j] \in Nat /\ f[m] <= f[j]
    BY LayoutUp
  <2>2. \A i \in 0 .. d - m : m + i \in m .. d
    BY <1>1
  <2> QED BY <2>1, <2>2
<1>3. f[d] = n /\ m + (d - m) = d /\ d - m \in 0 .. d - m /\ 0 \in 0 .. d - m /\ f[m + 0] = a
  BY <1>1 DEF Layout
<1>4. a \in 0 .. n
  <2>1. a \in Nat /\ f[m + (d - m)] >= a /\ f[m + (d - m)] = n
    BY <1>2, <1>3
  <2> HIDE DEF a
  <2> QED BY <2>1, <1>1
<1>5. /\ r \in Seq(Int) /\ Len(r) = d - m
      /\ \A i \in 1 .. d - m : r[i] = s[m + i]
  BY <1>1, TailIs
<1>6. /\ q2 \in Seq(Nat) /\ Len(q2) = n - a
      /\ \A i \in 1 .. n - a : q2[i] = q[a + i]
  <2> HIDE DEF a
  <2> QED BY <1>4, TailIs DEF q2, n
<1>7. g \in [0 .. d - m -> Nat] /\ \A i \in 0 .. d - m : g[i] = f[m + i] - a
  <2>1. \A x, y \in Nat : x <= y => y - x \in Nat
    OBVIOUS
  <2>2. \A i \in 0 .. d - m : f[m + i] - a \in Nat
    BY <1>2, <2>1
  <2> HIDE DEF a
  <2> QED BY <2>2
<1>8. g[0] = 0 /\ g[d - m] = n - a
  BY <1>2, <1>3, <1>7
<1> HIDE DEF r, q2, g, a
<1>9. ASSUME NEW i \in 1 .. d - m
      PROVE  /\ r[i] >= 0 => g[i] = g[i - 1] + 1 /\ q2[g[i]] = r[i]
             /\ r[i] < 0 => /\ g[i] = g[i - 1] - r[i] - 1
                            /\ \A k \in g[i - 1] + 1 .. g[i] : q2[k] = r[i - 1]
  <2> DEFINE j == m + i
  <2>1. j \in 1 .. d /\ j - 1 = m + (i - 1) /\ i \in 0 .. d - m /\ i - 1 \in 0 .. d - m
        /\ j \in 0 .. d /\ d \in j .. d
    BY <1>1
  <2>2. r[i] = s[j] /\ g[i] = f[j] - a /\ g[i - 1] = f[j - 1] - a
    BY <2>1, <1>5, <1>7
  <2>3. f[j] \in Nat /\ f[j - 1] \in Nat /\ a \in Nat /\ a <= f[j] /\ a <= f[j - 1] /\ f[j] > f[j - 1]
        /\ s[j] \in Int
    <3>1. f[j] \in Nat /\ f[j - 1] \in Nat /\ a \in Nat /\ a <= f[j] /\ a <= f[j - 1]
      BY <2>1, <1>2
    <3> HIDE DEF j
    <3>2. f[j] > f[j - 1] /\ s[j] \in Int
      BY <2>1, LayoutStep
    <3> QED BY <3>1, <3>2
  <2>4. f[j] <= n
    <3> HIDE DEF j
    <3>1. f[j] <= f[d]
      BY <2>1, LayoutUp
    <3> QED BY <3>1, <1>3
  <2>5. /\ s[j] >= 0 => f[j] = f[j - 1] + 1 /\ q[f[j]] = s[j]
        /\ s[j] < 0 => /\ f[j] = f[j - 1] - s[j] - 1
                       /\ \A k \in f[j - 1] + 1 .. f[j] : q[k] = s[j - 1]
    <3> HIDE DEF j
    <3> QED BY <2>1 DEF Layout
  <2>6. s[j] < 0 => i > 1
    <3>1. i = 1 => j = m + 1 /\ m < d
      BY <1>1
    <3> QED BY <3>1, <2>3
  <2>7. s[j] < 0 => r[i - 1] = s[j - 1]
    <3>1. i > 1 => i - 1 \in 1 .. d - m
      BY <1>1
    <3> QED BY <3>1, <2>1, <2>6, <1>5
  <2> HIDE DEF j
  <2> DEFINE x == f[j]
             y == f[j - 1]
             z == s[j]
  <2>8. x \in Nat /\ y \in Nat /\ z \in Int /\ a <= x /\ a <= y /\ y < x /\ x <= n
        /\ r[i] = z /\ g[i] = x - a /\ g[i - 1] = y - a
        /\ (z >= 0 => x = y + 1 /\ q[x] = z)
        /\ (z < 0 => x = y - z - 1 /\ \A k \in y + 1 .. x : q[k] = s[j - 1])
    BY <2>2, <2>3, <2>4, <2>5
  <2> HIDE DEF x, y, z
  <2>9. CASE z >= 0
    <3>1. x - a \in 1 .. n - a /\ a + (x - a) = x /\ x - a = (y - a) + 1
      BY <2>8, <2>9, <1>4, <1>1
    <3>2. q2[x - a] = q[x]
      BY <3>1, <1>6
    <3> QED BY <3>1, <3>2, <2>8, <2>9
  <2>10. CASE z < 0
    <3>1. x - a = (y - a) - z - 1
      BY <2>8, <2>10, <1>4, <1>1
    <3>2. ASSUME NEW k \in (y - a) + 1 .. x - a PROVE q2[k] = s[j - 1]
      <4>0. x \in Nat /\ y \in Nat /\ a <= y /\ x <= n /\ a \in Nat /\ n \in Nat
        BY <2>8, <1>4, <1>1
      <4>1. k \in 1 .. n - a /\ a + k \in y + 1 .. x
        BY <4>0
      <4> QED BY <4>1, <2>8, <2>10, <1>6
    <3>3. r[i - 1] = s[j - 1]
      BY <2>7, <2>10 DEF z
    <3> QED BY <3>1, <3>2, <3>3, <2>8, <2>10
  <2> QED BY <2>8, <2>9, <2>10
<1>10. Layout(r, q2, g)
  BY <1>5, <1>6, <1>7, <1>8, <1>9 DEF Layout
<1> QED BY <1>4, <1>6, <1>10 DEF r, q2, a

StandsFor(s, q) == Shape(s) /\ q \in Seq(Nat) /\ \E f : Layout(s, q, f)

(* How a push of c changes the list q of actions.                          *)
Follows(q, c, q2) ==
  \/ q # <<>> /\ q[Len(q)] = c /\ c >= KEY_PRESS /\ q2 = q
  \/ q # <<>> /\ Opposite(c, q[Len(q)]) /\ q2 = SubSeq(q, 1, Len(q) - 1)
  \/ \E m \in 0 .. Len(q) + 1 : q2 = SubSeq(Append(q, c), m + 1, Len(q) + 1)

LEMMA FormedAppend ==
  ASSUME NEW s, Formed(s), NEW y \in Int,
         \/ y >= 0 /\ Code(y)
         \/ y = -2 /\ Len(s) > 0 /\ s[Len(s)] >= 0 /\ s[Len(s)] < KEY_PRESS
  PROVE  LET r == Append(s, y)
         IN /\ Formed(r) /\ r \in Seq(Int) /\ Len(r) = Len(s) + 1
            /\ \A k \in 1 .. Len(s) : r[k] = s[k]
            /\ r[Len(s) + 1] = y
<1> DEFINE r == Append(s, y)
           d == Len(s)
<1>1. s \in Seq(Int) /\ d \in Nat
  BY FormedIs
<1>2. /\ r \in Seq(Int) /\ Len(r) = d + 1 /\ \A k \in 1 .. d : r[k] = s[k]
      /\ r[d + 1] = y
  BY <1>1, AppendProperties
<1> HIDE DEF r, d
<1>3. ASSUME NEW k \in 1 .. d + 1
      PROVE  \/ r[k] >= 0 /\ Code(r[k])
             \/ r[k] <= -2 /\ k > 1 /\ r[k - 1] >= 0 /\ r[k - 1] < KEY_PRESS
  <2>1. CASE k = d + 1
    <3>1. r[k] = y /\ (d > 0 => k - 1 \in 1 .. d /\ k - 1 = d)
      BY <2>1, <1>1, <1>2
    <3>2. d > 0 => r[k - 1] = s[d]
      BY <3>1, <1>2
    <3> QED BY <3>1, <3>2, <2>1, <1>1 DEF d
  <2>2. CASE k \in 1 .. d
    <3>1. \/ s[k] >= 0 /\ Code(s[k])
          \/ s[k] <= -2 /\ k > 1 /\ s[k - 1] >= 0 /\ s[k - 1] < KEY_PRESS
      BY <2>2 DEF Formed, d
    <3>2. r[k] = s[k] /\ (k > 1 => k - 1 \in 1 .. d)
      BY <2>2, <1>1, <1>2
    <3>3. k > 1 => r[k - 1] = s[k - 1]
      BY <3>2, <1>2
    <3> QED BY <3>1, <3>2, <3>3
  <2> QED BY <2>1, <2>2, <1>1
<1>4. Formed(r)
  BY <1>2, <1>3, SMTT(60) DEF Formed
<1> QED BY <1>2, <1>4 DEF r, d

LEMMA FormedTop ==
  ASSUME NEW s, Formed(s), Len(s) > 0, s[Len(s)] < 0, NEW n \in Int, n <= -2
  PROVE  LET r == [s EXCEPT ![Len(s)] = n]
         IN /\ Formed(r) /\ r \in Seq(Int) /\ Len(r) = Len(s) /\ Len(s) > 1
            /\ \A k \in 1 .. Len(s) - 1 : r[k] = s[k]
            /\ r[Len(s)] = n
<1> DEFINE d == Len(s)
           r == [s EXCEPT ![d] = n]
<1>1. s \in Seq(Int) /\ d \in Nat /\ d \in 1 .. d
  BY FormedIs
<1>2. /\ r \in Seq(Int) /\ Len(r) = d
      /\ \A k \in 1 .. d : r[k] = IF k = d THEN n ELSE s[k]
  BY <1>1, ExceptSeq
<1>3. d > 1 /\ s[d - 1] >= 0 /\ s[d - 1] < KEY_PRESS
  BY <1>1 DEF Formed
<1> HIDE DEF r, d
<1>4. ASSUME NEW k \in 1 .. d
      PROVE  \/ r[k] >= 0 /\ Code(r[k])
             \/ r[k] <= -2 /\ k > 1 /\ r[k - 1] >= 0 /\ r[k - 1] < KEY_PRESS
  <2>0. k > 1 => r[k - 1] = s[k - 1]
    <3>1. k > 1 => k - 1 \in 1 .. d /\ k - 1 # d
      BY <1>1
    <3> QED BY <3>1, <1>2
  <2>1. CASE k = d
    BY <2>0, <2>1, <1>1, <1>2, <1>3
  <2>2. CASE k # d
    <3>1. \/ s[k] >= 0 /\ Code(s[k])
          \/ s[k] <= -2 /\ k > 1 /\ s[k - 1] >= 0 /\ s[k - 1] < KEY_PRESS
      BY DEF Formed, d
    <3>2. r[k] = s[k]
      BY <2>2, <1>2
    <3> QED BY <2>0, <3>1, <3>2
  <2> QED BY <2>1, <2>2
<1>5. Formed(r)
  BY <1>2, <1>4 DEF Formed
<1>6. \A k \in 1 .. d - 1 : k \in 1 .. d /\ k # d
  BY <1>1
<1>7. (\A k \in 1 .. d - 1 : r[k] = s[k]) /\ r[d] = n
  BY <1>1, <1>2, <1>6
<1> QED BY <1>2, <1>3, <1>5, <1>7, ZenonT(30) DEF r, d

LEMMA FormedPart ==
  ASSUME NEW s, Formed(s), NEW m \in 0 .. Len(s), NEW d \in m .. Len(s),
         m < d => s[m + 1] >= 0
  PROVE  LET r == SubSeq(s, m + 1, d)
         IN /\ Formed(r) /\ r \in Seq(Int) /\ Len(r) = d - m
            /\ \A k \in 1 .. d - m : r[k] = s[m + k]
<1> DEFINE r == SubSeq(s, m + 1, d)
           n == Len(s)
<1>1. n \in Nat /\ d \in Nat /\ m \in Nat /\ s \in Seq(Int) /\ m <= d /\ d <= n
  BY FormedIs
<1>2. /\ r \in Seq(Int) /\ Len(r) = d - m
      /\ \A i \in 1 .. d - m : r[i] = s[m + i]
  <2>1. \A i \in m + 1 .. d : s[i] \in Int
    <3>1. \A i \in m + 1 .. d : i \in 1 .. n
      BY <1>1
    <3> QED BY <3>1, <1>1
  <2>2. m + 1 \in Int /\ d \in Int
    BY <1>1
  <2>3. /\ r \in Seq(Int)
        /\ Len(r) = IF m + 1 <= d THEN d - (m + 1) + 1 ELSE 0
        /\ \A i \in 1 .. d - (m + 1) + 1 : r[i] = s[(m + 1) + i - 1]
    BY <2>1, <2>2, SubSeqProperties
  <2>4. Len(r) = d - m
    BY <2>3, <1>1
  <2>5. \A i \in 1 .. d - m : i \in 1 .. d - (m + 1) + 1 /\ (m + 1) + i - 1 = m + i
    BY <1>1
  <2> QED BY <2>3, <2>4, <2>5
<1> HIDE DEF r
<1>3. ASSUME NEW k \in 1 .. d - m
      PROVE  \/ r[k] >= 0 /\ Code(r[k])
             \/ r[k] <= -2 /\ k > 1 /\ r[k - 1] >= 0 /\ r[k - 1] < KEY_PRESS
  <2> DEFINE j == m + k
  <2>1. j \in 1 .. n /\ (k > 1 => k - 1 \in 1 .. d - m /\ m + (k - 1) = j - 1) /\ (k = 1 => j = m + 1 /\ m < d)
    BY <1>1
  <2>2. r[k] = s[j] /\ (k > 1 => r[k - 1] = s[j - 1])
    BY <2>1, <1>2
  <2> HIDE DEF j
  <2>3. \/ s[j] >= 0 /\ Code(s[j])
        \/ s[j] <= -2 /\ j > 1 /\ s[j - 1] >= 0 /\ s[j - 1] < KEY_PRESS
    BY <2>1 DEF Formed, n
  <2>4. s[j] \in Int
    BY <2>1, <1>1 DEF n
  <2>5. k = 1 => s[j] >= 0
    BY <2>1
  <2>6. k > 1 \/ k = 1
    OBVIOUS
  <2> QED BY <2>2, <2>3, <2>4, <2>5, <2>6
<1>4. Formed(r)
  BY <1>2, <1>3 DEF Formed
<1> QED BY <1>2, <1>4 DEF r

(* An entry more, for the action c.                                        *)
LEMMA StandsAppend ==
  ASSUME NEW s, Formed(s), NEW q \in Seq(Nat), NEW f, Layout(s, q, f), NEW c \in Nat, NEW y \in Int,
         \/ y = c
         \/ y = -2 /\ Len(s) > 0 /\ s[Len(s)] = c
  PROVE  \E g : Layout(Append(s, y), Append(q, c), g)
<1> DEFINE r == Append(s, y)
           q2 == Append(q, c)
           m == Len(s)
<1>1. m \in Nat /\ s \in Seq(Int) /\ f[m] = Len(q) /\ Len(q) \in Nat
  BY FormedIs DEF Layout
<1>2. /\ r \in Seq(Int) /\ Len(r) = m + 1 /\ \A i \in 1 .. m : r[i] = s[i]
      /\ r[m + 1] = y
  BY <1>1, AppendProperties
<1>3. /\ q2 \in Seq(Nat) /\ Len(q2) = Len(q) + 1 /\ \A i \in 1 .. Len(q) : q2[i] = q[i]
      /\ q2[Len(q) + 1] = c
  BY AppendProperties
<1> HIDE DEF r, q2
<1>4. m \in 0 .. Len(s) /\ Len(r) \in {m, m + 1} /\ Len(r) # m
  BY <1>1, <1>2
<1>5. \A k \in 1 .. f[m] : q2[k] = q[k]
  BY <1>1, <1>3
<1>6. Len(r) = m + 1 /\ r[m + 1] >= 0 => Len(q2) = f[m] + 1 /\ q2[f[m] + 1] = r[m + 1]
  BY <1>1, <1>2, <1>3
<1>7. ASSUME Len(r) = m + 1, r[m + 1] < 0
      PROVE  /\ m >= 1 /\ Len(q2) = f[m] - r[m + 1] - 1
             /\ \A k \in f[m] + 1 .. Len(q2) : q2[k] = s[m]
  <2>1. y = -2 /\ m > 0 /\ s[m] = c
    BY <1>2, <1>7
  <2> DEFINE n == Len(q)
  <2>2. Len(q2) = n + 1 /\ f[m] = n /\ n \in Nat /\ q2[n + 1] = s[m]
    BY <1>1, <1>3, <2>1
  <2> HIDE DEF n
  <2>3. \A k \in n + 1 .. n + 1 : k = n + 1
    BY <2>2
  <2>4. Len(q2) = f[m] - r[m + 1] - 1
    BY <2>1, <2>2, <1>2
  <2> QED BY <2>1, <2>2, <2>3, <2>4, <1>1
<1>9. /\ Len(r) = m => Len(q2) = f[m]
      /\ Len(r) = m + 1 /\ r[m + 1] < 0 =>
           /\ m >= 1 /\ Len(q2) = f[m] - r[m + 1] - 1
           /\ \A k \in f[m] + 1 .. Len(q2) : q2[k] = s[m]
  BY <1>4, <1>7
<1>8. Extends(s, q, f, m, r, q2)
  BY <1>2, <1>3, <1>4, <1>5, <1>6, <1>9 DEF Extends
<1> HIDE DEF m
<1>10. \E g : Layout(r, q2, g)
  BY <1>8, LayoutKept
<1> QED BY <1>10 DEF r, q2

(* Another count on top: one action more, or one less.                     *)
LEMMA StandsTop ==
  ASSUME NEW s, Formed(s), NEW q \in Seq(Nat), NEW f, Layout(s, q, f), Len(s) > 0, s[Len(s)] < 0
  PROVE  /\ s[Len(s) - 1] \in Nat
         /\ \E g : Layout([s EXCEPT ![Len(s)] = s[Len(s)] - 1], Append(q, s[Len(s) - 1]), g)
         /\ s[Len(s)] < -2 =>
              \E g : Layout([s EXCEPT ![Len(s)] = s[Len(s)] + 1], SubSeq(q, 1, Len(q) - 1), g)
<1> DEFINE d == Len(s)
           m == d - 1
           n == Len(q)
           z == s[d]
           c == s[d - 1]
<1>1. d \in Nat /\ s \in Seq(Int) /\ n \in Nat /\ m \in 0 .. d /\ d \in 1 .. d /\ z \in Int
      /\ d - 1 \in 1 .. d /\ m \in Nat /\ d = m + 1 /\ z <= -2
  <2>1. d \in Nat /\ s \in Seq(Int)
    BY FormedIs
  <2>2. d \in 1 .. d
    BY <2>1
  <2>3. z \in Int /\ (z >= 0 \/ (z <= -2 /\ d - 1 \in 1 .. d))
    BY <2>2, FormedIs
  <2> QED BY <2>1, <2>2, <2>3
<1>2. f[m] \in Nat /\ f[m] = n + z + 1 /\ q[n] = c
  <2>1. f[m] \in Nat
    BY <1>1 DEF Layout
  <2>2. f[d - 1] = n + z + 1 /\ q[n] = c
    BY LayoutTop
  <2> QED BY <2>1, <2>2
<1>3. \A k \in f[m] + 1 .. n : q[k] = c
  <2>1. d \in 1 .. Len(s) /\ f[d] = n
    BY <1>1 DEF Layout
  <2> QED BY <2>1, <1>1 DEF Layout
<1>4. c \in Nat
  <2>1. c \in Int /\ c >= 0
    BY <1>1 DEF Formed
  <2> QED BY <2>1
<1>5. \A i \in 1 .. m : i \in 1 .. d /\ i # d
  <2>1. d \in Nat
    BY <1>1
  <2> HIDE DEF d
  <2> QED BY <2>1
<1>6. \E g : Layout([s EXCEPT ![d] = z - 1], Append(q, c), g)
  <2> DEFINE r == [s EXCEPT ![d] = z - 1]
             q2 == Append(q, c)
  <2>1. /\ r \in Seq(Int) /\ Len(r) = d
        /\ \A k \in 1 .. d : r[k] = IF k = d THEN z - 1 ELSE s[k]
    <3>1. z - 1 \in Int
      BY <1>1
    <3> QED BY <3>1, <1>1, ExceptSeq
  <2>2. /\ q2 \in Seq(Nat) /\ Len(q2) = n + 1 /\ \A i \in 1 .. n : q2[i] = q[i]
        /\ q2[n + 1] = c
    BY <1>4, AppendProperties
  <2> HIDE DEF r, q2
  <2>3. r[m + 1] = z - 1 /\ z - 1 < 0
    BY <2>1, <1>1
  <2>4. \A i \in 1 .. m : r[i] = s[i]
    BY <2>1, <1>5
  <2>5. \A k \in 1 .. f[m] : q2[k] = q[k]
    <3>1. \A k \in 1 .. f[m] : k \in 1 .. n
      BY <1>1, <1>2
    <3> QED BY <3>1, <2>2
  <2>6. Len(r) \in {m, m + 1} /\ Len(r) # m
    BY <2>1, <1>1
  <2>7. m >= 1 /\ Len(q2) = f[m] - r[m + 1] - 1 /\ s[m] = c
    <3>1. m >= 1 /\ s[m] = c
      BY <1>1
    <3>2. Len(q2) = f[m] - r[m + 1] - 1
      <4>1. z \in Int /\ n \in Nat
        BY <1>1
      <4> HIDE DEF z, n, m
      <4> QED BY <4>1, <2>2, <2>3, <1>2
    <3> QED BY <3>1, <3>2
  <2>8. \A k \in f[m] + 1 .. Len(q2) : q2[k] = s[m]
    <3>1. \A k \in f[m] + 1 .. n + 1 : k = n + 1 \/ (k \in f[m] + 1 .. n /\ k \in 1 .. n)
      BY <1>1, <1>2, SMTT(60)
    <3> QED BY <3>1, <2>2, <2>7, <1>3
  <2> HIDE DEF d, m, n, z, c
  <2>10. /\ Len(r) = m => Len(q2) = f[m]
         /\ Len(r) = m + 1 /\ r[m + 1] >= 0 => Len(q2) = f[m] + 1 /\ q2[f[m] + 1] = r[m + 1]
         /\ Len(r) = m + 1 /\ r[m + 1] < 0 =>
              /\ m >= 1 /\ Len(q2) = f[m] - r[m + 1] - 1
              /\ \A k \in f[m] + 1 .. Len(q2) : q2[k] = s[m]
    <3>1. ~ (r[m + 1] >= 0)
      BY <2>3, <1>1
    <3> QED BY <3>1, <2>6, <2>7, <2>8
  <2>11. m \in 0 .. Len(s)
    BY <1>1 DEF d
  <2>9. \E g : Layout(r, q2, g)
    <3>1. Extends(s, q, f, m, r, q2)
      BY <2>1, <2>2, <2>4, <2>5, <2>6, <2>10, <2>11 DEF Extends
    <3> QED BY <3>1, LayoutKept
  <2> QED BY <2>9 DEF r, q2
<1>7. ASSUME z < -2 PROVE \E g : Layout([s EXCEPT ![d] = z + 1], SubSeq(q, 1, n - 1), g)
  <2> DEFINE r == [s EXCEPT ![d] = z + 1]
             q2 == SubSeq(q, 1, n - 1)
  <2>1. /\ r \in Seq(Int) /\ Len(r) = d
        /\ \A k \in 1 .. d : r[k] = IF k = d THEN z + 1 ELSE s[k]
    <3>1. z + 1 \in Int
      BY <1>1
    <3> QED BY <3>1, <1>1, ExceptSeq
  <2>2. /\ q2 \in Seq(Nat) /\ Len(q2) = n - 1 /\ \A i \in 1 .. n - 1 : q2[i] = q[i]
    <3>0. n > 0
      BY <1>1, <1>2, <1>7
    <3>1. \A i \in 1 .. n - 1 : q[i] \in Nat
      <4>1. \A i \in 1 .. n - 1 : i \in 1 .. n
        BY <1>1
      <4> QED BY <4>1
    <3>2. 1 \in Int /\ n - 1 \in Int
      BY <1>1
    <3>3. /\ q2 \in Seq(Nat) /\ Len(q2) = (IF 1 <= n - 1 THEN (n - 1) - 1 + 1 ELSE 0)
          /\ \A i \in 1 .. (n - 1) - 1 + 1 : q2[i] = q[1 + i - 1]
      BY <3>1, <3>2, SubSeqProperties
    <3>4. Len(q2) = n - 1
      <4>1. n \in Nat /\ n > 0 /\ Len(q2) = (IF 1 <= n - 1 THEN (n - 1) - 1 + 1 ELSE 0)
        BY <3>0, <3>3, <1>1
      <4> HIDE DEF n, q2
      <4> QED BY <4>1
    <3>5. \A i \in 1 .. n - 1 : i \in 1 .. (n - 1) - 1 + 1 /\ 1 + i - 1 = i
      BY <1>1
    <3> QED BY <3>3, <3>4, <3>5
  <2> HIDE DEF r, q2
  <2>3. r[m + 1] = z + 1 /\ z + 1 < 0
    BY <2>1, <1>1, <1>7
  <2>4. \A i \in 1 .. m : r[i] = s[i]
    BY <2>1, <1>5
  <2>5. \A k \in 1 .. f[m] : q2[k] = q[k]
    <3>1. \A k \in 1 .. f[m] : k \in 1 .. n - 1
      BY <1>1, <1>2, <1>7, SMTT(60)
    <3> QED BY <3>1, <2>2
  <2>6. Len(r) \in {m, m + 1} /\ Len(r) # m
    BY <2>1, <1>1
  <2>7. m >= 1 /\ Len(q2) = f[m] - r[m + 1] - 1 /\ s[m] = c
    <3>1. m >= 1 /\ s[m] = c
      BY <1>1
    <3>2. Len(q2) = f[m] - r[m + 1] - 1
      <4>1. z \in Int /\ n \in Nat
        BY <1>1
      <4> HIDE DEF z, n, m
      <4> QED BY <4>1, <2>2, <2>3, <1>2
    <3> QED BY <3>1, <3>2
  <2>8. \A k \in f[m] + 1 .. Len(q2) : q2[k] = s[m]
    <3>1. \A k \in f[m] + 1 .. n - 1 : k \in f[m] + 1 .. n /\ k \in 1 .. n - 1
      BY <1>1, <1>2, SMTT(60)
    <3> QED BY <3>1, <2>2, <2>7, <1>3
  <2> HIDE DEF d, m, n, z, c
  <2>10. /\ Len(r) = m => Len(q2) = f[m]
         /\ Len(r) = m + 1 /\ r[m + 1] >= 0 => Len(q2) = f[m] + 1 /\ q2[f[m] + 1] = r[m + 1]
         /\ Len(r) = m + 1 /\ r[m + 1] < 0 =>
              /\ m >= 1 /\ Len(q2) = f[m] - r[m + 1] - 1
              /\ \A k \in f[m] + 1 .. Len(q2) : q2[k] = s[m]
    <3>1. ~ (r[m + 1] >= 0)
      BY <2>3, <1>1
    <3> QED BY <3>1, <2>6, <2>7, <2>8
  <2>11. m \in 0 .. Len(s)
    BY <1>1 DEF d
  <2>9. \E g : Layout(r, q2, g)
    <3>1. Extends(s, q, f, m, r, q2)
      BY <2>1, <2>2, <2>4, <2>5, <2>6, <2>10, <2>11 DEF Extends
    <3> QED BY <3>1, LayoutKept
  <2> QED BY <2>9 DEF r, q2
<1> QED BY <1>4, <1>6, <1>7

(* A push, as a change of the list of actions.                             *)
LEMMA PartIs ==
  ASSUME NEW q \in Seq(Nat), NEW m \in 0 .. Len(q), NEW n \in m .. Len(q)
  PROVE  LET r == SubSeq(q, m + 1, n)
         IN /\ r \in Seq(Nat) /\ Len(r) = n - m /\ \A i \in 1 .. n - m : r[i] = q[m + i]
            /\ (m = 0 /\ n = Len(q)) => r = q
<1> DEFINE r == SubSeq(q, m + 1, n)
           d == Len(q)
<1>1. d \in Nat /\ m \in Nat /\ n \in Nat /\ m <= n /\ n <= d /\ m + 1 \in Int /\ n \in Int
  OBVIOUS
<1>2. \A i \in m + 1 .. n : q[i] \in Nat
  <2>1. \A i \in m + 1 .. n : i \in 1 .. d
    BY <1>1
  <2> QED BY <2>1
<1>3. /\ r \in Seq(Nat) /\ Len(r) = (IF m + 1 <= n THEN n - (m + 1) + 1 ELSE 0)
      /\ \A i \in 1 .. n - (m + 1) + 1 : r[i] = q[(m + 1) + i - 1]
  BY <1>1, <1>2, SubSeqProperties
<1>4. (m = 0 /\ n = Len(q)) => r = q
  <2>1. (m = 0 /\ n = Len(q)) => m + 1 = 1
    OBVIOUS
  <2> QED BY <2>1, SubSeqFull
<1> HIDE DEF r, d
<1>5. Len(r) = n - m
  BY <1>1, <1>3, SMTT(60)
<1>6. \A i \in 1 .. n - m : i \in 1 .. n - (m + 1) + 1 /\ (m + 1) + i - 1 = m + i
  BY <1>1
<1> QED BY <1>3, <1>4, <1>5, <1>6 DEF r

LEMMA StandsDrop ==
  ASSUME NEW s, Shape(s), NEW q \in Seq(Nat), NEW f, Layout(s, q, f), Len(s) > 0,
         s[Len(s)] >= 0 \/ s[Len(s)] = -2
  PROVE  StandsFor(SubSeq(s, 1, Len(s) - 1), SubSeq(q, 1, Len(q) - 1))
<1> DEFINE d == Len(s)
           m == d - 1
           n == Len(q)
           r == SubSeq(s, 0 + 1, m)
           q2 == SubSeq(q, 0 + 1, n - 1)
<1>1. Formed(s) /\ (d > 0 => s[1] >= KEY_PRESS)
  BY DEF Shape
<1>2. d \in Nat /\ s \in Seq(Int) /\ n \in Nat /\ m \in Nat /\ m < d /\ d = m + 1
      /\ 0 \in 0 .. Len(s) /\ m \in 0 .. Len(s)
  BY <1>1, FormedIs
<1>3. f[m] = n - 1 /\ n > 0 /\ f[m] \in Nat
  <2>1. n = 0 <=> d = 0
    BY <1>1, LayoutTop
  <2>2. /\ s[d] >= 0 => f[d - 1] = n - 1
        /\ s[d] < 0 => f[d - 1] = n + s[d] + 1
    BY <1>1, LayoutTop
  <2>3. f[m] = n - 1
    BY <2>2, <1>2
  <2> QED BY <2>1, <2>3, <1>2
<1>4. s[1] >= 0 /\ s[0 + 1] >= 0 /\ s[1] >= KEY_PRESS
  <2>1. 1 \in 1 .. Len(s) /\ 0 + 1 = 1
    BY <1>2
  <2>2. s[1] \in Int
    BY <2>1, <1>1, FormedIs
  <2> QED BY <2>1, <2>2, <1>1, KeyPressIs
<1>5. /\ Formed(r) /\ r \in Seq(Int) /\ Len(r) = m - 0
      /\ \A k \in 1 .. m - 0 : r[k] = s[0 + k]
  <2> HIDE DEF m, d
  <2> QED BY <1>1, <1>2, <1>4, FormedPart
<1>6. /\ q2 \in Seq(Nat) /\ Len(q2) = (n - 1) - 0 /\ \A i \in 1 .. (n - 1) - 0 : q2[i] = q[0 + i]
  <2>1. 0 \in 0 .. Len(q) /\ n - 1 \in 0 .. Len(q)
    BY <1>2, <1>3
  <2> QED BY <2>1, PartIs
<1>7. r = SubSeq(s, 1, d - 1) /\ q2 = SubSeq(q, 1, n - 1)
  OBVIOUS
<1> HIDE DEF r, q2
<1>8. Extends(s, q, f, m, r, q2)
  <2>1. Len(r) = m /\ \A i \in 1 .. m : r[i] = s[i]
    BY <1>2, <1>5
  <2>2. Len(q2) = f[m] /\ \A k \in 1 .. f[m] : q2[k] = q[k]
    BY <1>2, <1>3, <1>6
  <2>3. Len(r) # m + 1
    BY <2>1, <1>2
  <2> QED BY <2>1, <2>2, <2>3, <1>2, <1>5, <1>6 DEF Extends
<1>9. \E g : Layout(r, q2, g)
  BY <1>1, <1>8, LayoutKept
<1>10. Shape(r)
  <2>1. Len(r) > 0 => 1 \in 1 .. m - 0 /\ 0 + 1 = 1
    BY <1>2, <1>5
  <2> QED BY <2>1, <1>4, <1>5 DEF Shape
<1> QED BY <1>6, <1>7, <1>9, <1>10 DEF StandsFor, d, n

LEMMA StandsLatest ==
  ASSUME NEW s, Formed(s), NEW q \in Seq(Nat), NEW f, Layout(s, q, f), NEW r, Latest(r, s)
  PROVE  \E m \in 0 .. Len(q) : StandsFor(r, SubSeq(q, m + 1, Len(q)))
<1>1. PICK m \in 0 .. Len(s) : r = SubSeq(s, m + 1, Len(s))
  BY DEF Latest
<1>2. Len(s) \in Nat /\ Len(s) \in m .. Len(s)
  BY FormedIs
<1>3. m < Len(s) => s[m + 1] >= KEY_PRESS
  <2>1. ASSUME m < Len(s) PROVE r[1] = s[m + 1] /\ Len(r) > 0
    <3>1. \A i \in m + 1 .. Len(s) : s[i] \in Int
      <4>1. \A i \in m + 1 .. Len(s) : i \in 1 .. Len(s)
        BY <1>2
      <4> QED BY <4>1, FormedIs
    <3>2. /\ Len(r) = (IF m + 1 <= Len(s) THEN Len(s) - (m + 1) + 1 ELSE 0)
          /\ \A i \in 1 .. Len(s) - (m + 1) + 1 : r[i] = s[(m + 1) + i - 1]
      BY <1>1, <1>2, <3>1, SubSeqProperties
    <3>3. 1 \in 1 .. Len(s) - (m + 1) + 1 /\ (m + 1) + 1 - 1 = m + 1
      BY <1>2, <2>1
    <3>4. Len(r) > 0
      BY <3>2, <1>2, <2>1
    <3> QED BY <3>2, <3>3, <3>4
  <2> QED BY <2>1 DEF Latest
<1>4. m < Len(s) => s[m + 1] >= 0
  <2>1. m < Len(s) => s[m + 1] \in Int
    <3>1. m < Len(s) => m + 1 \in 1 .. Len(s)
      BY <1>2
    <3> QED BY <3>1, FormedIs
  <2> QED BY <2>1, <1>3, KeyPressIs
<1>5. Formed(r)
  BY <1>1, <1>2, <1>4, FormedPart
<1>6. Shape(r)
  BY <1>5 DEF Shape, Latest
<1>7. f[m] \in 0 .. Len(q) /\ SubSeq(q, f[m] + 1, Len(q)) \in Seq(Nat)
      /\ \E g : Layout(r, SubSeq(q, f[m] + 1, Len(q)), g)
  BY <1>1, <1>4, LayoutSuffix
<1>8. StandsFor(r, SubSeq(q, f[m] + 1, Len(q)))
  BY <1>6, <1>7 DEF StandsFor
<1> QED BY <1>7, <1>8

LEMMA OppositeIs ==
  ASSUME NEW c, NEW d, Opposite(c, d)
  PROVE  /\ c \in {CURS_LEFT, CURS_RIGHT} /\ d \in {CURS_LEFT, CURS_RIGHT} /\ c # d
         /\ c < KEY_PRESS
BY DEF Opposite, CURS_LEFT, CURS_RIGHT, KEY_PRESS

LEMMA PushStands ==
  ASSUME NEW s, NEW q, StandsFor(s, q), NEW c, Code(c), NEW r, Pushes(s, c, r)
  PROVE  \E q2 : StandsFor(r, q2) /\ Follows(q, c, q2)
<1> DEFINE d == Len(s)
           n == Len(q)
<1>1. PICK f : Layout(s, q, f)
  BY DEF StandsFor
<1>2. Shape(s) /\ Formed(s) /\ q \in Seq(Nat) /\ c \in Nat /\ c >= 0
  BY CodeIs DEF StandsFor, Shape
<1>3. d \in Nat /\ n \in Nat /\ s \in Seq(Int) /\ (n = 0 <=> d = 0)
  BY <1>1, <1>2, FormedIs, LayoutTop
<1>4. /\ d > 0 /\ s[d] >= 0 => q[n] = s[d]
      /\ d > 0 /\ s[d] < 0 => q[n] = s[d - 1]
  BY <1>1, <1>2, LayoutTop
<1>5. d > 0 => s[d] \in Int
  BY <1>2, <1>3, FormedIs
<1>6. d > 0 => q # <<>>
  BY <1>2, <1>3
<1>7. ASSUME NEW x, Latest(r, Append(s, x)), NEW g, Layout(Append(s, x), Append(q, c), g),
             Formed(Append(s, x))
      PROVE  \E q2 : StandsFor(r, q2) /\ Follows(q, c, q2)
  <2>1. Append(q, c) \in Seq(Nat) /\ Len(Append(q, c)) = n + 1
    BY <1>2, AppendProperties
  <2>2. \E m \in 0 .. Len(Append(q, c)) :
          StandsFor(r, SubSeq(Append(q, c), m + 1, Len(Append(q, c))))
    BY <2>1, <1>7, StandsLatest
  <2> QED BY <2>1, <2>2 DEF Follows
<1>8. CASE d >= 3 /\ s[d] = c /\ c >= KEY_PRESS /\ r = s
  <2>1. q # <<>> /\ q[n] = c
    BY <1>2, <1>3, <1>4, <1>6, <1>8
  <2>2. Follows(q, c, q)
    BY <2>1, <1>8 DEF Follows
  <2> QED BY <2>2, <1>8
<1>9. CASE d >= 3 /\ s[d] < 0 /\ s[d - 1] = c /\ c < KEY_PRESS /\ r = [s EXCEPT ![d] = s[d] - 1]
  <2>1. d > 0 /\ s[d] - 1 \in Int /\ s[d] - 1 <= -2
    <3>1. d > 0 /\ s[d] \in Int
      BY <1>3, <1>5, <1>9
    <3> DEFINE z == s[d]
    <3>2. z \in Int /\ z < 0
      BY <3>1, <1>9
    <3> HIDE DEF z
    <3>3. z - 1 \in Int /\ z - 1 <= -2
      <4>1. z <= -1
        BY <3>2
      <4> QED BY <4>1, <3>2
    <3> QED BY <3>1, <3>3 DEF z
  <2>2. \E g : Layout(r, Append(q, c), g)
    BY <2>1, <1>1, <1>2, <1>9, StandsTop
  <2>3. Formed(r) /\ Len(r) = d /\ d > 1 /\ \A k \in 1 .. d - 1 : r[k] = s[k]
    <3> DEFINE z == s[d] - 1
    <3>1. z \in Int /\ z <= -2 /\ s[d] < 0 /\ r = [s EXCEPT ![d] = z]
      BY <2>1, <1>9
    <3> HIDE DEF z
    <3> DEFINE w == [s EXCEPT ![Len(s)] = z]
    <3>2. /\ Formed(w) /\ w \in Seq(Int) /\ Len(w) = Len(s) /\ Len(s) > 1
          /\ \A k \in 1 .. Len(s) - 1 : w[k] = s[k]
      BY <2>1, <3>1, <1>2, FormedTop
    <3>3. r = w
      BY <3>1
    <3> HIDE DEF w
    <3> QED BY <3>2, <3>3
  <2>4. Shape(r)
    <3>1. 1 \in 1 .. d - 1
      BY <2>3, <1>3
    <3> QED BY <3>1, <2>3, <1>2 DEF Shape
  <2>5. Append(q, c) \in Seq(Nat) /\ Len(Append(q, c)) = n + 1
    BY <1>2, AppendProperties
  <2>6. Append(q, c) = SubSeq(Append(q, c), 0 + 1, n + 1) /\ 0 \in 0 .. n + 1
    BY <2>5, <1>3, SubSeqFull
  <2> QED BY <2>2, <2>4, <2>5, <2>6 DEF StandsFor, Follows
<1>10. CASE d >= 3 /\ s[d] >= 0 /\ s[d] = c /\ c < KEY_PRESS /\ Latest(r, Append(s, -2))
  <2>1. d > 0 /\ -2 \in Int
    BY <1>3, <1>10
  <2>2. \E g : Layout(Append(s, -2), Append(q, c), g)
    BY <2>1, <1>1, <1>2, <1>10, StandsAppend
  <2>3. Formed(Append(s, -2))
    BY <2>1, <1>2, <1>10, FormedAppend
  <2> QED BY <2>2, <2>3, <1>7, <1>10
<1>11. CASE Latest(r, Append(s, c))
  <2>1. c \in Int
    BY <1>2
  <2>2. \E g : Layout(Append(s, c), Append(q, c), g)
    BY <2>1, <1>1, <1>2, StandsAppend
  <2>3. Formed(Append(s, c))
    BY <2>1, <1>2, FormedAppend
  <2> QED BY <2>2, <2>3, <1>7, <1>11
<1>12. CASE d >= 3 /\ s[d] < -2 /\ Opposite(c, s[d - 1]) /\ r = [s EXCEPT ![d] = s[d] + 1]
  <2>1. d > 0 /\ s[d] + 1 \in Int /\ s[d] + 1 <= -2 /\ s[d] < 0
    <3>1. d > 0 /\ s[d] \in Int
      BY <1>3, <1>5, <1>12
    <3> DEFINE z == s[d]
    <3>2. z \in Int /\ z < -2
      BY <3>1, <1>12
    <3> HIDE DEF z
    <3>3. z + 1 \in Int /\ z + 1 <= -2 /\ z < 0
      BY <3>2
    <3> QED BY <3>1, <3>3 DEF z
  <2>2. \E g : Layout(r, SubSeq(q, 1, n - 1), g)
    BY <2>1, <1>1, <1>2, <1>12, StandsTop
  <2>3. Formed(r) /\ Len(r) = d /\ d > 1 /\ \A k \in 1 .. d - 1 : r[k] = s[k]
    <3> DEFINE z == s[d] + 1
    <3>1. z \in Int /\ z <= -2 /\ s[d] < 0 /\ r = [s EXCEPT ![d] = z]
      BY <2>1, <1>12
    <3> HIDE DEF z
    <3> DEFINE w == [s EXCEPT ![Len(s)] = z]
    <3>2. /\ Formed(w) /\ w \in Seq(Int) /\ Len(w) = Len(s) /\ Len(s) > 1
          /\ \A k \in 1 .. Len(s) - 1 : w[k] = s[k]
      BY <2>1, <3>1, <1>2, FormedTop
    <3>3. r = w
      BY <3>1
    <3> HIDE DEF w
    <3> QED BY <3>2, <3>3
  <2>4. Shape(r)
    <3>1. 1 \in 1 .. d - 1
      BY <2>3, <1>3
    <3> QED BY <3>1, <2>3, <1>2 DEF Shape
  <2>5. SubSeq(q, 1, n - 1) \in Seq(Nat)
    <3>1. 0 \in 0 .. Len(q) /\ n - 1 \in 0 .. Len(q) /\ 0 + 1 = 1
      BY <1>3, <2>1
    <3>2. SubSeq(q, 0 + 1, n - 1) \in Seq(Nat)
      BY <3>1, <1>2, PartIs
    <3> QED BY <3>1, <3>2
  <2>6. q # <<>> /\ Opposite(c, q[n])
    BY <2>1, <1>4, <1>6, <1>12
  <2>7. Follows(q, c, SubSeq(q, 1, n - 1))
    BY <2>6 DEF Follows
  <2> QED BY <2>2, <2>4, <2>5, <2>7 DEF StandsFor
<1>13. CASE d >= 3 /\ (s[d] >= 0 \/ s[d] = -2) /\ r = SubSeq(s, 1, d - 1)
            /\ (s[d] >= 0 => Opposite(c, s[d])) /\ (s[d] < 0 => Opposite(c, s[d - 1]))
  <2>1. d > 0
    BY <1>3, <1>13
  <2>2. StandsFor(r, SubSeq(q, 1, n - 1))
    BY <2>1, <1>1, <1>2, <1>13, StandsDrop
  <2>3. q # <<>> /\ Opposite(c, q[n])
    BY <2>1, <1>4, <1>5, <1>6, <1>13
  <2> QED BY <2>2, <2>3 DEF Follows
<1>14. CASE Len(s) >= 3 /\ s[Len(s)] = -2 /\ Opposite(c, s[Len(s) - 1])
            /\ r = SubSeq(s, 1, Len(s) - 1)
  <2>1. ~ (s[d] >= 0)
    BY <1>14
  <2> QED BY <2>1, <1>13, <1>14
<1>15. CASE Len(s) >= 3 /\ s[Len(s)] >= 0 /\ Opposite(c, s[Len(s)])
            /\ r = SubSeq(s, 1, Len(s) - 1)
  <2>1. ~ (s[d] < 0)
    BY <1>3, <1>5, <1>15
  <2> QED BY <2>1, <1>13, <1>15
<1> QED BY <1>8, <1>9, <1>10, <1>11, <1>12, <1>14, <1>15 DEF Pushes

(* A pop takes the last action.                                            *)
LEMMA PopStands ==
  ASSUME NEW u, Ring(u), NEW q, StandsFor(Entries(u), q)
  PROVE  LET p == PopAction(u)
         IN /\ Ring(p.stack)
            /\ q = <<>> => p.action = STACK_BOTTOM /\ StandsFor(Entries(p.stack), q)
            /\ q # <<>> => /\ p.action = q[Len(q)] /\ Code(p.action)
                           /\ StandsFor(Entries(p.stack), SubSeq(q, 1, Len(q) - 1))
<1> DEFINE s == Entries(u)
           d == Len(s)
           n == Len(q)
           p == PopAction(u)
           r == Entries(p.stack)
<1>1. PICK f : Layout(s, q, f)
  BY DEF StandsFor
<1>2. Shape(s) /\ Formed(s) /\ q \in Seq(Nat)
  BY DEF StandsFor, Shape
<1>3. d \in Nat /\ n \in Nat /\ s \in Seq(Int) /\ (n = 0 <=> d = 0) /\ (n = 0 <=> q = <<>>)
  BY <1>1, <1>2, FormedIs, LayoutTop
<1>4. /\ d > 0 /\ s[d] >= 0 => q[n] = s[d]
      /\ d > 0 /\ s[d] < 0 => q[n] = s[d - 1]
  BY <1>1, <1>2, LayoutTop
<1>5. /\ Ring(p.stack)
      /\ d = 0 => p.action = STACK_BOTTOM /\ r = s
      /\ d > 0 /\ s[d] >= 0 => p.action = s[d] /\ r = SubSeq(s, 1, d - 1)
      /\ d > 0 /\ s[d] < 0 =>
           /\ s[d] <= -2 /\ d > 1 /\ p.action = s[d - 1]
           /\ s[d] = -2 => r = SubSeq(s, 1, d - 1)
           /\ s[d] < -2 => r = [s EXCEPT ![d] = s[d] + 1]
  BY <1>2, PopActionIs
<1> HIDE DEF s, p, r
<1>6. CASE d = 0
  BY <1>3, <1>5, <1>6 DEF s, p, r
<1>7. CASE d > 0
  <2>1. d \in 1 .. d /\ s[d] \in Int /\ (s[d] >= 0 => Code(s[d]))
        /\ (s[d] < 0 => s[d] <= -2 /\ d - 1 \in 1 .. d /\ s[d - 1] >= 0)
    <3>1. d \in 1 .. d /\ s[d] \in Int
      BY <1>2, <1>3, <1>7
    <3>2. \/ s[d] >= 0 /\ Code(s[d])
          \/ s[d] <= -2 /\ d > 1 /\ s[d - 1] >= 0 /\ s[d - 1] < KEY_PRESS
      BY <3>1, <1>2 DEF Formed
    <3> QED BY <3>1, <3>2, <1>3
  <2>2. s[d] < 0 => Code(s[d - 1])
    <3>1. s[d] < 0 => s[d - 1] \in Int /\ s[d - 1] >= 0 /\ (\/ s[d - 1] >= 0 /\ Code(s[d - 1])
                                      \/ s[d - 1] <= -2)
      BY <2>1, <1>2 DEF Formed
    <3>2. \A x \in Int : ~ (x >= 0 /\ x <= -2)
      OBVIOUS
    <3> QED BY <3>1, <3>2
  <2>3. p.action = q[n] /\ Code(p.action)
    BY <2>1, <2>2, <1>4, <1>5, <1>7
  <2>4. CASE s[d] >= 0 \/ s[d] = -2
    <3>1. r = SubSeq(s, 1, d - 1)
      BY <2>4, <1>5, <1>7
    <3>2. StandsFor(r, SubSeq(q, 1, n - 1))
      BY <3>1, <2>4, <1>1, <1>2, <1>7, StandsDrop
    <3> QED BY <3>2, <2>3, <1>3, <1>5, <1>7 DEF p, r
  <2>5. CASE s[d] < -2
    <3>1. r = [s EXCEPT ![d] = s[d] + 1] /\ s[d] < 0
      BY <2>1, <2>5, <1>5, <1>7
    <3>2. \E g : Layout(r, SubSeq(q, 1, n - 1), g)
      BY <3>1, <2>5, <1>1, <1>2, <1>7, StandsTop
    <3>3. Formed(r) /\ Len(r) = d /\ d > 1 /\ \A k \in 1 .. d - 1 : r[k] = s[k]
      <4> DEFINE z == s[d] + 1
      <4>1. z \in Int /\ z <= -2 /\ r = [s EXCEPT ![d] = z]
        <5> DEFINE x == s[d]
        <5>1. x \in Int /\ x < -2
          BY <2>1, <2>5
        <5> HIDE DEF x
        <5>2. x + 1 \in Int /\ x + 1 <= -2
          BY <5>1
        <5> QED BY <5>2, <3>1 DEF x
      <4> HIDE DEF z
      <4> DEFINE w == [s EXCEPT ![Len(s)] = z]
      <4>2. /\ Formed(w) /\ w \in Seq(Int) /\ Len(w) = Len(s) /\ Len(s) > 1
            /\ \A k \in 1 .. Len(s) - 1 : w[k] = s[k]
        BY <3>1, <4>1, <1>2, <1>7, FormedTop
      <4>3. r = w
        BY <4>1
      <4> HIDE DEF w
      <4> QED BY <4>2, <4>3
    <3>4. Shape(r)
      <4>1. 1 \in 1 .. d - 1
        BY <3>3, <1>3
      <4> QED BY <4>1, <3>3, <1>2 DEF Shape
    <3>5. SubSeq(q, 0 + 1, n - 1) \in Seq(Nat)
      <4>1. 0 \in 0 .. Len(q) /\ n - 1 \in 0 .. Len(q)
        BY <1>3, <1>7
      <4> QED BY <4>1, <1>2, PartIs
    <3>6. StandsFor(r, SubSeq(q, 1, n - 1))
      BY <3>2, <3>4, <3>5 DEF StandsFor
    <3> QED BY <3>6, <2>3, <1>3, <1>5, <1>7 DEF p, r
  <2> QED BY <2>1, <2>4, <2>5
<1> QED BY <1>3, <1>6, <1>7

-----------------------------------------------------------------------------
(* c counts the key presses among the actions q.                           *)
Tally(q, c) ==
  /\ c \in [0 .. Len(q) -> Nat]
  /\ \A i \in 1 .. Len(q) : c[i] = c[i - 1] + One(q[i] >= KEY_PRESS)

LEMMA TallySame ==
  ASSUME NEW q \in Seq(Nat), NEW c, Tally(q, c), NEW a \in 0 .. Len(q), NEW b \in a .. Len(q),
         \A k \in a + 1 .. b : q[k] < KEY_PRESS
  PROVE  c[b] = c[a]
<1> DEFINE n == b - a
           T == {j \in 0 .. n : c[a + j] = c[a]}
<1>1. a \in Nat /\ b \in Nat /\ Len(q) \in Nat /\ n \in Nat /\ b <= Len(q)
  OBVIOUS
<1>2. 0 \in T
  <2>1. a + 0 = a /\ 0 \in 0 .. n
    BY <1>1
  <2> QED BY <2>1
<1>3. ASSUME NEW j \in 0 .. n - 1, j \in T PROVE j + 1 \in T
  <2> DEFINE k == a + (j + 1)
  <2>1. k \in 1 .. Len(q) /\ k - 1 = a + j /\ k \in a + 1 .. b /\ j + 1 \in 0 .. n
        /\ k - 1 \in 0 .. Len(q)
    BY <1>1
  <2>2. c[a + j] = c[a]
    BY <1>3
  <2> HIDE DEF k
  <2>3. c[k] = c[k - 1] + One(q[k] >= KEY_PRESS) /\ c[k - 1] \in Nat
    BY <2>1 DEF Tally
  <2>4. q[k] \in Nat /\ q[k] < KEY_PRESS
    BY <2>1
  <2>5. One(q[k] >= KEY_PRESS) = 0
    BY <2>4, KeyPressIs DEF One
  <2>6. c[k] = c[a]
    BY <2>1, <2>2, <2>3, <2>5
  <2> QED BY <2>1, <2>6 DEF k
<1>4. \A j \in 0 .. n : j \in T
  <2> HIDE DEF T, n
  <2> QED BY <1>1, <1>2, <1>3, UpTo
<1>5. n \in 0 .. n /\ a + n = b
  BY <1>1
<1>6. n \in T
  BY <1>4, <1>5
<1> QED BY <1>5, <1>6

LEMMA KeyPressesAre ==
  ASSUME NEW u, IsRing(u), NEW q, StandsFor(Entries(u), q), NEW c, Tally(q, c)
  PROVE  KeyPresses(u) = c[Len(q)] - c[0]
<1> DEFINE s == Entries(u)
           d == Depth(u)
           n == Len(q)
           P(m) == {Slot(u, k) : k \in {j \in 1 .. m : s[j] >= KEY_PRESS}}
<1>1. PICK f : Layout(s, q, f)
  BY DEF StandsFor
<1>2. Formed(s) /\ q \in Seq(Nat)
  BY DEF StandsFor, Shape
<1>3. s \in Seq(Int) /\ Len(s) = d /\ d \in Nat /\ n \in Nat /\ d <= u.stack_size /\ u.stack_size \in Nat
  <2>1. d \in 0 .. u.stack_size - 1 /\ u.stack_size \in Nat
    BY DepthIs DEF IsRing
  <2>2. s \in Seq(Int) /\ Len(s) = d
    BY EntriesAre
  <2> HIDE DEF d, s
  <2> QED BY <2>1, <2>2, <1>2
<1>4. f \in [0 .. d -> Nat] /\ f[0] = 0 /\ f[d] = n
  BY <1>1, <1>3 DEF Layout
<1>5. \A i \in 0 .. d : f[i] \in 0 .. n
  <2> SUFFICES ASSUME NEW i \in 0 .. d PROVE f[i] \in 0 .. n
    OBVIOUS
  <2>1. i \in 0 .. Len(s) /\ Len(s) \in i .. Len(s)
    BY <1>3
  <2>2. f[i] \in Nat /\ f[i] <= f[Len(s)]
    BY <2>1, <1>1, <1>2, LayoutUp
  <2> QED BY <2>2, <1>3, <1>4
<1>6. c \in [0 .. n -> Nat]
  BY DEF Tally
<1> DEFINE T == {m \in 0 .. d : IsFiniteSet(P(m)) /\ Cardinality(P(m)) = c[f[m]] - c[0]}
<1>7. 0 \in T
  <2>1. P(0) = {} /\ 0 \in 0 .. d /\ 0 \in 0 .. n
    BY <1>3
  <2>2. c[f[0]] - c[0] = 0
    BY <2>1, <1>4, <1>6
  <2> HIDE DEF P
  <2> QED BY <2>1, <2>2, FS_EmptySet
<1>8. ASSUME NEW m \in 0 .. d - 1, m \in T PROVE m + 1 \in T
  <2> DEFINE i == m + 1
  <2>1. i \in 1 .. d /\ i \in 0 .. d /\ m \in 0 .. d /\ i - 1 = m /\ i \in 1 .. Len(s) /\ m \in Nat
    BY <1>3
  <2>2. IsFiniteSet(P(m)) /\ Cardinality(P(m)) = c[f[m]] - c[0]
    BY <1>8
  <2>3. s[i] \in Int /\ (s[i] >= 0 \/ (s[i] <= -2 /\ s[i - 1] < KEY_PRESS))
    <3> HIDE DEF s, i
    <3> QED BY <2>1, <1>2, <1>3 DEF Formed
  <2>4. /\ s[i] >= 0 => f[i] = f[i - 1] + 1 /\ q[f[i]] = s[i]
        /\ s[i] < 0 => \A k \in f[i - 1] + 1 .. f[i] : q[k] = s[i - 1]
    <3> HIDE DEF s, i
    <3> QED BY <2>1, <1>1 DEF Layout
  <2>5. f[m] \in 0 .. n /\ f[i] \in 0 .. n /\ f[i] \in f[m] .. n /\ c[f[m]] \in Nat /\ c[f[i]] \in Nat /\ c[0] \in Nat
    <3>1. f[m] \in 0 .. n /\ f[i] \in 0 .. n
      BY <2>1, <1>5
    <3>2. f[i] > f[i - 1]
      <4> HIDE DEF s, i
      <4> QED BY <2>1, <1>1, <1>2, LayoutStep
    <3>3. 0 \in 0 .. n
      BY <1>3
    <3>4. c[f[m]] \in Nat /\ c[f[i]] \in Nat /\ c[0] \in Nat
      BY <3>1, <3>3, <1>6
    <3> DEFINE x == f[m]
               y == f[i]
    <3>5. x \in 0 .. n /\ y \in 0 .. n /\ y > x
      BY <3>1, <3>2, <2>1
    <3> HIDE DEF x, y
    <3>6. y \in x .. n
      BY <3>5
    <3> QED BY <3>1, <3>4, <3>6 DEF x, y
  <2>6. \A j \in 1 .. i : j \in 1 .. m \/ j = i
    BY <2>1
  <2>7. \A j \in 1 .. m : j \in 1 .. i
    BY <2>1
  <2>8. i \in 1 .. i
    BY <2>1
  <2>9. CASE s[i] >= KEY_PRESS
    <3>1. P(i) = P(m) \cup {Slot(u, i)}
      BY <2>6, <2>7, <2>8, <2>9
    <3>2. Slot(u, i) \notin P(m)
      <4> SUFFICES ASSUME NEW k \in 1 .. m, Slot(u, i) = Slot(u, k) PROVE FALSE
        OBVIOUS
      <4>1. k \in 1 .. u.stack_size /\ i \in 1 .. u.stack_size /\ i # k
        BY <2>1, <1>3
      <4> QED BY <4>1, SlotsDiffer
    <3>3. IsFiniteSet(P(i)) /\ Cardinality(P(i)) = Cardinality(P(m)) + 1
      <4> HIDE DEF P
      <4> QED BY <3>1, <3>2, <2>2, FS_AddElement
    <3>4. f[i] = f[m] + 1 /\ q[f[i]] = s[i] /\ f[i] \in 1 .. n
      <4>1. f[i] = f[m] + 1 /\ q[f[i]] = s[i]
        BY <2>1, <2>3, <2>4, <2>9, KeyPressIs
      <4> QED BY <4>1, <2>5
    <3>5. c[f[i]] = c[f[m]] + 1
      <4>1. f[i] - 1 = f[m]
        BY <3>4, <2>5
      <4>2. c[f[i]] = c[f[i] - 1] + One(q[f[i]] >= KEY_PRESS)
        BY <3>4 DEF Tally
      <4>3. One(q[f[i]] >= KEY_PRESS) = 1
        BY <3>4, <2>9 DEF One
      <4> QED BY <4>1, <4>2, <4>3
    <3>6. Cardinality(P(i)) = c[f[i]] - c[0]
      <4> HIDE DEF P, i
      <4> QED BY <3>3, <3>5, <2>2, <2>5
    <3> QED BY <3>3, <3>6, <2>1
  <2>10. CASE ~ (s[i] >= KEY_PRESS)
    <3>1. P(i) = P(m)
      BY <2>6, <2>7, <2>10
    <3>2. c[f[i]] = c[f[m]]
      <4>1. ASSUME NEW k \in f[m] + 1 .. f[i] PROVE q[k] < KEY_PRESS
        <5>1. CASE s[i] >= 0
          <6>1. k = f[i] /\ q[f[i]] = s[i]
            BY <5>1, <2>1, <2>4, <2>5
          <6> QED BY <6>1, <2>3, <2>10, KeyPressIs
        <5>2. CASE s[i] < 0
          <6>1. q[k] = s[i - 1]
            BY <5>2, <2>1, <2>4
          <6> QED BY <6>1, <5>2, <2>3
        <5> QED BY <5>1, <5>2, <2>3
      <4> HIDE DEF i, n
      <4> QED BY <4>1, <2>5, <1>2, TallySame, ZenonT(60) DEF n
    <3> HIDE DEF P
    <3> QED BY <3>1, <3>2, <2>1, <2>2
  <2> QED BY <2>9, <2>10
<1>9. \A m \in 0 .. d : m \in T
  <2> HIDE DEF T, d
  <2> QED BY <1>3, <1>7, <1>8, UpTo
<1>10. Cardinality(P(d)) = c[n] - c[0]
  <2>1. d \in 0 .. d
    BY <1>3
  <2>2. d \in T
    BY <2>1, <1>9
  <2> HIDE DEF P, d
  <2> QED BY <2>2, <1>4
<1>11. P(d) = {i \in OnStack(u) : u.undo_stack[i] >= KEY_PRESS}
  <2>1. \A k \in 1 .. d : s[k] = u.undo_stack[Slot(u, k)]
    BY DEF Entries, Entry, Slot
  <2>2. (\A k \in 1 .. d : Slot(u, k) \in OnStack(u))
        /\ (\A i \in OnStack(u) : \E k \in 1 .. d : i = Slot(u, k))
    BY OnStackIs
  <2> HIDE DEF s, d
  <2> QED BY <2>1, <2>2
<1> HIDE DEF P
<1> QED BY <1>10, <1>11 DEF KeyPresses

-----------------------------------------------------------------------------
(* Where the actions on the stack lead back to.                            *)

Snaps == Seq(Byte) \X Nat

(* The action a, popped, leads from the text and the cursor x to those of  *)
(* y.                                                                      *)
Undone(a, x, y) ==
  \/ a = CURS_RIGHT /\ x[2] < Len(x[1]) /\ y = <<x[1], x[2] + 1>>
  \/ a = CURS_LEFT /\ x[2] > 0 /\ y = <<x[1], x[2] - 1>>
  \/ a = BACKSPACE /\ x[2] > 0 /\ y = <<Removed(x[1], x[2] - 1), x[2] - 1>>
  \/ a = DELCHAR /\ x[2] < Len(x[1]) /\ y = <<Removed(x[1], x[2]), x[2]>>
  \/ a \in Byte /\ Len(x[1]) < SIZE_LIMIT /\ y = <<Inserted(x[1], x[2], a), x[2] + 1>>
  \/ a - 256 \in Byte /\ Len(x[1]) < SIZE_LIMIT /\ y = <<Inserted(x[1], x[2], a - 256), x[2]>>
  \/ (a - MARK_1 \in 0 .. Len(x[1]) \/ a - MARK_2 \in -1 .. Len(x[1])) /\ y = x

(* The texts and cursors p on the way back; c counts those of all that are *)
(* still ahead.                                                            *)
Walk(q, all, p, c) ==
  /\ p \in [0 .. Len(q) -> Snaps]
  /\ Tally(q, c) /\ c[Len(q)] = Len(all)
  /\ \A i \in 1 .. Len(q) :
       /\ q[i] >= KEY_PRESS => /\ p[i - 1] = p[i] /\ all[c[i]] = p[i]
                               /\ q[i] - KEY_PRESS \in 0 .. Len(p[i][1])
       /\ q[i] < KEY_PRESS => Undone(q[i], p[i], p[i - 1])
Leads(q, all, x, k) ==
  \E p, c : Walk(q, all, p, c) /\ p[Len(q)] = x /\ c[0] = k

LEMMA TallyUp ==
  ASSUME NEW q \in Seq(Nat), NEW c, Tally(q, c), NEW a \in 0 .. Len(q), NEW b \in a .. Len(q)
  PROVE  c[a] \in Nat /\ c[b] \in Nat /\ c[a] <= c[b]
<1> DEFINE n == b - a
           T == {j \in 0 .. n : c[a] <= c[a + j]}
<1>1. a \in Nat /\ b \in Nat /\ Len(q) \in Nat /\ n \in Nat /\ b <= Len(q) /\ b \in 0 .. Len(q)
  OBVIOUS
<1>2. \A i \in 0 .. Len(q) : c[i] \in Nat
  BY DEF Tally
<1>3. 0 \in T
  <2>1. a + 0 = a /\ 0 \in 0 .. n
    BY <1>1
  <2> QED BY <2>1, <1>2
<1>4. ASSUME NEW j \in 0 .. n - 1, j \in T PROVE j + 1 \in T
  <2> DEFINE k == a + (j + 1)
  <2>1. k \in 1 .. Len(q) /\ k - 1 = a + j /\ j + 1 \in 0 .. n
        /\ k - 1 \in 0 .. Len(q)
    BY <1>1
  <2>2. c[a] <= c[a + j]
    BY <1>4
  <2> HIDE DEF k
  <2>3. c[k] = c[k - 1] + One(q[k] >= KEY_PRESS) /\ c[k - 1] \in Nat /\ c[a] \in Nat
    BY <2>1, <1>2 DEF Tally
  <2>4. One(q[k] >= KEY_PRESS) \in {0, 1}
    BY DEF One
  <2>5. c[a] <= c[k]
    BY <2>1, <2>2, <2>3, <2>4
  <2> QED BY <2>1, <2>5 DEF k
<1>5. \A j \in 0 .. n : j \in T
  <2> HIDE DEF T, n
  <2> QED BY <1>1, <1>3, <1>4, UpTo
<1>6. n \in 0 .. n /\ a + n = b
  BY <1>1
<1>7. n \in T
  BY <1>5, <1>6
<1> QED BY <1>1, <1>2, <1>6, <1>7

LEMMA LeadsType ==
  ASSUME NEW q \in Seq(Nat), NEW all \in Seq(Snaps), NEW x, NEW k, Leads(q, all, x, k)
  PROVE  x \in Snaps /\ k \in 0 .. Len(all)
<1>1. PICK p, c : Walk(q, all, p, c) /\ p[Len(q)] = x /\ c[0] = k
  BY DEF Leads
<1>2. Len(q) \in 0 .. Len(q) /\ 0 \in 0 .. Len(q) /\ Len(all) \in Nat
  OBVIOUS
<1>3. c[0] \in Nat /\ c[0] <= Len(all)
  BY <1>1, <1>2, TallyUp DEF Walk
<1>4. k \in 0 .. Len(all)
  BY <1>1, <1>2, <1>3
<1> QED BY <1>1, <1>2, <1>4 DEF Walk

(* One more action.                                                        *)
LEMMA WalkOn ==
  ASSUME NEW q \in Seq(Nat), NEW all, NEW all2, NEW p, NEW c, NEW a \in Nat, NEW y \in Snaps,
         p \in [0 .. Len(q) -> Snaps], Tally(q, c),
         \A i \in 1 .. Len(q) :
           /\ q[i] >= KEY_PRESS => /\ p[i - 1] = p[i] /\ all2[c[i]] = p[i]
                                   /\ q[i] - KEY_PRESS \in 0 .. Len(p[i][1])
           /\ q[i] < KEY_PRESS => Undone(q[i], p[i], p[i - 1]),
         c[Len(q)] + One(a >= KEY_PRESS) = Len(all2),
         a >= KEY_PRESS => /\ p[Len(q)] = y /\ all2[Len(all2)] = y
                           /\ a - KEY_PRESS \in 0 .. Len(y[1]),
         a < KEY_PRESS => Undone(a, y, p[Len(q)])
  PROVE  Leads(Append(q, a), all2, y, c[0])
<1> DEFINE n == Len(q)
           r == Append(q, a)
           p2 == [i \in 0 .. n + 1 |-> IF i = n + 1 THEN y ELSE p[i]]
           z == c[n] + One(a >= KEY_PRESS)
           c2 == [i \in 0 .. n + 1 |-> IF i = n + 1 THEN z ELSE c[i]]
<1>1. n \in Nat /\ \A i \in 0 .. n + 1 : i = n + 1 \/ i \in 0 .. n
  OBVIOUS
<1>2. /\ r \in Seq(Nat) /\ Len(r) = n + 1 /\ \A i \in 1 .. n : r[i] = q[i]
      /\ r[n + 1] = a
  BY AppendProperties
<1>3. z \in Nat
  <2>1. c[n] \in Nat
    BY <1>1 DEF Tally
  <2>2. One(a >= KEY_PRESS) \in {0, 1}
    BY DEF One
  <2> QED BY <2>1, <2>2
<1> HIDE DEF z
<1>4. p2 \in [0 .. n + 1 -> Snaps] /\ p2[n + 1] = y /\ \A i \in 0 .. n : p2[i] = p[i]
  BY <1>1
<1>5. c2 \in [0 .. n + 1 -> Nat] /\ c2[n + 1] = z /\ \A i \in 0 .. n : c2[i] = c[i]
  BY <1>1, <1>3 DEF Tally
<1> HIDE DEF r, p2, c2, n
<1>6. \A i \in 1 .. n : i \in 0 .. n /\ i - 1 \in 0 .. n
  BY <1>1
<1>7. n + 1 - 1 = n /\ n \in 0 .. n /\ 0 \in 0 .. n
  BY <1>1
<1>8. ASSUME NEW i \in 1 .. n + 1
      PROVE  /\ c2[i] = c2[i - 1] + One(r[i] >= KEY_PRESS)
             /\ r[i] >= KEY_PRESS => /\ p2[i - 1] = p2[i] /\ all2[c2[i]] = p2[i]
                                     /\ r[i] - KEY_PRESS \in 0 .. Len(p2[i][1])
             /\ r[i] < KEY_PRESS => Undone(r[i], p2[i], p2[i - 1])
  <2>1. CASE i \in 1 .. n
    <3>1. r[i] = q[i] /\ p2[i] = p[i] /\ p2[i - 1] = p[i - 1] /\ c2[i] = c[i] /\ c2[i - 1] = c[i - 1]
      BY <2>1, <1>2, <1>4, <1>5, <1>6
    <3>2. c[i] = c[i - 1] + One(q[i] >= KEY_PRESS)
      BY <2>1 DEF Tally, n
    <3> QED BY <2>1, <3>1, <3>2 DEF n
  <2>2. CASE i = n + 1
    <3>1. r[i] = a /\ p2[i] = y /\ p2[i - 1] = p[n] /\ c2[i] = z /\ c2[i - 1] = c[n]
      BY <2>2, <1>2, <1>4, <1>5, <1>7
    <3>2. z = Len(all2)
      BY DEF z, n
    <3> QED BY <3>1, <3>2 DEF n, z
  <2> QED BY <2>1, <2>2, <1>1
<1>9. Walk(r, all2, p2, c2)
  <2>1. c2[n + 1] = Len(all2)
    BY <1>5 DEF z, n
  <2> QED BY <2>1, <1>2, <1>4, <1>5, <1>8 DEF Walk, Tally
<1>10. p2[Len(r)] = y /\ c2[0] = c[0]
  BY <1>2, <1>4, <1>5, <1>7
<1> QED BY <1>9, <1>10 DEF Leads, r

LEMMA LeadsAction ==
  ASSUME NEW q \in Seq(Nat), NEW all, NEW x, NEW k, Leads(q, all, x, k),
         NEW a \in Nat, a < KEY_PRESS, NEW y \in Snaps, Undone(a, y, x), Len(all) \in Nat
  PROVE  Leads(Append(q, a), all, y, k)
<1>1. PICK p, c : Walk(q, all, p, c) /\ p[Len(q)] = x /\ c[0] = k
  BY DEF Leads
<1>2. ~ (a >= KEY_PRESS)
  BY KeyPressIs
<1>3. One(a >= KEY_PRESS) = 0
  BY <1>2 DEF One
<1>4. c[Len(q)] + One(a >= KEY_PRESS) = Len(all)
  BY <1>1, <1>3 DEF Walk
<1>5. Leads(Append(q, a), all, y, c[0])
  BY <1>1, <1>2, <1>4, WalkOn DEF Walk
<1> QED BY <1>1, <1>5

LEMMA LeadsKeyPress ==
  ASSUME NEW q \in Seq(Nat), NEW all \in Seq(Snaps), NEW x, NEW k, Leads(q, all, x, k),
         NEW a \in Nat, a >= KEY_PRESS, a - KEY_PRESS \in 0 .. Len(x[1])
  PROVE  Leads(Append(q, a), Append(all, x), x, k)
<1>1. PICK p, c : Walk(q, all, p, c) /\ p[Len(q)] = x /\ c[0] = k
  BY DEF Leads
<1> DEFINE all2 == Append(all, x)
<1>2. x \in Snaps
  BY LeadsType
<1>3. /\ Len(all2) = Len(all) + 1 /\ \A i \in 1 .. Len(all) : all2[i] = all[i]
      /\ all2[Len(all) + 1] = x /\ Len(all) \in Nat
  BY <1>2, AppendProperties
<1>4. One(a >= KEY_PRESS) = 1 /\ ~ (a < KEY_PRESS)
  BY KeyPressIs DEF One
<1> HIDE DEF all2
<1>5. ASSUME NEW i \in 1 .. Len(q)
      PROVE  /\ q[i] >= KEY_PRESS => /\ p[i - 1] = p[i] /\ all2[c[i]] = p[i]
                                     /\ q[i] - KEY_PRESS \in 0 .. Len(p[i][1])
             /\ q[i] < KEY_PRESS => Undone(q[i], p[i], p[i - 1])
  <2>1. /\ q[i] >= KEY_PRESS => /\ p[i - 1] = p[i] /\ all[c[i]] = p[i]
                                /\ q[i] - KEY_PRESS \in 0 .. Len(p[i][1])
        /\ q[i] < KEY_PRESS => Undone(q[i], p[i], p[i - 1])
    BY <1>1 DEF Walk
  <2>2. q[i] >= KEY_PRESS => c[i] \in 1 .. Len(all)
    <3>1. i \in 0 .. Len(q) /\ Len(q) \in i .. Len(q) /\ i - 1 \in 0 .. Len(q)
      OBVIOUS
    <3>2. c[i] \in Nat /\ c[i] <= Len(all) /\ c[i - 1] \in Nat
      BY <3>1, <1>1, TallyUp DEF Walk, Tally
    <3>3. c[i] = c[i - 1] + One(q[i] >= KEY_PRESS)
      BY <1>1 DEF Walk, Tally
    <3>4. q[i] >= KEY_PRESS => c[i] = c[i - 1] + 1
      BY <3>3 DEF One
    <3> QED BY <3>2, <3>4, <1>3
  <2> QED BY <2>1, <2>2, <1>3
<1>6. c[Len(q)] + One(a >= KEY_PRESS) = Len(all2)
  BY <1>1, <1>3, <1>4 DEF Walk
<1>7. all2[Len(all2)] = x
  BY <1>3
<1>8. Leads(Append(q, a), all2, x, c[0])
  <2>1. p \in [0 .. Len(q) -> Snaps] /\ Tally(q, c)
    BY <1>1 DEF Walk
  <2> QED BY <2>1, <1>1, <1>2, <1>4, <1>5, <1>6, <1>7, WalkOn
<1> QED BY <1>1, <1>8 DEF all2

(* A part of the way, with the first z of all left out.                    *)
LEMMA WalkPart ==
  ASSUME NEW q \in Seq(Nat), NEW all \in Seq(Snaps), NEW p, NEW c, Walk(q, all, p, c),
         NEW m \in 0 .. Len(q), NEW l \in m .. Len(q), NEW z \in Nat, z <= c[m],
         NEW all2, Len(all2) = c[l] - z, \A j \in 1 .. Len(all2) : all2[j] = all[j + z]
  PROVE  Leads(SubSeq(q, m + 1, l), all2, p[l], c[m] - z)
<1> DEFINE n == Len(q)
           r == SubSeq(q, m + 1, l)
           d == l - m
           p2 == [i \in 0 .. d |-> p[m + i]]
           c2 == [i \in 0 .. d |-> c[m + i] - z]
<1>1. n \in Nat /\ m \in Nat /\ l \in Nat /\ m <= l /\ l <= n /\ d \in Nat /\ l \in m .. n
      /\ m + 0 = m /\ m + d = l
  OBVIOUS
<1>2. /\ r \in Seq(Nat) /\ Len(r) = d /\ \A i \in 1 .. d : r[i] = q[m + i]
  <2>1. m \in 0 .. Len(q) /\ l \in m .. Len(q)
    BY <1>1
  <2> QED BY <2>1, PartIs
<1> HIDE DEF r
<1>3. ASSUME NEW i \in 0 .. d
      PROVE  /\ m + i \in 0 .. n /\ m + i \in m .. l /\ p[m + i] \in Snaps
             /\ c[m + i] - z \in Nat /\ c[m + i] \in Nat /\ c[m + i] >= z /\ c[m + i] <= c[l]
             /\ c[l] \in Nat
  <2> DEFINE j == m + i
  <2>1. j \in 0 .. n /\ j \in m .. l /\ j \in m .. n /\ l \in j .. n
    BY <1>1
  <2> HIDE DEF j
  <2>2. c[m] \in Nat /\ c[j] \in Nat /\ c[m] <= c[j] /\ c[j] <= c[l] /\ c[l] \in Nat
    BY <2>1, TallyUp DEF Walk, n
  <2>3. p[j] \in Snaps
    BY <2>1 DEF Walk, n
  <2>4. c[j] - z \in Nat /\ c[j] >= z
    BY <2>2, SMTT(60)
  <2> QED BY <2>1, <2>2, <2>3, <2>4 DEF j
<1>4. p2 \in [0 .. d -> Snaps] /\ \A i \in 0 .. d : p2[i] = p[m + i]
  BY <1>3
<1>5. c2 \in [0 .. d -> Nat] /\ \A i \in 0 .. d : c2[i] = c[m + i] - z
  BY <1>3
<1> HIDE DEF p2, c2, d, n
<1>6. 0 \in 0 .. d /\ d \in 0 .. d
  BY <1>1
<1>7. p2[d] = p[l] /\ c2[d] = c[l] - z /\ c2[0] = c[m] - z
  BY <1>1, <1>4, <1>5, <1>6
<1>8. ASSUME NEW i \in 1 .. d
      PROVE  /\ c2[i] = c2[i - 1] + One(r[i] >= KEY_PRESS)
             /\ r[i] >= KEY_PRESS => /\ p2[i - 1] = p2[i] /\ all2[c2[i]] = p2[i]
                                     /\ r[i] - KEY_PRESS \in 0 .. Len(p2[i][1])
             /\ r[i] < KEY_PRESS => Undone(r[i], p2[i], p2[i - 1])
  <2> DEFINE j == m + i
  <2>1. i \in 0 .. d /\ i - 1 \in 0 .. d /\ m + (i - 1) = j - 1 /\ j \in Int /\ j > 0
    BY <1>1
  <2>2. j \in 0 .. n /\ j \in m .. l /\ c[j] \in Nat /\ c[j] >= z /\ c[j] <= c[l] /\ c[l] \in Nat
        /\ c[j - 1] \in Nat /\ c[j - 1] >= z
    <3>1. j \in 0 .. n /\ j \in m .. l /\ c[j] \in Nat /\ c[j] >= z /\ c[j] <= c[l] /\ c[l] \in Nat
      BY <2>1, <1>3
    <3>2. c[m + (i - 1)] \in Nat /\ c[m + (i - 1)] >= z
      BY <2>1, <1>3
    <3> QED BY <3>1, <3>2, <2>1
  <2>3. r[i] = q[j] /\ p2[i] = p[j] /\ p2[i - 1] = p[j - 1] /\ c2[i] = c[j] - z /\ c2[i - 1] = c[j - 1] - z
    BY <2>1, <1>2, <1>4, <1>5
  <2> HIDE DEF j
  <2>4. j \in 1 .. n
    BY <2>1, <2>2, <1>1
  <2>5. /\ c[j] = c[j - 1] + One(q[j] >= KEY_PRESS)
        /\ q[j] >= KEY_PRESS => /\ p[j - 1] = p[j] /\ all[c[j]] = p[j]
                                /\ q[j] - KEY_PRESS \in 0 .. Len(p[j][1])
        /\ q[j] < KEY_PRESS => Undone(q[j], p[j], p[j - 1])
    BY <2>4 DEF Walk, Tally, n
  <2>6. One(q[j] >= KEY_PRESS) \in {0, 1} /\ (q[j] >= KEY_PRESS => One(q[j] >= KEY_PRESS) = 1)
    BY DEF One
  <2>7. c[j] - z = (c[j - 1] - z) + One(q[j] >= KEY_PRESS)
    BY <2>2, <2>5, <2>6, SMTT(60)
  <2>8. q[j] >= KEY_PRESS => all2[c[j] - z] = all[c[j]]
    <3>1. q[j] >= KEY_PRESS => c[j] - z \in 1 .. c[l] - z /\ (c[j] - z) + z = c[j]
      <4> DEFINE x == c[j]
                 y == c[j - 1]
                 w == c[l]
      <4>1. /\ x \in Nat /\ y \in Nat /\ w \in Nat /\ x >= z /\ y >= z /\ x <= w
            /\ q[j] >= KEY_PRESS => x = y + 1
        BY <2>2, <2>5, <2>6
      <4> HIDE DEF x, y, w
      <4>2. q[j] >= KEY_PRESS => x - z \in 1 .. w - z /\ (x - z) + z = x
        BY <4>1
      <4> QED BY <4>2 DEF x, w
    <3> QED BY <3>1
  <2> QED BY <2>3, <2>5, <2>7, <2>8
<1>9. Walk(r, all2, p2, c2)
  BY <1>2, <1>4, <1>5, <1>7, <1>8 DEF Walk, Tally
<1> QED BY <1>2, <1>7, <1>9 DEF Leads, r

LEMMA LeadsLatest ==
  ASSUME NEW q \in Seq(Nat), NEW all \in Seq(Snaps), NEW x, NEW k, Leads(q, all, x, k),
         NEW m \in 0 .. Len(q)
  PROVE  \E j : Leads(SubSeq(q, m + 1, Len(q)), all, x, j)
<1>1. PICK p, c : Walk(q, all, p, c) /\ p[Len(q)] = x /\ c[0] = k
  BY DEF Leads
<1>2. Len(q) \in m .. Len(q) /\ 0 \in Nat /\ m \in 0 .. Len(q)
  OBVIOUS
<1>3. c[m] \in Nat /\ c[Len(q)] \in Nat /\ Len(all) = c[Len(q)]
  BY <1>1, <1>2, TallyUp DEF Walk
<1>4. 0 <= c[m] /\ Len(all) = c[Len(q)] - 0
  BY <1>3
<1>5. \A j \in 1 .. Len(all) : j + 0 = j
  OBVIOUS
<1>6. \A j \in 1 .. Len(all) : all[j] = all[j + 0]
  BY <1>5
<1>7. Leads(SubSeq(q, m + 1, Len(q)), all, p[Len(q)], c[m] - 0)
  BY <1>1, <1>2, <1>4, <1>6, WalkPart
<1> QED BY <1>1, <1>7

LEMMA AllPart ==
  ASSUME NEW all \in Seq(Snaps), NEW m \in 0 .. Len(all), NEW n \in m .. Len(all)
  PROVE  LET r == SubSeq(all, m + 1, n)
         IN /\ r \in Seq(Snaps) /\ Len(r) = n - m /\ \A i \in 1 .. n - m : r[i] = all[i + m]
            /\ (m = 0 /\ n = Len(all)) => r = all
<1> DEFINE r == SubSeq(all, m + 1, n)
           d == Len(all)
<1>1. d \in Nat /\ m \in Nat /\ n \in Nat /\ m <= n /\ n <= d /\ m + 1 \in Int /\ n \in Int
  OBVIOUS
<1>2. \A i \in m + 1 .. n : all[i] \in Snaps
  <2>1. \A i \in m + 1 .. n : i \in 1 .. d
    BY <1>1
  <2> QED BY <2>1
<1>3. /\ r \in Seq(Snaps) /\ Len(r) = (IF m + 1 <= n THEN n - (m + 1) + 1 ELSE 0)
      /\ \A i \in 1 .. n - (m + 1) + 1 : r[i] = all[(m + 1) + i - 1]
  BY <1>1, <1>2, SubSeqProperties
<1>4. (m = 0 /\ n = Len(all)) => r = all
  <2>1. (m = 0 /\ n = Len(all)) => m + 1 = 1
    OBVIOUS
  <2> QED BY <2>1, SubSeqFull
<1> HIDE DEF r, d
<1>5. Len(r) = n - m
  BY <1>1, <1>3
<1>6. \A i \in 1 .. n - m : i \in 1 .. n - (m + 1) + 1 /\ (m + 1) + i - 1 = i + m
  BY <1>1
<1> QED BY <1>3, <1>4, <1>5, <1>6 DEF r

(* The way from the last k on.                                             *)
LEMMA LeadsFrom ==
  ASSUME NEW q \in Seq(Nat), NEW all \in Seq(Snaps), NEW x, NEW k, Leads(q, all, x, k)
  PROVE  Leads(q, SubSeq(all, k + 1, Len(all)), x, 0)
<1>1. PICK p, c : Walk(q, all, p, c) /\ p[Len(q)] = x /\ c[0] = k
  BY DEF Leads
<1>2. k \in 0 .. Len(all) /\ Len(q) \in 0 .. Len(q) /\ 0 \in 0 .. Len(q)
  BY LeadsType
<1> DEFINE all2 == SubSeq(all, k + 1, Len(all))
<1>3. Len(all) \in k .. Len(all)
  BY <1>2
<1>4. Len(all2) = Len(all) - k /\ \A i \in 1 .. Len(all) - k : all2[i] = all[i + k]
  BY <1>2, <1>3, AllPart
<1> HIDE DEF all2
<1>5. k <= c[0] /\ Len(all2) = c[Len(q)] - k /\ k \in Nat /\ c[0] - k = 0
  BY <1>1, <1>2, <1>4 DEF Walk
<1>6. Leads(SubSeq(q, 0 + 1, Len(q)), all2, p[Len(q)], c[0] - k)
  BY <1>1, <1>2, <1>4, <1>5, WalkPart
<1>7. SubSeq(q, 0 + 1, Len(q)) = q
  BY <1>2, PartIs
<1> QED BY <1>1, <1>5, <1>6, <1>7 DEF all2

(* Back by one action.                                                     *)
LEMMA LeadsBack ==
  ASSUME NEW q \in Seq(Nat), NEW all \in Seq(Snaps), NEW x, NEW k, Leads(q, all, x, k), q # <<>>
  PROVE  LET a == q[Len(q)]
             r == SubSeq(q, 1, Len(q) - 1)
         IN /\ a < KEY_PRESS => \E y \in Snaps : Undone(a, x, y) /\ Leads(r, all, y, k)
            /\ a >= KEY_PRESS =>
                 /\ Len(all) > 0 /\ all[Len(all)] = x /\ a - KEY_PRESS \in 0 .. Len(x[1])
                 /\ Leads(r, SubSeq(all, 1, Len(all) - 1), x, k)
<1> DEFINE n == Len(q)
           a == q[n]
<1>1. PICK p, c : Walk(q, all, p, c) /\ p[n] = x /\ c[0] = k
  BY DEF Leads
<1>2. n \in Nat /\ n > 0 /\ n \in 1 .. n /\ n - 1 \in 0 .. n /\ 0 \in 0 .. n /\ Len(all) \in Nat
      /\ 0 + 1 = 1 /\ a \in Nat
  OBVIOUS
<1>3. c[0] \in Nat /\ c[n - 1] \in Nat /\ c[n] = Len(all) /\ c[n] = c[n - 1] + One(a >= KEY_PRESS)
      /\ p[n - 1] \in Snaps /\ 0 <= c[0] /\ c[0] - 0 = c[0]
  <2>1. c[0] \in Nat
    BY <1>1, <1>2 DEF Walk, Tally
  <2>2. 0 <= c[0] /\ c[0] - 0 = c[0]
    BY <2>1
  <2> QED BY <2>1, <2>2, <1>1, <1>2 DEF Walk, Tally
<1>4. /\ a >= KEY_PRESS => /\ p[n - 1] = x /\ all[c[n]] = x
                           /\ a - KEY_PRESS \in 0 .. Len(x[1])
      /\ a < KEY_PRESS => Undone(a, x, p[n - 1])
  BY <1>1, <1>2 DEF Walk
<1>5. ASSUME NEW all2, Len(all2) = c[n - 1], \A j \in 1 .. Len(all2) : all2[j] = all[j]
      PROVE  Leads(SubSeq(q, 1, n - 1), all2, p[n - 1], k)
  <2>1. Len(all2) = c[n - 1] - 0 /\ \A j \in 1 .. Len(all2) : j + 0 = j
    BY <1>5, <1>3
  <2>2. \A j \in 1 .. Len(all2) : all2[j] = all[j + 0]
    BY <2>1, <1>5
  <2>3. n - 1 \in 0 .. Len(q) /\ 0 \in 0 .. Len(q) /\ 0 \in Nat
    BY <1>2
  <2>4. Leads(SubSeq(q, 0 + 1, n - 1), all2, p[n - 1], c[0] - 0)
    BY <1>1, <1>3, <2>1, <2>2, <2>3, WalkPart
  <2> QED BY <2>4, <1>1, <1>2, <1>3
<1>6. ASSUME a < KEY_PRESS
      PROVE  \E y \in Snaps : Undone(a, x, y) /\ Leads(SubSeq(q, 1, n - 1), all, y, k)
  <2>1. One(a >= KEY_PRESS) = 0
    BY <1>2, <1>6, KeyPressIs DEF One
  <2>2. Len(all) = c[n - 1]
    BY <2>1, <1>3
  <2> QED BY <2>2, <1>3, <1>4, <1>5, <1>6
<1>7. ASSUME a >= KEY_PRESS
      PROVE  /\ Len(all) > 0 /\ all[Len(all)] = x /\ a - KEY_PRESS \in 0 .. Len(x[1])
             /\ Leads(SubSeq(q, 1, n - 1), SubSeq(all, 1, Len(all) - 1), x, k)
  <2>1. One(a >= KEY_PRESS) = 1
    BY <1>7 DEF One
  <2>2. Len(all) = c[n - 1] + 1 /\ Len(all) > 0 /\ Len(all) - 1 = c[n - 1]
        /\ Len(all) - 1 \in 0 .. Len(all) /\ 0 \in 0 .. Len(all)
    BY <2>1, <1>3, <1>2
  <2> DEFINE all2 == SubSeq(all, 1, Len(all) - 1)
  <2>3. /\ Len(all2) = (Len(all) - 1) - 0
        /\ \A i \in 1 .. (Len(all) - 1) - 0 : all2[i] = all[i + 0]
    BY <2>2, <1>2, AllPart
  <2> HIDE DEF all2
  <2>4. Len(all2) = c[n - 1]
    BY <2>2, <2>3, <1>3
  <2>5. \A j \in 1 .. Len(all2) : j \in 1 .. (Len(all) - 1) - 0 /\ j + 0 = j
    BY <2>2, <2>3
  <2>6. \A j \in 1 .. Len(all2) : all2[j] = all[j]
    BY <2>3, <2>5
  <2>7. Leads(SubSeq(q, 1, n - 1), all2, p[n - 1], k)
    BY <2>4, <2>6, <1>5
  <2> QED BY <2>2, <2>7, <1>3, <1>4, <1>7 DEF all2
<1> QED BY <1>6, <1>7

=============================================================================
