----------------------------- MODULE PanelList ------------------------------
(***************************************************************************)
(* The two panels: the list of a directory with its marks (dir.c,          *)
(* screen.c), the commands that mark (cmd.c), and those that work on what  *)
(* is marked: panel_operate of file.c and the loop of chmod.c.             *)
(*                                                                         *)
(* A panel remembers names.  Between two commands, and while a question is *)
(* on the screen, another process creates and removes files; mc reads the  *)
(* directory again and must find the marks and the selection in what is    *)
(* there now.  Names are numbers, in the order of the list; 0 is "..".     *)
(***************************************************************************)
EXTENDS Integers, FiniteSets, FiniteSetsExt, Ranks

CONSTANTS TopNames,   \* names in the directory "top"
          Sub,        \* the one of them that is a directory, "sub"
          SubNames    \* names in "sub"

ASSUME PanelAssumption ==
  /\ TopNames \subseteq Nat \ {0} /\ SubNames \subseteq Nat \ {0}
  /\ IsFiniteSet(TopNames) /\ IsFiniteSet(SubNames) /\ Sub \in TopNames

VARIABLES
  files,          \* <<directory, name>> of what is on the disk
  current_panel,  \* the WPanel that has the focus, see Panel
  other_panel,
  wd,             \* current_dir of the vfs, where relative names begin
  lost,           \* history: the last mc_chdir to the current panel failed
  op              \* the command that waits for an answer

vars == <<files, current_panel, other_panel, wd, lost, op>>

-----------------------------------------------------------------------------
(* The disk fs, seen from a directory d.                                   *)
IsDir(d, n) == d = "top" /\ n = Sub
DirExists(fs, d) == d = "top" \/ <<"top", Sub>> \in fs
Exists(fs, d, n) == n = 0 \/ <<d, n>> \in fs
Listing(fs, d) == {n \in TopNames \cup SubNames : <<d, n>> \in fs}
Chdir(fs, from, d) == IF DirExists(fs, d) THEN d ELSE from
Without(fs, gone) ==
  {f \in fs \ gone : f[1] = "sub" => <<"top", Sub>> \notin gone}

(* A panel.  names are the entries but "..", marked .. total the summary,  *)
(* sized the directories of which the size was computed.                   *)
Panel == [cwd : {"top", "sub"}, names : SUBSET Nat, mark : SUBSET Nat,
          sized : SUBSET Nat, marked : Nat, dirs_marked : Nat, total : Nat,
          selected : Nat, panelized : BOOLEAN]

(* ".." is first, except in a panelized list that is not empty.            *)
Entries(p) == IF p.panelized /\ p.names # {} THEN p.names ELSE p.names \cup {0}
List(p) ==
  [i \in 1..Cardinality(Entries(p)) |->
     CHOOSE n \in Entries(p) : Rank(Entries(p), n) = i]
Count(p) == Cardinality(Entries(p))
Selection(p) == List(p)[p.selected + 1]

(* Those of names that are directories; the size of them all: a file has   *)
(* size 1, a directory 2 if that was computed.                             *)
DirsOf(p, names) == {n \in names : IsDir(p.cwd, n)}
SizeOf(p, names) ==
  Cardinality(names \ DirsOf(p, names)) + 2 * Cardinality(DirsOf(p, names) \cap p.sized)

Cleaned(p) == [p EXCEPT !.mark = {}, !.marked = 0, !.dirs_marked = 0, !.total = 0]

LoadDir(fs, p, d) ==
  [Cleaned(p) EXCEPT !.cwd = d, !.names = Listing(fs, d), !.sized = {},
                     !.selected = 0, !.panelized = FALSE]

(* do_file_mark of each of names, in any order: those that are marked      *)
(* already, or are not, do not count, and ".." cannot be marked.           *)
MarkAll(p, names, m) ==
  LET by == IF m THEN 1 ELSE -1
      new == {n \in names \ {0} : m # (n \in p.mark)}
  IN [p EXCEPT !.mark = IF m THEN @ \cup new ELSE @ \ new,
               !.marked = @ + by * Cardinality(new),
               !.dirs_marked = @ + by * Cardinality(DirsOf(p, new)),
               !.total = @ + by * SizeOf(p, new)]
FileMark(p, n, m) == MarkAll(p, {n}, m)

(* Mistake: the old counters are added to.                                 *)
RecalculateOnTop(p) == MarkAll([p EXCEPT !.mark = {}], p.mark, TRUE)

Recalculate(p) == MarkAll(Cleaned(p), p.mark, TRUE)

-----------------------------------------------------------------------------
PlaceOf(p, name) == {i \in DOMAIN List(p) : List(p)[i] = name}

(* Mistake: a place beyond the new end of the list is kept.                *)
TryToSelectBeyond(p, name) ==
  [p EXCEPT !.selected = IF PlaceOf(p, name) # {} THEN Min(PlaceOf(p, name)) - 1
                         ELSE @]

(* do_try_to_select: without such an entry the selection stays at its      *)
(* place in the list.                                                      *)
TryToSelect(p, name) ==
  [p EXCEPT !.selected = IF PlaceOf(p, name) # {} THEN Min(PlaceOf(p, name)) - 1
                         ELSE Min({@, Count(p) - 1})]

(* Mistake: the marks stay at their places in the list.                    *)
PanelReloadByPlace(fs, p) ==
  LET d == Chdir(fs, "top", p.cwd)
      new == [p EXCEPT !.cwd = d, !.names = Listing(fs, d), !.sized = {}]
      at == {i \in DOMAIN List(p) : List(p)[i] \in p.mark}
      mark == {List(new)[i] : i \in at \cap DOMAIN List(new)} \ {0}
  IN Recalculate([new EXCEPT !.mark = mark,
                             !.selected = Min({@, Count(new) - 1})])

(* panel_reload: if the directory is gone, up to its parent; the marks are *)
(* carried over by name.                                                   *)
PanelReload(fs, p) ==
  LET d == Chdir(fs, "top", p.cwd)
      new == [p EXCEPT !.cwd = d, !.names = Listing(fs, d), !.sized = {},
                       !.mark = @ \cap Listing(fs, d)]
  IN Recalculate([new EXCEPT !.selected = Min({@, Count(new) - 1})])

(* reload_panelized: what is gone leaves the list.  A mark is taken away   *)
(* before the test that should put it back.                                *)
ReloadPanelized(fs, p, from) ==
  [MarkAll(p, p.mark, FALSE) EXCEPT
     !.names = {n \in @ : Exists(fs, from, n)},
     !.sized = {n \in @ : Exists(fs, from, n)}]

(* Mistake: the name to select is looked up after the reload.              *)
UpdatePanelForgets(fs, p, reload, from) ==
  LET q == [p EXCEPT !.panelized = @ /\ ~reload]
      r == IF q.panelized THEN ReloadPanelized(fs, q, from)
           ELSE PanelReload(fs, q)
  IN TryToSelect(r, IF r.selected < Count(r) THEN Selection(r) ELSE 0)

(* update_one_panel_widget, which keeps the selection by name.             *)
UpdatePanel(fs, p, reload, from) ==
  LET q == [p EXCEPT !.panelized = @ /\ ~reload] IN
  TryToSelect(IF q.panelized THEN ReloadPanelized(fs, q, from)
              ELSE PanelReload(fs, q), Selection(p))

(* Mistake: mc stays in the directory of the other panel.                  *)
UpdatePanelsAstray(fs, cur, reload, both) ==
  LET p == UpdatePanel(fs, cur, reload, wd)
      w == Chdir(fs, IF p.panelized THEN wd ELSE p.cwd, other_panel.cwd)
      q == IF both THEN UpdatePanel(fs, other_panel, reload, w) ELSE other_panel
  IN /\ current_panel' = p /\ other_panel' = q
     /\ wd' = IF both THEN q.cwd ELSE Chdir(fs, wd, p.cwd)
     /\ lost' = ~DirExists(fs, p.cwd)

(* update_panels: the current panel, the other one, and back to the        *)
(* directory of the current one.  A panelized list is read from where mc   *)
(* is; only that of the other panel is preceded by a change of directory.  *)
UpdatePanels(fs, cur, reload, both) ==
  LET p == UpdatePanel(fs, cur, reload, wd)
      w == IF p.panelized THEN wd ELSE p.cwd
      q == IF both THEN UpdatePanel(fs, other_panel, reload, Chdir(fs, w, other_panel.cwd))
           ELSE other_panel
      v == CASE ~both -> w
             [] both /\ q.panelized -> Chdir(fs, Chdir(fs, w, q.cwd), p.cwd)
             [] both /\ ~q.panelized -> q.cwd
  IN /\ current_panel' = p /\ other_panel' = q
     /\ wd' = Chdir(fs, v, p.cwd)
     /\ lost' = ~DirExists(fs, p.cwd)

-----------------------------------------------------------------------------
(* Commands of the user on the current panel.                              *)
Idle == [at |-> "idle"]
Become(p) == current_panel' = p /\ UNCHANGED other_panel
Quiet == UNCHANGED <<files, wd, lost, op>>
MoveDown(p) == [p EXCEPT !.selected = Min({@ + 1, Count(p) - 1})]

MoveTo(i) == op = Idle /\ Become([current_panel EXCEPT !.selected = i]) /\ Quiet

(* mark_file; mark_moves_down is an option.                                *)
MarkFile ==
  LET n == Selection(current_panel)
      p == FileMark(current_panel, n, n \notin current_panel.mark)
  IN op = Idle /\ (Become(p) \/ Become(MoveDown(p))) /\ Quiet

SelectGroup(names, m) ==
  op = Idle /\ Become(MarkAll(current_panel, names, m)) /\ Quiet

(* reverse_selection_cmd, of all or of the files only.                     *)
ReverseSelection(which) ==
  /\ op = Idle
  /\ Become(MarkAll(MarkAll(current_panel, which \ current_panel.mark, TRUE),
                    which \cap current_panel.mark, FALSE))
  /\ Quiet

Regular(p) == {n \in p.names : ~IsDir(p.cwd, n)}

(* compare_dir: names the other panel does not list are marked, of the     *)
(* others those that differ.                                               *)
Compared(p, q) ==
  {MarkAll(Cleaned(p), m, TRUE) :
     m \in {s \in SUBSET Regular(p) : Regular(p) \ q.names \subseteq s}}

CompareDirs ==
  /\ op = Idle
  /\ \E p \in Compared(current_panel, other_panel) :
     \E q \in Compared(other_panel, current_panel) :
       current_panel' = p /\ other_panel' = q
  /\ Quiet

(* The sizes of directories; counting may be interrupted.                  *)
Sized(p, done) == Become(Recalculate([p EXCEPT !.sized = @ \cup done]))
Subdirs(p) == DirsOf(p, p.names)

SingleDirsize ==
  LET p == current_panel IN
  /\ op = Idle
  /\ \E done \in SUBSET (Subdirs(p) \cap {Selection(p)}),
        q \in {p, MoveDown(p)} : Sized(q, done)
  /\ Quiet

Dirsizes ==
  LET p == current_panel
      dirs == IF p.dirs_marked > 0 THEN Subdirs(p) \cap p.mark ELSE Subdirs(p)
  IN op = Idle /\ (\E done \in SUBSET dirs : Sized(p, done)) /\ Quiet

(* _do_panel_cd; going up selects the directory left.                      *)
PanelCd(d) ==
  LET p == LoadDir(files, current_panel, d) IN
  /\ op = Idle /\ DirExists(files, d)
  /\ Become(IF d = "top" /\ current_panel.cwd = "sub"
            THEN TryToSelect(p, Sub) ELSE p)
  /\ wd' = d /\ lost' = FALSE
  /\ UNCHANGED <<files, op>>

SyncOtherPanel ==
  LET d == current_panel.cwd
      q == LoadDir(files, other_panel, d)
  IN /\ op = Idle /\ DirExists(files, d)
     /\ other_panel' = IF current_panel.panelized THEN q
                       ELSE TryToSelect(q, Selection(current_panel))
     /\ wd' = d /\ lost' = FALSE
     /\ UNCHANGED <<files, current_panel, op>>

(* do_external_panelize: the command prints names seen from where mc is.   *)
ExternalPanelize(names) ==
  /\ op = Idle
  /\ Become([Cleaned(current_panel) EXCEPT !.names = names, !.sized = {},
                                     !.selected = 0, !.panelized = TRUE])
  /\ Quiet

(* WIDGET_FOCUS: the other panel is current even if its directory is gone. *)
ChangePanel ==
  /\ op = Idle
  /\ current_panel' = other_panel /\ other_panel' = current_panel
  /\ wd' = Chdir(files, wd, other_panel.cwd)
  /\ lost' = ~DirExists(files, other_panel.cwd)
  /\ UNCHANGED <<files, op>>

(* reread_cmd drops a panelized list; after any other command (a shell     *)
(* command, an editor, ...) update_panels keeps it.                        *)
Reread ==
  /\ op = Idle
  /\ UpdatePanels(files, current_panel, TRUE,
                  current_panel.cwd = other_panel.cwd)
  /\ UNCHANGED <<files, op>>

Refresh ==
  /\ op = Idle /\ UpdatePanels(files, current_panel, FALSE, TRUE)
  /\ UNCHANGED <<files, op>>

-----------------------------------------------------------------------------
(* panel_operate up to its question.  The panels are read again, but       *)
(* whether one entry is meant was decided before; what it is, after.       *)
Paths(p, names) == {<<p.cwd, n>> : n \in names}

Meant(p, force) == IF force \/ p.marked = 0 THEN {Selection(p)} ELSE p.mark

OperateAsks(force) ==
  LET p == current_panel
      single == force \/ p.marked <= 1
      q == current_panel'
      source == CASE ~single -> q.mark
                  [] single /\ ~force /\ q.marked > 0 -> {Min(q.mark)}
                  [] OTHER -> {Selection(q)}
  IN /\ op = Idle
     /\ IF p.panelized THEN UNCHANGED <<current_panel, other_panel, wd, lost>>
        ELSE UpdatePanels(files, current_panel, TRUE, TRUE)
     /\ op' = IF source = {0} THEN Idle
              ELSE [at |-> "ask", force |-> force, single |-> single,
                    source |-> source]
     /\ UNCHANGED files

(* The answer: some of the entries are done, and gone from the disk if     *)
(* they were moved or deleted; then the panels are read again.             *)
OperateDoes(done, moved) ==
  LET p == current_panel
      fs == IF moved THEN Without(files, Paths(p, done)) ELSE files
      unmarked == CASE ~op.single -> MarkAll(p, done, FALSE)
                    [] op.single /\ done # {} /\ ~op.force -> Cleaned(p)
                    [] OTHER -> p
  IN /\ op.at = "ask"
     /\ files' = fs
     /\ UpdatePanels(fs, unmarked, FALSE, TRUE)
     /\ op' = Idle

OperateRefused ==
  /\ op.at = "ask" /\ op' = Idle
  /\ UNCHANGED <<files, current_panel, other_panel, wd, lost>>

-----------------------------------------------------------------------------
(* chmod_cmd: one dialog for each marked file, or one for the selection.   *)
ChmodCmd ==
  /\ op = Idle /\ op' = [at |-> "chmod", need_update |-> FALSE]
  /\ UNCHANGED <<files, current_panel, other_panel, wd, lost>>

ChmodDone(p, need_update) ==
  /\ IF need_update
     THEN UpdatePanels(files, p, FALSE, TRUE)
     ELSE UNCHANGED <<current_panel, other_panel, wd, lost>>
  /\ op' = Idle

NextFile(p) == IF p.marked > 0 THEN Min(p.mark) ELSE Selection(p)

ChmodGone ==
  /\ op.at = "chmod" /\ ~Exists(files, wd, NextFile(current_panel))
  /\ ChmodDone(current_panel, op.need_update)
  /\ UNCHANGED files

ChmodSet ==
  LET p == FileMark(current_panel, NextFile(current_panel), FALSE) IN
  /\ op.at = "chmod" /\ Exists(files, wd, NextFile(current_panel))
  /\ IF p.marked > 0
     THEN Become(p) /\ op' = [op EXCEPT !.need_update = TRUE]
          /\ UNCHANGED <<wd, lost>>
     ELSE ChmodDone(p, TRUE)
  /\ UNCHANGED files

(* apply_mask goes through the marks in order until one file is gone.      *)
ChmodAll ==
  LET marks == current_panel.mark
      gone == {n \in marks \ {Min(marks)} : ~Exists(files, wd, n)}
      done == IF gone = {} THEN marks ELSE {n \in marks : n <= Min(gone)}
  IN /\ op.at = "chmod" /\ current_panel.marked >= 2
     /\ Exists(files, wd, Min(marks))
     /\ ChmodDone(MarkAll(current_panel, done, FALSE), TRUE)
     /\ UNCHANGED files

ChmodCancelled ==
  /\ op.at = "chmod" /\ ChmodDone(current_panel, op.need_update)
  /\ UNCHANGED files

-----------------------------------------------------------------------------
(* Another process.                                                        *)
Create(f) ==
  /\ f \notin files /\ DirExists(files, f[1])
  /\ files' = files \cup {f}
  /\ UNCHANGED <<current_panel, other_panel, wd, lost, op>>

Delete(f) ==
  /\ f \in files /\ files' = Without(files, {f})
  /\ UNCHANGED <<current_panel, other_panel, wd, lost, op>>

Everything == ({"top"} \X TopNames) \cup ({"sub"} \X SubNames)

Init ==
  /\ files = Everything
  /\ current_panel =
       LoadDir(files, [cwd |-> "top", names |-> {}, mark |-> {}, sized |-> {},
                       marked |-> 0, dirs_marked |-> 0, total |-> 0,
                       selected |-> 0, panelized |-> FALSE], "top")
  /\ other_panel = current_panel
  /\ wd = "top" /\ lost = FALSE /\ op = Idle

Mark ==
  \/ \E i \in 0..Count(current_panel) - 1 : MoveTo(i)
  \/ MarkFile \/ CompareDirs \/ SingleDirsize \/ Dirsizes
  \/ \E names \in SUBSET current_panel.names, m \in BOOLEAN :
       SelectGroup(names, m)
  \/ \E which \in {current_panel.names, Regular(current_panel)} :
       ReverseSelection(which)

Show ==
  \/ \E d \in {"top", "sub"} : PanelCd(d)
  \/ \E names \in SUBSET Listing(files, wd) : ExternalPanelize(names)
  \/ SyncOtherPanel \/ ChangePanel \/ Reread \/ Refresh

Operate ==
  \/ \E force \in BOOLEAN : OperateAsks(force)
  \/ /\ op.at = "ask"
     /\ \E done \in SUBSET {n \in op.source : <<current_panel.cwd, n>> \in files},
           moved \in BOOLEAN : OperateDoes(done, moved)
  \/ OperateRefused

Chmod == ChmodCmd \/ ChmodGone \/ ChmodSet \/ ChmodAll \/ ChmodCancelled

Others == \E f \in Everything : Create(f) \/ Delete(f)

Next == Mark \/ Show \/ Operate \/ Chmod \/ Others

Spec == Init /\ [][Next]_vars

-----------------------------------------------------------------------------
TypeOK ==
  /\ files \subseteq Everything
  /\ \A p \in {current_panel, other_panel} :
       /\ p.cwd \in {"top", "sub"} /\ p.panelized \in BOOLEAN
       /\ p.mark \subseteq p.names /\ p.sized \subseteq p.names
       /\ p.selected \in 0..Count(p) - 1
  /\ wd \in {"top", "sub"} /\ lost \in BOOLEAN
  /\ op.at \in {"idle", "ask", "chmod"}

(* The counters of a panel are those of its marks: panel_get_file asserts  *)
(* that it finds a mark if marked is not 0, next_file of chmod.c runs off  *)
(* the list if it does not, and the questions show the numbers.            *)
SummaryMatches ==
  \A p \in {current_panel, other_panel} :
    /\ p.marked = Cardinality(p.mark)
    /\ p.dirs_marked = Cardinality(DirsOf(p, p.mark))
    /\ p.total = SizeOf(p, p.mark)

(* A directory that is read again keeps, whatever other processes did to   *)
(* it, the marks and the selection of what is still there, and marks       *)
(* nothing else.                                                           *)
Kept(p, q) ==
  ~p.panelized /\ q.cwd = p.cwd =>
    /\ q.mark = p.mark \cap q.names
    /\ Selection(p) \in q.names => Selection(q) = Selection(p)

ReloadKeeps ==
  [][Refresh \/ Reread => /\ Kept(current_panel, current_panel')
                         /\ Kept(other_panel, other_panel')]_vars

(* A command works on what the user saw marked or selected when he gave    *)
(* it, if all of that is still there, though the panels are read again     *)
(* before the question is asked.                                           *)
OperatesOnAsked ==
  [][op = Idle /\ op'.at = "ask" =>
       LET meant == Paths(current_panel, Meant(current_panel, op'.force)) IN
       meant \subseteq files =>
         Paths(current_panel', op'.source) = meant]_vars

(* Relative names, which chmod, the viewer and the shell get, are those of *)
(* the directory the current panel shows; unless mc could not enter it.    *)
WorksWhereShown == lost \/ wd = current_panel.cwd

(* What mc keeps beside the lists agrees with them: counters and marks,    *)
(* and the directory of the process.                                       *)
PanelsAreConsistent ==
  /\ TypeOK
  /\ SummaryMatches
  /\ WorksWhereShown

=============================================================================
