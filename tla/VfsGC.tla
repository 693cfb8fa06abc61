------------------------------- MODULE VfsGC -------------------------------
(***************************************************************************)
(* The garbage collector of the virtual file systems: the list of stamps   *)
(* of lib/vfs/mc-vfs/gc.c, with the superblocks of direntry.c it frees and *)
(* the directory changes, opens and closes that stamp and unstamp them.    *)
(*                                                                         *)
(* A superblock is an open archive or connection.  One that nobody needs   *)
(* is put on the list; tty_get_event frees it once its stamp is vfs_timeout*)
(* old.  "Needed" is decided when a caller leaves the superblock, never    *)
(* when it is freed: the list is right only if every change of what mc     *)
(* needs goes through vfs_stamp_create or vfs_rmstamp.                     *)
(*                                                                         *)
(* mc is one process and runs one command at a time, so a command is one   *)
(* step.  The functions it calls are operators from a state of the         *)
(* collector to the next one, composed in the order of the code.           *)
(*                                                                         *)
(* A superblock is looked up by its path.  One of an archive is not found  *)
(* while the file of the archive cannot be looked at, and a panel that     *)
(* cannot enter its directory goes up to one it can: both leave            *)
(* superblocks behind of which the collector is not told (lost).  Archives *)
(* lie on the local disk: those inside other file systems are left out,    *)
(* and so are archives that come back changed.                             *)
(***************************************************************************)
EXTENDS Integers, FiniteSetsExt

CONSTANTS FS,        \* superblock names: host or archive, not the local disk
          Archives,  \* those of FS whose archive_check looks at a local file
          Local,     \* the local file system, never stamped
          Timeout,   \* vfs_timeout, in ticks of the clock
          MaxOpen    \* bound: files and streams open at once

ASSUME GCAssumption ==
  /\ Local \notin FS /\ "NULL" \notin FS \cup {Local} /\ Archives \subseteq FS
  /\ Timeout \in Nat /\ MaxOpen \in Nat

VARIABLES
  vfs,      \* [supers, stamps, dir, gone, lost]: superblocks in memory, the
            \* stamp list (a set: no code depends on its order), the file
            \* system of the current directory, the archives without a file;
            \* lost (history): superblocks left behind or out of sight
  panels,   \* [cwd, listing, current]: of the two panels; viewed (history):
            \* a panel has been replaced by a view
  fd_usage, \* files open in each superblock
  streams,  \* directory streams open in each superblock
  running   \* FALSE once vfs_shut ran

gc_vars == <<vfs, panels, fd_usage, streams, running>>

Side == {0, 1}
Place == FS \cup {Local}
NULL == "NULL"
Other(p) == 1 - p.current

-----------------------------------------------------------------------------
(* vfs_getid: the superblock of a place that is open already, else NULL;   *)
(* archive_check finds no superblock without the file of the archive.      *)
GetId(v, place) == IF place \in v.supers \ v.gone THEN place ELSE NULL

RmStamp(v, id) == [v EXCEPT !.stamps = {s \in @ : s.id # id}]

Stamped(v, id) == \E s \in v.stamps : s.id = id

(* vfs_addstamp: renew the stamp, or append one.                           *)
AddStamp(v, id) ==
  IF id = NULL THEN v
  ELSE [v EXCEPT !.stamps = {s \in @ : s.id # id} \cup {[id |-> id, age |-> 0]}]

(* vfs_stamp: renew the stamp if there is one.                             *)
Renew(v, id) == IF Stamped(v, id) THEN AddStamp(v, id) ELSE v

(* Mistake: the directory of the other panel is forgotten.                 *)
ListedCurrent(v, p, id) ==
  p.listing[p.current] /\ GetId(v, p.cwd[p.current]) = id

(* The superblock is the directory of a panel that shows a listing.        *)
Listed(v, p, id) ==
  \E n \in Side : p.listing[n] /\ GetId(v, p.cwd[n]) = id

(* Mistake: the stamp of the current directory is left on the list.        *)
StampCreateKeepsCurrent(v, p, id) ==
  IF id = NULL \/ id = GetId(v, v.dir) \/ Listed(v, p, id) THEN v
  ELSE AddStamp(v, id)

(* vfs_stamp_create: id has lost a user.  The answer of nothingisopen is   *)
(* left out: for the classes of direntry.c it is always 1.                 *)
StampCreate(v, p, id) ==
  LET here == GetId(v, v.dir)
      v1 == RmStamp(v, here)
  IN IF id = NULL \/ id = here \/ Listed(v, p, id) THEN v1 ELSE AddStamp(v1, id)

(* Mistake: the new superblock is not stamped.                             *)
OpenSuperUnstamped(v, p, place) ==
  IF place \in {Local} \cup v.gone THEN v ELSE [v EXCEPT !.supers = @ \cup {place}]

(* vfs_s_get_path_mangle: every access to a path opens its superblock, or  *)
(* finds it, which renews the stamp of an archive (tar_super_same).        *)
OpenSuper(v, p, place) ==
  IF place \in {Local} \cup v.gone THEN v
  ELSE IF place \in v.supers THEN IF place \in Archives THEN Renew(v, place) ELSE v
  ELSE StampCreate([v EXCEPT !.supers = @ \cup {place}], p, place)

(* A successful mc_chdir.                                                  *)
Chdir(v, p, place) ==
  LET v1 == OpenSuper(v, p, place)
      old == GetId(v1, v1.dir)
      v2 == StampCreate([v1 EXCEPT !.dir = place], p, old)
  IN [v2 EXCEPT !.lost = @ \ {place}]

(* What mc_chdir may leave when it succeeds, and when it fails: before the *)
(* superblock was opened or after.                                         *)
Entered(v, p, place) == IF place \in v.gone THEN {} ELSE {Chdir(v, p, place)}
Refused(v, p, place) == {v, OpenSuper(v, p, place)}

(* vfs_release_path.                                                       *)
ReleasePath(v, p, place) == StampCreate(v, p, GetId(v, place))

Old(v, now) == {s \in v.stamps : now \/ s.age >= Timeout}

(* Mistake: the superblock is freed and its stamp stays.                   *)
ExpireKeepsStamp(v, now) ==
  [v EXCEPT !.supers = @ \ {s.id : s \in Old(v, now)},
            !.lost = @ \ {s.id : s \in Old(v, now)}]

(* vfs_expire: free what is on the list and old, or everything on it.      *)
Expire(v, now) ==
  [v EXCEPT !.supers = @ \ {s.id : s \in Old(v, now)},
            !.stamps = @ \ Old(v, now),
            !.lost = @ \ {s.id : s \in Old(v, now)}]

(* The collector is not told, or will not be, that a superblock is left.   *)
Forget(v, place) ==
  IF place \in v.supers /\ ~Stamped(v, place) THEN [v EXCEPT !.lost = @ \cup {place}]
  ELSE v
Abandon(v, p, place) == IF Listed(v, p, place) THEN v ELSE Forget(v, place)

(* vfs_add_current_stamps: the places protected so far lose protection.    *)
AddCurrentStamps(v, p) ==
  LET v1 == AddStamp(v, GetId(v, v.dir))
      add(w, n) == IF p.listing[n] THEN AddStamp(w, GetId(w, p.cwd[n])) ELSE w
  IN add(add(v1, p.current), Other(p))

-----------------------------------------------------------------------------
GCInit ==
  /\ vfs = [supers |-> {}, stamps |-> {}, dir |-> Local, gone |-> {}, lost |-> {}]
  /\ panels = [cwd |-> [n \in Side |-> Local], listing |-> [n \in Side |-> TRUE],
               current |-> 0, viewed |-> FALSE]
  /\ fd_usage = [f \in FS |-> 0]
  /\ streams = [f \in FS |-> 0]
  /\ running = TRUE

(* Files and streams are open only inside a command that runs a dialog of  *)
(* its own (the viewer, a copy, a file search), and such a command changes *)
(* no directory.                                                           *)
NothingOpen == \A f \in FS : fd_usage[f] = 0 /\ streams[f] = 0
OpenNow == MapThenSumSet(LAMBDA f : fd_usage[f] + streams[f], FS)

Command == running /\ UNCHANGED running
PanelCommand == Command /\ NothingOpen /\ UNCHANGED <<fd_usage, streams>>

(* Mistake: the directory the panel left is not released.                  *)
DoPanelCdNoRelease(n, place) ==
  LET p1 == [panels EXCEPT !.cwd[n] = place]
  IN /\ PanelCommand
     /\ panels.listing[n] /\ place \notin vfs.gone
     /\ panels' = p1
     /\ vfs' = OpenSuper(Chdir(vfs, panels, place), p1, place)

(* _do_panel_cd: mc_chdir, panel->cwd, vfs_release_path, do_load_dir.      *)
(* sync_other_panel calls it for the panel that is not current.            *)
DoPanelCd(n, place) ==
  LET p1 == [panels EXCEPT !.cwd[n] = place]
      v1 == Chdir(vfs, panels, place)
      v2 == ReleasePath(v1, p1, panels.cwd[n])
  IN /\ PanelCommand
     /\ panels.listing[n] /\ place \notin vfs.gone
     /\ panels' = p1
     /\ vfs' = OpenSuper(v2, p1, place)

(* An access by path, or a cd that fails after the superblock was opened.  *)
Touch(place) ==
  /\ Command
  /\ vfs' = OpenSuper(vfs, panels, place)
  /\ UNCHANGED <<panels, fd_usage, streams>>

(* WIDGET_FOCUS: the other panel becomes current; mc_chdir may fail.       *)
FocusOther ==
  LET p1 == [panels EXCEPT !.current = Other(panels)]
  IN /\ PanelCommand
     /\ panels.listing[Other(panels)]
     /\ panels' = p1
     /\ vfs' \in Entered(vfs, p1, p1.cwd[p1.current]) \cup Refused(vfs, p1, p1.cwd[p1.current])

(* panel_reload, on s = [vfs, panels].  A panel that cannot enter its      *)
(* directory goes up, in the end out of its file system, which is not      *)
(* released; a local directory may be left as it is (fast_reload).         *)
PanelReload(s, n) ==
  LET v == s.vfs
      p == s.panels
      place == p.cwd[n]
      up == [p EXCEPT !.cwd[n] = Local]
  IN IF ~p.listing[n] THEN {s}
     ELSE {[vfs |-> w, panels |-> p] : w \in Entered(v, p, place)}
          \cup IF place = Local THEN {s}
               ELSE {[vfs |-> Abandon(Chdir(w, up, Local), up, place), panels |-> up]
                       : w \in Refused(v, p, place)}

(* update_panels: both panels are reloaded, then back to the current.      *)
UpdatePanels ==
  /\ PanelCommand
  /\ \E s1 \in PanelReload([vfs |-> vfs, panels |-> panels], panels.current) :
     \E s2 \in PanelReload(s1, Other(panels)) :
       LET place == s2.panels.cwd[panels.current]
       IN /\ panels' = s2.panels
          /\ vfs' \in Entered(s2.vfs, panels', place) \cup Refused(s2.vfs, panels', place)

(* Mistake: the stamp stays while the file is open.                        *)
OpenFileStamped(f) ==
  /\ Command
  /\ OpenNow < MaxOpen /\ f \notin vfs.gone
  /\ vfs' = OpenSuper(vfs, panels, f)
  /\ fd_usage' = [fd_usage EXCEPT ![f] = @ + 1]
  /\ UNCHANGED <<panels, streams>>

(* vfs_s_open and vfs_s_close.                                             *)
OpenFile(f) ==
  /\ Command
  /\ OpenNow < MaxOpen /\ f \notin vfs.gone
  /\ vfs' = RmStamp(OpenSuper(vfs, panels, f), f)
  /\ fd_usage' = [fd_usage EXCEPT ![f] = @ + 1]
  /\ UNCHANGED <<panels, streams>>

(* Mistake: the last close does not hand the superblock back.              *)
CloseFileForgets(f) ==
  /\ Command
  /\ fd_usage[f] > 0
  /\ fd_usage' = [fd_usage EXCEPT ![f] = @ - 1]
  /\ UNCHANGED <<vfs, panels, streams>>

(* Mistake: a file may be closed twice.                                    *)
CloseFileTwice(f) ==
  /\ Command
  /\ fd_usage' = [fd_usage EXCEPT ![f] = @ - 1]
  /\ vfs' = StampCreate(vfs, panels, f)
  /\ UNCHANGED <<panels, streams>>

CloseFile(f) ==
  /\ Command
  /\ fd_usage[f] > 0
  /\ fd_usage' = [fd_usage EXCEPT ![f] = @ - 1]
  /\ vfs' = IF fd_usage[f] = 1 THEN StampCreate(vfs, panels, f) ELSE vfs
  /\ UNCHANGED <<panels, streams>>

(* tty_get_event, before it waits and whenever its ten seconds are over.   *)
TtyGetEvent ==
  /\ Command
  /\ vfs' = Expire(vfs, FALSE)
  /\ UNCHANGED <<panels, fd_usage, streams>>

(* "Free VFSs now" of the hotlist.                                         *)
FreeAllNow ==
  /\ PanelCommand
  /\ vfs' = Expire(vfs, TRUE)
  /\ UNCHANGED panels

(* The file of an archive goes away; it comes back as it was.              *)
Vanish(f) ==
  /\ Command /\ f \notin vfs.gone
  /\ vfs' = [Forget(vfs, f) EXCEPT !.gone = @ \cup {f}]
  /\ UNCHANGED <<panels, fd_usage, streams>>

Appear(f) ==
  /\ Command /\ f \in vfs.gone
  /\ vfs' = [vfs EXCEPT !.gone = @ \ {f}]
  /\ UNCHANGED <<panels, fd_usage, streams>>

(* The clock.                                                              *)
Tick ==
  /\ Command
  /\ \E s \in vfs.stamps : s.age < Timeout
  /\ vfs' = [vfs EXCEPT !.stamps =
       {[id |-> s.id, age |-> IF s.age < Timeout THEN s.age + 1 ELSE s.age]
          : s \in @}]
  /\ UNCHANGED <<panels, fd_usage, streams>>

(* done_mc, then vfs_shut: stamp what was protected, free all stamped.     *)
Quit ==
  /\ running /\ NothingOpen
  /\ running' = FALSE
  /\ vfs' = Expire(AddCurrentStamps(vfs, panels), TRUE)
  /\ UNCHANGED <<panels, fd_usage, streams>>

(* set_display_type for the panel that is not current (C-x i): away from   *)
(* the listing, its directory is saved; back, panel_new_with_dir loads it  *)
(* and returns, and only then is the type of the panel view_listing.       *)
ToggleOther ==
  LET n == Other(panels)
      place == panels.cwd[n]
  IN /\ PanelCommand
     /\ panels' = [panels EXCEPT !.listing[n] = ~@, !.viewed = TRUE]
     /\ IF panels.listing[n] THEN UNCHANGED vfs
        ELSE \E w \in Entered(vfs, panels, place) \cup Refused(vfs, panels, place) :
               LET v == OpenSuper(w, panels, place)
               IN vfs' \in Entered(v, panels, vfs.dir) \cup Refused(v, panels, vfs.dir)

(* vfs_s_opendir and vfs_s_closedir: the superblock is not told.           *)
OpenDir(f) ==
  /\ Command
  /\ OpenNow < MaxOpen /\ f \notin vfs.gone
  /\ vfs' = OpenSuper(vfs, panels, f)
  /\ streams' = [streams EXCEPT ![f] = @ + 1]
  /\ UNCHANGED <<panels, fd_usage>>

CloseDir(f) ==
  /\ Command
  /\ streams[f] > 0
  /\ streams' = [streams EXCEPT ![f] = @ - 1]
  /\ UNCHANGED <<vfs, panels, fd_usage>>

Stopped == ~running /\ UNCHANGED gc_vars

GCNext ==
  \/ \E n \in Side, place \in Place : DoPanelCd(n, place)
  \/ \E f \in FS : \/ Touch(f) \/ OpenFile(f) \/ CloseFile(f)
                   \/ OpenDir(f) \/ CloseDir(f)
  \/ \E f \in Archives : Vanish(f) \/ Appear(f)
  \/ FocusOther \/ UpdatePanels \/ ToggleOther
  \/ TtyGetEvent \/ FreeAllNow \/ Tick \/ Quit \/ Stopped

(* The clock runs, and tty_get_event wakes every ten seconds for as long   *)
(* as there is a stamp (vfs_timeouts), whatever the user does.             *)
GCFairness == WF_gc_vars(Tick) /\ WF_gc_vars(TtyGetEvent)

GCSpec == GCInit /\ [][GCNext]_gc_vars /\ GCFairness

-----------------------------------------------------------------------------
Stamp == [id : FS, age : 0 .. Timeout]

GCTypeOK ==
  /\ vfs \in [supers : SUBSET FS, stamps : SUBSET Stamp, dir : Place,
             gone : SUBSET Archives, lost : SUBSET FS]
  /\ panels \in [cwd : [Side -> Place], listing : [Side -> BOOLEAN],
                 current : Side, viewed : BOOLEAN]
  /\ fd_usage \in [FS -> Nat] /\ streams \in [FS -> Nat]
  /\ running \in BOOLEAN

(* Every stamp names a superblock in memory, once: vfs_expire follows the  *)
(* identifier as a pointer (gc.c:252-257).                                 *)
StampsAreLive ==
  \A s, t \in vfs.stamps : s.id \in vfs.supers /\ (s.id = t.id => s = t)

(* The superblock of the current directory waits for no timeout, unless    *)
(* the file of the archive went away meanwhile: then a file in it that is  *)
(* closed stamps it.                                                       *)
CurrentNotStamped == vfs.dir \notin vfs.lost => ~Stamped(vfs, vfs.dir)

(* Neither does that of a panel on the screen: "there are three            *)
(* directories we have to take care of" (gc.c:166).  Once a panel has been *)
(* replaced by a view this is false: nothing unstamps what it comes back to.*)
PanelsNotStamped ==
  \A n \in Side :
    panels.listing[n] /\ panels.cwd[n] \notin vfs.lost /\ ~panels.viewed
      => ~Stamped(vfs, panels.cwd[n])

(* A file that is open keeps its superblock, which its close will use.     *)
OpenFilesKeepSuper ==
  \A f \in FS : fd_usage[f] > 0 => f \in vfs.supers

Needed(f) ==
  \/ vfs.dir = f
  \/ \E n \in Side : panels.listing[n] /\ panels.cwd[n] = f
  \/ fd_usage[f] > 0

(* No superblock is forgotten: one that nothing needs is on the list, but  *)
(* for those that a panel which could not enter them again left behind     *)
(* (screen.c:1324), and those whose archive has been out of sight since mc *)
(* entered them.  After a view it may be: replacing a panel stamps nothing.*)
Unneeded(f) == f \in vfs.supers \ vfs.lost /\ ~Needed(f) /\ ~panels.viewed
UnneededIsStamped == \A f \in FS : Unneeded(f) => Stamped(vfs, f)

(* Quitting frees everything (gc.c:299, "Free all data") but what is lost. *)
QuitFreesAll == ~running /\ ~panels.viewed => vfs.supers \subseteq vfs.lost

(* A superblock nothing needs any more is freed in the end, unless it is   *)
(* used again or mc quits: one that stays has its stamp renewed without    *)
(* end.                                                                    *)
Renewed(f) ==
  \E s \in vfs.stamps, t \in vfs'.stamps : s.id = f /\ t.id = f /\ t.age < s.age
UnneededIsFreed ==
  \A f \in FS : <>[]Unneeded(f) => []<><<Renewed(f)>>_gc_vars
=============================================================================
