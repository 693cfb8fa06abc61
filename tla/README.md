# A TLA+ verification of Midnight Commander

This directory holds TLA+ models of the parts of Midnight Commander (`mc`) whose
behaviour depends on order, failure or timing, the TLC configurations that check
them on small instances, and proofs, checked by TLAPS, of what holds for every
size. Every definition is translated from the C code; `PROJECT.json` gives the
lines of each ("map"), lists the runs, and names for every property a plausible
mistake in the code that would break it ("mutants").

    tlc -workers 2 -config MCVfsGC.cfg MCVfsGC      # a run
    tlapm VfsHandlesProofs.tla                      # proofs

Paths below are relative to `src/`; the repository keeps the program itself in
`src/src/` and its libraries in `src/lib/`.

## 1. The system

`mc` is a single process with a single thread. It runs one command at a time and
waits for input in `tty_get_event`. What makes it hard is everything around it:
a shell on a pseudo terminal that runs at its own pace, a signal handler,
other editors and other processes on the same files, background copies of `mc`,
system calls that fail, and questions to the user in the middle of an operation.

### Inventory

| Part (source) | State it keeps | Operations | Hard because of | Correct when | Here |
|---|---|---|---|---|---|
| Open-file table (`lib/vfs/mc-vfs/vfs.c`) | array `vfs_openfiles`, free list threaded through it | `mc_open`, `mc_close`, lookups of every other `mc_*` | any order of opens and closes; links stored as pointers | a handle names its file from open to close; no slot is lost or given twice | `VfsHandles`, `HandleMap` |
| Stamps and garbage collection (`lib/vfs/mc-vfs/gc.c`, `direntry.c`) | list of stamps, superblocks, current directory, open files | `mc_chdir`, `vfs_stamp_create`, `vfs_expire`, `vfs_s_open`, `vfs_s_close`, quit | what is needed is decided early, freed late; the order of stamping and leaving | nothing in use is freed, nothing unused is kept | `VfsGC` |
| Copying and moving files (`src/file.c`, `src/filegui.c`) | `FileOpContext`, locals of `copy_file_file`, tags | one system call or question after the other | every call fails; answers remembered too long; other processes | a file loses its tag only when it was copied; a move loses nothing; every handle is closed | `CopyFile` |
| Directory trees (`src/file.c`) | the stack of recursion, the erase list of a move, the list of files with several names | `copy_dir_dir`, `move_dir_dir`, `erase_dir`, `recursive_erase`, `check_hardlinks` | partial failure in the middle of a tree; Skip and Abort in a nested call; links | no content is lost, an untagged entry was done, a copy into itself ends | `TreeOps` |
| Editor: files and locks (`src/editor/`) | `WEdit`, links `.#FILE`, the files | open, modify, save, save as, load, quit | several editors, crashes, failing saves, stale locks | locks follow their buffers; no text is lost or overwritten unseen | `EditFile` |
| Concurrent subshell (`src/subshell.c`, `src/execute.c`) | `subshell_state`, `_ready`, `_alive`, `_stopped`, `_cwd`; pty and pipe | `feed_subshell`, `synchronize`, `invoke_subshell`, `do_subshell_chdir`, SIGCHLD handler | three parties at their own pace, signals, death of the shell | mc and the shell never wait for each other; no command goes to a busy shell | `Subshell` |
| Background jobs (`src/background.c`, `lib/tty/key.c`) | task list, two pipes for each job, select channels, the stack of event loops | `do_background`, `background_attention`, `parent_call`, `try_channels`, the jobs dialog | blocking reads, nested dialogs, dead jobs | every question is answered once, to the job that asked | `Background` |
| Directory cache (`direntry.c`) | inodes, entries, reference counts, streams, handles | lookup, listing, expiry, invalidation, open, close, free | counting what streams and handles still use while listings are dropped | nothing in use is freed, nothing leaks, nothing stale is shown | `DirCache`; superblocks in `VfsGC` |
| Network file systems (`ftpfs.c`, `fish.c`, `mcfs.c`, `smbfs.c`) | control and data connection, cached directory and type | commands and replies, transfers, abort, reconnect | a reply does not name its command; the server goes away in the middle | one reply for each command; what is reported as stored is | `FtpConn` (ftp only) |
| Archive readers (`tar.c`, `cpio.c`, `extfs.c`, `sfs.c`) | parser state | reading formats | data formats | | not modelled |
| Editor buffer, undo (`src/editor/edit.c`, `editcmd.c`) | two-sided buffer, counters, marks, undo ring | insert, delete, cursor keys, blocks, undo | blocks at their limits, repeat counts, a full ring | counters match the text, undo leads back through what was | `EditBuffer`, `UndoStack`, `UndoHistory` |
| Viewer (`src/viewer/`) | growing buffer, coordinate cache | reading on demand | data that grows while shown | what is shown is what was read | not modelled |
| Event loop (`lib/tty/key.c`) | select channels, key tree | `tty_get_event`, `add_select_channel` | callbacks that change the list being walked | each channel is served once for each report | the vfs timeout in `VfsGC`, the channels in `Background` |
| Panels and directory lists (`src/screen.c`, `dir.c`, `chmod.c`) | lists, marks, counters, selection, working directory | load, reload, mark, select, panelize, ask, operate | the directory changes between what the user sees and what is done | marks and counters agree; a command works on what the user meant | `PanelList`; directories in `VfsGC` |
| Tree store (`src/treestore.c`) | sorted list of directories | add, remove, rescan, save | masks kept by increments | sorted, no orphans | not modelled |
| Dialogs, menus, setup, find, hotlist, user menu, skins, strings, console saver, Samba | | | user interface, text, pure I/O or third-party code | | not modelled |

`PROJECT.json` lists all 24 components with their files, and 40 hazards: what is
hard to test in this code, at its line, with the properties that cover it; where
a property covers only a part, or none does, a note says why.

### How the parts interact

* `CopyFile` opens and closes its files through the table of `VfsHandles`: the
  module is an `INSTANCE` inside it, so a retried close works on a handle that is
  already free, exactly as in `file.c:728`.
* `TreeOps` calls `copy_file_file` and `move_file_file` for each file; there they
  are one step, with the results that `CopyFile` allows.
* A background job is an mc that runs `CopyFile` and `TreeOps`; each of the
  questions in them becomes a request of `Background` to the parent.
* `PanelList` asks and then calls `CopyFile` or `TreeOps` with what is marked; it
  holds the cache of `DirCache` back for the time (`VFS_SETCTL_STALE_DATA`).
* `DirCache` calls the network for listings, opens and changes; for FTP that is a
  call of `FtpConn`, whose outcome is a choice in `DirCache`.
* `EditFile` loads, saves and locks the text that `EditBuffer` changes; there a
  text is one of a few values, here it is its bytes.
* A file opened inside an archive takes the stamp of its superblock away
  (`vfs_s_open`), the last close hands it back; panels, hotlist and
  `tty_get_event` reach the collector through `mc_chdir`, `vfs_release_path` and
  `vfs_expire`. All of these are actions or operators of `VfsGC`.
* The panel and the shell tell each other their directories:
  `do_subshell_chdir` one way, the pipe of `PROMPT_COMMAND` the other. `Subshell`
  has both, with the panel reduced to `cwd`.

## 2. The modules

### VfsHandles, HandleMap: the table of open files

`len`, `vfs_openfiles` and `vfs_free_handle_list` are the variables of `vfs.c`;
`held` is a history of which handle was returned for which file. `NewHandle` and
`FreeHandle` are `vfs_new_handle` and `vfs_free_handle`, `Lookup` is what
`vfs_op` and `vfs_info` find at a number: a record, NULL, or a small integer
taken for an address (a free slot with a link other than 0). `HandleMap` is the
abstract specification, a finite map from handles to files; `ImplementsMap` is
the refinement. Directory streams are handles of the same table.

### VfsGC: stamps

The collector's state is a record `vfs` of the superblocks in memory, the stamps
with their ages, and the file system of the current directory. The functions of
`gc.c` are operators from one such record to the next (`RmStamp`, `AddStamp`,
`StampCreate`, `Expire`, `AddCurrentStamps`), and an action is a whole command
that composes them in the order of the code: `DoPanelCd` is `mc_chdir`, the change
of `panel->cwd`, `vfs_release_path` and the load of the directory. A command is
one step because mc is one process and neither timeouts nor other commands run
inside it, except in the dialogs of viewer, copy and search; these are the
commands that open files, and `OpenFile`, `CloseFile`, `Touch`, `TtyGetEvent` may
therefore interleave while `NothingOpen` keeps panels still.
`panels.viewed` is a history of whether a panel was ever replaced by a view.

A superblock is found by its path. `mc_chdir` may fail (`Refused`, else `Entered`),
and `PanelReload` is `panel_reload`: a panel that cannot enter its directory
goes up, in the end to the local disk, and no `vfs_release_path` is called for what
it leaves. The file of an archive may go away and come back (`Vanish`, `Appear`); while it
is away `vfs_getid` does not find the superblock (`GetId`), which cannot be stamped, and
is not when it is left. `vfs.lost` is a history of the superblocks that were left
behind in this way, or are out of sight and not stamped, until they are entered again
or freed.

The stamp list is a set: no code depends on its order.

### CopyFile: one file at a time

`pc` runs through the calls of `copy_file_file` and `move_file_file` under the
loop of `panel_operate`. Every call may fail (`Fails` is `real_do_file_error`
with its three answers), reads and writes may be short, the user gives any of the
answers the dialog offers for the target at hand, and `OtherProcess` may create a
target in between. A file's content is the sequence of its bytes, each named by
its origin, so that an overwritten, appended or truncated target can be told.

### TreeOps: directory trees

The file system is a set of directories and a map from paths to inodes and
contents; a content is named by the first name of the file it comes from. `op`
holds the function that runs, its program counter and
the stack of recursive calls; `past` is history. One step is one system call or
question. `CopyDirDir`, `MoveDirDir` and `EraseDirs` group the steps of
`copy_dir_dir`, `move_dir_dir`, and of `erase_dir`, `erase_dir_iff_empty` and
`recursive_erase`. `CopyFile` is `copy_file_file` with `check_hardlinks`: a file with
several names is remembered with the place it is copied to (`Remembered`), and its
other names are linked to that place (`LinkFile`), whole or not. With links followed, a
directory is entered through a symbolic link (`Real`), and `StatSource`
recognises one that is being copied already.

### EditFile: locks and saves

Each editor is a record: its buffer (file, text, `modified`, `locked`,
`delete_file`) and where its command is. The disk, the links `.#FILE` and `fresh`
(who remembers the present modification time of which file) are shared, and one
step is one system call on them, so two editors interleave inside
`edit_lock_file`, `edit_unlock_file` and `edit_save_file`. `Crash` ends an
editor anywhere and leaves its link. There are the three modes of saving: in place, through
a temporary file, and with a backup copy. A save may fail before it writes, after a part
(`Partial`), or after everything: then `mc_close` or `mc_stat` fails and the text is in
the file all the same (`StoreFails`). `failed` is a history of a new file of which that is so.

### Subshell: mc and its shell

`sh`, `tty`, `pipe` and `news` are the shell, its terminal, the pipe of the prompt
and what `waitpid` would report; `mc` is where `mc` is inside `feed_subshell`; the other
variables have the names of the code. The shell's own steps are modelled from
the `PROMPT_COMMAND` that mc gives it (`pwd>&pipe; kill -STOP $$`) and marked
external. `SigchldHandler` runs between any two steps; the test of
`subshell_alive` and the `select` are two steps.

### Background: jobs and event loops

`proc`, `asked`, `req`, `all` are the jobs; `up` and `down` their pipes, where a
request is two halves because `background_attention` reads it in two blocking reads;
`tasks` and `channels` are the lists of mc. mc is a stack of event
loops: answering a request opens a dialog, the dialog is a loop, its `select` reports
other pipes, and the bits an outer loop has not served yet stay
with that loop (`bits`). The jobs dialog holds copies of the task list
(`items`), which is why stopping or killing may hit nothing. `lost` is a history of
the jobs that were killed, or dropped by mc.

### EditBuffer, UndoStack, UndoHistory: the text and its undo

`edit` is the `WEdit`: two tables of blocks of `EDIT_BUF_SIZE` bytes, the counters
beside them, marks and window, and the undo ring of `UndoStack`. The four
routines through which all text passes (`Insert`, `InsertAhead`, `Delete`, `Backspace`)
are operators on this record, commands are chains of them, a key is one step.
`UndoStack` has the ring in the encoding of the code: repeat counts
packed as negative numbers, opposite moves that cancel, growth by doubling, oldest entries
dropped. `UndoHistory` is what is promised: each undo leads to the text and
the cursor before some earlier key, in order, until a block copy was cut off at the limit of
the text (`cut`, section 5). `ImplementsUndo` is the refinement.

### FtpConn: one session

The client is a state machine of one call (`call`), what it remembers (`sup`), and the
open transfer (`fh`); the server executes commands in order and answers into
`toClient`. A connection may end at any moment, commands and transfers may be
refused, the user may interrupt. A call is a whole operation
of mc on the server: list, download, upload, delete, rename. `late` is a history of
the cases in which the code gives a transfer up without reading its last reply. A
reconnect may not reach the host (the old socket stays), reach it and not log in, or log in
and find its directory gone; `AbortTimesOut` goes on in each of these cases, because its
caller does not look at the result.

### DirCache: inodes, entries, streams, handles

A heap of inodes, counted by `st_nlink`, and entries, which are not counted; the
functions of `direntry.c` are operators from one heap to the next (`AddUser`,
`Unlinked`, `FreeRoot`). A pointer is a number and the name of the inode, the
number the lowest to which nothing refers, so that memory is used again
(`Fresh`). An entry and its inode are made and named together and share the pointer; a
list keeps its order when entries leave it (`Less`). `remote` is what the server has and nobody else
changes it; `stale` is `want_stale`. A change may be done and its reply lost, and
then nothing is dropped (`InDoubt`): `doubt` is a history of the listings this
happened to. Listings expire at any moment
between two calls. Open files and streams are slots with the inode they
point to.

### PanelList: two panels on a changing directory

A panel is a record of its directory, the names of its list, marks, the three
counters, the selection and whether it is panelized. `Refresh` is
`update_panels`, which reads both panels again in the order of the code with the
changes of directory in between. `op` is a command waiting for an
answer, during which `Create` and `Delete` of other processes still happen.

## 3. Runs

| Run | States | Shows |
|---|---|---|
| `vfs_handles` (`MCVfsHandles`) | 2,410 | any order of opens and closes of up to four slots, two classes: handles resolve, the free list is complete, the table grows only when full and implements `HandleMap` |
| `vfs_gc` (`MCVfsGC`) | 427,244 | an archive and two hosts, two panels whose reloads may fail, an archive whose file goes away, two files and streams open at once: what is needed is not stamped, what is not needed and not lost is stamped and in the end freed |
| `copy_file` (`MCCopyFile`) | 1,669,542 | two files of three bytes, two failing calls, another process: what lost its tag is done (`UntaggedIsDone`), nothing of one file carries over to the next, files of others are kept |
| `tree_ops` (`MCTreeOps`) | 901,264 | a directory with a subdirectory and symbolic links, and a file that has a second name in it; five targets, one inside the source and one the source itself; two failing calls; a file created meanwhile: no content is lost, what lost its tag is copied or erased in full, an Abort ends a copy |
| `edit_file` (`MCEditFile`) | 1,858,760 | two editors of one file, crashes, stale locks: `LocksFollowBuffers` |
| `edit_file_one` (`MCEditFile`, `MCEditFileOne.cfg`) | 3,751,634 | one editor, two files, three ways of saving, line breaks: `SavesAreKept`, `NeverDeletesText` |
| `subshell` (`MCSubshell`) | 81,802 | a shell killed at most once, one or two keys in a read: no mutual waiting, no command to a busy shell, the known directory is right, own commands are not flushed, a death is noticed |
| `background` (`MCBackground`) | 362,800 | two jobs that ask, are stopped, resumed and killed while dialogs nest: each question is in one place and in the end answered, mc and a job never wait for each other |
| `edit_buffer` (`MCEditBuffer`) | 105,809 | four keys on a text of three bytes in blocks of two: blocks, counters and marks follow the text, the commands do what they say, undo leads back through what was |
| `ftp_conn` (`MCFtpConn`) | 1,371,381 | two calls, a refusal, two lost connections, reconnects that fail, an interrupt: replies stay in step, the client knows the server's directory and type, reports are true, calls end |
| `dir_cache` (`MCDirCache`) | 160,415 | a listing expires, is replaced or dropped under a stream and two handles: nothing dangles, counts match, everything is freed, what is shown is current but where a reply was lost |
| `panel_list` (`MCPanelList`) | 137,514 | two panels on directories that change at any time: counters, marks, selection, and what a question is about |

Facts that belong to one idea are defined and commented one by one, and a run checks
their conjunction; `mutants` breaks the parts each on its own.

| Module | Checked property | Parts |
|---|---|---|
| `CopyFile` | `UntaggedIsDone` | `TypeOK`, `UntaggedIsCopied`, `MoveNeverLoses` |
| | `NothingCarriesOver` | `NoHandleLeaks`, `AppendIsPerFile` |
| `TreeOps` | `TreesAreKept` | `TreeOK`, `NothingIsLost`, `OnlyOriginals`, `UntaggedIsCopied` |
| `EditFile` | `LocksFollowBuffers` | `TypeOK`, `LocksAccounted`, `LockedWhileModified` |
| | `SavesAreKept` | `LocksAccounted`, `SavedIsOnDisk` |
| `Subshell` | `ShellIsAsBelieved` | `TypeOK`, `StoppedIsAnnounced`, `StoppedIsStopped`, `InactiveIsIdle`, `CwdIsKnown` |
| | `WaitsEnd` | `SynchronizeEnds`, `DeathIsNoticed` |
| `Background` | `QuestionsAccounted` | `TypeOK`, `QuestionInOnePlace`, `JobsAreListed`, `AllIsRemembered` |
| `EditBuffer` | `BufferIsConsistent` | `BufferTypeOK`, `BlocksAllocated`, `CountersMatch`, `MarksInRange` |
| `FtpConn` | `InStep` | `TypeOK`, `RepliesMatch` |
| | `ClientIsRight` | `CacheMatchesServer`, `TransfersAreRight`, `ReportsAreTrue` |
| `DirCache` | `MemoryIsAccounted` | `HeapOK`, `NoDangling`, `CountsMatch`, `SuperFreesAll` |
| `PanelList` | `PanelsAreConsistent` | `TypeOK`, `SummaryMatches`, `WorksWhereShown` |

### Bounds, and why they are enough

* `MaxSlots = 4`: a list of four free slots in any order; a mistake in linking
  shows with two or three. The proofs cover every number.
* `vfs_gc`: two file systems in the panels and a third in none, so that "other
  panel", "neither" and "current" are different; one of them is an archive whose file may
  go away. `Timeout = 1` distinguishes new and old stamps, `MaxOpen = 2` files and streams
  the last close from others. The proofs cover every choice.
* `copy_file`: two files (what one leaves for the next), three bytes with a buffer
  of two (a full read, a short one, end of file; a partial target), two errors (an
  error while handling an error).
* `tree_ops`: one nested directory (a nested return value), a file after a
  directory (status of the last entry), a target that exists as a directory, as a
  file, not at all, inside the source, or is the source. The second name of a
  file is an entry of its own, so the first may have been copied, left in part, moved away
  or skipped. One symbolic link leads back up, one to another directory.
  Another process creates one file.
* `edit_file`: two editors are the least that conflict; two drafts tell a saved
  text from a newer one. Symmetry of the editors is sound, as `MayCrash` is all
  of them and no liveness is checked in that run.
* `subshell`: two directories, at most `MaxTty` of the user's words in the
  terminal, one kill. A read of the keyboard returns one key or two, because mc
  looks at a whole chunk at once: what precedes C-o in it is written, and
  `subshell_ready` is cleared only by a chunk that ends in Enter.

* `background`: two jobs are the least that interleave in nested dialogs; one asks twice
  (an answer that is to be remembered), the other may be killed from outside.
* `edit_buffer`: blocks of two bytes and `MAXBUFF = 5`, so that three bytes cross a block
  and four keys reach `SIZE_LIMIT = 6`; a ring of 8 that grows to 16 and then
  overwrites (`START_STACK_SIZE`, `MaxUndo`; the margin of 1024 of the code is
  `Slack = 5`).
* `ftp_conn`: two calls (what one leaves for the next), two directories, one failing
  command, two lost connections (one of them during a reconnect), one C-c.
* `dir_cache`: one directory with one file, one stream and two handles: the counts of
  an inode go up to three. With two directories the run no longer ends in
  minutes.
* `panel_list`: finite as it stands. A directory and a file, and a file in the directory:
  an entry before and after the selection, a directory that can vanish
  under the other panel, equal names in both.

Deadlock is checked where the model says where the program may stop (`Stopped`,
`Ended`, `AllOut`, `Done`). It is not checked in `subshell` (mc may rest after quitting or
after a shell that never returns), `background` (all jobs over), `edit_buffer` and
`ftp_conn` (keys and calls are bounded), and `dir_cache` (a file system once freed is
gone).

### Fairness

* `VfsGC`: weak fairness of `Tick` and `TtyGetEvent`. `tty_get_event` asks
  `vfs_timeouts` and wakes every ten seconds as long as there is a stamp
  (`key.c:1638-1745`); time passes by itself. No command of the user is fair. Every
  look into an archive renews its stamp (`Renew`), so `UnneededIsFreed` says of a superblock
  that stays that its stamp is renewed without end.
* `Subshell`: weak fairness of mc's own steps, of the signal handler, and of the
  steps of the shell that mc's commands need. A command the user
  typed need not end (`UsersJob`), and the user need not type. `DeathIsNoticed` needs
  the signal handler only.
* `Background`: weak fairness of the jobs, of the steps by which mc serves a pipe, and of
  the end of a program mc runs; strong fairness of `Select`, `Answer` and
  `JobsOk`: each wait for a key is a `select` that includes the channels
  (`key.c:1638`), and the user closes the dialogs he is shown.
* `FtpConn`: weak fairness of client, server and of a running transfer, which ends one
  way or the other. Refusals, drops and interrupts are not fair, and bounded.
* The safety-only modules assume none.

## 4. Proofs

A theorem holds for every value of the constants, TLC's runs for the values of their
`.cfg`. A proof module belongs to one component, `JobProofs`, `ListingProofs` and
`DirectoryProofs` to two, and the editor has two modules, of which `EditBufferProofs` extends
`EditorProofs`. Each states an inductive invariant, shows that every action keeps it, with one
lemma for each action or helper, and derives from it the properties the runs check.
`PROJECT.json` lists the theorems; the lemmas are in the modules.

**VfsHandlesProofs.** For any classes, private data and number of slots:
`HandleTableTyped`, `HandlesResolve`, `FreeListIsComplete`, `GrowthIsNecessary`,
and `HandleTableImplementsMap` (`Spec => Map!Spec`). That held handles resolve
is not inductive: a new handle is made of the head of the list, which could be a slot
in use unless the list is known to hold free slots only. The
invariant adds that some numbering of the free slots counts down along the links
(`IsRank`), which says at once that the list is complete and has no cycle. Assumed:
`MaxSlots` is a natural number.

**DirectoryProofs, stamps.** For any file systems, timeout and number of open files:
`GCTyped`, `StampsLive`, `CurrentIsKept`, `PanelsAreKept`, `OpenFilesStay`,
`NothingForgotten`, `QuitFrees`. Because the code is a set of functions on one
state, there is a lemma about each function and any state of the collector, and a
command is a chain of them. Two facts are carried along: `Live(v)`, the stamps name
superblocks in memory, each once; and `Kept(v, K)`, nothing in `K` is stamped, and
everything outside `K` is stamped, the current directory, or lost. The middle of a
command matters: inside `_do_panel_cd` the directory just left is neither needed
nor stamped yet, and `StampCreateKept` allows exactly one such superblock, the one it
is called with. "Not stamped" and "stamped" need each other: that a
panel's directory is spared rests on the list of panels that `vfs_stamp_create`
consults being the list of what is needed (`ListedShown`). A superblock out of
sight is stamped or lost (a part of `Live`), because nothing can take its stamp away; and
a reload that goes up hands over exactly the one it leaves (`CutUpKept`). Assumed (`GCAssumption`):
the local file system and NULL are not superblocks, `Timeout` and `MaxOpen` are
natural numbers.

**CopyFileProofs.** For any number of files, of bytes in them and in the buffer, and
of failing calls: `UntaggedFilesAreDone` (`UntaggedIsDone`), `FilesAreIndependent`
(`NothingCarriesOver`), `OthersFilesAreKept` (`KeepsOthersFiles`). The result CONT of one
file decides whether it loses its tag, so the invariant says what a result of CONT
means at each point. Before the target is opened, the `FileOpContext` holds
the user's choice for this file and nothing of an earlier one (`Chosen`): here
`do_append` left set by a move would break it, and does, which is why the properties are
of copies. In the loop, what the target holds, what is in the buffer and
what is not read yet make up what was asked for (`Whole`), so a full read of nothing means
the target is complete. After it, CONT implies `dst_status = "full"`. `Behind`
keeps what was reached for the files passed, `Ahead` says that files to come are
untouched. That all handles are closed uses the lemmas of `VfsHandlesProofs`
through an instance (`TP`): the open handles are those of the file at hand
(`MayBeOpen`), so a close never hits the handle of another. Assumed (`CopyAssumption`):
sizes and bounds are natural numbers, the buffer is not empty.

**EditorProofs, locks.** `LocksAreGivenBack` (`LocksFollowBuffers`) for any number of editors,
files and texts, of which any may be killed. A link names an editor only because that
editor made it, and the others only take links away; so the invariant bounds, for each
editor, the links that may name it (`Holding`): of its file while its buffer is locked, of
the name it saves under while the save holds it, of the name being unlocked until
`edit_unlock_file` is done. `Good` ties these flags to the place in the
command: each return path of the three saves clears the flag of the lock it gave
back, and no other. `SavesReachTheDisk` (`SavesAreKept`) and `TextsAreNotRemoved`
(`NeverDeletesText`) have the hypothesis `Alone`, any two editors are the same one: another
editor may write the file between two steps of a save, and nothing in the code prevents
it (section 5), so with two editors the statements are false. The invariant
`Told` adds what a save has found to be on the disk at each of its points, and that
a buffer marked for deletion belongs to a file that holds no text, unless a save is
just about to take the mark away, or stored some text and failed (`StoreFailsTold`). Assumed (`EditAssumption`): NULL is no editor, file or
text, no backup has the name of a file that is edited.

**DirectoryProofs, shell.** `BeliefsAreTrue` (`ShellIsAsBelieved`) and `CommandsReachTheShell`
(`FlushSparesCommands`) for any directories, chunks of keys, length of the terminal's
input and number of kills. The invariant has three layers, of which each needs the one before:
`CallsMatch` is about mc alone, `ShellIsHeard` says that a stop or a death mc does not know of is
in what `waitpid` would report, and `Turns` follows the one Enter that is under way.
While the user waits for the prompt, either the shell awaits a command
(`AwaitsCommand`), or exactly one line is at the end of the terminal's input
(`Unread`), in the job (`Runs`), or in the pipe or in mc's `synchronize`
(`Reports`); which of these it is agrees with `subshell_state` and `subshell_ready`.
Assumed (`SubshellAssumption`): directories are not words of the shell's
language, nor the markers of a directory without a name, or one read by halves
(`Unnamed`, `Garbled`).

**JobProofs, jobs.** `QuestionsAreAccounted` (`QuestionsAccounted`) and
`McAndJobsDoNotWaitInACircle` (`NoCircularWait`) for any number of jobs and
questions and any depth of nested event loops. The invariant follows one job at a time. `Place`
says where its question is: in the pipe, half read, in one dialog, or in the other
pipe as an answer. A job that was killed stays where it was, in the state it was
killed in (`Was`), because mc does not learn of it. `Settled` carries the answer for all
from the dialog to the job. `Served` is what makes nesting safe: no loop at
or above the dialog of a job has a bit left for that job. A bit that an outer
loop was left with can therefore make mc read from a job that says nothing, which freezes mc
(`Frozen`, section 5), but never from one that waits for an answer: there is no circular
wait. The lists of the code are sequences from which an entry is unlinked; that the
first match is the only one is `Once`. Assumed (`BackgroundAssumption`): NULL is not a job,
the bounds are natural numbers.

**JobProofs, trees.** `AbortEndsCopies` (`AbortStops`) and `ErasedIsGone`
(`UntaggedIsErased`), for any tree, any number of failing calls, every answer, and files
created meanwhile. The first needs where a copy can be once Abort was answered
(`CopyStops`): in the loop of `copy_dir_dir` with the status FILE_ABORT, which every
caller on the stack hands on before it reads another entry, or back in `panel_operate`.
A move or a delete has no such invariant, for which reason the property does not speak
of them (section 5). The second needs that the bottom of the stack of
`recursive_erase` is the tagged entry (`Stands`), through pushes, pops and a Retry that
unwinds everything, and that every path leads through directories (`Rooted`): where
a path is gone, nothing is left below it (`NothingBelow`, by the shortest counterexample),
so that an `rmdir` that succeeds ends the whole of it. Assumed (`TreeAssumption`): paths are sequences of names, the
directory of a directory or file is a directory, and so on for the other constants.

**FtpConnProofs.** `ClientAndServerStayInStep` (`InStep`) and `ClientIsAlwaysRight`
(`ClientIsRight`) for any directories and any number of calls, refusals, lost connections
and interrupts. A reply does not name its command. `Exchange` therefore says, for
each point of a call, which command may be unserved and which replies unread; at
most one of them is final, and a lost connection is always last. `Beliefs` is what
`cwdir` and `isbinary` tell of the server, also in the steps between the reply that
changes them and its being read; `Reports` what a final reply tells of the
transfer. These three hold until a transfer is given up without its reply
(`late`), and again from the next login on. A login starts from nothing known
of the wire, but in the middle of a call, so which calls can be
where (`Kinds`, `Rules`) has to hold without that condition. Assumed
(`FtpConnAssumption`): the directory of the login and NULL are not in `Dirs`, the
bounds are natural numbers.

**ListingProofs, panels.** `PanelsConsistent` (`PanelsAreConsistent`), `ReloadsKeep`
(`ReloadKeeps`), `OperatesOnWhatWasAsked` (`OperatesOnAsked`) for any names in the two
directories. Every command is made of a few operations on a panel, and `Good` is what each of
them keeps; there is a lemma for each operation, as for the stamps. That
`do_file_mark` keeps the counters is a fact about cardinalities of disjoint sets
(`SizesAdd`). Marks and selection survive a reload by name: the list is in the order
of ranks, so each entry is at one place (`Rank`, `List`), and what is selected after
the reload is what has the same name. `Closed`, nothing exists in a
directory that is gone, is needed for a panel that moves up when its directory
vanishes. Assumed (`PanelAssumption`): finitely many names, which are numbers, so that
the sort order is theirs; `Sub` is a name in the upper directory.

**ListingProofs, directory cache.** `MemoryStaysAccounted` (`MemoryIsAccounted`),
`ListingStaysCurrent` (`ListingIsCurrent`), `StreamsStayStable` (`StreamsAreStable`)
for any directories, files, streams and handles. The functions of `direntry.c` call each
other between states in which a count is wrong: an entry is out of its list and its
inode has still to be released, a stream is closed and its directory still counts it. So
what each of them keeps (`WF`) has a parameter, the set `P` of inodes whose count
is one too high, and there is a lemma for each: unlinking entries puts their inodes
into `P` (`UnlinkedKeeps`), releasing takes them out or frees them
(`ReleasedKeeps`), and a step begins and ends with nothing pending. That the entries of an
unused directory go before it does, and the root last, is the order in which
`FreeInodesKeeps` and `FreeRootKeeps` compose these two. `CountsMatch` and `NoDangling`
need each other, and both need that lists and entries lead to each other
(`ListsMatch`): without it an entry could be freed that a list still has. A
stream keeps its directory's list because it is a user of the inode, whose
entries go only when it does. That a fresh pointer exists (`FreshIsFree`) rests on the
heap being finite. What a listing shows (`Shows`) survives every step that keeps its
names, or is given up with the root; a change whose reply is lost puts the one listing in
doubt that it concerns (`LostReplyKeeps`). Assumed (`DirCacheAssumption`): names of the root, directories and files
differ, there are finitely many names, streams and handles, NULL is no pointer.

**EditorProofs, buffer, and EditBufferProofs.** `BufferStaysConsistent`
(`BufferIsConsistent`), `CommandsStayExact` (`CommandsExact`) and `BufferImplementsUndo`
(`ImplementsUndo`, the refinement of `UndoHistory`) for any text, size of the blocks, limit
of the text and size of the undo stack. The argument goes from bytes to
commands in five steps.

1. *The tables as one text.* `Text` of a buffer is a sequence (`TextIs`), and each of the four routines
   that change it inserts, removes or passes one byte of it (`InsertText`, `DeleteText`,
   ...), also where a block is allocated or freed (`Stored1`, `GivenUp2`), and keeps types,
   counters of lines, window and marks in step with it (`Sound`, `InRange`; `InsertSound`, ...).
2. *The ring as a sequence.* `Entries` reads the ring from its bottom to its pointer,
   wherever it wraps and whether it was just doubled (`GrownIs`); a push changes the entries at their end,
   and then drops some at their start, as far as a key press (`PushActionIs`, `Latest`).
3. *Entries as actions.* A count stands for repetitions of the action below it, so the entries
   stand for a longer sequence of actions (`StandsFor`, with a `Layout` that
   says which actions an entry covers). For these, a push adds one action or, where
   opposite moves cancel, removes one (`PushStands`), and a pop takes the last (`PopStands`),
   whatever the encoding did.
4. *The way back.* `Walk` assigns to each action the text and cursor it leads back to;
   `Leads` says that such a way exists from the present ones and that at the key presses it passes
   the snapshots of `past`. A routine pushes an action that leads back to where it
   came from (`LeadsOn`); reversing the actions of one key takes exactly one part of the way
   (`ReversedIs`, `UndoOneIs`, `DoUndoIs`). This is the strengthening that makes the refinement
   inductive: `Kept` has it together with `Sound` and the form of the ring, and
   `BufferInv` states it of the reachable states, for the keys that may be left.
5. *Commands.* A command is a chain of routines and moves, so it keeps `Kept` by a lemma each
   (`BlockMoveKept`, `DownKept`, ...), and `CommandsExact` needs nothing else of the state but
   `Kept`: the loops of the code are taken in turn to what they do to a text, a run cut out
   (`Cut`), a block put in byte by byte from its end (`Spliced`), and these are
   concatenations of parts of the text before (`JoinedIs`, `CutParts`,
   `PartJoins`, `PartAcross`), for a cursor before, behind, in or at the edge of the block.

`Kept` has a parameter `strict`: the way back and the marks hold until a block copy is cut off
at the limit (section 5), tables, counters of lines and the form of the ring always. The loops of
`edit_do_undo` and of the cursor are functions over 0 .. n, about which
`UpTo` (membership of every number up to n in a set, by the least that is missing) replaces induction.
Assumed (`EditBufferAssumption`, `UndoStackAssumption`): a block has at least two bytes, the
margin of the ring is more than four entries and its first size more than the margin, files to be loaded are bytes
and shorter than the limit, and the limit is less than the distance of the codes of
the two marks, so that the code of a mark inside the text is a code of that mark (67 million and
700 million in `edit-impl.h`).

**What TLAPS does not reach here.** The liveness properties `UnneededIsFreed`,
`WaitsEnd`, `QuestionsAnswered` and `CallsEnd`: there is no rule for
fairness and ENABLED that could be used. Of the safety properties, only `TreesAreKept` of
`TreeOps` is model-checked alone.
What it says of a tree depends on the whole stack of nested calls and on
what each of them has seen. `NothingIsLost` and `UntaggedIsCopied` also depend on the instance: an
operation that overwrites a file which is itself still to be copied loses it, as the user
asked, and the targets of the run hold none. For every value of the constants they are
false.

## 5. Where the code limits what can be claimed

Most properties of the list that follows are stated under a condition, because TLC
refutes them without it; each condition marks behaviour of the code a maintainer should
know. The rest was met while modelling and lies outside what a property says.

**Stamps.** `PanelsNotStamped`, `UnneededIsStamped`, `QuitFreesAll`, `UnneededIsFreed`: until a panel is
replaced by a view. `restore_into_right_dir_panel` stamps and unstamps nothing
of the panel that went, and while the new panel is loaded its type is not yet
`view_listing`, so its own directory is stamped. All of these and `CurrentNotStamped`
leave out what is lost: `panel_reload` goes up out of an archive or host
it cannot enter without releasing it (`screen.c:1324-1339`), and for the other panel the
directory `mc_chdir` leaves is not that one; and an archive that is left while its file is
away gets no stamp. Such a superblock stays in memory until mc enters it again, and
shutdown does not free it. A directory stream does not keep its
superblock, although the comment at `direntry.c:1118` says data structures
should survive the freeing of one.

**Copying and moving.**
* `AppendIsPerFile`, `UntaggedIsCopied` in `CopyFile`: of copies. A move asks its
  question in `move_file_file` before `copy_file_file`, which can return before
  it resets `do_append`; the next file is then appended to its target.
* `KeepsOthersFiles`: of copies, and of answers other than Reget. The rename of a move
  replaces a target that was
  created after the check; Reget is remembered for the later targets.
* `AbortStops`: of copies. `recursive_erase` turns the Abort of a nested directory
  into FILE_RETRY and the status of the last `erase_dir_iff_empty` of a move is dropped,
  so the operation goes on; the manual (`mc.1.in:2373`) promises otherwise.
* `UntaggedIsCopied` in `TreeOps`: of entries of which nothing was skipped or
  unreadable. `copy_dir_dir` returns the status of its last entry and treats
  a directory it cannot open as copied. And not of a file whose first name was copied in
  part and skipped: `check_hardlinks` remembers the target before it is written, a further
  name is linked to the part, and its entry counts as copied. (The source keeps
  its content in a move, as `NothingIsLost` shows.)

**Editor files.** `SavedIsOnDisk`: of saves that leave the line breaks alone; the
`fclose` that flushes the others is not checked. `NeverDeletesText`: likewise, because
a save with new line breaks reloads the file before `delete_file` is reset; and not of what a
save stored in a new file and reported as failed: when everything was written and
`mc_close` or `mc_stat` fails (`editcmd.c:339-344`), or after a part, `delete_file` stays set,
and leaving unlinks the text (`edit.c:888`). A save
overwrites what was stored between the comparison of times and the write
(`editcmd.c:216`), and a safe save compares nothing (`editcmd.c:193`). Yes to "save
before closing" and then Cancel in the dialog for the name leaves without the
text. In backup mode two failing saves in a row replace the only good backup by an empty file.

**Subshell.** `InactiveIsIdle`, `CwdIsKnown`, `FlushSparesCommands`: of users who wait for
the prompt. A prompt between two commands typed ahead, or Enter and C-o in
one read of the keyboard, makes mc take the shell for idle. The same three and
`SynchronizeEnds`: of a shell that was not killed. It leaves
its last directory in the pipe, and mc reads it as the first prompt of the
next shell; `synchronize` may then wait for a stop that does not come.
`DeathIsNoticed`: of a shell that does not die between the test of
`subshell_alive` and the `select` (`subshell.c:949-963`), which then waits for ever.

**Background jobs.** `QuestionsAnswered`: of jobs that run. A job stopped in the middle of a
request, or a bit that an outer `select` reported and a nested loop has served, freezes
mc in a blocking read (`Frozen`). mc keeps both ends of the pipes open, so it never sees
that a job was killed, and a job that asks when mc is gone waits for ever. Stop,
Resume and Kill in the jobs dialog go through pointers to list items that may have been
freed.

**Editor buffer.** `MarksInRange`, `ImplementsUndo`, `CommandsExact` and the place of the window in
`CountersMatch` are stated until a block copy was stopped by `SIZE_LIMIT` (`cut`): after one, the
marks are set as if all had been copied (`editcmd.c:1204`), and once they are behind
the end, each further copy sets them at twice the distance (`editcmd.c:1215-1217`), until the
code of the second mark, `MARK_2` plus its place, is one of a key press and an undo stops at
it. `ImplementsUndo` is about text and cursor; the marks are not always restored.

**FTP.** The safety properties are stated until a transfer is given up without its last
reply (`late`): an abort sent after the transfer ended, a failed abort, an abort that takes
too long and whose reconnect does not reach the host (`ftpfs.c:1169` does not look at the
result, `ftpfs.c:322-339` keeps the old socket), and an interrupted
accept in active mode leave one or two, and every later command reads the reply of its
predecessor. An upload then looks refused, its data connection stays open, and the next
call hangs: the exception in `CallsEnd`. Further: `retry` in `ftpfs_command` is
cleared by the commands of the login, so EPSV and PASV are resent as often as the
connection is lost. A reconnect whose CWD is refused lists the directory of the login and caches
it under the name that was asked; one whose login fails leaves a session on which every
command fails. A copy from one server to itself blocks, because the
target is opened before the source begins to be read (the comment at `ftpfs.c:1772`), and is therefore
not a call of the model. An upload into a directory that cannot be listed dereferences NULL (the FIXME at
`direntry.c:764`; `crashed`), a failed upload leaves an entry in the cache. A
background job shares the control connection with mc; the model has one client.

**Directory cache.** `ListingIsCurrent`: unless the cache is held back
(`VFS_SETCTL_STALE_DATA`), and not of a listing whose directory was changed by a command that the
server did and whose reply was lost: `ftpfs_send_command` (`ftpfs.c:1634-1640`) and
`fish_send_command` (`fish.c:948-952`) return before they drop the cache, and the old
listing is shown until it expires. Taking the hold back returns early when the path is
not found any more (`direntry.c:1079`) and leaves it on. A file whose listing expired
between open and close is not stored, which is reported as an error. The FLUSH flag of a
reload applies to the directory that is checked next, whichever that is. Local copies from
`vfs_s_getlocalcopy` are removed with the inode, though the comment at
`direntry.c:1057-1059` says when the archive is closed, and are never stored back.

**Panels.** `ReloadKeeps`: not of panelized lists, whose reload drops all marks in spite of
the comment at `screen.c:3191-3195`. Starting an operation drops the panelized list of the
other panel. Marks are carried by name into the parent when a directory
is gone. `OperatesOnAsked`: if all of it is still there; `panel_operate` decides that one
entry is meant before it reads the panels again, and when that entry is gone it takes the
selected one, which the question shows. `WorksWhereShown`: unless the directory of the panel could
not be entered; then chmod works on names relative to where mc is, and copying on
`panel->cwd`.

## 6. What is left out

* `VfsGC`: the stamps `extfs` makes when it opens an archive, `tar_super_same`
  reloading a changed archive, archives inside other file systems, the renewal of a stamp by
  `vfs_getid` (which looks for the places of the panels only), the guard `locked` of `vfs_expire` (messages shown
  while freeing), `nothingisopen` (always true for the classes of `direntry.c`
  when `vfs_stamp_create` asks).
* `CopyFile`: links and the warning for two names of one file (see `TreeOps`), special
  files, the estimate of the remaining time.
* `TreeOps`: attributes, the totals computed beforehand, the rename that `move_over`
  tries in a directory that exists, appending, stable and dangling symbolic links in the
  instance checked, links in the target, and
  the branch for `erase_at_end` off, which no code selects (`fileopctx.c:63`).
* `EditFile`: hard links, pipes and filters, unnamed
  buffers, two writes within one second of the clock, a process number used
  again, and the race of two editors that remove the same stale lock: the code does
  not prevent it and nothing is claimed of it.
* `Subshell`: configuration of the shell, quoting of directory names, the prompt text, and
  the blanks and backspaces mc sends before a command.
* `Background`: what a job copies, the strings of a request, the progress
  window (a job has none).
* `EditBuffer`: column blocks, UTF-8, tabs, wrapping and indenting, macros, search and replace, book
  marks, syntax rules, selecting with shift.
* `FtpConn`: the format of listings, passwords, proxies and netrc, REST and APPE,
  `ftpfs_file_store`, connections that are refused before a session.
* `DirCache`: links, linear reading, free space, the class methods themselves.
* `PanelList`: sort orders and filters, `fast_reload`, directories that cannot be read,
  panelized names with directories in them, views, the root directory.

### Not modelled

Most of the repository is code whose correctness is not a question of states: a
copy of Samba's client library (a fifth of all lines), the display and the dialogs,
syntax highlighting, terminal and skin tables, parsers of archive formats and
of configuration, character sets and regular expressions. A model of those would be a
transliteration, or would abstract away just what they do. Three parts
are neither and remain to be done: the growing buffer of the viewer, the list of the tree
store, and `fish.c`, whose shell protocol is that of `FtpConn` with other words.
`PROJECT.json` gives the reason for each component.

## 7. Plan

1. A form of `TreesAreKept` that holds for every tree, with the files that may be overwritten
   excepted, and its proof along the stack of calls (`CopyStops` and `Stands` of `JobProofs`
   are its beginning).
2. The three parts named under "Not modelled". `treestore.c` keeps with each directory a
   mask of the levels that continue below it, changed by increments at every insertion
   and removal, which is to be compared with its definition on the whole list.
