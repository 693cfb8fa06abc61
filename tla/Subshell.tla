------------------------------ MODULE Subshell ------------------------------
(***************************************************************************)
(* The concurrent shell of src/subshell.c: mc feeds commands to one shell  *)
(* on a pseudo terminal and learns that a command ended from the shell's   *)
(* PROMPT_COMMAND, `pwd>&pipe; kill -STOP $$'.                             *)
(*                                                                         *)
(* Three parties run at their own pace: the shell, the user typing, and mc,*)
(* whose SIGCHLD handler runs between any two of its steps.  The shell's   *)
(* terminal input is a queue of words and Enter; what is typed early waits *)
(* in it.                                                                  *)
(***************************************************************************)
EXTENDS Integers, Sequences, SequencesExt, FiniteSets, FiniteSetsExt

CONSTANTS Dirs,      \* directories, more than one
          Home,      \* home_dir, where a new shell starts
          Chunks,    \* what one read of the keyboard may return
          MaxTty,    \* bound: the user's words and Enters waiting in the pty
          MaxKills   \* bound: how often the shell is killed by a signal

Keys == {"text", "enter", "switch"}
Garbled == "garbled"    \* two directories read as one name
Unnamed == ""           \* the directory before the first prompt

ASSUME SubshellAssumption ==
  /\ Home \in Dirs
  /\ Dirs \cap {"text", "enter", "run", "setup", Unnamed, Garbled} = {}
  /\ Chunks \subseteq Seq(Keys) \ {<<>>}
  /\ MaxTty \in Nat /\ MaxKills \in Nat

VARIABLES
  sh,     \* the shell: [at, line, job, dir, hook], see TypeOK
  tty,    \* input of the pty the shell has not read
  pipe,   \* directories the shell wrote to subshell_pipe
  news,   \* what waitpid would report of the shell
  past,   \* history: kills of the shell, and whether the user typed
          \* anything but C-o while the shell was busy
  mc,     \* where mc is: [at, how, call, next], see TypeOK
  subshell_state, subshell_ready, subshell_alive, subshell_stopped,
  subshell_cwd, use_subshell, quit,
  cwd     \* current_panel->cwd

shell == <<sh, tty, pipe, news, past>>
globals == <<subshell_state, subshell_ready, subshell_stopped, subshell_alive,
             subshell_cwd, use_subshell, quit, cwd>>
vars == <<shell, mc, globals>>

Word == {"text", "enter", "run", "setup"} \cup Dirs  \* a directory: cd to it
Enter == "enter"

-----------------------------------------------------------------------------
(* The shell, external: modelled from the PROMPT_COMMAND mc gives it.      *)

(* Shell start-up: it runs the user's start-up files, then reads.          *)
NewShell == [at |-> "starting", line |-> <<>>, job |-> <<>>, dir |-> Home,
             hook |-> FALSE]

ShellStarts ==
  /\ sh.at = "starting"
  /\ sh' = [sh EXCEPT !.at = "prompt"]
  /\ UNCHANGED <<tty, pipe, news, past, mc, globals>>

(* A user's word added to words already there makes no new case.           *)
AddWord(line, w) ==
  IF w = "text" /\ line # <<>> /\ Last(line) = "text" THEN line
  ELSE Append(line, w)

ShellReads ==
  /\ sh.at = "prompt" /\ tty # <<>>
  /\ tty' = Tail(tty)
  /\ sh' = IF Head(tty) = Enter
           THEN [sh EXCEPT !.at = "running", !.job = sh.line, !.line = <<>>]
           ELSE [sh EXCEPT !.line = AddWord(@, Head(tty))]
  /\ UNCHANGED <<pipe, news, past, mc, globals>>

UsersJob == {"text", "run"} \cap Range(sh.job) # {}

(* A command of the user that reads its input.                             *)
CommandReads ==
  /\ sh.at = "running" /\ UsersJob /\ tty # <<>>
  /\ tty' = Tail(tty)
  /\ UNCHANGED <<sh, pipe, news, past, mc, globals>>

(* Where a job may leave the shell: `cd' may fail, a command may be one.   *)
DirsAfter ==
  IF UsersJob THEN Dirs
  ELSE {sh.dir} \cup {d \in Dirs : sh.job = <<d>>}

ShellFinishes ==
  /\ sh.at = "running"
  /\ LET hook == sh.hook \/ sh.job = <<"setup">> IN
     \E d \in DirsAfter :
       /\ sh' = [sh EXCEPT !.at = IF hook THEN "told" ELSE "prompt",
                           !.job = <<>>, !.dir = d, !.hook = hook]
       /\ pipe' = IF hook THEN Append(pipe, d) ELSE pipe
  /\ UNCHANGED <<tty, news, past, mc, globals>>

(* kill -STOP $$                                                           *)
ShellStops ==
  /\ sh.at = "told"
  /\ sh' = [sh EXCEPT !.at = "stopped"]
  /\ news' = "stopped"
  /\ UNCHANGED <<tty, pipe, past, mc, globals>>

Dies(why) ==
  /\ sh' = [sh EXCEPT !.at = "dead", !.job = <<>>, !.line = <<>>]
  /\ news' = why
  /\ UNCHANGED <<tty, pipe, mc, globals>>

ShellExits == sh.at = "running" /\ UsersJob /\ Dies("exited") /\ UNCHANGED past

ShellKilled ==
  /\ sh.at # "dead" /\ past.kills < MaxKills
  /\ past' = [past EXCEPT !.kills = @ + 1]
  /\ Dies("killed")

Shell == \/ ShellStarts \/ ShellReads \/ CommandReads \/ ShellFinishes
         \/ ShellStops \/ ShellExits \/ ShellKilled

-----------------------------------------------------------------------------
(* A handler that asks waitpid for dead children only.                     *)
SigchldHandlerExitsOnly ==
  /\ news # "none"
  /\ news' = "none"
  /\ subshell_alive' = (subshell_alive /\ news = "stopped")
  /\ quit' = (quit \/ news = "exited")
  /\ mc' = IF mc.at = "select" THEN [mc EXCEPT !.at = "loop"] ELSE mc
  /\ UNCHANGED <<sh, tty, pipe, past, subshell_state, subshell_ready,
                 subshell_stopped, subshell_cwd, use_subshell, cwd>>

(* Mistake: only a shell that exits by itself counts as dead.              *)
SigchldHandlerMissesKills ==
  /\ news # "none"
  /\ news' = "none"
  /\ subshell_stopped' = (subshell_stopped \/ news = "stopped")
  /\ subshell_alive' = (subshell_alive /\ news # "exited")
  /\ quit' = (quit \/ news = "exited")
  /\ mc' = IF mc.at = "select" THEN [mc EXCEPT !.at = "loop"] ELSE mc
  /\ UNCHANGED <<sh, tty, pipe, past, subshell_state, subshell_ready,
                 subshell_cwd, use_subshell, cwd>>

(* sigchld_handler: it also wakes mc from select.                          *)
SigchldHandler ==
  /\ news # "none"
  /\ news' = "none"
  /\ subshell_stopped' = (subshell_stopped \/ news = "stopped")
  /\ subshell_alive' = (subshell_alive /\ news = "stopped")
  /\ quit' = (quit \/ news = "exited")
  /\ mc' = IF mc.at = "select" THEN [mc EXCEPT !.at = "loop"] ELSE mc
  /\ UNCHANGED <<sh, tty, pipe, past, subshell_state, subshell_ready,
                 subshell_cwd, use_subshell, cwd>>

-----------------------------------------------------------------------------
(* feed_subshell, from its loop test to its return.  how is QUIETLY or     *)
(* VISIBLY; call names the caller to return to.                            *)
Feed(how, call, next) ==
  [at |-> "loop", how |-> how, call |-> call, next |-> next]
At(place) == [mc EXCEPT !.at = place]
MainLoop == [at |-> "main", how |-> "QUIETLY", call |-> "none",
             next |-> "none"]

(* if (!subshell_alive) return FALSE; the select that follows is a step of *)
(* its own, and a signal may come between them.                            *)
FeedLoop ==
  /\ mc.at = "loop"
  /\ mc' = At(IF subshell_alive THEN "checked" ELSE "failed")
  /\ UNCHANGED <<shell, globals>>

FeedSelects ==
  /\ mc.at = "checked"
  /\ mc' = At("select")
  /\ UNCHANGED <<shell, globals>>

(* The pty has output: it is copied to the screen, or dropped.             *)
FeedOutput ==
  /\ mc.at = "select" /\ sh.at \in {"starting", "prompt", "running"}
  /\ mc' = At("loop")
  /\ UNCHANGED <<shell, globals>>

(* Ten seconds without a word from the new shell.                          *)
FeedTimesOut ==
  /\ mc.at = "select" /\ mc.call = "init" /\ pipe = <<>>
  /\ mc' = At("failed")
  /\ UNCHANGED <<shell, globals>>

(* One read takes everything in the pipe.                                  *)
FeedReadsPipe ==
  /\ mc.at = "select" /\ pipe # <<>>
  /\ subshell_cwd' = IF Len(pipe) = 1 THEN pipe[1] ELSE Garbled
  /\ pipe' = <<>>
  /\ mc' = At("synchronize")
  /\ UNCHANGED <<sh, tty, news, past, subshell_state, subshell_ready,
                 subshell_stopped, subshell_alive, use_subshell, quit, cwd>>

(* synchronize keeps the flush and forgets to resume the shell.            *)
SynchronizeNoCont ==
  /\ mc.at = "synchronize" /\ (subshell_stopped \/ ~subshell_alive)
  /\ tty' = IF subshell_state = "ACTIVE" THEN tty ELSE <<>>
  /\ subshell_stopped' = FALSE
  /\ subshell_ready' = TRUE
  /\ subshell_state' = IF subshell_state = "RUNNING_COMMAND" THEN "INACTIVE"
                       ELSE subshell_state
  /\ mc' = At(IF subshell_state = "RUNNING_COMMAND" THEN "done" ELSE "loop")
  /\ UNCHANGED <<sh, pipe, news, past, subshell_alive, subshell_cwd,
                 use_subshell, quit, cwd>>

(* synchronize leaves subshell_stopped set.                                *)
SynchronizeStale ==
  /\ mc.at = "synchronize" /\ (subshell_stopped \/ ~subshell_alive)
  /\ tty' = IF subshell_state = "ACTIVE" THEN tty ELSE <<>>
  /\ sh' = IF sh.at = "stopped" THEN [sh EXCEPT !.at = "prompt"] ELSE sh
  /\ subshell_ready' = TRUE
  /\ subshell_state' = IF subshell_state = "RUNNING_COMMAND" THEN "INACTIVE"
                       ELSE subshell_state
  /\ mc' = At(IF subshell_state = "RUNNING_COMMAND" THEN "done" ELSE "loop")
  /\ UNCHANGED <<pipe, news, past, subshell_alive, subshell_stopped,
                 subshell_cwd, use_subshell, quit, cwd>>

(* synchronize waits for the shell to stop or die, discards what it has    *)
(* not read, resumes it; feed_subshell returns if a command was running.   *)
Synchronize ==
  /\ mc.at = "synchronize" /\ (subshell_stopped \/ ~subshell_alive)
  /\ tty' = IF subshell_state = "ACTIVE" THEN tty ELSE <<>>
  /\ subshell_stopped' = FALSE
  /\ sh' = IF sh.at = "stopped" THEN [sh EXCEPT !.at = "prompt"] ELSE sh
  /\ subshell_ready' = TRUE
  /\ subshell_state' = IF subshell_state = "RUNNING_COMMAND" THEN "INACTIVE"
                       ELSE subshell_state
  /\ mc' = At(IF subshell_state = "RUNNING_COMMAND" THEN "done" ELSE "loop")
  /\ UNCHANGED <<pipe, news, past, subshell_alive, subshell_cwd,
                 use_subshell, quit, cwd>>

(* The user waits for the prompt: nothing is typed after an Enter.         *)
Patient(chunk) ==
  \/ chunk = <<"switch">>
  \/ sh.at = "prompt" /\ tty = <<>> /\ Enter \notin Range(Front(chunk))

(* The keyboard is read when neither pty nor pipe has anything.            *)
(* The switch key returns to the panels, and bytes before it are written.  *)
(* subshell_ready is cleared only by a chunk without it that ends a line.  *)
SwitchKeys(chunk) == {i \in DOMAIN chunk : chunk[i] = "switch"}

(* The user's Enter leaves subshell_ready set.                             *)
FeedTypesStaysReady(chunk) ==
  /\ mc.at = "select" /\ mc.how = "VISIBLY" /\ pipe = <<>>
  /\ past' = [past EXCEPT !.hasty = @ \/ ~Patient(chunk)]
  /\ Len(tty) + Len(chunk) <= MaxTty
  /\ IF SwitchKeys(chunk) # {}
     THEN /\ tty' = tty \o SubSeq(chunk, 1, Min(SwitchKeys(chunk)) - 1)
          /\ subshell_state' =
               IF subshell_ready THEN "INACTIVE" ELSE subshell_state
          /\ mc' = At("done")
          /\ UNCHANGED subshell_ready
     ELSE /\ tty' = tty \o chunk
          /\ mc' = At("loop")
          /\ UNCHANGED <<subshell_ready, subshell_state>>
  /\ UNCHANGED <<sh, pipe, news, subshell_stopped, subshell_alive,
                 subshell_cwd, use_subshell, quit, cwd>>

FeedTypes(chunk) ==
  /\ mc.at = "select" /\ mc.how = "VISIBLY" /\ pipe = <<>>
  /\ past' = [past EXCEPT !.hasty = @ \/ ~Patient(chunk)]
  /\ Len(tty) + Len(chunk) <= MaxTty
  /\ IF SwitchKeys(chunk) # {}
     THEN /\ tty' = tty \o SubSeq(chunk, 1, Min(SwitchKeys(chunk)) - 1)
          /\ subshell_state' =
               IF subshell_ready THEN "INACTIVE" ELSE subshell_state
          /\ mc' = At("done")
          /\ UNCHANGED subshell_ready
     ELSE /\ tty' = tty \o chunk
          /\ subshell_ready' = (subshell_ready /\ Last(chunk) # Enter)
          /\ mc' = At("loop")
          /\ UNCHANGED subshell_state
  /\ UNCHANGED <<sh, pipe, news, subshell_stopped, subshell_alive,
                 subshell_cwd, use_subshell, quit, cwd>>

-----------------------------------------------------------------------------
(* init_subshell, from the fork on; the caller waits for its first prompt. *)
StartShell(next) ==
  /\ sh' = NewShell
  /\ tty' = tty \o <<"setup", Enter>>
  /\ news' = "none"
  /\ subshell_alive' = TRUE /\ subshell_stopped' = FALSE
  /\ subshell_state' = "RUNNING_COMMAND"
  /\ mc' = Feed("QUIETLY", "init", next)
  /\ UNCHANGED <<pipe, past, subshell_ready, subshell_cwd, use_subshell, quit,
                 cwd>>

(* do_subshell_chdir sends `cd' if the shell awaits a command elsewhere.   *)
NeedsChdir(d) == subshell_state = "INACTIVE" /\ subshell_cwd # d

SendChdir(d, next) ==
  /\ tty' = tty \o <<d, Enter>>
  /\ subshell_state' = "RUNNING_COMMAND"
  /\ mc' = Feed("QUIETLY", "cd", next)
  /\ UNCHANGED <<sh, pipe, news, past, subshell_ready, subshell_stopped,
                 subshell_alive, subshell_cwd, use_subshell, quit>>

(* invoke_subshell after the chdir: C-o, or a command to run.              *)
SendCommand(next) ==
  /\ IF next = "command"
     THEN /\ tty' = tty \o <<"run", Enter>>
          /\ subshell_state' = "RUNNING_COMMAND"
          /\ subshell_ready' = FALSE
     ELSE /\ subshell_state' =
               IF subshell_state = "INACTIVE" THEN "ACTIVE" ELSE subshell_state
          /\ UNCHANGED <<tty, subshell_ready>>
  /\ mc' = Feed("VISIBLY", next, "none")
  /\ UNCHANGED <<sh, pipe, news, past, subshell_stopped, subshell_alive,
                 subshell_cwd, use_subshell, quit, cwd>>

Idle == mc.at = "main" /\ use_subshell

(* _do_panel_cd: the panel changes directory, and the shell follows.       *)
PanelCd(d) ==
  /\ Idle /\ cwd # d
  /\ cwd' = d
  /\ IF NeedsChdir(d) THEN SendChdir(d, "none")
     ELSE UNCHANGED <<shell, mc, subshell_state, subshell_ready,
                      subshell_stopped, subshell_alive, subshell_cwd,
                      use_subshell, quit>>

(* invoke_subshell, up to the first feed_subshell.                         *)
Invoke(next) ==
  /\ Idle
  /\ IF NeedsChdir(cwd) THEN SendChdir(cwd, next) /\ UNCHANGED cwd
     ELSE SendCommand(next)

TogglePanels == Invoke("toggle")

(* shell_execute does not ask what the shell is doing.                     *)
ShellExecuteAlways == Invoke("command")

(* do_enter, shell_execute: refused while the shell runs a command.        *)
ShellExecute == subshell_state = "INACTIVE" /\ Invoke("command")

Fed(call) == mc.at \in {"done", "failed"} /\ mc.call = call

ChdirReturns ==
  /\ Fed("cd")
  /\ IF mc.next = "none"
     THEN mc' = MainLoop /\ UNCHANGED <<shell, globals>>
     ELSE SendCommand(mc.next)

(* The panel takes any name the shell gave.                                *)
PanelFollowsUnchecked ==
  IF subshell_alive THEN {cwd, subshell_cwd} ELSE {cwd}

(* The rest of invoke_subshell and of its caller: the panel follows the    *)
(* shell if it can, a dead shell is restarted, and one that exited by      *)
(* itself ends mc.                                                         *)
PanelFollows ==
  IF subshell_alive /\ subshell_cwd \in Dirs THEN {cwd, subshell_cwd}
  ELSE {cwd}

InvokeReturns ==
  /\ Fed("toggle") \/ Fed("command")
  /\ \/ /\ ~subshell_alive /\ ~quit /\ use_subshell
        /\ StartShell("restart")
     \/ /\ subshell_alive \/ quit
        /\ cwd' \in PanelFollows
        /\ mc' = IF quit THEN [MainLoop EXCEPT !.at = "quit"] ELSE MainLoop
        /\ UNCHANGED <<shell, subshell_state, subshell_ready, subshell_stopped,
                       subshell_alive, subshell_cwd, use_subshell, quit>>

(* A subshell that did not start, or died at once, is not used.            *)
InitReturns ==
  /\ Fed("init")
  /\ use_subshell' = (mc.at = "done" /\ subshell_alive)
  /\ mc' = IF mc.next = "restart" /\ quit THEN [MainLoop EXCEPT !.at = "quit"]
           ELSE MainLoop
  /\ UNCHANGED <<shell, subshell_state, subshell_ready, subshell_stopped,
                 subshell_alive, subshell_cwd, quit, cwd>>

(* quit_cmd: exit_subshell asks first if the shell seems busy; the user    *)
(* said yes.                                                               *)
QuitCmd ==
  /\ Idle
  /\ mc' = [MainLoop EXCEPT !.at = "quit"]
  /\ quit' = TRUE
  /\ UNCHANGED <<shell, subshell_state, subshell_ready, subshell_stopped,
                 subshell_alive, subshell_cwd, use_subshell, cwd>>

-----------------------------------------------------------------------------
Init ==
  /\ sh = NewShell /\ tty = <<"setup", Enter>> /\ pipe = <<>>
  /\ news = "none"
  /\ past = [kills |-> 0, hasty |-> FALSE]
  /\ mc = Feed("QUIETLY", "init", "none")
  /\ subshell_state = "RUNNING_COMMAND"
  /\ subshell_ready = FALSE /\ subshell_alive = TRUE
  /\ subshell_stopped = FALSE
  /\ subshell_cwd = Unnamed /\ use_subshell = TRUE /\ quit = FALSE
  /\ cwd \in Dirs

Feeding == \/ FeedLoop \/ FeedSelects \/ FeedOutput \/ FeedTimesOut
           \/ FeedReadsPipe \/ Synchronize \/ \E c \in Chunks : FeedTypes(c)

Returning == ChdirReturns \/ InvokeReturns \/ InitReturns

Next == \/ Shell \/ SigchldHandler \/ Feeding \/ Returning
        \/ TogglePanels \/ ShellExecute \/ QuitCmd
        \/ \E d \in Dirs : PanelCd(d)

(* mc and the handler run when they can.  The shell reads its terminal,    *)
(* ends what mc alone asked of it and stops after telling its directory; a *)
(* command of the user need not end, and the user need not type.           *)
Fairness ==
  /\ WF_vars(ShellStarts) /\ WF_vars(ShellReads) /\ WF_vars(ShellStops)
  /\ WF_vars(ShellFinishes /\ ~UsersJob)
  /\ WF_vars(SigchldHandler)
  /\ WF_vars(FeedLoop) /\ WF_vars(FeedSelects) /\ WF_vars(FeedTimesOut)
  /\ WF_vars(FeedReadsPipe) /\ WF_vars(Synchronize) /\ WF_vars(Returning)

Spec == Init /\ [][Next]_vars /\ Fairness

-----------------------------------------------------------------------------
TypeOK ==
  /\ sh \in [at : {"starting", "prompt", "running", "told", "stopped", "dead"},
             line : Seq(Word), job : Seq(Word), dir : Dirs, hook : BOOLEAN]
  /\ tty \in Seq(Word) /\ pipe \in Seq(Dirs)
  /\ news \in {"none", "stopped", "exited", "killed"}
  /\ past \in [kills : 0..MaxKills, hasty : BOOLEAN]
  /\ mc \in [at : {"main", "loop", "checked", "select", "synchronize", "done",
                   "failed", "quit"},
             how : {"QUIETLY", "VISIBLY"},
             call : {"none", "init", "cd", "toggle", "command"},
             next : {"none", "toggle", "command", "restart"}]
  /\ subshell_state \in {"INACTIVE", "ACTIVE", "RUNNING_COMMAND"}
  /\ {subshell_ready, subshell_alive, subshell_stopped, use_subshell, quit}
       \subseteq BOOLEAN
  /\ subshell_cwd \in Dirs \cup {Unnamed, Garbled}
  /\ cwd \in Dirs

(* A shell that stops itself has left word in the pipe, unless mc already  *)
(* waits for the stop: mc finds every stopped shell and resumes it, so the *)
(* two never wait for each other.                                          *)
StoppedIsAnnounced ==
  sh.at \in {"told", "stopped"} => pipe # <<>> \/ mc.at = "synchronize"

(* subshell_stopped tells the truth: it is set only for a shell that is    *)
(* stopped, so synchronize never resumes a shell before it stops.          *)
StoppedIsStopped ==
  subshell_stopped /\ subshell_alive => sh.at \in {"stopped", "dead"}

(* The two below rely on a user who waits for the prompt: a prompt between *)
(* two commands typed ahead makes mc take the shell for idle, and a shell  *)
(* that was killed leaves its last directory in the pipe for the next.     *)
Calm == past.kills = 0 /\ ~past.hasty

(* A shell mc takes to be awaiting a command is not running one: the user  *)
(* and mc never have two commands in one shell.                            *)
InactiveIsIdle ==
  /\ Calm /\ Idle /\ subshell_state = "INACTIVE" /\ sh.at # "dead"
  => sh.at = "prompt" /\ Enter \notin Range(tty)

(* The directory mc remembers for an idle shell is where the shell is; the *)
(* comparison in do_subshell_chdir relies on it.                           *)
CwdIsKnown ==
  /\ Calm /\ Idle /\ subshell_state = "INACTIVE" /\ sh.at # "dead"
  => subshell_cwd = sh.dir

(* What mc sends reaches the shell: the flush in synchronize, meant for    *)
(* what the user typed, never takes a command of mc.                       *)
FlushSparesCommands ==
  [][Calm /\ mc.at = "synchronize" /\ tty' # tty
     => Range(tty) \cap ({"run"} \cup Dirs) = {}]_vars

(* mc waits for the shell to stop only for a while.  A killed shell may    *)
(* leave word of a stop that its successor never makes.                    *)
SynchronizeEnds ==
  mc.at = "synchronize" /\ past.kills = 0 ~> mc.at # "synchronize"

(* mc does not wait for a dead shell: it notices and goes on.  A signal    *)
(* between the test of subshell_alive and the select is not noticed: the   *)
(* terminal, of which mc itself holds the other side, gives no end of file,*)
(* and mc waits until the user interferes.                                 *)
WaitsForDead ==
  /\ sh.at = "dead" /\ mc.how = "QUIETLY"
  /\ mc.at \in {"loop", "checked", "select", "synchronize"}
Missed == mc.at \in {"checked", "select"} /\ ~subshell_alive
DeathIsNoticed == WaitsForDead ~> ~WaitsForDead \/ Missed

(* What mc believes of its shell is so: that it stopped, that it is idle,  *)
(* and in which directory it is.                                           *)
ShellIsAsBelieved ==
  /\ TypeOK
  /\ StoppedIsAnnounced
  /\ StoppedIsStopped
  /\ InactiveIsIdle
  /\ CwdIsKnown

(* mc waits in vain neither for a shell to stop nor for a dead one.        *)
WaitsEnd ==
  /\ SynchronizeEnds
  /\ DeathIsNoticed

=============================================================================
