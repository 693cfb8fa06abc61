----------------------------- MODULE Background -----------------------------
(***************************************************************************)
(* Background jobs: src/background.c and the select channels of            *)
(* lib/tty/key.c.                                                          *)
(*                                                                         *)
(* A job is a forked mc that copies or moves files.  What it cannot decide *)
(* it asks its parent: it writes a request to a pipe and reads the answer  *)
(* from another one.  mc serves the pipes from its event loop; answering   *)
(* opens a dialog, the dialog runs the event loop again, and that loop     *)
(* serves other jobs.  mc is therefore a stack of loops, each with the     *)
(* descriptors its select reported and it has not served yet.              *)
(***************************************************************************)
EXTENDS Integers, Sequences, SequencesExt, FiniteSets

CONSTANTS Jobs,      \* the jobs that may be started, each once
          NoJob,
          MaxAsks,   \* bound: job -> questions it asks, the farewell not counted
          MayDie     \* jobs that something other than mc may kill

ASSUME BackgroundAssumption ==
  /\ NoJob \notin Jobs
  /\ MaxAsks \in [Jobs -> Nat]
  /\ MayDie \subseteq Jobs

(* Requests: an error (without the FileOpContext), a question that may be  *)
(* answered once and for all and so travels with the context, and the      *)
(* farewell, with the context as well.                                     *)
Kinds == {"error", "recursive", "end"}
HasCtx(kind) == kind \in {"recursive", "end"}

VARIABLES
  proc,      \* job -> "unborn", "working", "asking" (half a request
             \* written), "waiting" for its answer, "gone"
  asked,     \* job -> questions asked so far
  req,       \* job -> the request it is making
  all,       \* job -> recursive_result of its own context is "always"
  stopped,   \* jobs stopped by a signal
  up,        \* job -> its pipe to mc, the halves of requests
  down,      \* job -> the pipe from mc
  tasks,     \* task_list of mc: [job, state], the newest first
  channels,  \* select_list of mc, the newest first
  ctx,       \* job -> recursive_result in mc's copy of the context
  stack,     \* the loops of mc, the innermost last, see TypeOK
  reading,   \* what background_attention reads and has read: [job, part, kind]
  crashed,   \* mc used freed memory and died
  lost,      \* history: jobs killed, or dropped by mc when the user meant
             \* to kill them
  saidAll    \* history: jobs the user gave the answer "all"

children == <<proc, asked, req, all>>
mc == <<tasks, channels, ctx, stack, reading, crashed>>
vars == <<children, stopped, up, down, mc, lost, saidAll>>

Half == [part : {"head", "body"}, kind : Kinds, all : BOOLEAN]
Task == [job : Jobs, state : {"running", "stopped"}]

Frame(kind, job, items) ==
  [kind |-> kind, job |-> job, items |-> items, to |-> NoJob,
   bits |-> {}, static |-> FALSE]
NotReading == [job |-> NoJob, part |-> "head", kind |-> "end"]
(* The loop with these bits still to serve.                                *)
Left(frame, bits) ==
  [frame EXCEPT !.bits = bits, !.static = @ /\ bits # {}]

Top == Last(stack)
SetTop(frame) == Append(Front(stack), frame)
TaskJobs == {tasks[i].job : i \in DOMAIN tasks}
(* The lists are walked from the newest; a job is in each of them once, so *)
(* the first entry found is the one to delete.                             *)
FirstOf(S) == CHOOSE i \in S : \A k \in S : i <= k
Unlinked(seq, S) == IF S = {} THEN seq ELSE RemoveAt(seq, FirstOf(S))
ChannelsWithout(job) ==
  Unlinked(channels, {i \in DOMAIN channels : channels[i] = job})
(* Mistake: the unlinking loses the tasks before the one that ended.       *)
TasksWithoutNewer(job) ==
  SelectSeq(tasks, LAMBDA t : \E i \in DOMAIN tasks : \E k \in 1 .. i - 1 :
                                tasks[i] = t /\ tasks[k].job = job)
TasksWithout(job) == Unlinked(tasks, {i \in DOMAIN tasks : tasks[i].job = job})

Init ==
  /\ proc = [j \in Jobs |-> "unborn"]
  /\ asked = [j \in Jobs |-> 0]
  /\ req = [j \in Jobs |-> "end"]
  /\ all = [j \in Jobs |-> FALSE]
  /\ stopped = {}
  /\ up = [j \in Jobs |-> <<>>] /\ down = [j \in Jobs |-> <<>>]
  /\ tasks = <<>> /\ channels = <<>>
  /\ ctx = [j \in Jobs |-> FALSE]
  /\ stack = <<Frame("panels", NoJob, <<>>)>>
  /\ reading = NotReading
  /\ crashed = FALSE
  /\ lost = {} /\ saidAll = {}

-----------------------------------------------------------------------------
(* The jobs.  parent_call writes a request piece by piece, then blocks in  *)
(* read.  The body of the model's request is all that follows the first    *)
(* piece.                                                                  *)

Runs(j) == j \notin stopped

AskAs(j, kind) ==
  /\ proc[j] = "working" /\ Runs(j)
  /\ proc' = [proc EXCEPT ![j] = "asking"]
  /\ req' = [req EXCEPT ![j] = kind]
  /\ up' = [up EXCEPT ![j] =
              Append(@, [part |-> "head", kind |-> kind, all |-> all[j]])]
  /\ UNCHANGED <<all, stopped, down, mc, lost, saidAll>>

(* do_file_error and query_recursive in the job.                           *)
Ask(j) ==
  /\ asked[j] < MaxAsks[j]
  /\ asked' = [asked EXCEPT ![j] = @ + 1]
  /\ \E kind \in {"error", "recursive"} : AskAs(j, kind)

(* The end of panel_operate in the job: it says goodbye.                   *)
Leave(j) == AskAs(j, "end") /\ UNCHANGED asked

WriteRest(j) ==
  /\ proc[j] = "asking" /\ Runs(j)
  /\ proc' = [proc EXCEPT ![j] = "waiting"]
  /\ up' = [up EXCEPT ![j] =
              Append(@, [part |-> "body", kind |-> req[j], all |-> all[j]])]
  /\ UNCHANGED <<asked, req, all, stopped, down, mc, lost, saidAll>>

(* Mistake: the job does not take the context it is sent back.             *)
ReceiveNoCtx(j) ==
  /\ proc[j] = "waiting" /\ Runs(j) /\ down[j] # <<>>
  /\ down' = [down EXCEPT ![j] = Tail(@)]
  /\ proc' = [proc EXCEPT ![j] = IF req[j] = "end" THEN "gone" ELSE "working"]
  /\ req' = [req EXCEPT ![j] = "end"]
  /\ UNCHANGED <<all, asked, stopped, up, mc, lost, saidAll>>

(* The result, and the context when one was sent; a farewell is followed   *)
(* by _exit.                                                               *)
Receive(j) ==
  /\ proc[j] = "waiting" /\ Runs(j) /\ down[j] # <<>>
  /\ down' = [down EXCEPT ![j] = Tail(@)]
  /\ proc' = [proc EXCEPT ![j] = IF req[j] = "end" THEN "gone" ELSE "working"]
  /\ all' = IF HasCtx(req[j]) THEN [all EXCEPT ![j] = Head(down[j]).all]
                              ELSE all
  /\ req' = [req EXCEPT ![j] = "end"]
  /\ UNCHANGED <<asked, stopped, up, mc, lost, saidAll>>

Killed(j) ==
  /\ proc' = [proc EXCEPT ![j] = "gone"]
  /\ stopped' = stopped \ {j}
  /\ lost' = lost \cup {j}

(* A signal from elsewhere.  mc keeps the write end of the pipe open and   *)
(* does not look at its children, so it never learns of it.                *)
Dies(j) ==
  /\ j \in MayDie /\ proc[j] \notin {"unborn", "gone"}
  /\ Killed(j)
  /\ UNCHANGED <<asked, req, all, up, down, mc, saidAll>>

-----------------------------------------------------------------------------
(* mc: the event loops.                                                    *)

Idle == ~crashed /\ reading = NotReading /\ Top.bits = {}
InLoop == Idle /\ Top.kind # "program"    \* disabled_channels is 0

(* Mistake: the bits are used although select failed and left them all set.*)
ReadableAll == IF \E j \in ToSet(channels) : up[j] # <<>> THEN ToSet(channels)
                                                         ELSE {}
(* select in tty_get_event or in try_channels.  The second keeps its set   *)
(* in a static variable, which the loops started from its handlers share.  *)
Readable == {j \in ToSet(channels) : up[j] # <<>>}
Select ==
  /\ InLoop /\ Readable # {}
  /\ \E static \in BOOLEAN :
       stack' = SetTop([Top EXCEPT !.bits = Readable, !.static = static])
  /\ UNCHANGED <<children, stopped, up, down, tasks, channels, ctx, reading,
                 crashed, lost, saidAll>>

(* check_selects calls the handler of the first channel whose bit is set   *)
(* and starts again; bits without a channel are left.                      *)
CheckSelects ==
  LET Set == {i \in DOMAIN channels : channels[i] \in Top.bits}
  IN /\ ~crashed /\ reading = NotReading /\ Top.bits # {}
     /\ IF Set = {}
        THEN /\ stack' = SetTop(Left(Top, {}))
             /\ UNCHANGED reading
        ELSE LET j == channels[FirstOf(Set)]
             IN /\ stack' = SetTop(Left(Top, Top.bits \ {j}))
                /\ reading' = [NotReading EXCEPT !.job = j]
     /\ UNCHANGED <<children, stopped, up, down, tasks, channels, ctx,
                    crashed, lost, saidAll>>

(* background_attention: blocking reads, first of the routine.             *)
ReadHead ==
  LET j == reading.job
  IN /\ ~crashed /\ j # NoJob /\ reading.part = "head" /\ up[j] # <<>>
     /\ reading' = [reading EXCEPT !.part = "body", !.kind = Head(up[j]).kind]
     /\ up' = [up EXCEPT ![j] = Tail(@)]
     /\ UNCHANGED <<children, stopped, down, tasks, channels, ctx, stack,
                    crashed, lost, saidAll>>

(* Mistake: the answer goes to the newest task.                            *)
ReplyToNewest(to, value) ==
  down' = IF to = NoJob \/ tasks = <<>> THEN down
          ELSE [down EXCEPT ![tasks[1].job] = Append(@, [all |-> value])]

Reply(to, value) ==
  down' = IF to = NoJob THEN down
          ELSE [down EXCEPT ![to] = Append(@, [all |-> value])]

(* end_bg_process.  destroy_task_and_return_fd reads the descriptor from   *)
(* the task it has just freed, so the channel is removed or it is not.     *)
EndBgProcess(j) ==
  /\ tasks' = TasksWithout(j)
  /\ channels' \in IF j \in TaskJobs THEN {channels, ChannelsWithout(j)}
                                     ELSE {channels}

(* ... then the rest.  The context in the request replaces mc's copy; the  *)
(* task is looked up now, since it may be gone when the answer is written. *)
(* real_query_recursive asks only while nothing is settled.                *)
ReadBody ==
  LET j    == reading.job
      kind == reading.kind
      sent == IF HasCtx(kind) THEN Head(up[j]).all ELSE ctx[j]
      to   == IF j \in TaskJobs THEN j ELSE NoJob
  IN /\ ~crashed /\ j # NoJob /\ reading.part = "body" /\ up[j] # <<>>
     /\ up' = [up EXCEPT ![j] = Tail(@)]
     /\ ctx' = [ctx EXCEPT ![j] = sent]
     /\ reading' = NotReading
     /\ \/ /\ kind = "end"
           /\ EndBgProcess(j) /\ Reply(to, sent)
           /\ UNCHANGED stack
        \/ /\ kind = "recursive" /\ sent
           /\ Reply(to, sent)
           /\ UNCHANGED <<tasks, channels, stack>>
        \/ /\ kind = "error" \/ (kind = "recursive" /\ ~sent)
           /\ stack' = Append(stack, [Frame(kind, j, <<>>) EXCEPT !.to = to])
           /\ UNCHANGED <<down, tasks, channels>>
     /\ UNCHANGED <<children, stopped, crashed, lost, saidAll>>

(* Mistake: leaving a dialog leaves the loop around it as well.            *)
PoppedTwice == Front(Front(stack))

(* Leaving a dialog takes a key, which was read by way of try_channels:    *)
(* a loop below it that stood in try_channels finds the set of that call,  *)
(* with nothing left to serve.                                             *)
Popped ==
  LET below == Last(Front(stack))
  IN Append(Front(Front(stack)), Left(below, IF below.static THEN {} ELSE below.bits))

Answer ==
  /\ InLoop /\ Top.kind \in {"error", "recursive"}
  /\ \E value \in IF Top.kind = "recursive" THEN BOOLEAN ELSE {ctx[Top.job]} :
       /\ ctx' = [ctx EXCEPT ![Top.job] = value]
       /\ Reply(Top.to, value)
       /\ saidAll' = IF value /\ Top.kind = "recursive" THEN saidAll \cup {Top.job}
                                                    ELSE saidAll
  /\ stack' = Popped
  /\ UNCHANGED <<children, stopped, up, tasks, channels, reading, crashed,
                 lost>>

-----------------------------------------------------------------------------
(* mc: what the user starts from the panels.                               *)

AtPanels == InLoop /\ Top.kind = "panels"

(* Mistake: the job is listed and mc does not listen to it.                *)
StartJobUnheard(j) ==
  /\ AtPanels /\ proc[j] = "unborn"
  /\ proc' = [proc EXCEPT ![j] = "working"]
  /\ tasks' = <<[job |-> j, state |-> "running"]>> \o tasks
  /\ UNCHANGED <<asked, req, all, stopped, up, down, channels, ctx, stack,
                 reading, crashed, lost, saidAll>>

(* do_background and register_task_running, when pipe and fork succeed;    *)
(* otherwise no job comes into being.                                      *)
StartJob(j) ==
  /\ AtPanels /\ proc[j] = "unborn"
  /\ proc' = [proc EXCEPT ![j] = "working"]
  /\ tasks' = <<[job |-> j, state |-> "running"]>> \o tasks
  /\ channels' = <<j>> \o channels
  /\ UNCHANGED <<asked, req, all, stopped, up, down, ctx, stack, reading,
                 crashed, lost, saidAll>>

(* A program on the terminal: the channels are disabled until it ends.     *)
RunProgram ==
  /\ AtPanels
  /\ stack' = Append(stack, Frame("program", NoJob, <<>>))
  /\ UNCHANGED <<children, stopped, up, down, tasks, channels, ctx, reading,
                 crashed, lost, saidAll>>

ProgramEnds ==
  /\ Idle /\ Top.kind = "program"
  /\ stack' = Front(stack)
  /\ UNCHANGED <<children, stopped, up, down, tasks, channels, ctx, reading,
                 crashed, lost, saidAll>>

(* jobs_cmd: the list box keeps pointers to the tasks.                     *)
Items(ts) == [i \in DOMAIN ts |-> ts[i].job]
JobsCmd ==
  /\ AtPanels
  /\ stack' = Append(stack, Frame("jobs", NoJob, Items(tasks)))
  /\ UNCHANGED <<children, stopped, up, down, tasks, channels, ctx, reading,
                 crashed, lost, saidAll>>

JobsOk ==
  /\ InLoop /\ Top.kind = "jobs"
  /\ stack' = Popped
  /\ UNCHANGED <<children, stopped, up, down, tasks, channels, ctx, reading,
                 crashed, lost, saidAll>>

Refill(ts) == stack' = SetTop([Top EXCEPT !.items = Items(ts)])
SetState(j, state) ==
  [i \in DOMAIN tasks |-> IF tasks[i].job = j THEN [tasks[i] EXCEPT !.state = state]
                                              ELSE tasks[i]]

(* task_cb on the selected item.  A task that ended meanwhile is freed     *)
(* memory: the signal goes nowhere, or mc crashes.                         *)
TaskCb(j) ==
  /\ InLoop /\ Top.kind = "jobs" /\ j \in ToSet(Top.items)
  /\ UNCHANGED <<asked, req, all, up, down, ctx, reading, saidAll>>
  /\ \/ /\ j \notin TaskJobs
        /\ Refill(tasks)
        /\ crashed' \in BOOLEAN
        /\ UNCHANGED <<proc, stopped, tasks, channels, lost>>
     \/ /\ j \in TaskJobs
        /\ UNCHANGED crashed
        /\ \/ /\ tasks' = SetState(j, "stopped") /\ Refill(tasks')
              /\ stopped' = IF proc[j] = "gone" THEN stopped ELSE stopped \cup {j}
              /\ UNCHANGED <<proc, channels, lost>>
           \/ /\ tasks' = SetState(j, "running") /\ Refill(tasks')
              /\ stopped' = stopped \ {j}
              /\ UNCHANGED <<proc, channels, lost>>
           \/ (* unregister_task_running frees the task whose pid kill     *)
              (* then takes                                                *)
              /\ tasks' = TasksWithout(j) /\ Refill(tasks')
              /\ channels' = ChannelsWithout(j)
              /\ \/ Killed(j)
                 \/ lost' = lost \cup {j} /\ UNCHANGED <<proc, stopped>>

-----------------------------------------------------------------------------
JobStep(j) == Ask(j) \/ Leave(j) \/ WriteRest(j) \/ Receive(j)
Serve == CheckSelects \/ ReadHead \/ ReadBody
User == Answer \/ RunProgram \/ ProgramEnds \/ JobsCmd \/ JobsOk

Next ==
  \/ \E j \in Jobs : JobStep(j) \/ Dies(j) \/ StartJob(j) \/ TaskCb(j)
  \/ Select \/ Serve \/ User

(* Jobs run, mc runs, the user closes what is open.  Each wait for a key   *)
(* is a select that includes the channels, hence SF of Select.             *)
Fairness ==
  /\ \A j \in Jobs : WF_vars(JobStep(j))
  /\ WF_vars(Serve) /\ SF_vars(Select)
  /\ SF_vars(Answer) /\ SF_vars(JobsOk) /\ WF_vars(ProgramEnds)

Spec == Init /\ [][Next]_vars /\ Fairness

-----------------------------------------------------------------------------
TypeOK ==
  /\ proc \in [Jobs -> {"unborn", "working", "asking", "waiting", "gone"}]
  /\ \A j \in Jobs : asked[j] \in 0 .. MaxAsks[j]
  /\ req \in [Jobs -> Kinds]
  /\ all \in [Jobs -> BOOLEAN] /\ ctx \in [Jobs -> BOOLEAN]
  /\ stopped \subseteq Jobs /\ lost \subseteq Jobs /\ saidAll \subseteq Jobs
  /\ \A j \in Jobs : up[j] \in Seq(Half) /\ down[j] \in Seq([all : BOOLEAN])
  /\ tasks \in Seq(Task) /\ channels \in Seq(Jobs)
  /\ stack # <<>>
  /\ \A i \in DOMAIN stack :
       /\ stack[i].kind \in {"panels", "program", "jobs", "error", "recursive"}
       /\ stack[i].job \in Jobs \cup {NoJob} /\ stack[i].to \in Jobs \cup {NoJob}
       /\ stack[i].bits \subseteq Jobs /\ stack[i].static \in BOOLEAN
       /\ stack[i].items \in Seq(Jobs)
  /\ reading \in [job : Jobs \cup {NoJob}, part : {"head", "body"},
                  kind : Kinds]
  /\ crashed \in BOOLEAN

Dialogs(j) == {i \in DOMAIN stack :
                 stack[i].kind \in {"error", "recursive"} /\ stack[i].job = j}
OnItsWay(j) == up[j] # <<>> \/ (reading.job = j /\ reading.part = "body")

(* However deep the loops of mc are nested, the question of a job is in    *)
(* one place: in the pipe, in one dialog, which shows that question, or    *)
(* answered in the other pipe.  A job that asked nothing is answered       *)
(* nothing.                                                                *)
QuestionInOnePlace ==
  \A j \in Jobs \ lost :
    /\ (IF OnItsWay(j) THEN 1 ELSE 0) + Cardinality(Dialogs(j)) + Len(down[j])
         = IF proc[j] \in {"asking", "waiting"} THEN 1 ELSE 0
    /\ \A i \in Dialogs(j) : stack[i].kind = req[j] /\ stack[i].to = j

(* mc may block in a read for a bit that a nested loop has already served, *)
(* but never for a job that waits for mc with no answer in its pipe: they  *)
(* do not wait for each other.                                             *)
NoCircularWait ==
  LET j == reading.job
  IN j \in Jobs \ lost /\ up[j] = <<>>
       => ~(proc[j] = "waiting" /\ down[j] = <<>>)

(* A job that runs is in the list of the user exactly once, and mc listens *)
(* to it, until its farewell has been read.                                *)
JobsAreListed ==
  \A j \in Jobs \ lost :
    LET Ended == proc[j] = "waiting" /\ req[j] = "end" /\ down[j] # <<>>
        Alive == proc[j] \notin {"unborn", "gone"} /\ ~Ended
    IN /\ Cardinality({i \in DOMAIN tasks : tasks[i].job = j})
            = IF Alive THEN 1 ELSE 0
       /\ Alive => j \in ToSet(channels)

(* An answer meant for all later questions of a job reaches the job with   *)
(* the context: it is not asked such a question again.                     *)
AllIsRemembered ==
  \A i \in DOMAIN stack : stack[i].kind = "recursive" => stack[i].job \notin saidAll

(* mc stands in a read that no job will end.                               *)
Frozen ==
  LET j == reading.job
  IN j # NoJob /\ up[j] = <<>> /\ (proc[j] = "gone" \/ j \in stopped)

(* A job that asks is answered, as long as the user closes his dialogs and *)
(* stops no job, none is killed, and mc does not read a pipe that a nested *)
(* loop emptied for good.                                                  *)
QuestionsAnswered ==
  \A j \in Jobs :
    proc[j] = "waiting" ~> \/ proc[j] # "waiting"
                           \/ Frozen \/ crashed \/ stopped # {} \/ lost # {}

(* Every job that runs is listed, and every question it asked is in one    *)
(* place, is shown as it was asked, and is not asked again once answered   *)
(* for all.                                                                *)
QuestionsAccounted ==
  /\ TypeOK
  /\ QuestionInOnePlace
  /\ JobsAreListed
  /\ AllIsRemembered

=============================================================================
