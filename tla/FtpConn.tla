------------------------------ MODULE FtpConn ------------------------------
(***************************************************************************)
(* One FTP connection of the virtual file system (ftpfs.c under            *)
(* direntry.c).  A reply does not name the command it answers, so the      *)
(* client must read exactly one reply per command, and one more per        *)
(* transfer; it remembers the directory and the type of transfer it has    *)
(* set; it reconnects in the middle of a call when the server has gone.    *)
(*                                                                         *)
(* mc makes one call at a time and has one file of this server open at a   *)
(* time (the README says what a copy within one server does).  Left out:   *)
(* downloads continued with REST, and ftpfs_file_store, which sends a      *)
(* local copy that was written without a transfer.                         *)
(***************************************************************************)
EXTENDS Naturals, Sequences

CONSTANTS Dirs,          \* directories of the server
          Home,          \* where a session starts
          NoDir,         \* SUP.cwdir is not known
          MaxCalls,      \* bound: calls of mc
          MaxRefusals,   \* bound: commands and transfers that fail
          MaxDrops,      \* bound: ends of the connection
          MaxInterrupts  \* bound: keys C-c

ASSUME FtpConnAssumption ==
  /\ Home \notin Dirs /\ NoDir \notin Dirs \cup {Home}
  /\ {MaxCalls, MaxRefusals, MaxDrops, MaxInterrupts} \subseteq Nat

VARIABLES
  sup,       \* what the client remembers of the connection
  fh,        \* the open file: see TypeOK
  cached,    \* directories whose listing is up to date
  call,      \* the call of mc in progress, and how far it is
  server,    \* the session of the server
  toServer, toClient,  \* commands and replies on their way
  late,      \* history: a transfer was given up without reading all replies
  told,      \* history: what the last call reported as done
  crashed,   \* mc went on with a directory it had not found
  budget     \* history: calls, failures, drops, interrupts so far

client == <<sup, fh, cached, call, told, crashed>>
vars == <<client, server, toServer, toClient, late, budget>>

Transfers == {"LIST", "RETR", "STOR"}
Commands == {"CWD", "EPSV", "PASV", "EPRT", "PORT", "TYPE", "DELE", "RNFR", "RNTO", "ABOR"}
            \cup Transfers

NoCall == [op |-> "none", dir |-> NoDir, xfer |-> "none", step |-> "none",
           wait |-> FALSE, again |-> FALSE]

NewSession(login, cwd, old) ==
  [up |-> TRUE, login |-> login, cwd |-> cwd, type |-> "A", rnfr |-> FALSE,
   data |-> "none",   \* the data connection: "none", "ready", "open", "done", "cut"
   xfer |-> "none",   \* the transfer in progress
   file |-> old.file, \* the file uploads write: "old", "part" or "new"
   sent |-> old.sent] \* the last download was sent to the end

Init ==
  /\ sup = [cwdir |-> Home, isbinary |-> "?", passive |-> TRUE, strict |-> "auto",
            busy |-> FALSE]
  /\ fh = "none" /\ cached = {} /\ call = NoCall
  /\ server = NewSession(TRUE, Home, [file |-> "old", sent |-> FALSE])
  /\ toServer = <<>> /\ toClient = <<>>
  /\ late = FALSE /\ told = "nothing" /\ crashed = FALSE
  /\ budget = [calls |-> 0, refusals |-> 0, drops |-> 0, interrupts |-> 0]

Spend(what, max) == budget[what] < max /\ budget' = [budget EXCEPT ![what] = @ + 1]

-----------------------------------------------------------------------------
(* The server reads one command after the other; while it sends a file or  *)
(* a listing only ABOR, while it receives a file none.                     *)

Reply(class, to) == [class |-> class, to |-> to]

Answers(m) ==    \* the session after command m, and the replies
  LET s == server
      Complete(t) == <<t, <<Reply("complete", m.name)>> >>
      Refuse == <<s, <<Reply("error", m.name)>> >>
  IN CASE ~s.login -> Refuse
       [] s.login /\ m.name = "CWD"  -> Complete([s EXCEPT !.cwd = m.arg])
       [] s.login /\ m.name = "TYPE" -> Complete([s EXCEPT !.type = m.arg])
       [] s.login /\ m.name \in {"EPSV", "PASV", "EPRT", "PORT"} ->
            Complete([s EXCEPT !.data = "ready"])
       [] s.login /\ m.name \in Transfers ->
            IF s.data = "ready"
            THEN <<[s EXCEPT !.data = "open", !.xfer = m.name,
                             !.file = IF m.name = "STOR" THEN "part" ELSE @,
                             !.sent = IF m.name = "RETR" THEN FALSE ELSE @],
                   <<Reply("prelim", m.name)>> >>
            ELSE Refuse
       [] s.login /\ m.name = "DELE" -> Complete(s)
       [] s.login /\ m.name = "RNFR" ->
            <<[s EXCEPT !.rnfr = TRUE], <<Reply("continue", "RNFR")>> >>
       [] s.login /\ m.name = "RNTO" ->
            IF s.rnfr THEN Complete([s EXCEPT !.rnfr = FALSE]) ELSE Refuse
       [] s.login /\ m.name = "ABOR" ->
            IF s.xfer = "none" THEN Complete(s)
            ELSE <<[s EXCEPT !.xfer = "none", !.data = "done"],
                   <<Reply("aborted", s.xfer), Reply("complete", "ABOR")>> >>

Serve ==
  /\ server.up /\ toServer # <<>>
  /\ LET m == Head(toServer)
     IN /\ server.xfer = "none" \/ (m.name = "ABOR" /\ server.xfer # "STOR")
        /\ \/ /\ server' = Answers(m)[1] /\ UNCHANGED budget
              /\ toClient' = toClient \o Answers(m)[2]
           \/ /\ m.name # "ABOR" /\ Spend("refusals", MaxRefusals)
              /\ toClient' = Append(toClient, Reply("error", m.name))
              /\ UNCHANGED server
  /\ toServer' = Tail(toServer)
  /\ UNCHANGED <<client, late>>

(* A transfer ends: all is sent or stored, the client has hung up, or the  *)
(* server gives up.                                                        *)
TransferEnds ==
  /\ server.up /\ server.xfer # "none"
  /\ LET Ends(class) ==
           /\ server' = [server EXCEPT
                !.xfer = "none", !.data = "done",
                !.sent = IF server.xfer = "RETR" THEN class = "complete" ELSE @,
                !.file = IF server.xfer = "STOR" /\ class = "complete" THEN "new" ELSE @]
           /\ toClient' = Append(toClient, Reply(class, server.xfer))
     IN \/ server.data = "open" /\ server.xfer # "STOR" /\ Ends("complete") /\ UNCHANGED budget
        \/ server.data = "cut" /\ UNCHANGED budget
           /\ Ends(IF server.xfer = "STOR" THEN "complete" ELSE "aborted")
        \/ Spend("refusals", MaxRefusals) /\ Ends("error")
  /\ UNCHANGED <<client, toServer, late>>

(* The server ends an idle session with a 421, or just goes away.          *)
Drop ==
  /\ server.up /\ Spend("drops", MaxDrops)
  /\ server' = [server EXCEPT !.up = FALSE, !.xfer = "none",
                              !.data = IF @ = "none" THEN @ ELSE "done"]
  /\ toServer' = <<>>
  /\ \/ /\ server.xfer = "none" /\ toServer = <<>>
        /\ toClient' = Append(toClient, Reply("closing", "none"))
     \/ UNCHANGED toClient
  /\ UNCHANGED <<client, late>>

-----------------------------------------------------------------------------
(* A call is a sequence of steps: a command and its reply, or a wait for a *)
(* transfer: LINES of a listing, END (its reply), GIVEUP (the reply of a   *)
(* listing interrupted by the user), ABOR2 (the second reply to ABOR).     *)

Reading == {"END", "GIVEUP", "ABOR2"}

DataStep(s) == IF s.passive THEN "EPSV" ELSE "EPRT"
TypeOf(xfer) == IF xfer = "LIST" THEN "A" ELSE "I"
At(step) == [call EXCEPT !.step = step, !.wait = FALSE]

(* dir_load changes the directory, unless it believes to be there.         *)
LoadStep(s, dir) == IF s.cwdir = dir THEN DataStep(s) ELSE "CWD"

Goto(s, step) ==
  /\ sup' = s /\ call' = At(step)
  /\ UNCHANGED <<fh, cached, told, crashed>>

Return(s, file) ==
  /\ sup' = s /\ fh' = file /\ call' = NoCall
  /\ UNCHANGED <<cached, told, crashed>>

(* No directory: a new file is then looked for again by its directory, and *)
(* a second failure is not noticed.                                        *)
LookupFails(s) ==
  IF call.op # "upload" THEN Return(s, fh)
  ELSE IF ~call.again
  THEN /\ sup' = s /\ UNCHANGED <<fh, cached, told, crashed>>
       /\ call' = [At(LoadStep(s, call.dir)) EXCEPT !.again = TRUE]
  ELSE /\ crashed' = TRUE /\ call' = NoCall
       /\ sup' = s /\ UNCHANGED <<fh, cached, told>>

(* The directory is known: opendir and the opening of a download end, an   *)
(* upload starts its transfer.                                             *)
Looked(s, dirs) ==
  /\ sup' = s /\ cached' = dirs /\ UNCHANGED <<told, crashed>>
  /\ fh' = IF call.op = "download" THEN "preopen" ELSE fh
  /\ call' = IF call.op = "upload" THEN [At(DataStep(s)) EXCEPT !.xfer = "STOR"]
             ELSE NoCall

DataFails(s) ==     \* open_data_connection or a listing
  IF call.xfer # "LIST" THEN Return(s, fh)
  ELSE IF s.strict = "auto"
  THEN Goto([s EXCEPT !.strict = "strict"], LoadStep(s, call.dir))
  ELSE LookupFails(s)

Listed(s) ==
  Looked([s EXCEPT !.strict = IF @ = "auto" THEN "daring" ELSE @], cached \cup {call.dir})

(* Mistake: any type that was set will do.                                 *)
TypeStepOnce(s) == IF s.isbinary # "?" THEN call.xfer ELSE "TYPE"
TypeStep(s) == IF s.isbinary = TypeOf(call.xfer) THEN call.xfer ELSE "TYPE"

(* The transfer has begun.                                                 *)
Opened(s) ==
  CASE call.xfer = "LIST" -> Goto(s, "LINES")
    [] call.xfer = "RETR" -> Return([s EXCEPT !.busy = TRUE], "linear")
    [] call.xfer = "STOR" -> Return(s, "stor")

(* A server that aborts a transfer says so before it answers ABOR.         *)
(* Mistake: one reply is read, whatever it is.                             *)
AbortReplyOnce(s, r) == Return(s, fh)
(* Mistake: two replies are read, whatever the first is.                   *)
AbortReplyTwice(s, r) == Goto(s, "ABOR2")
AbortReply(s, r) ==
  IF r.class = "aborted" THEN Goto(s, "ABOR2") ELSE Return(s, fh)

(* Mistake: the upload is done when its data is sent.                      *)
StoredAnyway(s, ok) ==
  /\ told' = "uploaded" /\ cached' = {}
  /\ sup' = s /\ call' = NoCall /\ UNCHANGED <<fh, crashed>>
Stored(s, ok) ==
  /\ told' = IF ok THEN "uploaded" ELSE "nothing"
  /\ cached' = IF ok THEN {} ELSE cached
  /\ sup' = s /\ call' = NoCall /\ UNCHANGED <<fh, crashed>>

(* What the client does with a reply; s is what it remembers by then.  In  *)
(* passive mode the reply names the port to connect to, if someone listens.*)
Proceed(s, r) ==
  LET step == call.step
      ok == r.class = "complete"
      NoPassive == Goto([s EXCEPT !.passive = FALSE], "EPRT")
      Connects(m) == r.to = m /\ server.data = "ready"
      DataReady == Goto(s, TypeStep(s))
  IN CASE step = "CWD" ->
            IF ok THEN Goto([s EXCEPT !.cwdir = call.dir], DataStep(s)) ELSE LookupFails(s)
       [] step = "EPSV" -> IF ~ok THEN Goto(s, "PASV")
                           ELSE IF Connects("EPSV") THEN DataReady ELSE NoPassive
       [] step = "PASV" -> IF ok /\ Connects("PASV") THEN DataReady ELSE NoPassive
       [] step = "EPRT" -> IF ok THEN DataReady ELSE Goto(s, "PORT")
       [] step = "PORT" -> IF ok THEN DataReady ELSE DataFails(s)
       [] step = "TYPE" -> IF ok THEN Goto([s EXCEPT !.isbinary = TypeOf(call.xfer)], call.xfer)
                           ELSE DataFails(s)
       [] step \in Transfers -> IF r.class = "prelim" THEN Opened(s) ELSE DataFails(s)
       [] step \in {"DELE", "RNTO"} ->
            /\ cached' = IF ok THEN {} ELSE cached
            /\ sup' = s /\ call' = NoCall /\ UNCHANGED <<fh, told, crashed>>
       [] step = "RNFR" ->                     \* its result is ignored
            /\ cached' = IF ok THEN {} ELSE cached
            /\ sup' = s /\ call' = At("RNTO") /\ UNCHANGED <<fh, told, crashed>>
       [] step = "ABOR" -> AbortReply(s, r)
       [] step = "ABOR2" -> Return(s, fh)
       [] step = "GIVEUP" -> LookupFails(s)
       [] step = "END" ->
            CASE call.xfer = "LIST" -> IF ok THEN Listed(s) ELSE DataFails(s)
              [] call.xfer = "RETR" ->
                   /\ told' = IF ok THEN "downloaded" ELSE "nothing"
                   /\ fh' = IF ok THEN "ended" ELSE "failed"
                   /\ sup' = s /\ call' = NoCall /\ UNCHANGED <<cached, crashed>>
              [] call.xfer = "STOR" -> Stored(s, ok)

-----------------------------------------------------------------------------
(* ftpfs_command, ftpfs_reconnect and ftpfs_get_reply.                     *)

Lost == Reply("closing", "none")    \* code 421: a reply, or the end of the stream

Message ==
  [name |-> call.step,
   arg |-> CASE call.step = "CWD" -> call.dir
             [] call.step = "TYPE" -> TypeOf(call.xfer)
             [] call.step \notin {"CWD", "TYPE"} -> NoDir]

(* Mistake: the type of the old session is kept.                           *)
LoggedInKeepsType(s) == s
LoggedIn(s) == [s EXCEPT !.isbinary = "?"]
OldDir == IF sup.cwdir = NoDir THEN Home ELSE sup.cwdir

Login(ok, cwd) ==    \* on a new socket: all that was unread is gone
  /\ server' = NewSession(ok, cwd, server)
  /\ toClient' = <<>> /\ late' = FALSE

(* A new session in the old directory, to which the command is sent again. *)
Resumed ==
  /\ Login(TRUE, OldDir)
  /\ toServer' = <<Message>>
  /\ sup' = LoggedIn(sup)
  /\ call' = [call EXCEPT !.wait = TRUE]
  /\ UNCHANGED <<fh, cached, told, crashed>>

(* An abort that fails does not read the reply to its transfer.            *)
AbortLeavesReply == call.step = "ABOR" /\ toClient # <<>>

(* The host is not reached; the login fails; the old directory is refused. *)
NotResumed ==
  \/ /\ Proceed(sup, Lost) /\ UNCHANGED <<server, toServer, toClient>>
     /\ late' = (late \/ AbortLeavesReply)
  \/ /\ toServer' = <<>>
     /\ \/ Login(FALSE, Home) /\ Proceed(LoggedIn(sup), Lost)
        \/ /\ sup.cwdir # NoDir /\ Login(TRUE, Home)
           /\ Proceed([LoggedIn(sup) EXCEPT !.cwdir = NoDir], Lost)

Reconnect ==
  \/ Resumed /\ UNCHANGED budget
  \/ Spend("refusals", MaxRefusals) /\ NotResumed

(* The write reaches the server, or is lost with it, or fails with EPIPE.  *)
Send ==
  /\ call.step \in Commands /\ ~call.wait
  /\ \/ /\ call' = [call EXCEPT !.wait = TRUE]
        /\ toServer' = IF server.up THEN Append(toServer, Message) ELSE toServer
        /\ UNCHANGED <<sup, fh, cached, told, crashed, server, toClient, late, budget>>
     \/ ~server.up /\ Reconnect

(* One reply, or the end of the stream.  EPSV and PASV (WANT_STRING) are   *)
(* sent again to a new session, as often as it takes: `retry', meant to    *)
(* allow it once, is cleared by the commands of the login.  A transfer     *)
(* given up reads its data to the end before the reply to ABOR.            *)
GetReply ==
  /\ call.wait \/ call.step \in Reading
  /\ call.step = "ABOR" => server.data # "open"
  /\ toClient # <<>> \/ ~server.up
  /\ LET r == IF toClient = <<>> THEN Lost ELSE Head(toClient)
     IN IF r.class = "closing" /\ call.step \in {"EPSV", "PASV"}
        THEN Reconnect
        ELSE /\ Proceed(sup, r)
             /\ toClient' = IF toClient = <<>> THEN <<>> ELSE Tail(toClient)
             /\ late' = (late \/ (call.step = "ABOR" /\ r.to \in Transfers
                                  /\ r.class # "aborted"))
             /\ UNCHANGED <<server, toServer, budget>>

-----------------------------------------------------------------------------
(* The calls.                                                              *)

Idle == call.op = "none" /\ ~crashed

(* Calls by path look their directory up first.                            *)
Start(op, dir) ==
  /\ Idle /\ fh = "none" /\ Spend("calls", MaxCalls)
  /\ call' = [NoCall EXCEPT !.op = op, !.dir = dir, !.xfer = "LIST",
                 !.step = IF dir \in cached THEN "FOUND" ELSE LoadStep(sup, dir)]
  /\ told' = "nothing"
  /\ UNCHANGED <<sup, fh, cached, crashed, server, toServer, toClient, late>>

Found ==
  /\ call.step = "FOUND" /\ Looked(sup, cached)
  /\ UNCHANGED <<server, toServer, toClient, late, budget>>

(* ftpfs_send_command: unlink, rename.                                     *)
StartCommand(op, step) ==
  /\ Idle /\ fh = "none" /\ Spend("calls", MaxCalls)
  /\ call' = [NoCall EXCEPT !.op = op, !.step = step]
  /\ told' = "nothing"
  /\ UNCHANGED <<sup, fh, cached, crashed, server, toServer, toClient, late>>

(* The first read of a file starts its transfer.                           *)
LinearStart ==
  /\ Idle /\ fh = "preopen"
  /\ call' = [NoCall EXCEPT !.op = "read", !.xfer = "RETR", !.step = DataStep(sup)]
  /\ UNCHANGED <<sup, fh, cached, told, crashed, server, toServer, toClient, late, budget>>

(* The data of a listing or of a download has ended, if only because the   *)
(* connection has.                                                         *)
DataEnds ==
  /\ server.data = "done"
  /\ \/ call.step = "LINES" /\ call' = At("END") /\ UNCHANGED sup
     \/ /\ Idle /\ fh = "linear"
        /\ call' = [NoCall EXCEPT !.op = "read", !.xfer = "RETR", !.step = "END"]
        /\ sup' = [sup EXCEPT !.busy = FALSE]
  /\ UNCHANGED <<fh, cached, told, crashed, server, toServer, toClient, late, budget>>

CutData == server' = [server EXCEPT !.data = IF @ = "open" THEN "cut" ELSE @]

(* C-c while the lines of a listing arrive.                                *)
InterruptListing ==
  /\ call.step = "LINES" /\ Spend("interrupts", MaxInterrupts)
  /\ call' = At("GIVEUP") /\ CutData
  /\ UNCHANGED <<sup, fh, cached, told, crashed, toServer, toClient, late>>

(* C-c while the client waits for the server to connect (active mode).     *)
InterruptAccept ==
  /\ call.step \in Transfers /\ call.wait /\ ~sup.passive
  /\ toClient # <<>> /\ Head(toClient).class = "prelim"
  /\ Spend("interrupts", MaxInterrupts)
  /\ DataFails(sup) /\ CutData
  /\ toClient' = Tail(toClient) /\ late' = TRUE
  /\ UNCHANGED toServer

(* ftpfs_linear_abort: the file is closed before its end, or a read fails  *)
(* (C-c), or is repeated after it had failed.                              *)
AbortCall == [NoCall EXCEPT !.op = "abort", !.step = "ABOR"]
(* Mistake: the connection stays marked as busy.                           *)
AbortStaysBusy(file) ==
  /\ call' = AbortCall /\ fh' = file
  /\ UNCHANGED <<sup, cached, told, crashed, server, toServer, toClient, late>>
Abort(file) ==
  /\ sup' = [sup EXCEPT !.busy = FALSE] /\ call' = AbortCall /\ fh' = file
  /\ UNCHANGED <<cached, told, crashed, server, toServer, toClient, late>>

CloseLinear ==
  /\ Idle /\ fh = "linear" /\ Abort("none") /\ UNCHANGED budget
ReadFails ==
  /\ Idle /\ fh = "linear" /\ Spend("interrupts", MaxInterrupts)
  /\ Abort("failed")
ReadAgain ==
  /\ Idle /\ fh = "failed" /\ Spend("calls", MaxCalls)
  /\ Abort("failed")

(* The urgent data before ABOR cannot be sent.                             *)
AbortUnsent ==
  /\ call.step = "ABOR" /\ ~call.wait /\ ~server.up
  /\ call' = NoCall /\ late' = (late \/ AbortLeavesReply)
  /\ UNCHANGED <<sup, fh, cached, told, crashed, server, toServer, toClient, budget>>

(* The server goes on sending for five seconds: ftpfs_reconnect, whose     *)
(* result is ignored.  When the host is not reached the old socket stays,  *)
(* with the replies to ABOR and to its transfer unread; when the login     *)
(* fails the new session stays; the server may refuse the old directory.   *)
AbortTimesOut ==
  /\ call.step = "ABOR" /\ call.wait /\ server.data = "open"
  /\ Spend("drops", MaxDrops)
  /\ call' = NoCall /\ UNCHANGED <<fh, cached, told, crashed>>
  /\ \/ /\ server' = [server EXCEPT !.data = "cut"] /\ late' = TRUE
        /\ UNCHANGED <<sup, toServer, toClient>>
     \/ /\ toServer' = <<>>
        /\ \/ Login(TRUE, OldDir) /\ sup' = LoggedIn(sup)
           \/ Login(FALSE, Home) /\ sup' = LoggedIn(sup)
           \/ Login(TRUE, Home) /\ sup' = [LoggedIn(sup) EXCEPT !.cwdir = NoDir]

CloseFile ==
  /\ Idle /\ fh \in {"preopen", "ended", "failed"} /\ fh' = "none"
  /\ UNCHANGED <<sup, cached, call, told, crashed, server, toServer, toClient, late, budget>>

(* ftpfs_fh_close: the end of the data is the end of the file.             *)
CloseUpload ==
  /\ Idle /\ fh = "stor" /\ fh' = "none" /\ CutData
  /\ call' = [NoCall EXCEPT !.op = "close", !.xfer = "STOR", !.step = "END"]
  /\ UNCHANGED <<sup, cached, told, crashed, toServer, toClient, late, budget>>

(* The time of a listing is over (dir_uptodate).                           *)
Expire ==
  /\ Idle /\ \E d \in cached : cached' = cached \ {d}
  /\ UNCHANGED <<sup, fh, call, told, crashed, server, toServer, toClient, late, budget>>

Calls ==
  \/ \E op \in {"opendir", "download", "upload"}, d \in Dirs : Start(op, d)
  \/ StartCommand("delete", "DELE") \/ StartCommand("rename", "RNFR")
  \/ LinearStart \/ CloseLinear \/ ReadAgain \/ CloseFile \/ CloseUpload
Client == Send \/ GetReply \/ Found \/ DataEnds \/ AbortUnsent
Next ==
  \/ Calls \/ Client \/ Serve \/ TransferEnds
  \/ Drop \/ Expire \/ AbortTimesOut \/ InterruptListing \/ InterruptAccept \/ ReadFails

(* mc goes on with its call as soon as it can, and a server that is there  *)
(* answers and ends its transfers.                                         *)
Fairness ==
  WF_vars(Client) /\ WF_vars(Serve) /\ WF_vars(TransferEnds)

Spec == Init /\ [][Next]_vars /\ Fairness

-----------------------------------------------------------------------------
(* Properties *)

(* What the client keeps of a connection stays in its domain.              *)
TypeOK ==
  /\ sup \in [cwdir : Dirs \cup {Home, NoDir}, isbinary : {"?", "A", "I"},
              passive : BOOLEAN, strict : {"auto", "strict", "daring"}, busy : BOOLEAN]
  /\ fh \in {"none", "preopen", "linear", "ended", "failed", "stor"}
  /\ cached \subseteq Dirs
  /\ call.step \in Commands \cup Reading \cup {"none", "FOUND", "LINES"}
  /\ told \in {"nothing", "downloaded", "uploaded"}
  /\ {late, crashed} \subseteq BOOLEAN
  /\ sup.busy => fh = "linear"

Awaited ==
  CASE call.step = "END" -> {call.xfer}
    [] call.step = "GIVEUP" -> {"LIST"}
    [] call.step = "ABOR" -> {"RETR", "ABOR"}
    [] call.step = "ABOR2" -> {"ABOR"}
    [] call.step \notin {"END", "GIVEUP", "ABOR", "ABOR2"} -> {call.step}

(* The reply that is read answers the command that was sent, and between   *)
(* two calls nothing is left to read but the end of an open transfer, as   *)
(* long as no transfer was given up after its end (ftpfs_linear_abort),    *)
(* before it began (accept), or for a reconnect that then failed.          *)
RepliesMatch ==
  ~late =>
    /\ (call.wait \/ call.step \in Reading) /\ toClient # <<>>
         => Head(toClient).to \in Awaited \cup {"none"}
    /\ Idle /\ server.up /\ fh \notin {"linear", "stor"}
         => toClient = <<>> /\ toServer = <<>>

(* Outside a command the server is where the client believes it to be, and *)
(* transfers with the type it believes to have set, over every reconnect.  *)
CacheMatchesServer ==
  server.up /\ server.login /\ ~call.wait /\ ~late =>
    /\ sup.isbinary # "?" => server.type = sup.isbinary
    /\ sup.cwdir # NoDir => server.cwd = sup.cwdir

(* Files are sent and received as images; what is listed is the directory  *)
(* asked for, unless the client lost its directory in a reconnect.         *)
TransfersAreRight ==
  server.up /\ server.xfer # "none" /\ ~late =>
    /\ server.type = TypeOf(server.xfer)
    /\ server.xfer = "LIST" /\ sup.cwdir # NoDir => server.cwd = call.dir

(* A download reported as complete was sent to its end, and an upload      *)
(* closed without an error is stored.                                      *)
ReportsAreTrue ==
  ~late => /\ told = "downloaded" => server.sent
           /\ told = "uploaded" => server.file = "new"

(* Every call of mc comes to an end: no reply is waited for that no one    *)
(* will send.  Once a transfer was given up without its reply, a call may  *)
(* hang: the client takes an upload for refused and leaves its data        *)
(* connection open, and the server waits for the data.                     *)
CallsEnd == (call.op # "none") ~> (call.op = "none" \/ late)

(* Client and server stay in step: each reply is read for its command.     *)
InStep ==
  /\ TypeOK
  /\ RepliesMatch

(* What the client remembers of the session, does with it and reports to   *)
(* its caller is true on the server.                                       *)
ClientIsRight ==
  /\ CacheMatchesServer
  /\ TransfersAreRight
  /\ ReportsAreTrue

=============================================================================
