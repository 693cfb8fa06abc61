---------------------------- MODULE FtpConnProofs ----------------------------
(***************************************************************************)
(* Proofs about one FTP connection, for any directories and any number of  *)
(* calls, failures, lost connections and interrupts.                       *)
(*                                                                         *)
(* A reply does not name its command, so that the right one is read rests  *)
(* on what is on its way: Exchange says, for each point a call can be at,  *)
(* which command may be unserved and which replies unread.  It is stated   *)
(* until a transfer is given up without its reply, and again from the next *)
(* login on, which is why what a call may look like (Kinds, Rules) is      *)
(* stated without that condition.  Beliefs says what the client may trust  *)
(* of what it remembers, and Reports what a final reply tells.             *)
(***************************************************************************)
EXTENDS FtpConn, TLAPS

(* The values of the variables.                                            *)
Ops == {"none", "opendir", "download", "upload", "delete", "rename", "read",
        "abort", "close"}
SupRec == [cwdir : Dirs \cup {Home, NoDir}, isbinary : {"?", "A", "I"},
           passive : BOOLEAN, strict : {"auto", "strict", "daring"}, busy : BOOLEAN]
CallRec == [op : Ops, dir : Dirs \cup {NoDir}, xfer : Transfers \cup {"none"},
            step : Commands \cup Reading \cup {"none", "FOUND", "LINES"},
            wait : BOOLEAN, again : BOOLEAN]
ServerRec == [up : BOOLEAN, login : BOOLEAN, cwd : Dirs \cup {Home}, type : {"A", "I"},
              rnfr : BOOLEAN, data : {"none", "ready", "open", "done", "cut"},
              xfer : Transfers \cup {"none"}, file : {"old", "part", "new"},
              sent : BOOLEAN]
Messages == {m \in [name : Commands, arg : Dirs \cup {NoDir, "A", "I"}] :
               /\ m.name = "CWD" => m.arg \in Dirs
               /\ m.name = "TYPE" => m.arg \in {"A", "I"}}
Replies == [class : {"complete", "error", "prelim", "continue", "aborted", "closing"},
            to : Commands \cup {"none"}]

ClientTyped ==
  /\ sup \in SupRec /\ call \in CallRec /\ crashed \in BOOLEAN
  /\ fh \in {"none", "preopen", "linear", "ended", "failed", "stor"}
  /\ cached \subseteq Dirs
  /\ told \in {"nothing", "downloaded", "uploaded"}
WireTyped ==
  /\ server \in ServerRec /\ late \in BOOLEAN
  /\ toServer \in Seq(Messages) /\ toClient \in Seq(Replies)

(* Which steps belong to which call, and with which open file.             *)
DataSteps == {"EPSV", "PASV", "EPRT", "PORT", "TYPE"}
ListSteps == {"LIST", "LINES", "END", "GIVEUP"}
Lookup(dirs) ==
  /\ call.xfer = "LIST" /\ call.dir \in dirs
  /\ call.step \in {"FOUND", "CWD"} \cup DataSteps \cup ListSteps
Kinds ==
  /\ call.op = "none" => call = NoCall
  /\ call.op \in {"opendir", "download"} => fh = "none" /\ Lookup(Dirs)
  /\ call.op = "upload" => /\ fh = "none"
                           /\ \/ Lookup(Dirs)
                              \/ call.xfer = "STOR" /\ call.step \in DataSteps \cup {"STOR"}
  /\ call.op = "delete" => fh = "none" /\ call.xfer = "none" /\ call.step = "DELE"
  /\ call.op = "rename" => /\ fh = "none" /\ call.xfer = "none"
                           /\ call.step \in {"RNFR", "RNTO"}
  /\ call.op = "read" => /\ call.xfer = "RETR"
                         /\ \/ call.step \in DataSteps \cup {"RETR"} /\ fh = "preopen"
                            \/ call.step = "END" /\ fh = "linear"
  /\ call.op = "abort" => /\ fh \in {"none", "failed"} /\ call.xfer = "none"
                          /\ call.step \in {"ABOR", "ABOR2"}
  /\ call.op = "close" => fh = "none" /\ call.xfer = "STOR" /\ call.step = "END"

(* What is known of the client alone.                                      *)
Rules ==
  /\ call.wait => call.step \in Commands
  /\ sup.busy => fh = "linear" /\ call.op = "none"
  /\ crashed => call.op = "none" /\ fh = "none"
  /\ told # "nothing" => call.op = "none" /\ fh \in {"none", "ended"}
  /\ call.xfer = "LIST" /\ call.step \in DataSteps \cup ListSteps
       => sup.cwdir \in {call.dir, NoDir}

ClientOK == ClientTyped /\ Kinds /\ Rules

(* A server that is gone, or did not accept the login, does nothing.       *)
Session ==
  /\ ~server.up => server.xfer = "none" /\ toServer = << >>
  /\ ~server.login => server.xfer = "none"

(* What is on its way, at each point of a call.                            *)
Ends(n) ==     \* after n replies there is at most the end of the connection
  \/ Len(toClient) = n
  \/ Len(toClient) = n + 1 /\ ~server.up /\ toClient[n + 1] = Lost
Final(k, x) == toClient[k].to = x /\ toClient[k].class \notin {"prelim", "closing"}
Aborted(k) == toClient[k].to = "ABOR" /\ toClient[k].class # "aborted"
AborMessage == [name |-> "ABOR", arg |-> NoDir]

AtRest ==
  \/ call.op = "none" /\ fh \notin {"linear", "stor"}
  \/ call.step \in (Commands \ {"ABOR"}) \cup {"FOUND"} /\ ~call.wait
Quiet == toServer = << >> /\ Ends(0) /\ server.xfer = "none"
Commanded ==
  \/ Ends(0) /\ server.xfer = "none" /\ (server.up => toServer = <<Message>>)
  \/ toServer = << >> /\ Ends(1) /\ server.xfer = "none" /\ Final(1, call.step)
  \/ /\ call.step \in Transfers /\ toServer = << >>
     /\ toClient[1] = Reply("prelim", call.step)
     /\ \/ Ends(1) /\ (server.up => server.xfer = call.step)
        \/ Ends(2) /\ server.xfer = "none" /\ Final(2, call.step)
Running(x) ==
  /\ toServer = << >>
  /\ \/ Ends(0) /\ (server.up => server.xfer = x)
     \/ Ends(1) /\ server.xfer = "none" /\ Final(1, x)
Aborting ==
  \/ /\ server.up => toServer = <<AborMessage>>
     /\ \/ Ends(0) /\ server.xfer \in {"none", "RETR"}
        \/ Ends(1) /\ server.xfer = "none" /\ Final(1, "RETR")
  \/ /\ toServer = << >> /\ server.xfer = "none"
     /\ \/ Ends(1) /\ Aborted(1)
        \/ Ends(2) /\ Final(1, "RETR") /\ Aborted(2)
SecondReply ==
  /\ server.xfer = "none"
  /\ \/ Ends(0) /\ (server.up => toServer = <<AborMessage>>)
     \/ toServer = << >> /\ Ends(1) /\ Aborted(1)
Exchange ==
  /\ AtRest => Quiet
  /\ call.wait /\ call.step # "ABOR" => Commanded
  /\ call.op = "none" /\ fh = "linear" => Running("RETR")
  /\ call.op = "none" /\ fh = "stor" => Running("STOR")
  /\ call.step \in {"LINES", "END", "GIVEUP"} => Running(call.xfer)
  /\ call.step = "ABOR" /\ ~call.wait => Quiet \/ Running("RETR")
  /\ call.step = "ABOR" /\ call.wait => Aborting
  /\ call.step = "ABOR2" => SecondReply

(* What the client remembers, also while a command that changes it is      *)
(* answered.                                                               *)
Done(c) == /\ call.step = c /\ call.wait
           /\ toClient # << >> /\ toClient[1].class = "complete"
Beliefs ==
  /\ server.up /\ server.login =>
       /\ ~Done("TYPE") /\ sup.isbinary # "?" => server.type = sup.isbinary
       /\ Done("TYPE") => server.type = TypeOf(call.xfer)
       /\ ~Done("CWD") /\ sup.cwdir # NoDir => server.cwd = sup.cwdir
       /\ Done("CWD") => server.cwd = call.dir
  /\ server.up /\ server.data = "ready" /\ call.step \in Transfers
       => sup.isbinary = TypeOf(call.step)
  /\ server.xfer # "none" => server.type = TypeOf(server.xfer)

(* What a final reply tells.                                               *)
Reports ==
  /\ \A k \in 1 .. Len(toClient) :
       /\ toClient[k] = Reply("complete", "RETR") => server.sent
       /\ toClient[k] = Reply("complete", "STOR") => server.file = "new"
  /\ ReportsAreTrue

InOrder == Exchange /\ Beliefs /\ Reports

IInv == ClientOK /\ WireTyped /\ Session /\ (~late => InOrder)

-----------------------------------------------------------------------------
(* What the client does with a reply.                                      *)

(* A function of direntry.c or ftpfs.c that ends or goes on: the ways one  *)
(* reply can be handled, one disjunct for each.                            *)
Good(r) == r.class = "complete"
Handled(s, r) ==
  \/ call.step = "CWD" /\ Good(r) /\ Goto([s EXCEPT !.cwdir = call.dir], DataStep(s))
  \/ call.step = "CWD" /\ ~Good(r) /\ LookupFails(s)
  \/ call.step = "EPSV" /\ Goto(s, "PASV")
  \/ call.step \in {"EPSV", "PASV", "EPRT", "PORT"} /\ Goto(s, TypeStep(s))
  \/ call.step \in {"EPSV", "PASV"} /\ Goto([s EXCEPT !.passive = FALSE], "EPRT")
  \/ call.step = "EPRT" /\ Goto(s, "PORT")
  \/ call.step = "PORT" /\ DataFails(s)
  \/ /\ call.step = "TYPE" /\ Good(r)
     /\ Goto([s EXCEPT !.isbinary = TypeOf(call.xfer)], call.xfer)
  \/ call.step = "TYPE" /\ ~Good(r) /\ DataFails(s)
  \/ call.step \in Transfers /\ r.class = "prelim" /\ Opened(s)
  \/ call.step \in Transfers /\ r.class # "prelim" /\ DataFails(s)
  \/ /\ call.step \in {"DELE", "RNTO"} /\ cached' \in {cached, {}}
     /\ sup' = s /\ call' = NoCall /\ UNCHANGED <<fh, told, crashed>>
  \/ /\ call.step = "RNFR" /\ cached' \in {cached, {}}
     /\ sup' = s /\ call' = At("RNTO") /\ UNCHANGED <<fh, told, crashed>>
  \/ call.step = "ABOR" /\ r.class = "aborted" /\ Goto(s, "ABOR2")
  \/ call.step = "ABOR" /\ r.class # "aborted" /\ Return(s, fh)
  \/ call.step = "ABOR2" /\ Return(s, fh)
  \/ call.step = "GIVEUP" /\ LookupFails(s)
  \/ call.step = "END" /\ call.xfer = "LIST" /\ Good(r) /\ Listed(s)
  \/ call.step = "END" /\ call.xfer = "LIST" /\ ~Good(r) /\ DataFails(s)
  \/ /\ call.step = "END" /\ call.xfer = "RETR"
     /\ told' = IF Good(r) THEN "downloaded" ELSE "nothing"
     /\ fh' = IF Good(r) THEN "ended" ELSE "failed"
     /\ sup' = s /\ call' = NoCall /\ UNCHANGED <<cached, crashed>>
  \/ call.step = "END" /\ call.xfer = "STOR" /\ Stored(s, Good(r))

LEMMA ProceedHandles ==
  ASSUME ClientOK, call.step \in Commands \cup Reading, NEW s, NEW r, Proceed(s, r)
  PROVE  Handled(s, r)
<1> USE DEF Proceed, Good, Handled
<1>1. CASE call.step = "CWD" BY <1>1
<1>2. CASE call.step \in {"EPSV", "PASV", "EPRT", "PORT"} BY <1>2
<1>3. CASE call.step = "TYPE" BY <1>3
<1>4. CASE call.step \in Transfers BY <1>4 DEF Transfers
<1>5. CASE call.step \in {"DELE", "RNTO", "RNFR"} BY <1>5
<1>6. CASE call.step = "ABOR" BY <1>6 DEF AbortReply
<1>7. CASE call.step \in {"ABOR2", "GIVEUP"} BY <1>7
<1>8. CASE call.step = "END"
  <2>1. call.xfer \in {"LIST", "RETR", "STOR"}
    BY <1>8 DEF ClientOK, Kinds, Lookup, NoCall, ClientTyped, CallRec, Ops
  <2>2. CASE call.xfer = "LIST" BY <1>8, <2>2
  <2>3. CASE call.xfer = "RETR" BY <1>8, <2>3
  <2>4. CASE call.xfer = "STOR" BY <1>8, <2>4
  <2> QED BY <2>1, <2>2, <2>3, <2>4
<1> QED
  BY <1>1, <1>2, <1>3, <1>4, <1>5, <1>6, <1>7, <1>8 DEF Commands, Reading, Transfers

(* What the client remembers is of its type, and whatever a reconnect did  *)
(* to it, it did not invent a directory.                                   *)
Remembers(s) == /\ s \in SupRec /\ s.busy = sup.busy
                /\ s.cwdir \in {sup.cwdir, NoDir}

(* After a reply the call goes on, or ends, at a point where nothing is on *)
(* its way; or a transfer has begun; or a second reply to ABOR is due.     *)
TransferBegun(x) ==
  \/ call.step = "LINES" /\ x = "LIST" /\ call.xfer = "LIST"
  \/ call.op = "none" /\ fh = "linear" /\ x = "RETR"
  \/ call.op = "none" /\ fh = "stor" /\ x = "STOR"
Outcome(r) ==
  IF call.step \in Transfers /\ r.class = "prelim"
  THEN \A x \in Transfers : x = call.step => TransferBegun(x)'
  ELSE IF call.step = "ABOR" /\ r.class = "aborted" THEN call'.step = "ABOR2"
  ELSE AtRest'

Learned(s, r) ==
  /\ sup'.isbinary = IF call.step = "TYPE" /\ Good(r) THEN TypeOf(call.xfer)
                     ELSE s.isbinary
  /\ sup'.cwdir = IF call.step = "CWD" /\ Good(r) THEN call.dir ELSE s.cwdir
  /\ call'.step \in Transfers => sup'.isbinary = TypeOf(call'.step)
  /\ told' # "nothing" => call.step = "END" /\ Good(r)
  /\ told' = "downloaded" => call.xfer = "RETR"
  /\ told' = "uploaded" => call.xfer = "STOR"

(* A call that goes on with another step, and one that ends.               *)
Steps == Commands \cup Reading \cup {"none", "FOUND", "LINES"}
Moves(t, step) ==
  /\ sup' = t /\ call' \in CallRec
  /\ call'.op = call.op /\ call'.dir = call.dir /\ call'.xfer = call.xfer
  /\ call'.step = step /\ call'.wait = FALSE
  /\ fh' = fh /\ told' = told /\ crashed' = crashed
Fits(t, step) ==
  /\ \/ call.op \in {"opendir", "download", "upload"} /\ call.xfer = "LIST"
        /\ step \in {"CWD"} \cup DataSteps \cup ListSteps
     \/ call.op = "upload" /\ call.xfer = "STOR" /\ step \in DataSteps \cup {"STOR"}
     \/ call.op = "read" /\ fh = "preopen" /\ step \in DataSteps \cup {"RETR"}
     \/ call.op = "rename" /\ step \in {"RNFR", "RNTO"}
     \/ call.op = "abort" /\ step = "ABOR2"
  /\ call.xfer = "LIST" /\ step \in DataSteps \cup ListSteps
       => t.cwdir \in {call.dir, NoDir}

LEMMA InACall ==
  ASSUME ClientOK, call.step \in Commands \cup Reading
  PROVE  /\ told = "nothing" /\ sup.busy = FALSE /\ crashed = FALSE
         /\ call.op # "none" /\ call \in CallRec /\ fh # "stor"
         /\ call.xfer = "LIST" => call.dir \in Dirs
<1>1. sup \in SupRec /\ call \in CallRec /\ crashed \in BOOLEAN
  BY DEF ClientOK, ClientTyped
<1>2. call.op # "none"
  BY DEF ClientOK, Kinds, NoCall, Commands, Reading, Transfers
<1>3. told = "nothing" /\ sup.busy = FALSE /\ crashed = FALSE
  BY <1>1, <1>2 DEF ClientOK, Rules, SupRec
<1>4. fh # "stor" /\ (call.xfer = "LIST" => call.dir \in Dirs)
  BY <1>1, <1>2 DEF ClientOK, Kinds, Lookup, CallRec, Ops
<1> QED BY <1>1, <1>2, <1>3, <1>4

LEMMA AtMoves ==
  ASSUME ClientOK, NEW step \in Steps
  PROVE  /\ At(step) \in CallRec
         /\ At(step).op = call.op /\ At(step).dir = call.dir
         /\ At(step).xfer = call.xfer
         /\ At(step).step = step /\ At(step).wait = FALSE
BY DEF ClientOK, ClientTyped, CallRec, At, Steps

LEMMA GotoMoves ==
  ASSUME ClientOK, NEW t, NEW step \in Steps, Goto(t, step)
  PROVE  Moves(t, step) /\ cached' = cached
BY AtMoves DEF Goto, Moves

LEMMA MovesAreRight ==
  ASSUME ClientOK, call.step \in Commands \cup Reading, cached' \subseteq Dirs,
         NEW t \in SupRec, t.busy = FALSE, NEW step \in Steps,
         Moves(t, step), Fits(t, step)
  PROVE  /\ ClientOK'
         /\ step \in Commands \ {"ABOR"} => AtRest'
<1>1. /\ told' = "nothing" /\ sup'.busy = FALSE /\ crashed' = FALSE
      /\ call'.op # "none" /\ call' \in CallRec /\ fh' # "stor"
      /\ call'.xfer = "LIST" => call'.dir \in Dirs
  BY InACall DEF Moves
<1>2. ClientTyped'
  BY <1>1 DEF ClientOK, ClientTyped, Moves
<1>3. Kinds'
  BY <1>1 DEF ClientOK, Kinds, Moves, Fits, Lookup, DataSteps, ListSteps
<1>4. Rules'
  BY <1>1 DEF ClientOK, Rules, Moves, Fits, DataSteps, ListSteps
<1>5. step \in Commands \ {"ABOR"} => AtRest'
  BY DEF Moves, AtRest
<1> QED BY <1>2, <1>3, <1>4, <1>5 DEF ClientOK

LEMMA EndsAreRight ==
  ASSUME ClientOK, sup' \in SupRec, call' = NoCall,
         fh' \in {"none", "preopen", "linear", "ended", "failed", "stor"},
         cached' \subseteq Dirs, crashed' \in BOOLEAN,
         told' \in {"nothing", "downloaded", "uploaded"},
         sup'.busy => fh' = "linear", crashed' => fh' = "none",
         told' # "nothing" => fh' \in {"none", "ended"}
  PROVE  /\ ClientOK'
         /\ fh' \notin {"linear", "stor"} => AtRest'
<1>1. /\ call'.op = "none" /\ call'.step = "none" /\ call'.wait = FALSE
      /\ call'.xfer = "none" /\ call' \in CallRec
  BY DEF NoCall, CallRec, Ops
<1>2. ClientTyped' /\ Kinds' /\ Rules'
  BY <1>1 DEF ClientTyped, Kinds, Rules, DataSteps, ListSteps, Commands
<1> QED BY <1>1, <1>2 DEF ClientOK, AtRest

(* The ways a call goes on.                                                *)
LEMMA LoadsAgain ==
  ASSUME ClientOK, NEW t, call.xfer = "LIST",
         call.op \in {"opendir", "download", "upload"}
  PROVE  /\ LoadStep(t, call.dir) \in {"CWD", "EPSV", "EPRT"}
         /\ LoadStep(t, call.dir) \in Steps
         /\ Fits(t, LoadStep(t, call.dir))
BY DEF LoadStep, DataStep, Fits, DataSteps, ListSteps, Steps, Commands

LEMMA LookupEnds ==
  ASSUME ClientOK, call.step \in Commands \cup Reading, call.xfer = "LIST",
         NEW t \in SupRec, t.busy = FALSE, LookupFails(t)
  PROVE  ClientOK' /\ AtRest' /\ sup' = t /\ call'.step \notin Transfers
         /\ told' = told
<1>1. call.op \in {"opendir", "download", "upload"} /\ fh = "none"
  BY InACall DEF ClientOK, ClientTyped, Kinds, CallRec, Ops
<1>2. told' = "nothing" /\ told' = told /\ cached' = cached /\ fh' = fh /\ sup' = t
  BY InACall DEF LookupFails, Return
<1>3. cached \subseteq Dirs
  BY DEF ClientOK, ClientTyped
<1>4. CASE call' = NoCall
  <2>1. crashed' \in BOOLEAN
    BY InACall DEF LookupFails, Return
  <2> QED
    BY <1>1, <1>2, <1>3, <1>4, <2>1, EndsAreRight DEF NoCall, Transfers
<1>5. CASE call' # NoCall
  <2> DEFINE step == LoadStep(t, call.dir)
  <2>1. call' = [At(step) EXCEPT !.again = TRUE] /\ crashed' = crashed
    BY <1>5 DEF LookupFails, Return
  <2>2. step \in Steps /\ step \in {"CWD", "EPSV", "EPRT"} /\ Fits(t, step)
    BY <1>1, LoadsAgain
  <2> HIDE DEF step
  <2>3. Moves(t, step)
    BY <1>2, <2>1, <2>2, AtMoves DEF Moves, CallRec
  <2> QED
    BY <1>2, <1>3, <2>2, <2>3, MovesAreRight DEF Moves, Transfers, Commands
<1> QED BY <1>4, <1>5

LEMMA DataFailEnds ==
  ASSUME ClientOK, call.step \in Commands \cup Reading,
         call.step \in Commands \/ call.xfer = "LIST",
         NEW t \in SupRec, t.busy = FALSE, DataFails(t)
  PROVE  /\ ClientOK' /\ AtRest' /\ call'.step \notin Transfers
         /\ sup'.cwdir = t.cwdir /\ sup'.isbinary = t.isbinary /\ told' = told
<1>1. CASE call.xfer # "LIST"
  <2>1. fh \notin {"linear", "stor"} /\ fh \in {"none", "preopen", "ended", "failed"}
    BY <1>1, InACall DEF ClientOK, ClientTyped, Kinds, CallRec, Ops, Commands, Transfers
  <2>2. Return(t, fh)
    BY <1>1 DEF DataFails
  <2> QED
    BY <2>1, <2>2, InACall, EndsAreRight
       DEF Return, ClientOK, ClientTyped, NoCall, Transfers
<1>2. CASE call.xfer = "LIST" /\ t.strict # "auto"
  BY <1>2, LookupEnds DEF DataFails
<1>3. CASE call.xfer = "LIST" /\ t.strict = "auto"
  <2> DEFINE u == [t EXCEPT !.strict = "strict"]
             step == LoadStep(t, call.dir)
  <2>1. u \in SupRec /\ u.busy = FALSE /\ u.cwdir = t.cwdir /\ u.isbinary = t.isbinary
    BY DEF SupRec
  <2>2. call.op \in {"opendir", "download", "upload"}
    BY <1>3, InACall DEF ClientOK, Kinds, CallRec, Ops
  <2>3. step \in Steps /\ step \in {"CWD", "EPSV", "EPRT"} /\ Fits(t, step)
    BY <1>3, <2>2, LoadsAgain
  <2>4. Fits(u, step)
    BY <2>1, <2>3 DEF Fits
  <2>5. Goto(u, step)
    BY <1>3 DEF DataFails
  <2> HIDE DEF u, step
  <2>6. Moves(u, step) /\ cached' = cached
    BY <2>3, <2>5, GotoMoves
  <2> QED
    BY <2>1, <2>3, <2>4, <2>6, InACall, MovesAreRight
       DEF Moves, ClientOK, ClientTyped, Transfers, Commands
<1> QED BY <1>1, <1>2, <1>3

(* The directory is known: the call ends, or an upload starts.             *)
LEMMA DirectoryKnown ==
  ASSUME ClientOK, NEW t \in SupRec, t.busy = FALSE, sup' = t,
         call.op \in {"opendir", "download", "upload"}, fh = "none",
         told' = "nothing", crashed' = FALSE, cached' \subseteq Dirs,
         fh' = IF call.op = "download" THEN "preopen" ELSE fh,
         call' = IF call.op = "upload" THEN [At(DataStep(t)) EXCEPT !.xfer = "STOR"]
                 ELSE NoCall
  PROVE  ClientOK' /\ AtRest' /\ call'.step \notin Transfers
<1>1. CASE call.op # "upload"
  BY <1>1, EndsAreRight DEF NoCall, Transfers
<1>2. CASE call.op = "upload"
  <2> DEFINE step == DataStep(t)
  <2>1. step \in {"EPSV", "EPRT"} /\ step \in Steps
    BY DEF DataStep, Steps, Commands
  <2>2. call' = [At(step) EXCEPT !.xfer = "STOR"] /\ fh' = "none"
    BY <1>2
  <2> HIDE DEF step
  <2>3. /\ call' \in CallRec /\ call'.op = "upload" /\ call'.xfer = "STOR"
        /\ call'.step = step /\ call'.wait = FALSE
    <3> DEFINE c == At(step)
    <3>1. c \in CallRec /\ c.op = "upload" /\ c.step = step /\ c.wait = FALSE
      BY <1>2, <2>1, AtMoves
    <3>2. call' = [c EXCEPT !.xfer = "STOR"]
      BY <2>2
    <3> HIDE DEF c
    <3> QED BY <3>1, <3>2 DEF CallRec, Transfers
  <2> QED
    BY <2>1, <2>2, <2>3
       DEF ClientOK, ClientTyped, Kinds, Rules, DataSteps, AtRest, Commands, Transfers
<1> QED BY <1>1, <1>2

(* Every reply leaves the client where Outcome says, and Learned is all it *)
(* believes to know afterwards.                                            *)
LEMMA HandledIsRight ==
  ASSUME ClientOK, call.step \in Commands \cup Reading, NEW s, NEW r, Remembers(s),
         Handled(s, r)
  PROVE  ClientOK' /\ Outcome(r) /\ Learned(s, r)
<1>a. s \in SupRec /\ s.busy = FALSE /\ s.cwdir \in {sup.cwdir, NoDir}
  BY InACall DEF Remembers
<1>b. told = "nothing" /\ crashed = FALSE /\ cached \subseteq Dirs /\ fh # "stor"
  BY InACall DEF ClientOK, ClientTyped
<1>c. \/ call.op \in {"opendir", "download", "upload"} /\ call.xfer = "LIST"
         /\ fh = "none" /\ call.step \in {"CWD"} \cup DataSteps \cup ListSteps
      \/ call.op = "upload" /\ call.xfer = "STOR" /\ fh = "none"
         /\ call.step \in DataSteps \cup {"STOR"}
      \/ call.op \in {"delete", "rename", "abort"} /\ call.xfer = "none"
         /\ fh \in {"none", "failed"}
         /\ call.step \in {"DELE", "RNFR", "RNTO", "ABOR", "ABOR2"}
      \/ call.op = "read" /\ call.xfer = "RETR" /\ fh = "preopen"
         /\ call.step \in DataSteps \cup {"RETR"}
      \/ call.op = "read" /\ call.xfer = "RETR" /\ fh = "linear" /\ call.step = "END"
      \/ call.op = "close" /\ call.xfer = "STOR" /\ fh = "none" /\ call.step = "END"
  BY InACall DEF ClientOK, Kinds, Lookup, CallRec, Ops, Commands, Reading, Transfers
<1>d. /\ call.xfer = "LIST" /\ call.step \in DataSteps \cup ListSteps
           => s.cwdir \in {call.dir, NoDir}
      /\ call.xfer = "LIST" => call.dir \in Dirs
  BY <1>a, InACall DEF ClientOK, Rules
<1> DEFINE Ok(t, step) ==
      /\ ClientOK' /\ sup' = t /\ call'.step = step /\ told' = "nothing"
      /\ step \in Commands \ {"ABOR"} => AtRest'
      /\ step \in {"LINES", "ABOR2"} => call'.xfer = call.xfer
<1>e. ASSUME NEW t \in SupRec, t.busy = FALSE, NEW step \in Steps, Goto(t, step),
             Fits(t, step)
      PROVE  Ok(t, step)
  BY <1>b, <1>e, GotoMoves, MovesAreRight DEF Moves
<1>f. ASSUME Return(s, fh), fh # "linear"
      PROVE  ClientOK' /\ AtRest' /\ sup' = s /\ told' = "nothing" /\ call'.step = "none"
  BY <1>a, <1>b, <1>f, EndsAreRight DEF Return, ClientOK, ClientTyped, NoCall
<1>1. CASE call.step = "CWD" /\ Good(r) /\ Goto([s EXCEPT !.cwdir = call.dir], DataStep(s))
  <2> DEFINE t == [s EXCEPT !.cwdir = call.dir]
  <2>1. call.op \in {"opendir", "download", "upload"} /\ call.xfer = "LIST"
    BY <1>c, <1>1 DEF DataSteps
  <2>2. t \in SupRec /\ t.busy = FALSE /\ t.cwdir = call.dir /\ t.isbinary = s.isbinary
    BY <1>a, <1>d, <2>1 DEF SupRec
  <2>3. DataStep(s) \in {"EPSV", "EPRT"} /\ DataStep(s) \in Steps
    BY DEF DataStep, Steps, Commands
  <2>4. Fits(t, DataStep(s))
    BY <2>1, <2>2, <2>3 DEF Fits, DataSteps
  <2>5. Ok(t, DataStep(s))
    BY <1>1, <1>e, <2>2, <2>3, <2>4
  <2> HIDE DEF t
  <2> QED
    BY <1>1, <2>2, <2>3, <2>5 DEF Outcome, Learned, Commands, Transfers
<1>2. CASE call.step = "CWD" /\ ~Good(r) /\ LookupFails(s)
  <2>1. call.xfer = "LIST"
    BY <1>c, <1>2 DEF DataSteps
  <2> QED
    BY <1>a, <1>b, <1>2, <2>1, LookupEnds DEF Outcome, Learned, Transfers
<1>g. ASSUME call.step \in DataSteps, NEW t \in SupRec, t.busy = FALSE,
             t.cwdir = s.cwdir, NEW step \in DataSteps \cup {call.xfer}, Goto(t, step)
      PROVE  Ok(t, step) /\ AtRest' /\ call.xfer \in Transfers
  <2>1. call.xfer \in Transfers /\ step \in Steps
    BY <1>c, <1>g DEF DataSteps, ListSteps, Transfers, Steps, Commands
  <2>2. Fits(t, step)
    BY <1>c, <1>d, <1>g, <2>1 DEF Fits, DataSteps, ListSteps, Transfers
  <2>3. step \in Commands \ {"ABOR"}
    BY <1>g, <2>1 DEF DataSteps, Commands, Transfers
  <2> QED BY <1>e, <1>g, <2>1, <2>2, <2>3
<1>3. CASE call.step \in {"EPSV", "PASV", "EPRT", "PORT"} /\ Goto(s, TypeStep(s))
  <2>1. TypeStep(s) \in DataSteps \cup {call.xfer}
    BY DEF TypeStep, DataSteps
  <2>2. Ok(s, TypeStep(s)) /\ AtRest' /\ call.xfer \in Transfers
    BY <1>a, <1>g, <1>3, <2>1 DEF DataSteps
  <2>3. TypeStep(s) \in Transfers => s.isbinary = TypeOf(TypeStep(s))
    BY DEF TypeStep, Transfers
  <2> QED
    BY <1>3, <2>2, <2>3 DEF Outcome, Learned, Transfers
<1>4. CASE call.step \in {"EPSV", "EPRT"} /\ \E n \in {"PASV", "PORT"} : Goto(s, n)
  <2>1. PICK n \in {"PASV", "PORT"} : Goto(s, n)
    BY <1>4
  <2>2. Ok(s, n) /\ AtRest'
    BY <1>a, <1>g, <1>4, <2>1 DEF DataSteps
  <2> QED
    BY <1>4, <2>1, <2>2 DEF Outcome, Learned, Transfers
<1>5. CASE call.step \in {"EPSV", "PASV"} /\ Goto([s EXCEPT !.passive = FALSE], "EPRT")
  <2> DEFINE t == [s EXCEPT !.passive = FALSE]
  <2>1. t \in SupRec /\ t.busy = FALSE /\ t.cwdir = s.cwdir /\ t.isbinary = s.isbinary
    BY <1>a DEF SupRec
  <2>2. Goto(t, "EPRT")
    BY <1>5
  <2> HIDE DEF t
  <2>3. Ok(t, "EPRT") /\ AtRest'
    BY <1>g, <1>5, <2>1, <2>2 DEF DataSteps
  <2> QED
    BY <1>5, <2>1, <2>3 DEF Outcome, Learned, Transfers
<1>6. CASE /\ call.step = "TYPE" /\ Good(r)
           /\ Goto([s EXCEPT !.isbinary = TypeOf(call.xfer)], call.xfer)
  <2> DEFINE t == [s EXCEPT !.isbinary = TypeOf(call.xfer)]
  <2>1. /\ t \in SupRec /\ t.busy = FALSE /\ t.cwdir = s.cwdir
        /\ t.isbinary = TypeOf(call.xfer)
    BY <1>a DEF SupRec, TypeOf
  <2>2. Goto(t, call.xfer)
    BY <1>6
  <2> HIDE DEF t
  <2>3. Ok(t, call.xfer) /\ AtRest'
    BY <1>g, <1>6, <2>1, <2>2 DEF DataSteps
  <2> QED
    BY <1>6, <2>1, <2>3 DEF Outcome, Learned, Transfers
<1>7. CASE /\ \/ call.step \in {"PORT", "TYPE"} \/ call.step \in Transfers
              \/ call.step = "END" /\ call.xfer = "LIST"
           /\ ~(call.step = "TYPE" /\ Good(r))
           /\ ~(call.step \in Transfers /\ r.class = "prelim") /\ DataFails(s)
  <2>1. call.step \in Commands \/ call.xfer = "LIST"
    BY <1>7 DEF Commands
  <2>2. /\ ClientOK' /\ AtRest' /\ call'.step \notin Transfers
        /\ sup'.cwdir = s.cwdir /\ sup'.isbinary = s.isbinary /\ told' = "nothing"
    BY <1>a, <1>b, <1>7, <2>1, DataFailEnds
  <2>3. call.step # "CWD" /\ call.step # "ABOR"
    BY <1>7 DEF Transfers
  <2> QED
    BY <1>7, <2>2, <2>3 DEF Outcome, Learned
<1>8. CASE call.step \in Transfers /\ r.class = "prelim" /\ Opened(s)
  <2>1. CASE call.xfer = "LIST"
    <3>1. Goto(s, "LINES") /\ "LINES" \in Steps
      BY <1>8, <2>1 DEF Opened, Steps
    <3>2. call.step = "LIST"
      BY <1>c, <1>8, <2>1 DEF Transfers, DataSteps, ListSteps
    <3>3. Fits(s, "LINES")
      BY <1>c, <1>d, <2>1, <3>2 DEF Fits, ListSteps
    <3>4. Ok(s, "LINES")
      BY <1>a, <1>e, <3>1, <3>3
    <3> QED
      BY <1>8, <2>1, <3>2, <3>4 DEF Outcome, Learned, TransferBegun, Transfers
  <2>2. CASE call.xfer = "RETR"
    <3> DEFINE t == [s EXCEPT !.busy = TRUE]
    <3>1. /\ t \in SupRec /\ t.cwdir = s.cwdir /\ t.isbinary = s.isbinary
      BY <1>a DEF SupRec
    <3>2. Return(t, "linear")
      BY <1>8, <2>2 DEF Opened
    <3> HIDE DEF t
    <3>3. call.step = "RETR"
      BY <1>c, <1>8, <2>2 DEF Transfers, DataSteps, ListSteps
    <3>4. ClientOK'
      BY <1>b, <3>1, <3>2, EndsAreRight DEF Return
    <3> QED
      BY <1>b, <1>8, <3>1, <3>2, <3>3, <3>4
         DEF Return, NoCall, Outcome, Learned, TransferBegun, Transfers
  <2>3. CASE call.xfer = "STOR"
    <3>1. Return(s, "stor")
      BY <1>8, <2>3 DEF Opened
    <3>2. call.step = "STOR"
      BY <1>c, <1>8, <2>3 DEF Transfers, DataSteps, ListSteps
    <3>3. ClientOK'
      BY <1>a, <1>b, <3>1, EndsAreRight DEF Return
    <3> QED
      BY <1>a, <1>b, <1>8, <3>1, <3>2, <3>3
         DEF Return, NoCall, Outcome, Learned, TransferBegun, Transfers
  <2> QED BY <1>c, <1>8, <2>1, <2>2, <2>3 DEF Transfers
<1>9. CASE /\ call.step \in {"DELE", "RNTO"} /\ cached' \in {cached, {}}
           /\ sup' = s /\ call' = NoCall /\ UNCHANGED <<fh, told, crashed>>
  <2>1. fh \in {"none", "failed"}
    BY <1>c, <1>9 DEF DataSteps, ListSteps
  <2>2. ClientOK' /\ AtRest'
    BY <1>a, <1>b, <1>9, <2>1, EndsAreRight
  <2> QED
    BY <1>b, <1>9, <2>2 DEF Outcome, Learned, NoCall, Transfers
<1>10. CASE /\ call.step = "RNFR" /\ cached' \in {cached, {}}
            /\ sup' = s /\ call' = At("RNTO") /\ UNCHANGED <<fh, told, crashed>>
  <2>1. call.op = "rename" /\ call.xfer = "none"
    BY <1>c, <1>10, InACall DEF DataSteps, ListSteps, ClientOK, Kinds, CallRec, Ops
  <2>2. "RNTO" \in Steps /\ Fits(s, "RNTO")
    BY <2>1 DEF Steps, Commands, Fits
  <2>3. Moves(s, "RNTO")
    BY <1>10, <2>2, AtMoves DEF Moves
  <2>4. cached' \subseteq Dirs
    BY <1>b, <1>10
  <2>5. ClientOK' /\ AtRest'
    BY <1>a, <2>2, <2>3, <2>4, MovesAreRight DEF Commands
  <2> QED
    BY <1>b, <1>10, <2>3, <2>5 DEF Outcome, Learned, Moves, Transfers
<1>11. CASE call.step = "ABOR" /\ r.class = "aborted" /\ Goto(s, "ABOR2")
  <2>1. call.op = "abort" /\ call.xfer = "none"
    BY <1>c, <1>11, InACall DEF DataSteps, ListSteps, ClientOK, Kinds, CallRec, Ops
  <2>2. "ABOR2" \in Steps /\ Fits(s, "ABOR2")
    BY <2>1 DEF Steps, Reading, Fits
  <2>3. Ok(s, "ABOR2")
    BY <1>a, <1>e, <1>11, <2>2
  <2> QED
    BY <1>11, <2>3 DEF Outcome, Learned, Transfers
<1>12. CASE /\ call.step \in {"ABOR", "ABOR2"} /\ Return(s, fh)
            /\ ~(call.step = "ABOR" /\ r.class = "aborted")
  <2>1. fh # "linear"
    BY <1>c, <1>12 DEF DataSteps, ListSteps
  <2>2. ClientOK' /\ AtRest' /\ sup' = s /\ told' = "nothing" /\ call'.step = "none"
    BY <1>f, <1>12, <2>1
  <2> QED
    BY <1>12, <2>2 DEF Outcome, Learned, Transfers
<1>13. CASE call.step = "GIVEUP" /\ LookupFails(s)
  <2>1. call.xfer = "LIST"
    BY <1>c, <1>13 DEF DataSteps
  <2> QED
    BY <1>a, <1>b, <1>13, <2>1, LookupEnds DEF Outcome, Learned, Transfers
<1>14. CASE call.step = "END" /\ call.xfer = "LIST" /\ Good(r) /\ Listed(s)
  <2> DEFINE t == [s EXCEPT !.strict = IF @ = "auto" THEN "daring" ELSE @]
  <2>1. /\ t \in SupRec /\ t.busy = FALSE /\ t.cwdir = s.cwdir
        /\ t.isbinary = s.isbinary
    BY <1>a DEF SupRec
  <2>2. /\ sup' = t /\ cached' = cached \cup {call.dir} /\ told' = told
        /\ crashed' = crashed
        /\ fh' = IF call.op = "download" THEN "preopen" ELSE fh
        /\ call' = IF call.op = "upload" THEN [At(DataStep(t)) EXCEPT !.xfer = "STOR"]
                   ELSE NoCall
    BY <1>14 DEF Listed, Looked
  <2> HIDE DEF t
  <2>3. /\ call.op \in {"opendir", "download", "upload"} /\ fh = "none"
        /\ cached' \subseteq Dirs
    BY <1>b, <1>c, <1>d, <1>14, <2>2 DEF DataSteps, ListSteps
  <2>4. ClientOK' /\ AtRest' /\ call'.step \notin Transfers
    BY <1>b, <2>1, <2>2, <2>3, DirectoryKnown DEF NoCall, Transfers
  <2> QED
    BY <1>b, <1>14, <2>1, <2>2, <2>4 DEF Outcome, Learned, Transfers
<1>15. CASE /\ call.step = "END" /\ call.xfer = "RETR"
            /\ told' = (IF Good(r) THEN "downloaded" ELSE "nothing")
            /\ fh' = (IF Good(r) THEN "ended" ELSE "failed")
            /\ sup' = s /\ call' = NoCall /\ UNCHANGED <<cached, crashed>>
  <2>1. ClientOK' /\ AtRest'
    BY <1>a, <1>b, <1>15, EndsAreRight
  <2> QED
    BY <1>15, <2>1 DEF Outcome, Learned, NoCall, Transfers
<1>16. CASE call.step = "END" /\ call.xfer = "STOR" /\ Stored(s, Good(r))
  <2>1. fh = "none"
    BY <1>c, <1>16 DEF DataSteps
  <2>2. ClientOK' /\ AtRest'
    BY <1>a, <1>b, <1>16, <2>1, EndsAreRight DEF Stored
  <2> QED
    BY <1>16, <2>2 DEF Outcome, Learned, Stored, NoCall, Transfers
<1>17. CASE call.step = "EPSV" /\ Goto(s, "PASV")
  BY <1>4, <1>17
<1>18. CASE call.step = "EPRT" /\ Goto(s, "PORT")
  BY <1>4, <1>18
<1>19. CASE call.step = "END" /\ call.xfer = "LIST" /\ ~Good(r) /\ DataFails(s)
  BY <1>7, <1>19 DEF Transfers
<1>20. CASE \/ call.step = "PORT" /\ DataFails(s)
            \/ call.step = "TYPE" /\ ~Good(r) /\ DataFails(s)
            \/ call.step \in Transfers /\ r.class # "prelim" /\ DataFails(s)
  BY <1>7, <1>20 DEF Transfers
<1> QED
  BY <1>1, <1>2, <1>3, <1>5, <1>6, <1>8, <1>9, <1>10, <1>11, <1>12, <1>13,
     <1>14, <1>15, <1>16, <1>17, <1>18, <1>19, <1>20 DEF Handled
-----------------------------------------------------------------------------
(* What is on its way: the point a call has reached decides which part of  *)
(* Exchange is meant.                                                      *)
LEMMA AtRestIs ==
  ASSUME ClientOK', AtRest', Quiet'
  PROVE  Exchange'
BY DEF ClientOK, Kinds, NoCall, AtRest, Exchange, Commands, Transfers

LEMMA CommandedIs ==
  ASSUME ClientOK', call'.wait, call'.step # "ABOR", Commanded'
  PROVE  Exchange'
BY DEF ClientOK, Kinds, Rules, NoCall, AtRest, Exchange, Commands, Transfers

LEMMA RunningIs ==
  ASSUME ClientOK', NEW x \in Transfers, Running(x)',
         TransferBegun(x)' \/ (call'.step \in {"LINES", "END", "GIVEUP"} /\ call'.xfer = x)
  PROVE  Exchange'
BY DEF ClientOK, Kinds, Rules, NoCall, AtRest, Exchange, Commands, Transfers, TransferBegun

LEMMA AbortIs ==
  ASSUME ClientOK', call'.step = "ABOR",
         IF call'.wait THEN Aborting' ELSE Quiet' \/ Running("RETR")'
  PROVE  Exchange'
BY DEF ClientOK, Kinds, Rules, NoCall, AtRest, Exchange, Commands, Transfers

LEMMA SecondReplyIs ==
  ASSUME ClientOK', call'.step = "ABOR2", SecondReply'
  PROVE  Exchange'
BY DEF ClientOK, Kinds, Rules, NoCall, AtRest, Exchange, Commands, Transfers

(* Each state is at one of these points.                                   *)
LEMMA Points ==
  ASSUME ClientOK, Exchange
  PROVE  \/ AtRest /\ Quiet
         \/ call.wait /\ call.step # "ABOR" /\ call.step \in Commands /\ Commanded
         \/ \E x \in Transfers :
               /\ \/ call.op = "none" /\ fh = "linear" /\ x = "RETR"
                  \/ call.op = "none" /\ fh = "stor" /\ x = "STOR"
                  \/ call.step \in {"LINES", "END", "GIVEUP"} /\ call.xfer = x
               /\ Running(x)
         \/ call.step = "ABOR" /\ ~call.wait /\ (Quiet \/ Running("RETR"))
         \/ call.step = "ABOR" /\ call.wait /\ Aborting
         \/ call.step = "ABOR2" /\ SecondReply
<1>1. CASE call.op = "none"
  BY <1>1 DEF Exchange, AtRest, Transfers
<1>2. CASE call.op # "none" /\ call.step \in {"LINES", "END", "GIVEUP"}
  <2>1. call.xfer \in Transfers
    BY <1>2 DEF ClientOK, ClientTyped, Kinds, Lookup, CallRec, Ops, Transfers
  <2> QED BY <1>2, <2>1 DEF Exchange
<1>3. CASE call.op # "none" /\ call.step \in Commands \cup {"FOUND", "ABOR2"}
  BY <1>3 DEF Exchange, AtRest, ClientOK, Rules, Commands, Transfers
<1>4. call.op # "none" => call.step # "none"
  BY DEF ClientOK, ClientTyped, Kinds, Lookup, CallRec, Ops, DataSteps, ListSteps
<1> QED
  BY <1>1, <1>2, <1>3, <1>4 DEF ClientOK, ClientTyped, CallRec, Reading

(* Sequences of replies: one is read, one is sent, or the connection ends. *)
LEMMA AfterReading ==
  ASSUME WireTyped, toClient # << >>, toClient' = Tail(toClient), server' = server
  PROVE  /\ Head(toClient) = toClient[1] /\ toClient[1] \in Replies
         /\ \A n \in Nat : Ends(n + 1) => Ends(n)'
         /\ Ends(0) => toClient[1] = Lost /\ toClient' = << >> /\ ~server.up
         /\ \A k \in 1 .. Len(toClient') : toClient'[k] = toClient[k + 1]
         /\ Len(toClient') = Len(toClient) - 1 /\ toClient' \in Seq(Replies)
<1>1. /\ toClient \in Seq(Replies) /\ Len(toClient) \in Nat /\ Len(toClient) > 0
      /\ Len(Tail(toClient)) = Len(toClient) - 1
      /\ \A k \in 1 .. Len(toClient) - 1 : Tail(toClient)[k] = toClient[k + 1]
      /\ Tail(toClient) \in Seq(Replies)
      /\ Head(toClient) = toClient[1] /\ toClient[1] \in Replies
  BY DEF WireTyped
<1>2. \A n \in Nat : Ends(n + 1) => Ends(n)'
  <2> TAKE n \in Nat
  <2>1. CASE Len(toClient) = n + 1
    BY <1>1, <2>1 DEF Ends
  <2>2. CASE Len(toClient) = n + 1 + 1
    <3>1. toClient'[n + 1] = toClient[n + 1 + 1] /\ Len(toClient') = n + 1
      BY <1>1, <2>2
    <3> QED BY <2>2, <3>1 DEF Ends, Lost
  <2> QED BY <2>1, <2>2 DEF Ends
<1>3. Ends(0) => toClient[1] = Lost /\ toClient' = << >> /\ ~server.up
  BY <1>1 DEF Ends
<1> QED BY <1>1, <1>2, <1>3

LEMMA AfterReply ==
  ASSUME WireTyped, NEW m \in Replies, toClient' = Append(toClient, m)
  PROVE  /\ toClient' \in Seq(Replies) /\ Len(toClient) \in Nat
         /\ Len(toClient') = Len(toClient) + 1
         /\ toClient'[Len(toClient) + 1] = m
         /\ \A k \in 1 .. Len(toClient) : toClient'[k] = toClient[k]
BY DEF WireTyped

(* One reply, or the end of the stream.                                    *)
Read(r) ==
  /\ toClient # << >> \/ ~server.up
  /\ r = IF toClient = << >> THEN Lost ELSE Head(toClient)
  /\ toClient' = IF toClient = << >> THEN << >> ELSE Tail(toClient)
  /\ server' = server

LEMMA ReplyRead ==
  ASSUME WireTyped, NEW r, Read(r)
  PROVE  /\ r \in Replies /\ toClient' \in Seq(Replies)
         /\ Ends(0) => r = Lost /\ ~server.up /\ Ends(0)'
         /\ \A n \in Nat : Ends(n + 1) => toClient # << >> /\ r = toClient[1] /\ Ends(n)'
         /\ Ends(2) => toClient'[1] = toClient[2]
         /\ \A k \in 1 .. Len(toClient') :
              k + 1 \in 1 .. Len(toClient) /\ toClient'[k] = toClient[k + 1]
<1>1. Lost \in Replies
  BY DEF Lost, Reply, Replies
<1>2. CASE toClient = << >>
  <2>1. Len(toClient) = 0 /\ toClient' = << >> /\ Len(toClient') = 0
    BY <1>2 DEF Read
  <2>2. \A n \in Nat : ~Ends(n + 1)
    BY <2>1 DEF Ends
  <2>3. ~Ends(2)
    BY <2>1 DEF Ends
  <2>4. Ends(0)' /\ ~server.up /\ r = Lost
    BY <1>2, <2>1 DEF Ends, Read
  <2> QED BY <1>1, <2>1, <2>2, <2>3, <2>4
<1>3. CASE toClient # << >>
  <2>1. /\ r = Head(toClient) /\ toClient' = Tail(toClient) /\ server' = server
    BY <1>3 DEF Read
  <2>2. toClient \in Seq(Replies) /\ Len(toClient) \in Nat
    BY DEF WireTyped
  <2>3. Len(toClient') = Len(toClient) - 1
    BY <1>3, <2>1, AfterReading
  <2>4. \A k \in 1 .. Len(toClient') :
           k + 1 \in 1 .. Len(toClient) /\ toClient'[k] = toClient[k + 1]
    BY <1>3, <2>1, <2>2, <2>3, AfterReading
  <2>5. Ends(2) => toClient'[1] = toClient[2]
    <3>1. Ends(2) => Len(toClient) \in {2, 3}
      BY DEF Ends
    <3> QED BY <2>3, <2>4, <3>1
  <2>6. Ends(0) => r = Lost /\ ~server.up /\ Ends(0)'
    <3>1. Ends(0) => toClient' = << >>
      BY <1>3, <2>1, AfterReading
    <3>2. toClient' = << >> => Ends(0)'
      BY DEF Ends
    <3> QED BY <1>3, <2>1, <3>1, <3>2, AfterReading
  <2>7. r \in Replies /\ toClient' \in Seq(Replies) /\ r = toClient[1]
    BY <1>3, <2>1, AfterReading
  <2>8. \A n \in Nat : Ends(n + 1) => Ends(n)'
    BY <1>3, <2>1, AfterReading
  <2> QED BY <1>3, <2>4, <2>5, <2>6, <2>7, <2>8
<1> QED BY <1>2, <1>3

(* The reply that is read was meant, and afterwards nothing is on its way  *)
(* that should not be.                                                     *)
LEMMA ReadKeepsExchange ==
  ASSUME ClientOK, WireTyped, Session, Exchange,
         call.wait \/ call.step \in Reading,
         NEW r, Read(r), toServer' = toServer,
         ClientOK', Outcome(r),
         ~(call.step = "ABOR" /\ r.to \in Transfers /\ r.class # "aborted")
  PROVE  Exchange'
<1>a. /\ r \in Replies
      /\ Ends(0) => r = Lost /\ ~server.up /\ Ends(0)'
      /\ Ends(1) => r = toClient[1] /\ Ends(0)'
      /\ Ends(2) => r = toClient[1] /\ Ends(1)' /\ toClient'[1] = toClient[2]
      /\ server' = server
  <2>1. \A n \in Nat : Ends(n + 1) => toClient # << >> /\ r = toClient[1] /\ Ends(n)'
    BY ReplyRead
  <2>2. 0 \in Nat /\ 1 \in Nat /\ 0 + 1 = 1 /\ 1 + 1 = 2
    OBVIOUS
  <2> QED BY <2>1, <2>2, ReplyRead DEF Read
<1>b. /\ ~server.up => server.xfer = "none" /\ toServer = << >>
      /\ r = Lost => r.class = "closing" /\ r.to = "none"
  BY DEF Session, Lost, Reply
<1>c. ASSUME toServer = << >>, server.xfer = "none", Ends(0)', AtRest'
      PROVE  Exchange'
  BY <1>a, <1>c, AtRestIs DEF Quiet
<1>1. CASE AtRest
  BY <1>1 DEF AtRest, Reading, ClientOK, Kinds, NoCall, Commands, Transfers
<1>2. CASE call.wait /\ call.step # "ABOR" /\ call.step \in Commands /\ Commanded
  <2>1. CASE Ends(0) /\ server.xfer = "none"
    <3>1. AtRest'
      BY <1>2, <1>a, <1>b, <2>1 DEF Outcome
    <3> QED BY <1>a, <1>b, <1>c, <2>1, <3>1
  <2>2. CASE toServer = << >> /\ Ends(1) /\ server.xfer = "none" /\ Final(1, call.step)
    <3>1. AtRest'
      BY <1>2, <1>a, <2>2 DEF Outcome, Final
    <3> QED BY <1>a, <1>c, <2>2, <3>1
  <2>3. CASE /\ call.step \in Transfers /\ toServer = << >>
             /\ toClient[1] = Reply("prelim", call.step)
             /\ \/ Ends(1) /\ (server.up => server.xfer = call.step)
                \/ Ends(2) /\ server.xfer = "none" /\ Final(2, call.step)
    <3>1. PICK x \in Transfers : x = call.step
      BY <2>3
    <3>2. r.class = "prelim"
      BY <1>a, <2>3 DEF Reply
    <3>3. TransferBegun(x)'
      BY <2>3, <3>1, <3>2 DEF Outcome
    <3>4. CASE Ends(1) /\ (server.up => server.xfer = x)
      <4>1. Running(x)'
        BY <1>a, <2>3, <3>4 DEF Running
      <4> QED BY <3>3, <4>1, RunningIs
    <3>5. CASE Ends(2) /\ server.xfer = "none" /\ Final(2, x)
      <4>1. Running(x)'
        BY <1>a, <2>3, <3>5 DEF Running, Final
      <4> QED BY <3>3, <4>1, RunningIs
    <3> QED BY <2>3, <3>1, <3>4, <3>5
  <2> QED BY <1>2, <2>1, <2>2, <2>3 DEF Commanded
<1>3. ASSUME NEW x \in Transfers, Running(x),
             \/ call.op = "none" /\ fh \in {"linear", "stor"}
             \/ call.step \in {"LINES", "END", "GIVEUP"}
      PROVE  Exchange'
  <2>1. call.step \notin Transfers /\ call.step # "ABOR"
    BY <1>3 DEF Transfers, ClientOK, Kinds, NoCall
  <2>2. AtRest'
    BY <2>1 DEF Outcome
  <2> QED BY <1>a, <1>b, <1>c, <1>3, <2>2 DEF Running
<1>4. CASE call.step = "ABOR" /\ ~call.wait
  BY <1>4 DEF Reading
<1>5. CASE call.step = "ABOR" /\ call.wait /\ Aborting
  <2>1. call.step \notin Transfers
    BY <1>5 DEF Transfers
  <2>2. r.class # "aborted" => AtRest'
    BY <1>5, <2>1 DEF Outcome
  <2>3. r.class = "aborted" => call'.step = "ABOR2"
    BY <1>5, <2>1 DEF Outcome
  <2>4. CASE (server.up => toServer = <<AborMessage>>) /\ Ends(0)
             /\ server.xfer \in {"none", "RETR"}
    BY <1>a, <1>b, <1>c, <2>2, <2>4
  <2>5. CASE (server.up => toServer = <<AborMessage>>) /\ Ends(1)
             /\ server.xfer = "none" /\ Final(1, "RETR")
    <3>1. r.class = "aborted"
      BY <1>5, <1>a, <2>5 DEF Final, Transfers
    <3>2. SecondReply'
      BY <1>a, <2>5 DEF SecondReply, AborMessage
    <3> QED BY <2>3, <3>1, <3>2, SecondReplyIs
  <2>6. CASE toServer = << >> /\ server.xfer = "none" /\ Ends(1) /\ Aborted(1)
    BY <1>a, <1>c, <2>2, <2>6 DEF Aborted
  <2>7. CASE toServer = << >> /\ server.xfer = "none" /\ Ends(2)
             /\ Final(1, "RETR") /\ Aborted(2)
    <3>1. r.class = "aborted"
      BY <1>5, <1>a, <2>7 DEF Final, Transfers
    <3>2. SecondReply'
      BY <1>a, <2>7 DEF SecondReply, Aborted
    <3> QED BY <2>3, <3>1, <3>2, SecondReplyIs
  <2> QED BY <1>5, <2>4, <2>5, <2>6, <2>7 DEF Aborting
<1>6. CASE call.step = "ABOR2" /\ SecondReply
  <2>1. AtRest'
    BY <1>6 DEF Outcome, Transfers
  <2> QED BY <1>6, <1>a, <1>b, <1>c, <2>1 DEF SecondReply
<1> QED BY <1>1, <1>2, <1>3, <1>4, <1>5, <1>6, Points

LEMMA NothingAwaited ==
  ASSUME ClientOK', NEW r, Outcome(r)
  PROVE  ~call'.wait
<1>1. CASE AtRest'
  BY <1>1 DEF AtRest, ClientOK, Kinds, Rules, NoCall
<1>2. CASE call'.step = "ABOR2"
  BY <1>2 DEF ClientOK, Rules, Commands, Transfers
<1>3. CASE \E x \in Transfers : TransferBegun(x)'
  BY <1>3 DEF TransferBegun, ClientOK, Kinds, Rules, NoCall, Commands, Transfers
<1>4. call.step \in Transfers => \E x \in Transfers : x = call.step
  OBVIOUS
<1> QED BY <1>1, <1>2, <1>3, <1>4 DEF Outcome

LEMMA ReadKeepsBeliefs ==
  ASSUME ClientOK, WireTyped, Session, Beliefs,
         call.wait \/ call.step \in Reading,
         NEW r, Read(r), ClientOK', Outcome(r), Learned(sup, r)
  PROVE  Beliefs'
<1>1. ~call'.wait /\ server' = server
  BY NothingAwaited DEF Read
<1>2. \A c : ~Done(c)'
  BY <1>1 DEF Done
<1>3. ASSUME NEW c \in {"TYPE", "CWD"}, call.step = c
      PROVE  Done(c) <=> Good(r)
  <2>1. call.wait
    BY <1>3 DEF Reading
  <2>2. toClient # << >> => r = toClient[1]
    BY AfterReading DEF WireTyped, Read
  <2>3. toClient = << >> => ~Good(r)
    BY DEF Read, Lost, Reply, Good
  <2> QED BY <1>3, <2>1, <2>2, <2>3 DEF Done, Good
<1>4. /\ call.step = "TYPE" /\ Good(r) <=> Done("TYPE")
      /\ call.step = "CWD" /\ Good(r) <=> Done("CWD")
  BY <1>3 DEF Done
<1>5. /\ server.up /\ server.login =>
           /\ sup'.isbinary # "?" => server.type = sup'.isbinary
           /\ sup'.cwdir # NoDir => server.cwd = sup'.cwdir
  BY <1>4 DEF Beliefs, Learned
<1>6. call'.step \in Transfers => sup'.isbinary = TypeOf(call'.step)
  BY DEF Learned
<1> QED BY <1>1, <1>2, <1>5, <1>6 DEF Beliefs

(* A final reply that is good is told as such, and only then.              *)
LEMMA ReadKeepsReports ==
  ASSUME ClientOK, WireTyped, Session, Exchange, Reports,
         call.wait \/ call.step \in Reading,
         NEW r, Read(r), Learned(sup, r)
  PROVE  Reports'
<1>1. server' = server /\ \A k \in 1 .. Len(toClient') :
         k + 1 \in 1 .. Len(toClient) /\ toClient'[k] = toClient[k + 1]
  BY ReplyRead DEF Read
<1>2. \A k \in 1 .. Len(toClient') :
        /\ toClient'[k] = Reply("complete", "RETR") => server.sent
        /\ toClient'[k] = Reply("complete", "STOR") => server.file = "new"
  BY <1>1 DEF Reports
<1>3. ASSUME call.step = "END", Good(r)
      PROVE  r = Reply("complete", call.xfer) /\ 1 \in 1 .. Len(toClient) /\ r = toClient[1]
  <2>1. Running(call.xfer)
    BY <1>3 DEF Exchange
  <2>2. ~Ends(0)
    BY <1>3, ReplyRead DEF Good, Lost, Reply
  <2>3. Ends(1) /\ Final(1, call.xfer)
    BY <2>1, <2>2 DEF Running
  <2>4. r \in Replies /\ toClient # << >> /\ r = toClient[1]
    <3>1. Ends(0 + 1) => toClient # << >> /\ r = toClient[1]
      BY ReplyRead
    <3> QED BY <2>3, <3>1, ReplyRead
  <2>5. r.to = call.xfer
    BY <2>3, <2>4 DEF Final
  <2> QED BY <1>3, <2>4, <2>5 DEF Replies, Good, Reply, WireTyped
<1>4. told' = "downloaded" => server.sent
  <2> SUFFICES ASSUME told' = "downloaded" PROVE server.sent
    OBVIOUS
  <2>1. call.step = "END" /\ Good(r) /\ call.xfer = "RETR"
    BY DEF Learned
  <2> QED BY <1>3, <2>1 DEF Reports
<1>5. told' = "uploaded" => server.file = "new"
  <2> SUFFICES ASSUME told' = "uploaded" PROVE server.file = "new"
    OBVIOUS
  <2>1. call.step = "END" /\ Good(r) /\ call.xfer = "STOR"
    BY DEF Learned
  <2> QED BY <1>3, <2>1 DEF Reports
<1> QED BY <1>1, <1>2, <1>4, <1>5 DEF Reports, ReportsAreTrue

(* ftpfs_get_reply and what is done with the reply.                        *)
LEMMA ReplyStep ==
  ASSUME IInv, call.wait \/ call.step \in Reading,
         NEW r, Read(r), Proceed(sup, r), toServer' = toServer,
         late' = (late \/ (call.step = "ABOR" /\ r.to \in Transfers
                           /\ r.class # "aborted"))
  PROVE  IInv'
<1>1. call.step \in Commands \cup Reading
  BY DEF IInv, ClientOK, Rules
<1>2. Remembers(sup)
  BY DEF Remembers, IInv, ClientOK, ClientTyped
<1>3. ClientOK' /\ Outcome(r) /\ Learned(sup, r)
  BY <1>1, <1>2, ProceedHandles, HandledIsRight DEF IInv
<1>4. WireTyped' /\ Session'
  <2>1. toClient' \in Seq(Replies) /\ server' = server
    BY ReplyRead DEF IInv, Read
  <2>2. late' \in BOOLEAN
    BY DEF IInv, WireTyped
  <2> QED BY <2>1, <2>2 DEF IInv, WireTyped, Session
<1>5. ASSUME ~late'
      PROVE  InOrder'
  <2>1. /\ ClientOK /\ WireTyped /\ Session /\ Exchange /\ Beliefs /\ Reports
        /\ ~(call.step = "ABOR" /\ r.to \in Transfers /\ r.class # "aborted")
    BY <1>5 DEF IInv, InOrder
  <2>2. Exchange'
    BY <1>3, <2>1, ReadKeepsExchange
  <2>3. Beliefs'
    BY <1>3, <2>1, ReadKeepsBeliefs
  <2>4. Reports'
    BY <1>3, <2>1, ReadKeepsReports
  <2> QED BY <2>2, <2>3, <2>4 DEF InOrder
<1> QED BY <1>3, <1>4, <1>5 DEF IInv

-----------------------------------------------------------------------------
(* A new session: nothing is on its way, and the client trusts nothing it  *)
(* did not set in it.                                                      *)
LEMMA LoginIs ==
  ASSUME WireTyped, NEW ok \in BOOLEAN, NEW cwd \in Dirs \cup {Home}, Login(ok, cwd)
  PROVE  /\ server' \in ServerRec /\ server'.up = TRUE /\ server'.login = ok
         /\ server'.cwd = cwd /\ server'.data = "none" /\ server'.xfer = "none"
         /\ toClient' = << >> /\ Len(toClient') = 0 /\ late' = FALSE
         /\ toClient' \in Seq(Replies) /\ Ends(0)'
BY DEF WireTyped, Login, NewSession, ServerRec, Ends

LEMMA LoggedInIs ==
  ASSUME ClientOK
  PROVE  /\ LoggedIn(sup) \in SupRec /\ LoggedIn(sup).busy = sup.busy
         /\ LoggedIn(sup).cwdir = sup.cwdir /\ LoggedIn(sup).isbinary = "?"
         /\ OldDir \in Dirs \cup {Home}
         /\ sup.cwdir # NoDir => OldDir = sup.cwdir
         /\ Remembers(LoggedIn(sup))
         /\ Remembers([LoggedIn(sup) EXCEPT !.cwdir = NoDir])
         /\ [LoggedIn(sup) EXCEPT !.cwdir = NoDir].cwdir = NoDir
         /\ [LoggedIn(sup) EXCEPT !.cwdir = NoDir].isbinary = "?"
BY DEF ClientOK, ClientTyped, SupRec, LoggedIn, OldDir, Remembers

LEMMA MessageIs ==
  ASSUME ClientOK, call.step \in Commands
  PROVE  /\ Message \in Messages /\ Message.name = call.step
         /\ call.step = "ABOR" => Message = AborMessage
         /\ call.step = "CWD" => Message.arg = call.dir
         /\ call.step = "TYPE" => Message.arg = TypeOf(call.xfer)
<1>1. call.step = "CWD" => call.dir \in Dirs
  BY DEF ClientOK, ClientTyped, CallRec, Kinds, Lookup, NoCall, Ops, DataSteps
<1>2. TypeOf(call.xfer) \in {"A", "I"}
  BY DEF TypeOf
<1>3. CASE call.step = "CWD"
  <2>1. Message = [name |-> "CWD", arg |-> call.dir]
    BY <1>3 DEF Message
  <2> QED BY <1>1, <1>3, <2>1 DEF Messages
<1>4. CASE call.step = "TYPE"
  <2>1. Message = [name |-> "TYPE", arg |-> TypeOf(call.xfer)]
    BY <1>4 DEF Message
  <2> QED BY <1>2, <1>4, <2>1 DEF Messages
<1>5. CASE call.step \notin {"CWD", "TYPE"}
  <2>1. Message = [name |-> call.step, arg |-> NoDir]
    BY <1>5 DEF Message
  <2> QED BY <1>5, <2>1 DEF Messages, AborMessage
<1> QED BY <1>3, <1>4, <1>5

(* A login after which the call rests, whatever it was.                    *)
LEMMA RestAfterLogin ==
  ASSUME IInv, NEW ok \in BOOLEAN, NEW cwd \in Dirs \cup {Home}, Login(ok, cwd),
         toServer' = << >>, ClientOK', AtRest', told' = "nothing",
         sup'.isbinary = "?", ok => sup'.cwdir \in {cwd, NoDir}
  PROVE  IInv'
<1>1. /\ server' \in ServerRec /\ server'.up = TRUE /\ server'.login = ok
      /\ server'.cwd = cwd /\ server'.data = "none" /\ server'.xfer = "none"
      /\ toClient' = << >> /\ Len(toClient') = 0 /\ late' = FALSE
      /\ toClient' \in Seq(Replies) /\ Ends(0)'
  BY LoginIs DEF IInv
<1>2. WireTyped' /\ Session'
  <2>1. << >> \in Seq(Messages)
    OBVIOUS
  <2>2. late' \in BOOLEAN /\ toServer' \in Seq(Messages)
    BY <1>1, <2>1
  <2> QED BY <1>1, <2>2 DEF WireTyped, Session
<1>3. Exchange'
  BY <1>1, AtRestIs DEF Quiet
<1>4. Beliefs'
  BY <1>1 DEF Beliefs, Done
<1>5. Reports'
  BY <1>1 DEF Reports, ReportsAreTrue
<1> QED BY <1>1, <1>2, <1>3, <1>4, <1>5 DEF IInv, InOrder

LEMMA ResumedStep ==
  ASSUME IInv, call.step \in Commands, Resumed
  PROVE  IInv'
<1>1. /\ sup' = LoggedIn(sup) /\ call' = [call EXCEPT !.wait = TRUE]
      /\ toServer' = <<Message>> /\ Login(TRUE, OldDir)
      /\ UNCHANGED <<fh, cached, told, crashed>>
  BY DEF Resumed
<1>2. /\ LoggedIn(sup) \in SupRec /\ LoggedIn(sup).busy = sup.busy
      /\ LoggedIn(sup).cwdir = sup.cwdir /\ LoggedIn(sup).isbinary = "?"
      /\ OldDir \in Dirs \cup {Home} /\ (sup.cwdir # NoDir => OldDir = sup.cwdir)
  BY LoggedInIs DEF IInv
<1>3. /\ call' \in CallRec /\ call'.op = call.op /\ call'.dir = call.dir
      /\ call'.xfer = call.xfer /\ call'.step = call.step /\ call'.wait = TRUE
  BY <1>1 DEF IInv, ClientOK, ClientTyped, CallRec
<1>4. told = "nothing" /\ call.op # "none" /\ sup.busy = FALSE
  BY InACall DEF IInv
<1>5. ClientOK'
  <2>1. ClientTyped'
    BY <1>1, <1>2, <1>3 DEF IInv, ClientOK, ClientTyped
  <2>2. Kinds'
    BY <1>1, <1>3, <1>4 DEF IInv, ClientOK, Kinds, Lookup
  <2>3. Rules'
    BY <1>1, <1>2, <1>3, <1>4 DEF IInv, ClientOK, Rules
  <2> QED BY <2>1, <2>2, <2>3 DEF ClientOK
<1>6. /\ server' \in ServerRec /\ server'.up = TRUE /\ server'.login = TRUE
      /\ server'.cwd = OldDir /\ server'.data = "none" /\ server'.xfer = "none"
      /\ toClient' = << >> /\ Len(toClient') = 0 /\ late' = FALSE
      /\ toClient' \in Seq(Replies) /\ Ends(0)'
  BY <1>1, <1>2, LoginIs DEF IInv
<1>7. /\ Message \in Messages /\ Message.name = call.step
      /\ call.step = "ABOR" => Message = AborMessage
  BY MessageIs DEF IInv
<1>8. WireTyped' /\ Session'
  <2>1. toServer' \in Seq(Messages)
    BY <1>1, <1>7
  <2> QED BY <1>6, <2>1 DEF WireTyped, Session
<1>9. Exchange'
  <2>1. CASE call.step = "ABOR"
    <3>1. Aborting'
      BY <1>1, <1>6, <1>7, <2>1 DEF Aborting, AborMessage
    <3> QED BY <1>3, <1>5, <2>1, <3>1, AbortIs
  <2>2. CASE call.step # "ABOR"
    <3>1. Message' = Message
      BY <1>3 DEF Message
    <3>2. Commanded'
      BY <1>1, <1>6, <3>1 DEF Commanded
    <3> QED BY <1>3, <1>5, <2>2, <3>2, CommandedIs
  <2> QED BY <2>1, <2>2
<1>10. Beliefs'
  BY <1>1, <1>2, <1>6 DEF Beliefs, Done
<1>11. Reports'
  BY <1>1, <1>4, <1>6 DEF Reports, ReportsAreTrue
<1> QED BY <1>5, <1>6, <1>8, <1>9, <1>10, <1>11 DEF IInv, InOrder

(* Without a new session, or with one that is of no use.                   *)
LEMMA LostIs ==
  ASSUME IInv, call.step \in Commands, NEW s, Remembers(s), Proceed(s, Lost)
  PROVE  /\ ClientOK' /\ AtRest' /\ told' = "nothing"
         /\ sup'.isbinary = s.isbinary /\ sup'.cwdir = s.cwdir
<1>1. Lost.class = "closing"
  BY DEF Lost, Reply
<1>2. ClientOK' /\ Outcome(Lost) /\ Learned(s, Lost)
  BY ProceedHandles, HandledIsRight DEF IInv
<1> QED BY <1>1, <1>2 DEF Outcome, Learned, Good

LEMMA NotResumedStep ==
  ASSUME IInv, call.step \in Commands, NotResumed,
         late \/ AbortLeavesReply \/ (Quiet /\ ~server.up)
  PROVE  IInv'
<1>1. CASE /\ Proceed(sup, Lost) /\ UNCHANGED <<server, toServer, toClient>>
           /\ late' = (late \/ AbortLeavesReply)
  <2>1. Remembers(sup)
    BY DEF Remembers, IInv, ClientOK, ClientTyped
  <2>2. ClientOK' /\ AtRest' /\ told' = "nothing"
    BY <1>1, <2>1, LostIs
  <2>3. WireTyped' /\ Session'
    BY <1>1 DEF IInv, WireTyped, Session, AbortLeavesReply
  <2>4. ASSUME ~late'
        PROVE  InOrder'
    <3>1. Quiet /\ ~server.up /\ Reports
      BY <1>1, <2>4 DEF IInv, InOrder
    <3>2. Quiet'
      BY <1>1, <3>1 DEF Quiet, Ends
    <3>3. Exchange'
      BY <2>2, <3>2, AtRestIs
    <3>4. Beliefs'
      BY <1>1, <3>1 DEF Beliefs, Quiet
    <3>5. Reports'
      BY <1>1, <2>2, <3>1 DEF Reports, ReportsAreTrue
    <3> QED BY <3>3, <3>4, <3>5 DEF InOrder
  <2> QED BY <2>2, <2>3, <2>4 DEF IInv
<1>2. CASE toServer' = << >> /\ Login(FALSE, Home) /\ Proceed(LoggedIn(sup), Lost)
  <2>1. Remembers(LoggedIn(sup)) /\ LoggedIn(sup).isbinary = "?"
    BY LoggedInIs DEF IInv
  <2>2. ClientOK' /\ AtRest' /\ told' = "nothing" /\ sup'.isbinary = "?"
    BY <1>2, <2>1, LostIs
  <2> QED BY <1>2, <2>2, RestAfterLogin
<1>3. CASE /\ toServer' = << >> /\ Login(TRUE, Home)
           /\ Proceed([LoggedIn(sup) EXCEPT !.cwdir = NoDir], Lost)
  <2> DEFINE s == [LoggedIn(sup) EXCEPT !.cwdir = NoDir]
  <2>1. Remembers(s) /\ s.isbinary = "?" /\ s.cwdir = NoDir
    BY LoggedInIs DEF IInv
  <2>2. Proceed(s, Lost)
    BY <1>3
  <2> HIDE DEF s
  <2>3. /\ ClientOK' /\ AtRest' /\ told' = "nothing"
        /\ sup'.isbinary = "?" /\ sup'.cwdir = NoDir
    BY <2>1, <2>2, LostIs
  <2> QED BY <1>3, <2>3, RestAfterLogin
<1> QED BY <1>1, <1>2, <1>3 DEF NotResumed

LEMMA ReconnectStep ==
  ASSUME IInv, call.step \in Commands, Reconnect,
         late \/ AbortLeavesReply \/ (Quiet /\ ~server.up)
  PROVE  IInv'
BY ResumedStep, NotResumedStep DEF Reconnect
(* ftpfs_command writes to a connection that is there, or to one that has  *)
(* gone without notice, or finds it gone.                                  *)
LEMMA BeforeSending ==
  ASSUME ClientOK, Exchange, call.step \in Commands, ~call.wait
  PROVE  IF call.step = "ABOR" THEN Quiet \/ Running("RETR") ELSE Quiet
BY DEF Exchange, AtRest

LEMMA SendStep == ASSUME IInv, Send PROVE IInv'
<1>1. call.step \in Commands /\ ~call.wait
  BY DEF Send
<1>2. CASE /\ call' = [call EXCEPT !.wait = TRUE]
           /\ toServer' = IF server.up THEN Append(toServer, Message) ELSE toServer
           /\ UNCHANGED <<sup, fh, cached, told, crashed, server, toClient, late, budget>>
  <2>1. /\ call' \in CallRec /\ call'.op = call.op /\ call'.dir = call.dir
        /\ call'.xfer = call.xfer /\ call'.step = call.step /\ call'.wait = TRUE
    BY <1>2 DEF IInv, ClientOK, ClientTyped, CallRec
  <2>2. told = "nothing" /\ call.op # "none" /\ sup.busy = FALSE
    BY <1>1, InACall DEF IInv
  <2>3. ClientOK'
    <3>1. ClientTyped'
      BY <1>2, <2>1 DEF IInv, ClientOK, ClientTyped
    <3>2. Kinds'
      BY <1>2, <2>1, <2>2 DEF IInv, ClientOK, Kinds, Lookup
    <3>3. Rules'
      BY <1>1, <1>2, <2>1, <2>2 DEF IInv, ClientOK, Rules
    <3> QED BY <3>1, <3>2, <3>3 DEF ClientOK
  <2>4. /\ Message \in Messages /\ Message.name = call.step
        /\ call.step = "ABOR" => Message = AborMessage
    BY <1>1, MessageIs DEF IInv
  <2>5. WireTyped' /\ Session'
    <3>1. toServer' \in Seq(Messages)
      BY <1>2, <2>4 DEF IInv, WireTyped
    <3> QED BY <1>2, <3>1 DEF IInv, WireTyped, Session
  <2>6. ASSUME ~late'
        PROVE  InOrder'
    <3>1. Exchange /\ Beliefs /\ Reports
      BY <1>2, <2>6 DEF IInv, InOrder
    <3>2. IF call.step = "ABOR" THEN Quiet \/ Running("RETR") ELSE Quiet
      BY <1>1, <3>1, BeforeSending DEF IInv
    <3>3. toServer = << >> /\ (server.up => toServer' = <<Message>>)
          /\ (~server.up => toServer' = << >>)
      <4>1. toServer = << >>
        BY <3>2 DEF Quiet, Running
      <4>2. Append(<< >>, Message) = <<Message>>
        BY <2>4
      <4> QED BY <1>2, <4>1, <4>2
    <3>4. ASSUME call.step = "ABOR" PROVE Exchange'
      <4>1. AborMessage' = AborMessage /\ Message = AborMessage
        BY <2>4, <3>4 DEF AborMessage
      <4>2. Quiet => Aborting'
        BY <1>2, <3>3, <4>1 DEF Aborting, Quiet, Ends
      <4>3. Running("RETR") => Aborting'
        BY <1>2, <3>3, <4>1 DEF Aborting, Running, Ends, Final, IInv, Session
      <4>4. call'.step = "ABOR" /\ call'.wait
        BY <2>1, <3>4
      <4> QED BY <2>3, <3>2, <3>4, <4>2, <4>3, <4>4, AbortIs
    <3>5. ASSUME call.step # "ABOR" PROVE Exchange'
      <4>1. Message' = Message
        BY <2>1 DEF Message
      <4>2. Commanded'
        BY <1>2, <3>2, <3>3, <3>5, <4>1 DEF Commanded, Quiet, Ends
      <4>3. call'.step # "ABOR" /\ call'.wait
        BY <2>1, <3>5
      <4> QED BY <2>3, <4>2, <4>3, CommandedIs
    <3>6. call.step # "ABOR" => \A c : ~Done(c)'
      BY <1>2, <3>2 DEF Done, Quiet, Ends, Lost, Reply
    <3>7. Beliefs'
      <4>1. ~Done("TYPE")' /\ ~Done("CWD")'
        BY <2>1, <3>6 DEF Done
      <4>2. ~Done("TYPE") /\ ~Done("CWD")
        BY <1>1 DEF Done
      <4> QED BY <1>2, <2>1, <3>1, <4>1, <4>2 DEF Beliefs
    <3>8. Reports'
      BY <1>2, <2>2, <3>1 DEF Reports, ReportsAreTrue
    <3> QED BY <3>4, <3>5, <3>7, <3>8 DEF InOrder
  <2> QED BY <2>3, <2>5, <2>6 DEF IInv
<1>3. CASE ~server.up /\ Reconnect
  <2>1. late \/ AbortLeavesReply \/ Quiet
    <3>1. SUFFICES ASSUME ~late, ~AbortLeavesReply PROVE Quiet
      OBVIOUS
    <3>2. IF call.step = "ABOR" THEN Quiet \/ Running("RETR") ELSE Quiet
      BY <1>1, <3>1, BeforeSending DEF IInv, InOrder
    <3>3. call.step = "ABOR" => toClient = << >>
      BY <3>1 DEF AbortLeavesReply
    <3>4. server.xfer = "none"
      BY <1>3 DEF IInv, Session
    <3> QED BY <3>2, <3>3, <3>4 DEF Quiet, Running, Ends
  <2> QED BY <1>1, <1>3, <2>1, ReconnectStep
<1> QED BY <1>2, <1>3 DEF Send

(* ftpfs_get_reply: a connection found closed is replaced only for a       *)
(* command that asked for the text of its reply.                           *)
LEMMA GetReplyStep == ASSUME IInv, GetReply PROVE IInv'
<1>1. call.wait \/ call.step \in Reading
  BY DEF GetReply
<1>2. toClient # << >> \/ ~server.up
  BY DEF GetReply
<1> DEFINE r == IF toClient = << >> THEN Lost ELSE Head(toClient)
<1>3. CASE r.class = "closing" /\ call.step \in {"EPSV", "PASV"}
  <2>1. Reconnect
    BY <1>3 DEF GetReply
  <2>2. call.step \in Commands /\ call.step # "ABOR" /\ call.wait
    BY <1>1, <1>3 DEF Commands, Reading
  <2>3. ASSUME ~late PROVE Quiet /\ ~server.up
    <3>1. Commanded /\ WireTyped /\ Session
      BY <2>2, <2>3 DEF IInv, InOrder, Exchange
    <3>2. toClient # << >> => r = toClient[1]
      BY <3>1 DEF WireTyped
    <3>3. CASE Ends(0) /\ server.xfer = "none"
      <4>1. ~server.up
        BY <1>2, <3>1, <3>3 DEF Ends, WireTyped
      <4> QED BY <3>1, <3>3, <4>1 DEF Quiet, Session
    <3>4. CASE Ends(1) /\ Final(1, call.step)
      <4>1. toClient # << >>
        BY <3>4 DEF Ends
      <4> QED BY <1>3, <3>2, <3>4, <4>1 DEF Final
    <3>5. call.step \notin Transfers
      BY <1>3 DEF Transfers
    <3> QED BY <3>1, <3>3, <3>4, <3>5 DEF Commanded
  <2> QED BY <2>1, <2>2, <2>3, ReconnectStep
<1>4. CASE ~(r.class = "closing" /\ call.step \in {"EPSV", "PASV"})
  <2>1. Proceed(sup, r) /\ Read(r) /\ toServer' = toServer
        /\ late' = (late \/ (call.step = "ABOR" /\ r.to \in Transfers
                             /\ r.class # "aborted"))
    BY <1>2, <1>4 DEF GetReply, Read
  <2> HIDE DEF r
  <2> QED BY <1>1, <2>1, ReplyStep
<1> QED BY <1>3, <1>4

-----------------------------------------------------------------------------
(* Steps of the client between replies: nothing is sent or read.           *)
SameWire ==
  /\ \/ server' = server \/ CutData
  /\ toServer' = toServer /\ toClient' = toClient

LEMMA SameWireIs ==
  ASSUME WireTyped, Session, SameWire
  PROVE  /\ server' \in ServerRec /\ server'.up = server.up /\ server'.xfer = server.xfer
         /\ server'.login = server.login /\ server'.cwd = server.cwd
         /\ server'.type = server.type /\ server'.sent = server.sent
         /\ server'.file = server.file
         /\ server'.data = "ready" <=> server.data = "ready"
         /\ Quiet => Quiet'
         /\ \A x : Running(x) => Running(x)'
<1>1. /\ server' \in ServerRec /\ server'.up = server.up /\ server'.xfer = server.xfer
      /\ server'.login = server.login /\ server'.cwd = server.cwd
      /\ server'.type = server.type /\ server'.sent = server.sent
      /\ server'.file = server.file
      /\ server'.data = "ready" <=> server.data = "ready"
  BY DEF WireTyped, ServerRec, SameWire, CutData
<1>2. \A n \in {0, 1} : Ends(n) => Ends(n)'
  BY <1>1 DEF SameWire, Ends, Lost, Reply
<1>3. Quiet => Quiet'
  BY <1>1, <1>2 DEF SameWire, Quiet
<1>4. \A x : Running(x) => Running(x)'
  BY <1>1, <1>2 DEF SameWire, Running, Final
<1> QED BY <1>1, <1>3, <1>4

LEMMA CallStep ==
  ASSUME IInv, SameWire, ClientOK', late' \in BOOLEAN,
         ~late' => ~late /\ Exchange',
         ~call.wait, ~call'.wait, call'.step \notin Transfers,
         sup'.cwdir = sup.cwdir, sup'.isbinary = sup.isbinary, told' \in {told, "nothing"}
  PROVE  IInv'
<1>1. /\ server' \in ServerRec /\ server'.up = server.up /\ server'.xfer = server.xfer
      /\ server'.login = server.login /\ server'.cwd = server.cwd
      /\ server'.type = server.type /\ server'.sent = server.sent
      /\ server'.file = server.file
  BY SameWireIs DEF IInv
<1>2. WireTyped' /\ Session'
  BY <1>1 DEF IInv, WireTyped, Session, SameWire
<1>3. ASSUME ~late' PROVE InOrder'
  <2>1. Exchange' /\ Beliefs /\ Reports
    BY <1>3 DEF IInv, InOrder
  <2>2. \A c : ~Done(c) /\ ~Done(c)'
    BY DEF Done
  <2>3. Beliefs'
    BY <1>1, <2>1, <2>2 DEF Beliefs
  <2>4. ReportsAreTrue'
    BY <1>1, <1>3, <2>1 DEF Reports, ReportsAreTrue
  <2>5. Reports'
    BY <1>1, <2>1, <2>4 DEF Reports, SameWire
  <2> QED BY <2>1, <2>3, <2>5 DEF InOrder
<1> QED BY <1>2, <1>3 DEF IInv

LEMMA IdleIs ==
  ASSUME ClientOK, Idle
  PROVE  /\ call = NoCall /\ ~call.wait /\ crashed = FALSE
         /\ NoCall \in CallRec
         /\ NoCall.op = "none" /\ NoCall.step = "none" /\ NoCall.wait = FALSE
         /\ NoCall.xfer = "none" /\ NoCall.dir = NoDir
BY DEF ClientOK, ClientTyped, Kinds, Idle, NoCall, CallRec, Ops

(* A call begins at a point where nothing is on its way, and rests there.  *)
LEMMA BeginsAtRest ==
  ASSUME IInv, Idle, fh \notin {"linear", "stor"}, SameWire, late' = late,
         sup' = sup, told' \in {told, "nothing"},
         ClientOK', AtRest', ~call'.wait, call'.step \notin Transfers
  PROVE  IInv'
<1>1. ~call.wait
  BY IdleIs DEF IInv
<1>2. ~late' => ~late /\ Exchange'
  <2> SUFFICES ASSUME ~late' PROVE ~late /\ Exchange'
    OBVIOUS
  <2>1. ~late /\ Exchange
    BY DEF IInv, InOrder
  <2>2. Quiet
    BY <2>1 DEF Exchange, AtRest, Idle
  <2>3. Quiet'
    BY <2>2, SameWireIs DEF IInv
  <2> QED BY <2>1, <2>3, AtRestIs
<1>3. late' \in BOOLEAN
  BY DEF IInv, WireTyped
<1> QED BY <1>1, <1>2, <1>3, CallStep

LEMMA StartStep ==
  ASSUME IInv, NEW op \in {"opendir", "download", "upload"}, NEW d \in Dirs, Start(op, d)
  PROVE  IInv'
<1> DEFINE step == IF d \in cached THEN "FOUND" ELSE LoadStep(sup, d)
<1>1. /\ Idle /\ fh = "none" /\ fh' = "none" /\ told' = "nothing" /\ sup' = sup
      /\ call' = [NoCall EXCEPT !.op = op, !.dir = d, !.xfer = "LIST", !.step = step]
      /\ cached' = cached /\ crashed' = crashed
      /\ server' = server /\ toServer' = toServer /\ toClient' = toClient /\ late' = late
  BY DEF Start
<1>2. step \in {"FOUND", "CWD", "EPSV", "EPRT"}
      /\ (step \in {"EPSV", "EPRT"} => sup.cwdir = d)
  BY DEF LoadStep, DataStep
<1> HIDE DEF step
<1>3. /\ call' \in CallRec /\ call'.op = op /\ call'.dir = d /\ call'.xfer = "LIST"
      /\ call'.step = step /\ call'.wait = FALSE
  BY <1>1, <1>2 DEF NoCall, CallRec, Ops, Commands, Transfers
<1>4. ClientOK'
  <2>1. ClientTyped'
    BY <1>1, <1>3 DEF IInv, ClientOK, ClientTyped
  <2>2. Kinds'
    BY <1>1, <1>2, <1>3 DEF Kinds, Lookup, DataSteps
  <2>3. sup.busy => fh = "linear"
    BY DEF IInv, ClientOK, Rules
  <2>4. Rules'
    BY <1>1, <1>2, <1>3, <2>3, IdleIs DEF IInv, Rules, DataSteps, ListSteps
  <2> QED BY <2>1, <2>2, <2>4 DEF ClientOK
<1>5. AtRest' /\ call'.step \notin Transfers
  BY <1>2, <1>3 DEF AtRest, Commands, Transfers
<1> QED BY <1>1, <1>3, <1>4, <1>5, BeginsAtRest DEF SameWire

LEMMA StartCommandStep ==
  ASSUME IInv, NEW op, NEW step, StartCommand(op, step),
         \/ op = "delete" /\ step = "DELE"
         \/ op = "rename" /\ step = "RNFR"
  PROVE  IInv'
<1>1. /\ Idle /\ fh = "none" /\ fh' = "none" /\ told' = "nothing" /\ sup' = sup
      /\ call' = [NoCall EXCEPT !.op = op, !.step = step]
      /\ cached' = cached /\ crashed' = crashed
      /\ server' = server /\ toServer' = toServer /\ toClient' = toClient /\ late' = late
  BY DEF StartCommand
<1>2. /\ call' \in CallRec /\ call'.op = op /\ call'.xfer = "none"
      /\ call'.step = step /\ call'.wait = FALSE
  BY <1>1 DEF NoCall, CallRec, Ops, Commands, Transfers
<1>3. ClientOK'
  <2>1. sup.busy => fh = "linear"
    BY DEF IInv, ClientOK, Rules
  <2>2. ClientTyped'
    BY <1>1, <1>2 DEF IInv, ClientOK, ClientTyped
  <2>3. Kinds' /\ Rules'
    BY <1>1, <1>2, <2>1, IdleIs DEF IInv, Kinds, Rules
  <2> QED BY <2>2, <2>3 DEF ClientOK
<1>4. AtRest' /\ call'.step \notin Transfers
  BY <1>2 DEF AtRest, Commands, Transfers
<1> QED BY <1>1, <1>2, <1>3, <1>4, BeginsAtRest DEF SameWire

LEMMA LinearStartStep == ASSUME IInv, LinearStart PROVE IInv'
<1>1. /\ Idle /\ fh = "preopen" /\ fh' = "preopen" /\ told' = told /\ sup' = sup
      /\ call' = [NoCall EXCEPT !.op = "read", !.xfer = "RETR", !.step = DataStep(sup)]
      /\ cached' = cached /\ crashed' = crashed
      /\ server' = server /\ toServer' = toServer /\ toClient' = toClient /\ late' = late
  BY DEF LinearStart
<1>2. DataStep(sup) \in {"EPSV", "EPRT"}
  BY DEF DataStep
<1>3. /\ call' \in CallRec /\ call'.op = "read" /\ call'.xfer = "RETR"
      /\ call'.step = DataStep(sup) /\ call'.wait = FALSE
  BY <1>1, <1>2 DEF NoCall, CallRec, Ops, Commands, Transfers
<1>4. ClientOK'
  <2>1. (sup.busy => fh = "linear") /\ told = "nothing"
    BY <1>1 DEF IInv, ClientOK, Rules
  <2>2. ClientTyped'
    BY <1>1, <1>3 DEF IInv, ClientOK, ClientTyped
  <2>3. Kinds' /\ Rules'
    BY <1>1, <1>2, <1>3, <2>1, IdleIs DEF IInv, Kinds, Rules, DataSteps
  <2> QED BY <2>2, <2>3 DEF ClientOK
<1>5. AtRest' /\ call'.step \notin Transfers
  BY <1>2, <1>3 DEF AtRest, Commands, Transfers
<1> QED BY <1>1, <1>3, <1>4, <1>5, BeginsAtRest DEF SameWire

LEMMA CloseFileStep == ASSUME IInv, CloseFile PROVE IInv'
<1>1. /\ Idle /\ fh \in {"preopen", "ended", "failed"} /\ fh' = "none"
      /\ sup' = sup /\ call' = call /\ told' = told
      /\ cached' = cached /\ crashed' = crashed
      /\ server' = server /\ toServer' = toServer /\ toClient' = toClient /\ late' = late
  BY DEF CloseFile
<1>2. call = NoCall
  BY <1>1, IdleIs DEF IInv
<1>3. ClientOK' /\ AtRest'
  BY <1>1, <1>2, EndsAreRight DEF IInv, ClientOK, ClientTyped, Rules
<1>4. ~call'.wait /\ call'.step \notin Transfers
  BY <1>1, <1>2 DEF NoCall, Transfers
<1> QED BY <1>1, <1>3, <1>4, BeginsAtRest DEF SameWire

LEMMA ExpireStep == ASSUME IInv, Expire PROVE IInv'
<1>1. /\ Idle /\ cached' \subseteq cached
      /\ sup' = sup /\ call' = call /\ told' = told /\ fh' = fh
      /\ crashed' = crashed
      /\ server' = server /\ toServer' = toServer /\ toClient' = toClient /\ late' = late
  BY DEF Expire
<1>2. ClientOK'
  BY <1>1 DEF IInv, ClientOK, ClientTyped, Kinds, Lookup, Rules
<1>3. ~call.wait /\ ~call'.wait /\ call'.step \notin Transfers
  BY <1>1, IdleIs DEF IInv, Transfers
<1>4. late' \in BOOLEAN
  BY <1>1 DEF IInv, WireTyped
<1>5. ~late' => ~late /\ Exchange'
  BY <1>1 DEF IInv, InOrder, Exchange, AtRest, Quiet, Running, Ends, Final, Commanded,
              Aborting, Aborted, SecondReply, Message
<1> QED BY <1>1, <1>2, <1>3, <1>4, <1>5, CallStep DEF SameWire

LEMMA FoundStep == ASSUME IInv, Found PROVE IInv'
<1>1. /\ call.step = "FOUND" /\ sup' = sup /\ cached' = cached /\ told' = told
      /\ crashed' = crashed
      /\ fh' = IF call.op = "download" THEN "preopen" ELSE fh
      /\ call' = IF call.op = "upload" THEN [At(DataStep(sup)) EXCEPT !.xfer = "STOR"]
                 ELSE NoCall
      /\ server' = server /\ toServer' = toServer /\ toClient' = toClient /\ late' = late
  BY DEF Found, Looked
<1>2. /\ call.op \in {"opendir", "download", "upload"} /\ fh = "none" /\ ~call.wait
  BY <1>1 DEF IInv, ClientOK, ClientTyped, Kinds, Rules, NoCall, CallRec, Ops, Commands,
              Transfers, DataSteps
<1>3. told = "nothing" /\ crashed = FALSE /\ sup.busy = FALSE /\ sup \in SupRec
      /\ cached \subseteq Dirs
  BY <1>2 DEF IInv, ClientOK, ClientTyped, Rules, SupRec
<1>4. ClientOK' /\ AtRest' /\ call'.step \notin Transfers
  BY <1>1, <1>2, <1>3, DirectoryKnown DEF IInv
<1>5. ~call'.wait
  BY <1>4 DEF AtRest, ClientOK, Kinds, NoCall
<1>6. ~late' => ~late /\ Exchange'
  <2> SUFFICES ASSUME ~late' PROVE ~late /\ Exchange'
    OBVIOUS
  <2>1. Quiet /\ ~late
    BY <1>1, <1>2 DEF IInv, InOrder, Exchange, AtRest
  <2>2. Quiet'
    BY <1>1, <2>1, SameWireIs DEF IInv, SameWire
  <2> QED BY <1>4, <2>1, <2>2, AtRestIs
<1>7. late' \in BOOLEAN
  BY <1>1 DEF IInv, WireTyped
<1> QED BY <1>1, <1>2, <1>4, <1>5, <1>6, <1>7, CallStep DEF SameWire

(* The call goes on while a transfer is running.                           *)
LEMMA StillRunning ==
  ASSUME IInv, NEW x \in Transfers, ~late => Running(x), SameWire, ClientOK', late' = late,
         ~call.wait, ~call'.wait, call'.step \in {"LINES", "END", "GIVEUP"},
         call'.xfer = x, told' \in {told, "nothing"},
         sup'.cwdir = sup.cwdir, sup'.isbinary = sup.isbinary
  PROVE  IInv'
<1>1. ~late' => ~late /\ Exchange'
  <2> SUFFICES ASSUME ~late' PROVE ~late /\ Exchange'
    OBVIOUS
  <2>1. Running(x)'
    BY SameWireIs DEF IInv
  <2> QED BY <2>1, RunningIs
<1>2. late' \in BOOLEAN /\ call'.step \notin Transfers
  BY DEF IInv, WireTyped, Transfers
<1> QED BY <1>1, <1>2, CallStep

LEMMA DataEndsStep == ASSUME IInv, DataEnds PROVE IInv'
<1>0. /\ fh' = fh /\ cached' = cached /\ told' = told /\ crashed' = crashed
      /\ server' = server /\ toServer' = toServer /\ toClient' = toClient /\ late' = late
  BY DEF DataEnds
<1>1. CASE call.step = "LINES" /\ call' = At("END") /\ sup' = sup
  <2>1. call.op \in {"opendir", "download", "upload"} /\ call.xfer = "LIST" /\ ~call.wait
        /\ fh = "none"
    BY <1>1 DEF IInv, ClientOK, ClientTyped, Kinds, Lookup, Rules, NoCall, CallRec, Ops,
                Commands, Transfers, DataSteps
  <2>2. "END" \in Steps
    BY DEF Steps, Reading
  <2>3. /\ call' \in CallRec /\ call'.op = call.op /\ call'.dir = call.dir
        /\ call'.xfer = "LIST" /\ call'.step = "END" /\ call'.wait = FALSE
    BY <1>1, <2>1, <2>2, AtMoves DEF IInv
  <2>4. ClientOK'
    <3>1. ClientTyped'
      BY <1>0, <1>1, <2>3 DEF IInv, ClientOK, ClientTyped
    <3>2. Kinds'
      BY <1>0, <2>1, <2>3 DEF IInv, ClientOK, Kinds, Lookup, ListSteps
    <3>3. Rules'
      BY <1>0, <1>1, <2>1, <2>3 DEF IInv, ClientOK, Rules, ListSteps
    <3> QED BY <3>1, <3>2, <3>3 DEF ClientOK
  <2>5. ~late => Running("LIST")
    BY <1>1, <2>1 DEF IInv, InOrder, Exchange
  <2> QED BY <1>0, <1>1, <2>1, <2>3, <2>4, <2>5, StillRunning DEF SameWire, Transfers
<1>2. CASE /\ Idle /\ fh = "linear" /\ sup' = [sup EXCEPT !.busy = FALSE]
           /\ call' = [NoCall EXCEPT !.op = "read", !.xfer = "RETR", !.step = "END"]
  <2>1. call = NoCall /\ ~call.wait /\ crashed = FALSE
    BY <1>2, IdleIs DEF IInv
  <2>2. /\ call' \in CallRec /\ call'.op = "read" /\ call'.xfer = "RETR"
        /\ call'.step = "END" /\ call'.wait = FALSE
    BY <1>2 DEF NoCall, CallRec, Ops, Reading, Transfers
  <2>3. /\ sup' \in SupRec /\ sup'.busy = FALSE /\ sup'.cwdir = sup.cwdir
        /\ sup'.isbinary = sup.isbinary
    BY <1>2 DEF IInv, ClientOK, ClientTyped, SupRec
  <2>4. told = "nothing"
    BY <1>2 DEF IInv, ClientOK, Rules
  <2>5. ClientOK'
    <3>1. ClientTyped'
      BY <1>0, <2>2, <2>3 DEF IInv, ClientOK, ClientTyped
    <3>2. Kinds' /\ Rules'
      BY <1>0, <1>2, <2>1, <2>2, <2>3, <2>4 DEF Kinds, Rules
    <3> QED BY <3>1, <3>2 DEF ClientOK
  <2>6. ~late => Running("RETR")
    BY <1>2 DEF IInv, InOrder, Exchange, Idle
  <2> QED BY <1>0, <2>1, <2>2, <2>3, <2>5, <2>6, StillRunning DEF SameWire, Transfers
<1> QED BY <1>1, <1>2 DEF DataEnds

LEMMA InterruptListingStep == ASSUME IInv, InterruptListing PROVE IInv'
<1>1. /\ call.step = "LINES" /\ call' = At("GIVEUP") /\ CutData
      /\ sup' = sup /\ fh' = fh /\ cached' = cached /\ told' = told /\ crashed' = crashed
      /\ toServer' = toServer /\ toClient' = toClient /\ late' = late
  BY DEF InterruptListing
<1>2. call.op \in {"opendir", "download", "upload"} /\ call.xfer = "LIST" /\ ~call.wait
      /\ fh = "none"
  BY <1>1 DEF IInv, ClientOK, ClientTyped, Kinds, Lookup, Rules, NoCall, CallRec, Ops,
              Commands, Transfers, DataSteps
<1>3. "GIVEUP" \in Steps
  BY DEF Steps, Reading
<1>4. /\ call' \in CallRec /\ call'.op = call.op /\ call'.dir = call.dir
      /\ call'.xfer = "LIST" /\ call'.step = "GIVEUP" /\ call'.wait = FALSE
  BY <1>1, <1>2, <1>3, AtMoves DEF IInv
<1>5. ClientOK'
  <2>1. ClientTyped'
    BY <1>1, <1>4 DEF IInv, ClientOK, ClientTyped
  <2>2. Kinds'
    BY <1>1, <1>2, <1>4 DEF IInv, ClientOK, Kinds, Lookup, ListSteps
  <2>3. Rules'
    BY <1>1, <1>2, <1>4 DEF IInv, ClientOK, Rules, ListSteps
  <2> QED BY <2>1, <2>2, <2>3 DEF ClientOK
<1>6. ~late => Running("LIST")
  BY <1>1, <1>2 DEF IInv, InOrder, Exchange
<1> QED BY <1>1, <1>2, <1>4, <1>5, <1>6, StillRunning DEF SameWire, Transfers

LEMMA CloseUploadStep == ASSUME IInv, CloseUpload PROVE IInv'
<1>1. /\ Idle /\ fh = "stor" /\ fh' = "none" /\ CutData
      /\ call' = [NoCall EXCEPT !.op = "close", !.xfer = "STOR", !.step = "END"]
      /\ sup' = sup /\ cached' = cached /\ told' = told /\ crashed' = crashed
      /\ toServer' = toServer /\ toClient' = toClient /\ late' = late
  BY DEF CloseUpload
<1>2. call = NoCall /\ ~call.wait /\ crashed = FALSE
  BY <1>1, IdleIs DEF IInv
<1>3. /\ call' \in CallRec /\ call'.op = "close" /\ call'.xfer = "STOR"
      /\ call'.step = "END" /\ call'.wait = FALSE
  BY <1>1 DEF NoCall, CallRec, Ops, Reading, Transfers
<1>4. told = "nothing" /\ ~sup.busy
  BY <1>1 DEF IInv, ClientOK, Rules
<1>5. ClientOK'
  <2>1. ClientTyped'
    BY <1>1, <1>3 DEF IInv, ClientOK, ClientTyped
  <2>2. Kinds' /\ Rules'
    BY <1>1, <1>2, <1>3, <1>4 DEF Kinds, Rules
  <2> QED BY <2>1, <2>2 DEF ClientOK
<1>6. ~late => Running("STOR")
  BY <1>1 DEF IInv, InOrder, Exchange, Idle
<1> QED BY <1>1, <1>2, <1>3, <1>5, <1>6, StillRunning DEF SameWire, Transfers

(* ftpfs_linear_abort.                                                     *)
LEMMA AbortStep ==
  ASSUME IInv, Idle, fh \in {"linear", "failed"}, NEW file \in {"none", "failed"},
         Abort(file)
  PROVE  IInv'
<1>1. /\ sup' = [sup EXCEPT !.busy = FALSE] /\ fh' = file
      /\ call' = [NoCall EXCEPT !.op = "abort", !.step = "ABOR"]
      /\ cached' = cached /\ told' = told /\ crashed' = crashed
      /\ server' = server /\ toServer' = toServer /\ toClient' = toClient /\ late' = late
  BY DEF Abort, AbortCall
<1>2. call = NoCall /\ ~call.wait /\ crashed = FALSE
  BY IdleIs DEF IInv
<1>3. /\ call' \in CallRec /\ call'.op = "abort" /\ call'.xfer = "none"
      /\ call'.step = "ABOR" /\ call'.wait = FALSE
  BY <1>1 DEF NoCall, CallRec, Ops, Commands, Transfers
<1>4. /\ sup' \in SupRec /\ sup'.busy = FALSE /\ sup'.cwdir = sup.cwdir
      /\ sup'.isbinary = sup.isbinary
  BY <1>1 DEF IInv, ClientOK, ClientTyped, SupRec
<1>5. told = "nothing"
  BY DEF IInv, ClientOK, Rules
<1>6. ClientOK'
  <2>1. ClientTyped'
    BY <1>1, <1>3, <1>4 DEF IInv, ClientOK, ClientTyped
  <2>2. Kinds' /\ Rules'
    BY <1>1, <1>2, <1>3, <1>4, <1>5 DEF Kinds, Rules, Commands
  <2> QED BY <2>1, <2>2 DEF ClientOK
<1>7. ~late' => ~late /\ Exchange'
  <2> SUFFICES ASSUME ~late' PROVE ~late /\ Exchange'
    OBVIOUS
  <2>1. ~late /\ (Quiet \/ Running("RETR"))
    BY <1>1 DEF IInv, InOrder, Exchange, Idle, AtRest
  <2>2. Quiet' \/ Running("RETR")'
    BY <1>1, <2>1, SameWireIs DEF IInv, SameWire
  <2> QED BY <1>3, <1>6, <2>1, <2>2, AbortIs
<1>8. late' \in BOOLEAN /\ ~call'.wait /\ call'.step \notin Transfers
  BY <1>1, <1>3 DEF IInv, WireTyped, Transfers
<1> QED BY <1>1, <1>2, <1>4, <1>6, <1>7, <1>8, CallStep DEF SameWire

LEMMA AbortEnds ==
  ASSUME IInv, call.step = "ABOR", call' = NoCall,
         sup' \in SupRec, sup'.busy = sup.busy, UNCHANGED <<fh, cached, told, crashed>>
  PROVE  ClientOK' /\ AtRest' /\ ~call'.wait /\ call'.step \notin Transfers
         /\ told' = "nothing"
<1>1. told = "nothing" /\ sup.busy = FALSE /\ crashed = FALSE /\ cached \subseteq Dirs
  BY InACall DEF IInv, ClientOK, ClientTyped, Commands
<1>2. fh \in {"none", "failed"}
  BY DEF IInv, ClientOK, ClientTyped, Kinds, Lookup, NoCall, CallRec, Ops, DataSteps,
         ListSteps
<1>3. ClientOK' /\ AtRest'
  BY <1>1, <1>2, EndsAreRight DEF IInv
<1> QED BY <1>1, <1>3 DEF NoCall, Transfers

LEMMA AbortUnsentStep == ASSUME IInv, AbortUnsent PROVE IInv'
<1>1. /\ call.step = "ABOR" /\ ~call.wait /\ ~server.up /\ call' = NoCall
      /\ late' = (late \/ AbortLeavesReply)
      /\ sup' = sup /\ UNCHANGED <<fh, cached, told, crashed>>
      /\ server' = server /\ toServer' = toServer /\ toClient' = toClient
  BY DEF AbortUnsent
<1>2. ClientOK' /\ AtRest' /\ ~call'.wait /\ call'.step \notin Transfers
  BY <1>1, AbortEnds DEF IInv, ClientOK, ClientTyped
<1>3. ~late' => ~late /\ Exchange'
  <2> SUFFICES ASSUME ~late' PROVE ~late /\ Exchange'
    OBVIOUS
  <2>1. ~late /\ toClient = << >> /\ (Quiet \/ Running("RETR"))
    BY <1>1 DEF IInv, InOrder, Exchange, AbortLeavesReply
  <2>2. server.xfer = "none" /\ toServer = << >>
    BY <1>1 DEF IInv, Session
  <2>3. Quiet'
    BY <1>1, <2>1, <2>2 DEF Quiet, Ends
  <2> QED BY <1>2, <2>1, <2>3, AtRestIs
<1>4. late' \in BOOLEAN
  BY <1>1 DEF IInv, WireTyped, AbortLeavesReply
<1> QED BY <1>1, <1>2, <1>3, <1>4, CallStep DEF SameWire

LEMMA AbortTimesOutStep == ASSUME IInv, AbortTimesOut PROVE IInv'
<1>1. /\ call.step = "ABOR" /\ server.data = "open" /\ call' = NoCall
      /\ UNCHANGED <<fh, cached, told, crashed>>
  BY DEF AbortTimesOut
<1>2. CASE /\ server' = [server EXCEPT !.data = "cut"] /\ late' = TRUE
           /\ UNCHANGED <<sup, toServer, toClient>>
  <2>1. ClientOK'
    BY <1>1, <1>2, AbortEnds DEF IInv, ClientOK, ClientTyped
  <2>2. /\ server' \in ServerRec /\ server'.up = server.up
        /\ server'.login = server.login /\ server'.xfer = server.xfer
    BY <1>2 DEF IInv, WireTyped, ServerRec
  <2>3. WireTyped' /\ Session'
    BY <1>2, <2>2 DEF IInv, WireTyped, Session
  <2> QED BY <1>2, <2>1, <2>3 DEF IInv
<1>3. CASE /\ toServer' = << >>
           /\ \/ Login(TRUE, OldDir) /\ sup' = LoggedIn(sup)
              \/ Login(FALSE, Home) /\ sup' = LoggedIn(sup)
              \/ Login(TRUE, Home) /\ sup' = [LoggedIn(sup) EXCEPT !.cwdir = NoDir]
  <2>1. /\ Remembers(sup') /\ sup'.isbinary = "?"
        /\ \E ok \in BOOLEAN, cwd \in Dirs \cup {Home} :
             Login(ok, cwd) /\ (ok => sup'.cwdir \in {cwd, NoDir})
    BY <1>3, LoggedInIs DEF IInv
  <2>2. ClientOK' /\ AtRest' /\ told' = "nothing"
    BY <1>1, <2>1, AbortEnds DEF Remembers
  <2> QED BY <1>3, <2>1, <2>2, RestAfterLogin
<1> QED BY <1>2, <1>3 DEF AbortTimesOut

LEMMA InterruptAcceptStep == ASSUME IInv, InterruptAccept PROVE IInv'
<1>1. /\ call.step \in Transfers /\ DataFails(sup) /\ CutData
      /\ toClient # << >> /\ toClient' = Tail(toClient) /\ late' = TRUE
      /\ toServer' = toServer
  BY DEF InterruptAccept
<1>2. call.step \in Commands /\ sup \in SupRec /\ sup.busy = FALSE
  BY <1>1, InACall DEF IInv, ClientOK, ClientTyped, Commands
<1>3. ClientOK'
  BY <1>1, <1>2, DataFailEnds DEF IInv
<1>4. /\ server' \in ServerRec /\ server'.up = server.up
      /\ server'.login = server.login /\ server'.xfer = server.xfer
  BY <1>1 DEF IInv, WireTyped, CutData, ServerRec
<1>5. toClient' \in Seq(Replies)
  BY <1>1 DEF IInv, WireTyped
<1>6. WireTyped' /\ Session'
  BY <1>1, <1>4, <1>5 DEF IInv, WireTyped, Session
<1> QED BY <1>1, <1>3, <1>6 DEF IInv

-----------------------------------------------------------------------------
(* Steps of the server.  A command gets one reply that ends it; or it      *)
(* begins a transfer; or it ends one and gets two.                         *)
Same(s) ==
  /\ s \in ServerRec /\ s.up = server.up /\ s.login = server.login
  /\ s.file = server.file /\ s.sent = server.sent
Answered(m, c, s) ==
  /\ Same(s) /\ s.xfer = server.xfer
  /\ c \in {"complete", "error", "continue"}
  /\ s.cwd = IF m.name = "CWD" /\ c = "complete" THEN m.arg ELSE server.cwd
  /\ s.type = IF m.name = "TYPE" /\ c = "complete" THEN m.arg ELSE server.type
  /\ m.name \in Transfers => c = "error" /\ s.data = server.data
  /\ m.name = "ABOR" /\ server.login => server.xfer = "none"
Begun(m, s) ==
  /\ s \in ServerRec /\ s.up = server.up /\ s.login = server.login /\ server.login
  /\ m.name \in Transfers /\ server.data = "ready" /\ s.data = "open"
  /\ s.xfer = m.name /\ s.cwd = server.cwd /\ s.type = server.type
Cut(m, s) ==
  /\ Same(s) /\ m.name = "ABOR" /\ server.xfer # "none" /\ s.xfer = "none"
  /\ s.cwd = server.cwd /\ s.type = server.type

LEMMA AnswersAre ==
  ASSUME server \in ServerRec, NEW m \in Messages
  PROVE  \/ \E c \in {"complete", "error", "continue"} :
              Answers(m)[2] = <<Reply(c, m.name)>> /\ Answered(m, c, Answers(m)[1])
         \/ Answers(m)[2] = <<Reply("prelim", m.name)>> /\ Begun(m, Answers(m)[1])
         \/ /\ Answers(m)[2] = <<Reply("aborted", server.xfer), Reply("complete", "ABOR")>>
            /\ Cut(m, Answers(m)[1])
<1>m. m.name \in Commands /\ (m.name = "CWD" => m.arg \in Dirs)
      /\ (m.name = "TYPE" => m.arg \in {"A", "I"})
  BY DEF Messages
<1>0. server.login \in BOOLEAN
  BY DEF ServerRec
<1> DEFINE InCwd == [server EXCEPT !.cwd = m.arg]
           OfType == [server EXCEPT !.type = m.arg]
           Ready == [server EXCEPT !.data = "ready"]
           Opens == [server EXCEPT !.data = "open", !.xfer = m.name,
                             !.file = IF m.name = "STOR" THEN "part" ELSE @,
                             !.sent = IF m.name = "RETR" THEN FALSE ELSE @]
           Named == [server EXCEPT !.rnfr = TRUE]
           Renamed == [server EXCEPT !.rnfr = FALSE]
           Stops == [server EXCEPT !.xfer = "none", !.data = "done"]
           Completes(t) == <<t, <<Reply("complete", m.name)>> >>
           Refuses == <<server, <<Reply("error", m.name)>> >>
<1>a. Answers(m) =
        CASE ~server.login -> Refuses
          [] server.login /\ m.name = "CWD" -> Completes(InCwd)
          [] server.login /\ m.name = "TYPE" -> Completes(OfType)
          [] server.login /\ m.name \in {"EPSV", "PASV", "EPRT", "PORT"} -> Completes(Ready)
          [] server.login /\ m.name \in Transfers ->
               IF server.data = "ready"
               THEN <<Opens, <<Reply("prelim", m.name)>> >> ELSE Refuses
          [] server.login /\ m.name = "DELE" -> Completes(server)
          [] server.login /\ m.name = "RNFR" -> <<Named, <<Reply("continue", "RNFR")>> >>
          [] server.login /\ m.name = "RNTO" ->
               IF server.rnfr THEN Completes(Renamed) ELSE Refuses
          [] server.login /\ m.name = "ABOR" ->
               IF server.xfer = "none" THEN Completes(server)
               ELSE <<Stops, <<Reply("aborted", server.xfer), Reply("complete", "ABOR")>> >>
  BY DEF Answers
<1>b. /\ m.name = "CWD" => Answered(m, "complete", InCwd)
      /\ m.name = "TYPE" => Answered(m, "complete", OfType)
      /\ m.name \in {"EPSV", "PASV", "EPRT", "PORT"} => Answered(m, "complete", Ready)
      /\ m.name \in {"RNFR"} => Answered(m, "continue", Named)
      /\ m.name \in {"RNTO"} => Answered(m, "complete", Renamed)
  BY <1>m DEF Answered, Same, ServerRec, Transfers
<1>c. /\ m.name \in {"DELE"} => Answered(m, "complete", server)
      /\ m.name = "ABOR" /\ server.xfer = "none" => Answered(m, "complete", server)
      /\ m.name # "ABOR" \/ ~server.login => Answered(m, "error", server)
  BY DEF Answered, Same, Transfers
<1>d. server.login /\ m.name \in Transfers /\ server.data = "ready" => Begun(m, Opens)
  BY DEF Begun, ServerRec, Transfers
<1>e. m.name = "ABOR" /\ server.xfer # "none" => Cut(m, Stops)
  BY DEF Cut, Same, ServerRec, Transfers
<1> HIDE DEF InCwd, OfType, Ready, Opens, Named, Renamed, Stops
<1>1. CASE ~server.login
  BY <1>a, <1>c, <1>1
<1>2. CASE server.login /\ m.name \in {"CWD", "TYPE", "EPSV", "PASV", "EPRT", "PORT"}
  <2>1. CASE m.name = "CWD" BY <1>a, <1>b, <1>2, <2>1 DEF Transfers
  <2>2. CASE m.name = "TYPE" BY <1>a, <1>b, <1>2, <2>2 DEF Transfers
  <2>3. CASE m.name \in {"EPSV", "PASV", "EPRT", "PORT"}
    <3>1. Answers(m) = Completes(Ready)
      BY <1>a, <1>2, <2>3 DEF Transfers
    <3> QED BY <1>b, <2>3, <3>1
  <2> QED BY <1>2, <2>1, <2>2, <2>3
<1>3. CASE server.login /\ m.name \in Transfers
  <2>1. Answers(m) = IF server.data = "ready"
                     THEN <<Opens, <<Reply("prelim", m.name)>> >> ELSE Refuses
    BY <1>a, <1>3 DEF Transfers
  <2>2. m.name # "ABOR"
    BY <1>3 DEF Transfers
  <2> QED BY <1>c, <1>d, <1>3, <2>1, <2>2
<1>4. CASE server.login /\ m.name \in {"DELE", "RNFR", "RNTO"}
  BY <1>a, <1>b, <1>c, <1>4 DEF Transfers
<1>5. CASE server.login /\ m.name = "ABOR"
  BY <1>a, <1>c, <1>e, <1>5 DEF Transfers
<1> QED
  BY <1>0, <1>m, <1>1, <1>2, <1>3, <1>4, <1>5 DEF Commands, Transfers

LEMMA ServeIs ==
  ASSUME IInv, Serve
  PROVE  /\ server.up /\ toServer # << >> /\ toServer' = Tail(toServer)
         /\ Head(toServer) \in Messages
         /\ UNCHANGED <<client, late>>
         /\ \/ \E c \in {"complete", "error", "continue"} :
                 /\ toClient' = Append(toClient, Reply(c, Head(toServer).name))
                 /\ Answered(Head(toServer), c, server')
            \/ /\ toClient' = Append(toClient, Reply("prelim", Head(toServer).name))
               /\ Begun(Head(toServer), server')
            \/ /\ toClient' = Append(Append(toClient, Reply("aborted", server.xfer)),
                                     Reply("complete", "ABOR"))
               /\ Cut(Head(toServer), server')
<1> DEFINE m == Head(toServer)
<1>1. /\ server.up /\ toServer # << >> /\ toServer' = Tail(toServer)
      /\ UNCHANGED <<client, late>>
      /\ server.xfer = "none" \/ m.name = "ABOR"
      /\ \/ server' = Answers(m)[1] /\ toClient' = toClient \o Answers(m)[2]
         \/ /\ m.name # "ABOR" /\ toClient' = Append(toClient, Reply("error", m.name))
            /\ server' = server
  BY DEF Serve
<1>2. m \in Messages /\ server \in ServerRec /\ toClient \in Seq(Replies)
  BY <1>1 DEF IInv, WireTyped
<1>r. m.name \in Commands
  BY <1>2 DEF Messages
<1> HIDE DEF m
<1>3. CASE server' = Answers(m)[1] /\ toClient' = toClient \o Answers(m)[2]
  <2>1. ASSUME NEW c \in {"complete", "error", "continue", "prelim"}
        PROVE  toClient \o <<Reply(c, m.name)>> = Append(toClient, Reply(c, m.name))
    <3>1. Reply(c, m.name) \in Replies
      BY <1>r DEF Reply, Replies
    <3> QED BY <1>2, <3>1
  <2>2. toClient \o <<Reply("aborted", server.xfer), Reply("complete", "ABOR")>>
          = Append(Append(toClient, Reply("aborted", server.xfer)), Reply("complete", "ABOR"))
    <3>1. Reply("aborted", server.xfer) \in Replies /\ Reply("complete", "ABOR") \in Replies
      BY <1>2 DEF Reply, Replies, ServerRec, Commands
    <3> QED BY <1>2, <3>1
  <2> QED BY <1>1, <1>2, <1>3, <2>1, <2>2, AnswersAre DEF m
<1>4. CASE /\ m.name # "ABOR" /\ toClient' = Append(toClient, Reply("error", m.name))
           /\ server' = server
  <2>1. Answered(m, "error", server')
    BY <1>1, <1>2, <1>4 DEF Answered, Same
  <2> QED BY <1>1, <1>2, <1>4, <2>1 DEF m
<1> QED BY <1>1, <1>3, <1>4

(* The shapes of Exchange when a reply is added.                           *)
LEMMA EndsAdds ==
  ASSUME WireTyped, server.up, NEW m \in Replies, toClient' = Append(toClient, m)
  PROVE  /\ Ends(0) => /\ Ends(1)' /\ Len(toClient') = 1
                       /\ toClient'[1] = m /\ toClient = << >>
         /\ Ends(1) => /\ Ends(2)' /\ Len(toClient') = 2
                       /\ toClient'[1] = toClient[1] /\ toClient'[2] = m
<1>1. /\ toClient' \in Seq(Replies) /\ Len(toClient) \in Nat
      /\ Len(toClient') = Len(toClient) + 1
      /\ toClient'[Len(toClient) + 1] = m
      /\ \A k \in 1 .. Len(toClient) : toClient'[k] = toClient[k]
  BY AfterReply
<1>2. Ends(0) => Len(toClient) = 0
  BY DEF Ends
<1>3. Ends(1) => Len(toClient) = 1
  BY DEF Ends
<1>4. ASSUME Ends(0)
      PROVE  Ends(1)' /\ Len(toClient') = 1 /\ toClient'[1] = m /\ toClient = << >>
  <2>1. Len(toClient) = 0 /\ Len(toClient') = 1
    BY <1>1, <1>2, <1>4
  <2>2. toClient'[1] = m
    BY <1>1, <2>1
  <2>3. toClient = << >>
    BY <2>1 DEF WireTyped
  <2> QED BY <2>1, <2>2, <2>3 DEF Ends
<1>5. ASSUME Ends(1)
      PROVE  Ends(2)' /\ Len(toClient') = 2 /\ toClient'[1] = toClient[1] /\ toClient'[2] = m
  <2>1. Len(toClient) = 1 /\ Len(toClient') = 2
    BY <1>1, <1>3, <1>5
  <2>2. toClient'[1] = toClient[1] /\ toClient'[2] = m
    BY <1>1, <2>1
  <2> QED BY <2>1, <2>2 DEF Ends
<1> QED BY <1>4, <1>5

(* A reply is due only at three points, and its command is the one sent.   *)
LEMMA Unserved ==
  ASSUME IInv, ~late, server.up, toServer # << >>
  PROVE  \/ /\ call.wait /\ call.step # "ABOR" /\ call.step \in Commands
            /\ toServer = <<Message>> /\ toClient = << >> /\ Ends(0)
            /\ server.xfer = "none"
         \/ /\ call.step = "ABOR" /\ call.wait /\ toServer = <<AborMessage>>
            /\ \/ Ends(0) /\ server.xfer \in {"none", "RETR"}
               \/ Ends(1) /\ server.xfer = "none" /\ Final(1, "RETR")
         \/ /\ call.step = "ABOR2" /\ toServer = <<AborMessage>>
            /\ Ends(0) /\ server.xfer = "none"
<1>1. ClientOK /\ Exchange /\ WireTyped
  BY DEF IInv, InOrder
<1>2. Ends(0) => toClient = << >>
  BY <1>1 DEF Ends, WireTyped
<1>3. ~Quiet /\ \A x : ~Running(x)
  BY DEF Quiet, Running
<1>4. CASE call.wait /\ call.step # "ABOR" /\ call.step \in Commands /\ Commanded
  BY <1>2, <1>4 DEF Commanded
<1>5. CASE call.step = "ABOR" /\ call.wait /\ Aborting
  BY <1>5 DEF Aborting
<1>6. CASE call.step = "ABOR2" /\ SecondReply
  BY <1>6 DEF SecondReply
<1> QED BY <1>1, <1>3, <1>4, <1>5, <1>6, Points

(* Nothing is told yet while the server has something to do.               *)
LEMMA NotTold ==
  ASSUME IInv, ~late, server.up, toServer # << >> \/ server.xfer # "none"
  PROVE  told = "nothing"
<1>1. ClientOK /\ Exchange
  BY DEF IInv, InOrder
<1>2. CASE told # "nothing"
  <2>1. AtRest
    BY <1>1, <1>2 DEF ClientOK, Rules, AtRest
  <2>2. Quiet
    BY <1>1, <2>1 DEF Exchange
  <2> QED BY <2>2 DEF Quiet
<1> QED BY <1>2

LEMMA ClientStays ==
  ASSUME ClientOK, UNCHANGED client
  PROVE  /\ ClientOK'
         /\ sup' = sup /\ call' = call /\ fh' = fh /\ told' = told
         /\ Message' = Message /\ (AtRest <=> AtRest')
<1>1. sup' = sup /\ call' = call /\ fh' = fh /\ told' = told /\ cached' = cached
      /\ crashed' = crashed
  BY DEF client
<1> QED
  BY <1>1 DEF ClientOK, ClientTyped, Kinds, Lookup, Rules, Message, AtRest

LEMMA ServeStep == ASSUME IInv, Serve PROVE IInv'
<1> DEFINE m == Head(toServer)
           Ends1(c) == toClient' = Append(toClient, Reply(c, m.name)) /\ Answered(m, c, server')
           Begins == toClient' = Append(toClient, Reply("prelim", m.name)) /\ Begun(m, server')
           Stops == /\ toClient' = Append(Append(toClient, Reply("aborted", server.xfer)),
                                          Reply("complete", "ABOR"))
                    /\ Cut(m, server')
<1>1. /\ server.up /\ toServer # << >> /\ toServer' = Tail(toServer)
      /\ m \in Messages /\ UNCHANGED client /\ late' = late
      /\ (\E c \in {"complete", "error", "continue"} : Ends1(c)) \/ Begins \/ Stops
  BY ServeIs
<1>2. server \in ServerRec /\ toClient \in Seq(Replies) /\ toServer \in Seq(Messages)
      /\ late \in BOOLEAN /\ m.name \in Commands
  BY <1>1 DEF IInv, WireTyped, Messages
<1>3. /\ ClientOK' /\ sup' = sup /\ call' = call /\ fh' = fh /\ told' = told
      /\ Message' = Message
  BY <1>1, ClientStays DEF IInv
<1>4. \A c \in {"complete", "error", "continue", "prelim", "aborted"} :
        \A x \in Commands : Reply(c, x) \in Replies
  BY DEF Reply, Replies
<1>5. /\ server' \in ServerRec /\ server'.up = server.up /\ server'.login = server.login
      /\ server'.xfer # "none" => server.xfer # "none" \/ server.login
  BY <1>1 DEF Answered, Begun, Cut, Same
<1> HIDE DEF m
<1>6. toClient' \in Seq(Replies)
  <2>1. server.xfer # "none" => server.xfer \in Commands
    BY <1>2 DEF ServerRec, Commands
  <2>2. Stops => server.xfer # "none"
    BY DEF Cut
  <2>3. "ABOR" \in Commands
    BY DEF Commands
  <2>4. CASE Stops
    <3>1. Reply("aborted", server.xfer) \in Replies /\ Reply("complete", "ABOR") \in Replies
      BY <1>4, <2>1, <2>2, <2>3, <2>4
    <3>2. Append(toClient, Reply("aborted", server.xfer)) \in Seq(Replies)
      BY <1>2, <3>1
    <3> QED BY <2>4, <3>1, <3>2
  <2>5. ASSUME NEW c \in {"complete", "error", "continue", "prelim"},
               toClient' = Append(toClient, Reply(c, m.name))
        PROVE  toClient' \in Seq(Replies)
    <3>1. Reply(c, m.name) \in Replies
      BY <1>2, <1>4
    <3> QED BY <1>2, <2>5, <3>1
  <2> QED BY <1>1, <2>4, <2>5
<1>7. WireTyped' /\ Session'
  <2>1. toServer' \in Seq(Messages)
    BY <1>1, <1>2
  <2> QED BY <1>1, <1>2, <1>5, <1>6, <2>1 DEF IInv, WireTyped, Session
<1>8. ASSUME ~late'
      PROVE  InOrder'
  <2>1. ~late /\ Exchange /\ Beliefs /\ Reports /\ told = "nothing"
    BY <1>1, <1>8, NotTold DEF IInv, InOrder
  <2>a. WireTyped /\ server.up
    BY <1>1 DEF IInv
  <2>2. CASE /\ call.wait /\ call.step # "ABOR" /\ call.step \in Commands
             /\ toServer = <<Message>> /\ toClient = << >> /\ Ends(0)
             /\ server.xfer = "none"
    <3>1. /\ m = Message /\ m.name = call.step /\ toServer' = << >>
          /\ call.step = "CWD" => m.arg = call.dir
          /\ call.step = "TYPE" => m.arg = TypeOf(call.xfer)
      BY <1>1, <2>2, MessageIs DEF IInv, m
    <3>d. \A c : ~Done(c)
      BY <2>2 DEF Done
    <3>2. CASE \E c \in {"complete", "error", "continue"} : Ends1(c)
      <4>1. PICK c \in {"complete", "error", "continue"} : Ends1(c)
        BY <3>2
      <4>2. Ends(1)' /\ Len(toClient') = 1 /\ toClient'[1] = Reply(c, call.step)
        BY <1>2, <1>4, <2>2, <2>a, <3>1, <4>1, EndsAdds
      <4>3. Commanded'
        BY <1>3, <2>2, <3>1, <4>1, <4>2 DEF Commanded, Final, Reply, Answered
      <4>4. Exchange'
        BY <1>3, <2>2, <4>3, CommandedIs
      <4>5. Beliefs'
        <5>1. \A x : Done(x)' <=> call.step = x /\ c = "complete"
          BY <1>3, <2>2, <4>2 DEF Done, Reply
        <5> QED
          BY <1>3, <2>1, <2>2, <3>1, <3>d, <4>1, <5>1 DEF Beliefs, Answered, Same
      <4>6. Reports'
        <5>1. call.step \in {"RETR", "STOR"} => c # "complete"
          BY <3>1, <4>1 DEF Answered, Transfers
        <5> QED
          BY <1>3, <2>1, <4>2, <5>1 DEF Reports, ReportsAreTrue, Reply
      <4> QED BY <4>4, <4>5, <4>6 DEF InOrder
    <3>3. CASE Begins
      <4>1. Ends(1)' /\ Len(toClient') = 1 /\ toClient'[1] = Reply("prelim", call.step)
        BY <1>2, <1>4, <2>2, <2>a, <3>1, <3>3, EndsAdds
      <4>2. /\ call.step \in Transfers /\ server'.xfer = call.step
            /\ server.data = "ready" /\ server'.data = "open" /\ server.login
            /\ server'.cwd = server.cwd /\ server'.type = server.type
        BY <3>1, <3>3 DEF Begun
      <4>3. Commanded'
        BY <1>3, <3>1, <4>1, <4>2 DEF Commanded
      <4>4. Exchange'
        BY <1>3, <2>2, <4>3, CommandedIs
      <4>5. Beliefs'
        <5>1. \A x : ~Done(x)'
          BY <4>1 DEF Done, Reply
        <5>2. sup.isbinary = TypeOf(call.step) /\ TypeOf(call.step) # "?"
          BY <1>1, <2>1, <4>2 DEF Beliefs, TypeOf
        <5>3. server.type = TypeOf(call.step)
          BY <1>1, <2>1, <3>d, <4>2, <5>2 DEF Beliefs
        <5> QED
          BY <1>1, <1>3, <1>5, <2>1, <3>d, <4>2, <5>1, <5>3 DEF Beliefs
      <4>6. Reports'
        BY <1>3, <2>1, <4>1 DEF Reports, ReportsAreTrue, Reply
      <4> QED BY <4>4, <4>5, <4>6 DEF InOrder
    <3>4. CASE Stops
      BY <2>2, <3>4 DEF Cut
    <3> QED BY <1>1, <3>2, <3>3, <3>4
  <2>3. ASSUME toServer = <<AborMessage>>, call.step \in {"ABOR", "ABOR2"},
               Exchange', server'.xfer = "none"
        PROVE  InOrder'
    <3>1. m.name = "ABOR" /\ ~Begins
      BY <2>3 DEF m, AborMessage, Begun, Transfers
    <3>2. /\ server'.cwd = server.cwd /\ server'.type = server.type
          /\ server'.sent = server.sent /\ server'.file = server.file
      BY <1>1, <3>1 DEF Answered, Cut, Same
    <3>3. \A k \in 1 .. Len(toClient') :
            \/ k \in 1 .. Len(toClient) /\ toClient'[k] = toClient[k]
            \/ toClient'[k].to = "ABOR" \/ toClient'[k].class = "aborted"
      <4>1. ASSUME NEW c \in {"complete", "error", "continue"}, Ends1(c)
            PROVE  \A k \in 1 .. Len(toClient') :
                     \/ k \in 1 .. Len(toClient) /\ toClient'[k] = toClient[k]
                     \/ toClient'[k].to = "ABOR"
        BY <1>2, <3>1, <4>1 DEF Reply
      <4>2. CASE Stops
        <5> DEFINE a == Reply("aborted", server.xfer)
                   b == Reply("complete", "ABOR")
        <5>1. a.class = "aborted" /\ b.to = "ABOR" /\ a \in Replies /\ b \in Replies
          BY <1>2, <4>2 DEF Reply, Replies, Cut, ServerRec, Commands
        <5>2. toClient' = Append(Append(toClient, a), b)
          BY <4>2
        <5> HIDE DEF a, b
        <5> QED BY <1>2, <5>1, <5>2
      <4> QED BY <1>1, <3>1, <4>1, <4>2
    <3>4. \A x \in {"CWD", "TYPE"} : ~Done(x) /\ ~Done(x)'
      BY <1>3, <2>3 DEF Done
    <3>5. Beliefs'
      BY <1>3, <1>5, <2>1, <2>3, <3>2, <3>4 DEF Beliefs, Transfers
    <3>6. Reports'
      BY <1>3, <2>1, <3>2, <3>3 DEF Reports, ReportsAreTrue, Reply
    <3> QED BY <2>3, <3>5, <3>6 DEF InOrder
  <2>o. \A n : toServer = <<n>> => m = n /\ toServer' = << >>
    BY <1>1 DEF m
  <2>6. \A c : Ends1(c) /\ m.name = "ABOR" /\ server.xfer # "none" => ~server.login
    BY DEF Answered
  <2>7. server.xfer # "none" => server.login
    BY DEF IInv, Session
  <2>4. CASE /\ call.step = "ABOR" /\ call.wait /\ toServer = <<AborMessage>>
             /\ \/ Ends(0) /\ server.xfer \in {"none", "RETR"}
                \/ Ends(1) /\ server.xfer = "none" /\ Final(1, "RETR")
    <3>1. m.name = "ABOR" /\ toServer' = << >> /\ ~Begins
      BY <2>4, <2>o DEF AborMessage, Begun, Transfers
    <3>2. CASE \E c \in {"complete", "error", "continue"} : Ends1(c)
      <4>1. PICK c \in {"complete", "error", "continue"} : Ends1(c)
        BY <3>2
      <4>2. server.xfer = "none" /\ server'.xfer = "none"
        BY <2>6, <2>7, <3>1, <4>1 DEF Answered
      <4>3. Reply(c, "ABOR") \in Replies /\ toClient' = Append(toClient, Reply(c, "ABOR"))
        BY <1>2, <1>4, <3>1, <4>1
      <4>4. CASE Ends(0)
        <5>1. Ends(1)' /\ toClient'[1] = Reply(c, "ABOR")
          BY <2>a, <4>3, <4>4, EndsAdds
        <5>2. Aborting'
          BY <3>1, <4>2, <5>1 DEF Aborting, Aborted, Reply
        <5> QED BY <1>3, <2>3, <2>4, <4>2, <5>2, AbortIs
      <4>5. CASE Ends(1) /\ Final(1, "RETR")
        <5>1. Ends(2)' /\ toClient'[1] = toClient[1] /\ toClient'[2] = Reply(c, "ABOR")
          BY <2>a, <4>3, <4>5, EndsAdds
        <5>2. Aborting'
          BY <3>1, <4>2, <4>5, <5>1 DEF Aborting, Aborted, Reply, Final
        <5> QED BY <1>3, <2>3, <2>4, <4>2, <5>2, AbortIs
      <4> QED BY <2>4, <4>4, <4>5
    <3>3. CASE Stops
      <4>1. /\ server.xfer = "RETR" /\ server'.xfer = "none" /\ Ends(0)
        BY <2>4, <3>3 DEF Cut
      <4>2. toClient = << >>
        BY <2>a, <4>1 DEF Ends, WireTyped
      <4>3. /\ Len(toClient') = 2 /\ toClient'[1] = Reply("aborted", "RETR")
            /\ toClient'[2] = Reply("complete", "ABOR")
        <5> DEFINE a == Reply("aborted", "RETR")
                   b == Reply("complete", "ABOR")
        <5>1. a \in Replies /\ b \in Replies
          BY DEF Reply, Replies, Commands, Transfers
        <5>2. toClient' = Append(Append(toClient, a), b)
          BY <3>3, <4>1
        <5> HIDE DEF a, b
        <5>3. /\ Len(toClient') = 2 /\ toClient'[1] = a /\ toClient'[2] = b
          BY <1>2, <4>2, <5>1, <5>2
        <5> QED BY <5>3 DEF a, b
      <4>4. Ends(2)' /\ Final(1, "RETR")' /\ Aborted(2)'
        BY <4>3 DEF Ends, Final, Aborted, Reply
      <4>5. Aborting'
        BY <3>1, <4>1, <4>4 DEF Aborting
      <4> QED BY <1>3, <2>3, <2>4, <4>1, <4>5, AbortIs
    <3> QED BY <1>1, <3>1, <3>2, <3>3
  <2>5. CASE /\ call.step = "ABOR2" /\ toServer = <<AborMessage>>
             /\ Ends(0) /\ server.xfer = "none"
    <3>1. m.name = "ABOR" /\ toServer' = << >> /\ ~Begins /\ ~Stops
      BY <2>5, <2>o DEF AborMessage, Begun, Cut, Transfers
    <3>2. PICK c \in {"complete", "error", "continue"} : Ends1(c)
      BY <1>1, <3>1
    <3>3. server'.xfer = "none"
      BY <2>5, <3>2 DEF Answered
    <3>4. Reply(c, "ABOR") \in Replies /\ toClient' = Append(toClient, Reply(c, "ABOR"))
      BY <1>2, <1>4, <3>1, <3>2
    <3>5. Ends(1)' /\ toClient'[1] = Reply(c, "ABOR")
      BY <2>5, <2>a, <3>4, EndsAdds
    <3>6. SecondReply'
      BY <3>1, <3>3, <3>5 DEF SecondReply, Aborted, Reply
    <3> QED BY <1>3, <2>3, <2>5, <3>3, <3>6, SecondReplyIs
  <2> QED BY <1>1, <2>1, <2>2, <2>4, <2>5, Unserved
<1> QED BY <1>3, <1>7, <1>8 DEF IInv

(* A transfer ends, and says how.                                          *)
LEMMA TransferEndsIs ==
  ASSUME IInv, TransferEnds
  PROVE  \E class \in {"complete", "error", "aborted"} :
           /\ server.up /\ server.xfer # "none"
           /\ server' \in ServerRec /\ server'.up /\ server'.login = server.login
           /\ server'.cwd = server.cwd /\ server'.type = server.type
           /\ server'.xfer = "none" /\ server'.data = "done"
           /\ server.xfer = "RETR" /\ class = "complete" => server'.sent
           /\ server.xfer = "STOR" /\ class = "complete" => server'.file = "new"
           /\ toClient' = Append(toClient, Reply(class, server.xfer))
           /\ UNCHANGED client /\ toServer' = toServer /\ late' = late
<1>1. server \in ServerRec
  BY DEF IInv, WireTyped
<1> DEFINE Ended(class) ==
             /\ server' = [server EXCEPT
                  !.xfer = "none", !.data = "done",
                  !.sent = IF server.xfer = "RETR" THEN class = "complete" ELSE @,
                  !.file = IF server.xfer = "STOR" /\ class = "complete" THEN "new" ELSE @]
             /\ toClient' = Append(toClient, Reply(class, server.xfer))
<1>2. /\ server.up /\ server.xfer # "none"
      /\ Ended("complete") \/ Ended("error") \/ Ended("aborted")
      /\ UNCHANGED client /\ toServer' = toServer /\ late' = late
  BY DEF TransferEnds
<1>3. PICK class \in {"complete", "error", "aborted"} : Ended(class)
  BY <1>2
<1>4. /\ server' \in ServerRec /\ server'.up /\ server'.login = server.login
      /\ server'.cwd = server.cwd /\ server'.type = server.type
      /\ server'.xfer = "none" /\ server'.data = "done"
      /\ server.xfer = "RETR" /\ class = "complete" => server'.sent
      /\ server.xfer = "STOR" /\ class = "complete" => server'.file = "new"
  BY <1>1, <1>2, <1>3 DEF ServerRec
<1> QED BY <1>2, <1>3, <1>4

LEMMA TransferEndsStep == ASSUME IInv, TransferEnds PROVE IInv'
<1>1. PICK class \in {"complete", "error", "aborted"} :
        /\ server.up /\ server.xfer # "none"
        /\ server' \in ServerRec /\ server'.up /\ server'.login = server.login
        /\ server'.cwd = server.cwd /\ server'.type = server.type
        /\ server'.xfer = "none" /\ server'.data = "done"
        /\ server.xfer = "RETR" /\ class = "complete" => server'.sent
        /\ server.xfer = "STOR" /\ class = "complete" => server'.file = "new"
        /\ toClient' = Append(toClient, Reply(class, server.xfer))
        /\ UNCHANGED client /\ toServer' = toServer /\ late' = late
  BY TransferEndsIs
<1> DEFINE x == server.xfer
           m == Reply(class, x)
<1>2. x \in Transfers /\ m \in Replies /\ m.to = x /\ m.class = class
  BY <1>1 DEF IInv, WireTyped, ServerRec, Reply, Replies, Commands
<1>3. toClient' = Append(toClient, m)
  BY <1>1
<1> HIDE DEF x, m
<1>4. ClientOK' /\ sup' = sup /\ call' = call /\ fh' = fh /\ told' = told
  BY <1>1, ClientStays DEF IInv
<1>5. WireTyped' /\ Session'
  BY <1>1, <1>2, <1>3 DEF IInv, WireTyped, Session
<1>6. ASSUME ~late'
      PROVE  InOrder'
  <2>1. /\ ~late /\ ClientOK /\ WireTyped /\ Exchange /\ Beliefs /\ told = "nothing"
        /\ server.up
    BY <1>1, <1>6, NotTold DEF IInv, InOrder
  <2>2. ~Quiet /\ ~SecondReply
    BY <1>1 DEF Quiet, SecondReply
  <2>3. \A y : Running(y) => /\ y = x /\ toClient = << >> /\ Running(y)'
    <3> SUFFICES ASSUME NEW y, Running(y)
                 PROVE  y = x /\ toClient = << >> /\ Running(y)'
      OBVIOUS
    <3>1. y = x /\ toServer = << >> /\ Ends(0)
      BY <1>1, <2>1 DEF Running, x
    <3>2. Ends(1)' /\ toClient'[1] = m /\ toClient = << >>
      BY <1>2, <1>3, <2>1, <3>1, EndsAdds
    <3> QED BY <1>1, <1>2, <3>1, <3>2 DEF Running, Final
  <2>4. Commanded => /\ call.step \in Transfers /\ Commanded'
                     /\ Len(toClient) = 1 /\ toClient[1].class = "prelim"
    <3> SUFFICES ASSUME Commanded
                 PROVE  /\ call.step \in Transfers /\ Commanded'
                        /\ Len(toClient) = 1 /\ toClient[1].class = "prelim"
      OBVIOUS
    <3>1. /\ call.step \in Transfers /\ toServer = << >> /\ Ends(1) /\ call.step = x
          /\ toClient[1] = Reply("prelim", call.step)
      BY <1>1, <2>1 DEF Commanded, x
    <3>2. Ends(2)' /\ toClient'[1] = toClient[1] /\ toClient'[2] = m
      BY <1>2, <1>3, <2>1, <3>1, EndsAdds
    <3>3. Commanded'
      BY <1>1, <1>2, <1>4, <3>1, <3>2 DEF Commanded, Final
    <3> QED BY <2>1, <3>1, <3>3 DEF Ends, Reply
  <2>5. Aborting => toClient = << >> /\ Aborting'
    <3> SUFFICES ASSUME Aborting PROVE toClient = << >> /\ Aborting'
      OBVIOUS
    <3>1. Ends(0) /\ x = "RETR" /\ toServer = <<AborMessage>>
      BY <1>1, <2>1 DEF Aborting, x
    <3>2. Ends(1)' /\ toClient'[1] = m /\ toClient = << >>
      BY <1>2, <1>3, <2>1, <3>1, EndsAdds
    <3> QED BY <1>1, <1>2, <3>1, <3>2 DEF Aborting, Final
  <2>6. /\ Exchange'
        /\ toClient = << >> \/ (Len(toClient) = 1 /\ toClient[1].class = "prelim")
        /\ call.wait => call.step \notin {"CWD", "TYPE"}
    <3>1. CASE call.wait /\ call.step # "ABOR" /\ call.step \in Commands /\ Commanded
      BY <1>4, <2>4, <3>1, CommandedIs DEF Transfers
    <3>2. ASSUME NEW y \in Transfers, Running(y),
                 \/ call.op = "none" /\ fh = "linear" /\ y = "RETR"
                 \/ call.op = "none" /\ fh = "stor" /\ y = "STOR"
                 \/ call.step \in {"LINES", "END", "GIVEUP"} /\ call.xfer = y
          PROVE  /\ Exchange' /\ toClient = << >>
                 /\ call.wait => call.step \notin {"CWD", "TYPE"}
      <4>1. Running(y)' /\ toClient = << >>
        BY <2>3, <3>2
      <4>2. TransferBegun(y)' \/ (call'.step \in {"LINES", "END", "GIVEUP"} /\ call'.xfer = y)
        BY <1>4, <3>2 DEF TransferBegun
      <4>3. call.wait => call.step \notin {"CWD", "TYPE"}
        BY <2>1, <3>2 DEF ClientOK, Kinds, NoCall
      <4> QED BY <1>4, <4>1, <4>2, <4>3, RunningIs
    <3>3. CASE call.step = "ABOR" /\ ~call.wait /\ Running("RETR")
      <4>1. Running("RETR")' /\ toClient = << >>
        BY <2>3, <3>3
      <4> QED BY <1>4, <3>3, <4>1, AbortIs
    <3>4. CASE call.step = "ABOR" /\ call.wait /\ Aborting
      <4>1. Aborting' /\ toClient = << >>
        BY <2>5, <3>4
      <4> QED BY <1>4, <3>4, <4>1, AbortIs
    <3> QED BY <2>1, <2>2, <3>1, <3>2, <3>3, <3>4, Points
  <2>7. Beliefs'
    <3>1. \A c \in {"CWD", "TYPE"} : ~Done(c) /\ ~Done(c)'
      BY <1>4, <2>6 DEF Done
    <3> QED BY <1>1, <1>4, <2>1, <3>1 DEF Beliefs
  <2>8. Reports'
    <3>1. \A k \in 1 .. Len(toClient') :
            toClient'[k] = m \/ toClient'[k].class = "prelim"
      <4>1. /\ Len(toClient') = Len(toClient) + 1
            /\ toClient'[Len(toClient) + 1] = m
            /\ \A k \in 1 .. Len(toClient) : toClient'[k] = toClient[k]
        BY <1>2, <1>3, <2>1, AfterReply
      <4> QED BY <2>6, <4>1
    <3>2. \A k \in 1 .. Len(toClient') :
            /\ toClient'[k] = Reply("complete", "RETR") => server'.sent
            /\ toClient'[k] = Reply("complete", "STOR") => server'.file = "new"
      BY <1>1, <1>2, <3>1 DEF Reply, x
    <3> QED BY <1>4, <2>1, <3>2 DEF Reports, ReportsAreTrue
  <2> QED BY <2>6, <2>7, <2>8 DEF InOrder
<1> QED BY <1>4, <1>5, <1>6 DEF IInv

(* The server goes, with or without a word.                                *)
LEMMA DropStep == ASSUME IInv, Drop PROVE IInv'
<1>1. /\ server.up /\ server \in ServerRec /\ toServer' = << >>
      /\ server' = [server EXCEPT !.up = FALSE, !.xfer = "none",
                                  !.data = IF @ = "none" THEN @ ELSE "done"]
      /\ toClient' = toClient \/ toClient' = Append(toClient, Lost)
      /\ UNCHANGED client /\ late' = late
  BY DEF Drop, Lost, IInv, WireTyped
<1>2. /\ server' \in ServerRec /\ ~server'.up /\ server'.xfer = "none"
      /\ server'.sent = server.sent /\ server'.file = server.file
  BY <1>1 DEF ServerRec
<1>3. Lost \in Replies /\ Lost.to = "none"
  BY DEF Lost, Reply, Replies
<1>4. /\ ClientOK' /\ sup' = sup /\ call' = call /\ fh' = fh /\ told' = told
      /\ (AtRest <=> AtRest')
  BY <1>1, ClientStays DEF IInv
<1>5. WireTyped' /\ Session'
  BY <1>1, <1>2, <1>3 DEF IInv, WireTyped, Session
<1>6. /\ \A k \in 1 .. Len(toClient) : toClient'[k] = toClient[k]
      /\ \/ Len(toClient') = Len(toClient)
         \/ Len(toClient') = Len(toClient) + 1 /\ toClient'[Len(toClient) + 1] = Lost
      /\ Len(toClient) \in Nat
  <2>1. WireTyped
    BY DEF IInv
  <2>2. CASE toClient' = Append(toClient, Lost)
    BY <1>3, <2>1, <2>2, AfterReply
  <2>3. CASE toClient' = toClient
    BY <2>1, <2>3 DEF WireTyped
  <2> QED BY <1>1, <2>2, <2>3
<1>7. /\ Ends(0) => Ends(0)'
      /\ Ends(1) => Ends(1)' /\ toClient'[1] = toClient[1]
      /\ Ends(2) => Ends(2)' /\ toClient'[1] = toClient[1] /\ toClient'[2] = toClient[2]
  <2>1. \A n \in Nat : Ends(n) => /\ Len(toClient) = n /\ Ends(n)'
                                  /\ \A k \in 1 .. n : toClient'[k] = toClient[k]
    <3> TAKE n \in Nat
    <3>1. HAVE Ends(n)
    <3>2. Len(toClient) = n
      BY <1>1, <3>1 DEF Ends
    <3>3. Ends(n)'
      BY <1>2, <1>6, <3>2 DEF Ends
    <3> QED BY <1>6, <3>2, <3>3
  <2> QED BY <2>1
<1>8. ASSUME ~late'
      PROVE  InOrder'
  <2>1. Exchange /\ Reports /\ ~late
    BY <1>1, <1>8 DEF IInv, InOrder
  <2>2. Quiet => Quiet'
    BY <1>1, <1>2, <1>7 DEF Quiet
  <2>3. \A x : Running(x) => Running(x)'
    BY <1>1, <1>2, <1>7 DEF Running, Final
  <2>4. Commanded => Commanded'
    BY <1>1, <1>2, <1>4, <1>7 DEF Commanded, Final
  <2>5. Aborting => Aborting'
    BY <1>1, <1>2, <1>7 DEF Aborting, Aborted, Final
  <2>6. SecondReply => SecondReply'
    BY <1>1, <1>2, <1>7 DEF SecondReply, Aborted
  <2>7. Exchange'
    BY <1>4, <2>1, <2>2, <2>3, <2>4, <2>5, <2>6 DEF Exchange
  <2>8. Beliefs'
    BY <1>2 DEF Beliefs
  <2>9. Reports'
    <3>1. \A k \in 1 .. Len(toClient') :
            \/ k \in 1 .. Len(toClient) /\ toClient'[k] = toClient[k]
            \/ toClient'[k] = Lost
      BY <1>6
    <3> QED BY <1>2, <1>3, <1>4, <2>1, <3>1 DEF Reports, ReportsAreTrue, Reply
  <2> QED BY <2>7, <2>8, <2>9 DEF InOrder
<1> QED BY <1>4, <1>5, <1>8 DEF IInv

-----------------------------------------------------------------------------
(* The invariant, and what follows from it.                                *)

LEMMA InitIsInv == Init => IInv
<1> SUFFICES ASSUME Init PROVE IInv
  OBVIOUS
<1>1. /\ sup = [cwdir |-> Home, isbinary |-> "?", passive |-> TRUE, strict |-> "auto",
                busy |-> FALSE]
      /\ fh = "none" /\ cached = {} /\ call = NoCall
      /\ server = NewSession(TRUE, Home, [file |-> "old", sent |-> FALSE])
      /\ toServer = << >> /\ toClient = << >>
      /\ late = FALSE /\ told = "nothing" /\ crashed = FALSE
  BY DEF Init
<1>2. /\ call.op = "none" /\ call.step = "none" /\ call.wait = FALSE
      /\ call.xfer = "none" /\ call \in CallRec
  BY <1>1 DEF NoCall, CallRec, Ops
<1>3. /\ server \in ServerRec /\ server.up /\ server.login /\ server.cwd = Home
      /\ server.xfer = "none" /\ server.data = "none"
  BY <1>1 DEF NewSession, ServerRec
<1>4. sup \in SupRec /\ sup.cwdir = Home /\ sup.isbinary = "?" /\ sup.busy = FALSE
  BY <1>1 DEF SupRec
<1>5. ClientOK
  BY <1>1, <1>2, <1>4 DEF ClientOK, ClientTyped, Kinds, Rules, Commands, DataSteps,
     ListSteps
<1>6. WireTyped /\ Session
  <2>1. \A S : << >> \in Seq(S)
    OBVIOUS
  <2> QED BY <1>1, <1>3, <2>1 DEF WireTyped, Session
<1>7. Exchange
  BY <1>1, <1>2, <1>3 DEF Exchange, AtRest, Quiet, Ends
<1>8. Beliefs
  BY <1>1, <1>2, <1>3, <1>4 DEF Beliefs, Done, Transfers
<1>9. Reports
  BY <1>1 DEF Reports, ReportsAreTrue
<1> QED BY <1>5, <1>6, <1>7, <1>8, <1>9 DEF IInv, InOrder

LEMMA NextStep == ASSUME IInv, Next PROVE IInv'
<1>1. CASE \E op \in {"opendir", "download", "upload"}, d \in Dirs : Start(op, d)
  BY <1>1, StartStep
<1>2. CASE StartCommand("delete", "DELE") \/ StartCommand("rename", "RNFR")
  BY <1>2, StartCommandStep
<1>3. CASE CloseLinear \/ ReadAgain \/ ReadFails
  BY <1>3, AbortStep DEF CloseLinear, ReadAgain, ReadFails
<1>4. CASE Calls
  BY <1>1, <1>2, <1>3, <1>4, LinearStartStep, CloseFileStep, CloseUploadStep DEF Calls
<1>5. CASE Client
  BY <1>5, SendStep, GetReplyStep, FoundStep, DataEndsStep, AbortUnsentStep DEF Client
<1>6. CASE Serve \/ TransferEnds \/ Drop
  BY <1>6, ServeStep, TransferEndsStep, DropStep
<1>7. CASE Expire \/ AbortTimesOut \/ InterruptListing \/ InterruptAccept
  BY <1>7, ExpireStep, AbortTimesOutStep, InterruptListingStep, InterruptAcceptStep
<1> QED BY <1>3, <1>4, <1>5, <1>6, <1>7 DEF Next

LEMMA StutterStep == ASSUME IInv, UNCHANGED vars PROVE IInv'
<1>1. /\ UNCHANGED client /\ server' = server /\ toServer' = toServer
      /\ toClient' = toClient /\ late' = late
  BY DEF vars
<1>2. /\ ClientOK' /\ sup' = sup /\ call' = call /\ fh' = fh /\ told' = told
      /\ Message' = Message /\ (AtRest <=> AtRest')
  BY <1>1, ClientStays DEF IInv
<1>3. WireTyped' /\ Session'
  BY <1>1 DEF IInv, WireTyped, Session
<1>4. \A n : Ends(n) <=> Ends(n)'
  BY <1>1 DEF Ends
<1>5. Exchange <=> Exchange'
  BY <1>1, <1>2, <1>4 DEF Exchange, Quiet, Commanded, Running, Aborting, SecondReply,
     Final, Aborted
<1>6. Beliefs <=> Beliefs'
  BY <1>1, <1>2 DEF Beliefs, Done
<1>7. Reports <=> Reports'
  BY <1>1, <1>2 DEF Reports, ReportsAreTrue
<1> QED BY <1>1, <1>2, <1>3, <1>5, <1>6, <1>7 DEF IInv, InOrder

LEMMA Invariance == Spec => []IInv
<1>1. IInv /\ [Next]_vars => IInv'
  BY NextStep, StutterStep
<1> QED BY <1>1, InitIsInv, PTL DEF Spec

LEMMA RepliesMatchHolds == IInv => RepliesMatch
<1> SUFFICES ASSUME IInv, ~late
             PROVE  /\ (call.wait \/ call.step \in Reading) /\ toClient # << >>
                         => Head(toClient).to \in Awaited \cup {"none"}
                    /\ Idle /\ server.up /\ fh \notin {"linear", "stor"}
                         => toClient = << >> /\ toServer = << >>
  BY DEF RepliesMatch
<1>1. ClientOK /\ WireTyped /\ Session /\ Exchange
  BY DEF IInv, InOrder
<1>2. ASSUME Idle, server.up, fh \notin {"linear", "stor"}
      PROVE  toClient = << >> /\ toServer = << >>
  <2>1. Quiet
    BY <1>1, <1>2 DEF Idle, Exchange, AtRest
  <2> QED BY <1>1, <1>2, <2>1 DEF Quiet, Ends, WireTyped
<1>3. ASSUME call.wait \/ call.step \in Reading, toClient # << >>
      PROVE  Head(toClient).to \in Awaited \cup {"none"}
  <2>1. Head(toClient) = toClient[1] /\ Len(toClient) > 0
    BY <1>1, <1>3 DEF WireTyped
  <2>2. Ends(0) => toClient[1].to = "none"
    BY <2>1 DEF Ends, Lost, Reply
  <2>3. CASE call.wait /\ call.step # "ABOR" /\ call.step \in Commands
    <3>1. toClient[1].to \in {call.step, "none"}
      BY <1>1, <2>2, <2>3 DEF Exchange, Commanded, Final, Reply
    <3> QED BY <2>1, <2>3, <3>1 DEF Awaited, Commands, Transfers
  <2>4. CASE call.step \in {"END", "GIVEUP"}
    <3>1. toClient[1].to \in {call.xfer, "none"}
      BY <1>1, <2>2, <2>4 DEF Exchange, Running, Final
    <3>2. call.step = "GIVEUP" => call.xfer = "LIST"
      BY <1>1 DEF ClientOK, ClientTyped, Kinds, Lookup, NoCall, CallRec, Ops, DataSteps
    <3> QED BY <2>1, <2>4, <3>1, <3>2 DEF Awaited
  <2>5. CASE call.step = "ABOR" /\ call.wait
    <3>1. toClient[1].to \in {"RETR", "ABOR", "none"}
      BY <1>1, <2>2, <2>5 DEF Exchange, Aborting, Final, Aborted
    <3> QED BY <2>1, <2>5, <3>1 DEF Awaited
  <2>6. CASE call.step = "ABOR2"
    <3>1. toClient[1].to \in {"ABOR", "none"}
      BY <1>1, <2>2, <2>6 DEF Exchange, SecondReply, Aborted
    <3> QED BY <2>1, <2>6, <3>1 DEF Awaited
  <2> QED BY <1>1, <1>3, <2>3, <2>4, <2>5, <2>6 DEF ClientOK, Rules, Reading
<1> QED BY <1>2, <1>3

LEMMA CacheMatchesHolds == IInv => CacheMatchesServer
BY DEF IInv, InOrder, Beliefs, Done, CacheMatchesServer

LEMMA TransfersHold == IInv => TransfersAreRight
<1> SUFFICES ASSUME IInv, server.up, server.xfer # "none", ~late
             PROVE  /\ server.type = TypeOf(server.xfer)
                    /\ server.xfer = "LIST" /\ sup.cwdir # NoDir => server.cwd = call.dir
  BY DEF TransfersAreRight
<1>1. ClientOK /\ WireTyped /\ Session /\ Exchange /\ Beliefs
  BY DEF IInv, InOrder
<1>2. server.type = TypeOf(server.xfer)
  BY <1>1 DEF Beliefs
<1>3. ASSUME server.xfer = "LIST", sup.cwdir # NoDir
      PROVE  server.cwd = call.dir
  <2>1. ~Quiet /\ ~Aborting /\ ~SecondReply /\ ~Running("RETR")
    BY <1>3 DEF Quiet, Aborting, SecondReply, Running
  <2>2. Commanded => call.step = "LIST"
    BY <1>3 DEF Commanded
  <2>3. \A x : Running(x) => x = "LIST"
    BY <1>3 DEF Running
  <2>4. call.step \in ListSteps /\ call.xfer = "LIST"
    <3>1. call.step = "LIST" => call.xfer = "LIST"
      BY <1>1 DEF ClientOK, ClientTyped, Kinds, Lookup, NoCall, CallRec, Ops, DataSteps
    <3> QED BY <1>1, <2>1, <2>2, <2>3, <3>1, Points DEF ListSteps
  <2>5. sup.cwdir = call.dir
    BY <1>1, <1>3, <2>4 DEF ClientOK, Rules
  <2>6. ~Done("CWD")
    BY <2>4 DEF Done, ListSteps
  <2> QED BY <1>1, <1>3, <2>5, <2>6 DEF Beliefs, Session
<1> QED BY <1>2, <1>3

(* Each reply is read for the command it answers, and between two calls    *)
(* nothing is left unread but the end of an open transfer: ftpfs_command   *)
(* and get_reply of ftpfs.c lose no reply and read none twice, over every  *)
(* reconnect, refusal and ABOR, unless a transfer was given up without its *)
(* reply since the last login, a reconnect that failed after an abort that *)
(* timed out included.                                                     *)
THEOREM ClientAndServerStayInStep == Spec => []InStep
<1>1. IInv => InStep
  <2>1. IInv => TypeOK
    BY DEF IInv, ClientOK, ClientTyped, WireTyped, Rules, CallRec, SupRec, TypeOK
  <2> QED BY <2>1, RepliesMatchHolds DEF InStep
<1> QED BY <1>1, Invariance, PTL

(* What ftpfs.c and direntry.c remember of the session (SUP.cwdir,         *)
(* SUP.isbinary) is true on the server outside a command; a file is        *)
(* transferred as an image and a listing is that of the directory asked    *)
(* for; a download or an upload reported as complete is complete.          *)
THEOREM ClientIsAlwaysRight == Spec => []ClientIsRight
<1>1. IInv => ClientIsRight
  <2>1. IInv => ReportsAreTrue
    BY DEF IInv, InOrder, Reports, ReportsAreTrue
  <2> QED BY <2>1, CacheMatchesHolds, TransfersHold DEF ClientIsRight
<1> QED BY <1>1, Invariance, PTL

=============================================================================
