----------------------------- MODULE Transfers ------------------------------
(***************************************************************************)
(* Clients of servers of files: TFTP first, the FTP client behind it.      *)
(* Files over TFTP (stlTftp in stlTftp.cpp): get asks for a file and       *)
(* acknowledges its blocks, put offers one and sends a block for every     *)
(* acknowledgement, again when none comes.  Packets are lost, doubled,     *)
(* delayed and reordered: what was sent once may arrive at any time, and   *)
(* again.  The server is the protocol as the client uses it.               *)
(*                                                                         *)
(* A file is [full, rest]: blocks of 512 bytes and the bytes of the last   *)
(* one, which is sent even when it is empty.  Numbers of blocks have       *)
(* sixteen bits in a packet (BlockMod) and do not wrap in the client.      *)
(***************************************************************************)
EXTENDS Integers, Sequences

CONSTANTS
  TftpFiles,             (* files, [full, rest]                            *)
  ErrorCodes,            (* codes of ERROR packets                         *)
  BlockMod               (* 2^16; BOUND: smaller here                      *)

ASSUME TftpAssumption ==
  /\ BlockMod \in Nat \ {0, 1} /\ ErrorCodes \subseteq Nat
  /\ \A f \in TftpFiles : f.full \in Nat /\ f.rest \in 0 .. 511

VARIABLES
  tfNet,                 (* packets that were sent                         *)
  tfUser,                (* [op, file, wait, count, data, tx, res]         *)
  tfServer               (* [data, done, failed]                           *)
tfVars == <<tfNet, tfUser, tfServer>>

-----------------------------------------------------------------------------
MaxTimeouts == 5
Running == "running"
Blocks(f) == f.full + 1
SizeOf(f, i) == IF i <= f.full THEN 512 ELSE f.rest
Number(i) == i % BlockMod
Packet(to, type, blk, i, size) ==
  [to |-> to, type |-> type, blk |-> blk, part |-> i, size |-> size]
Request(type) == Packet("server", type, 0, 0, 10)
Data(to, f, i) == Packet(to, "data", Number(i), i, SizeOf(f, i))
Ack(to, blk) == Packet(to, "ack", blk, 0, 0)
Failure(c) == Packet("client", "error", c, 0, 10)
PacketLength(p) == p.size + 4
Arrives(p, to) == p \in tfNet /\ p.to = to
IsRunning(o) == tfUser.op = o /\ tfUser.res = Running
Ends(r) == tfUser' = [tfUser EXCEPT !.res = r]

(* The request of get or put.                                              *)
TfInit ==
  /\ \E o \in {"get", "put"}, f \in TftpFiles :
       LET request == Request(IF o = "get" THEN "read" ELSE "write")
       IN /\ o = "put" => f.full > 0 \/ f.rest > 0
          /\ tfUser = [op |-> o, file |-> f, wait |-> IF o = "get" THEN 1 ELSE 0,
                       count |-> 0, data |-> << >>, tx |-> request, res |-> Running]
          /\ tfNet = {request}
  /\ tfServer = [data |-> << >>, done |-> FALSE, failed |-> FALSE]

(* No packet within a second; a packet of less than two bytes of data      *)
(* counts as none in get.  put sends its last packet again.                *)
Counts ==
  tfUser' = [tfUser EXCEPT !.count = @ + 1,
               !.res = IF tfUser.count >= MaxTimeouts THEN "timeout" ELSE @]
Timeout ==
  /\ tfUser.res = Running /\ Counts
  /\ tfNet' = IF tfUser.op = "put" /\ tfUser.count < MaxTimeouts THEN tfNet \cup {tfUser.tx} ELSE tfNet
  /\ UNCHANGED tfServer

-----------------------------------------------------------------------------
(* get: the block that is waited for is kept and acknowledged, whatever    *)
(* its type; others are ignored, and not acknowledged again.               *)

Expected_Any(p) == TRUE  \* mutant
Expected(p) == p.blk = tfUser.wait
Complete(p) == p.type = "data" /\ p.size # 512
GetBlock(p) ==
  /\ IsRunning("get") /\ Arrives(p, "client") /\ PacketLength(p) > 5 /\ Expected(p)
  /\ tfUser' = [tfUser EXCEPT !.wait = @ + 1, !.count = 0,
                  !.data = IF p.type = "data" THEN Append(@, p.part) ELSE @,
                  !.res = IF Complete(p) THEN "ok" ELSE @]
  /\ tfNet' = tfNet \cup {Ack("server", p.blk)}
  /\ UNCHANGED tfServer
GetShort(p) ==
  /\ IsRunning("get") /\ Arrives(p, "client") /\ PacketLength(p) <= 5 /\ Counts
  /\ UNCHANGED <<tfNet, tfServer>>

(* put: the acknowledgement of the block that was sent brings the next,    *)
(* until there is none left; a wrong one only clears the timeouts.         *)
PutOfs(p) == p.blk * 512
FileLen(f) == f.full * 512 + f.rest
Finished_Early(p) == PutOfs(p) >= FileLen(tfUser.file) - 512  \* mutant
Finished(p) == PutOfs(p) > FileLen(tfUser.file)
PutAck(p) ==
  LET next == Data("server", tfUser.file, tfUser.wait + 1)
  IN /\ IsRunning("put") /\ Arrives(p, "client") /\ p.type # "error"
     /\ IF ~Expected(p) THEN tfUser' = [tfUser EXCEPT !.count = 0] /\ UNCHANGED tfNet
        ELSE IF Finished(p)
          THEN tfUser' = [tfUser EXCEPT !.count = 0, !.wait = @ + 1, !.res = "ok"] /\ UNCHANGED tfNet
        ELSE /\ tfUser' = [tfUser EXCEPT !.count = 0, !.wait = @ + 1, !.tx = next]
             /\ tfNet' = tfNet \cup {next}
     /\ UNCHANGED tfServer
PutError(p) ==
  /\ IsRunning("put") /\ Arrives(p, "client") /\ p.type = "error" /\ Ends("error")
  /\ UNCHANGED <<tfNet, tfServer>>

-----------------------------------------------------------------------------
(* The server: a block for the request and for every acknowledgement, or   *)
(* an acknowledgement for the request and for every block.                 *)

Sent == Len(tfServer.data)
ServeRead(p) ==
  /\ Arrives(p, "server") /\ ~tfServer.failed /\ ~tfServer.done
  /\ \/ p.type = "read" /\ Sent = 0
     \/ p.type = "ack" /\ Sent > 0 /\ p.blk = Number(Sent)
  /\ IF Sent = Blocks(tfUser.file)
     THEN tfServer' = [tfServer EXCEPT !.done = TRUE] /\ UNCHANGED tfNet
     ELSE /\ tfServer' = [tfServer EXCEPT !.data = Append(@, Sent + 1)]
          /\ tfNet' = tfNet \cup {Data("client", tfUser.file, Sent + 1)}
  /\ UNCHANGED tfUser
ServeWrite(p) ==
  /\ Arrives(p, "server") /\ ~tfServer.failed /\ ~tfServer.done
  /\ \/ p.type = "write" /\ Sent = 0 /\ UNCHANGED tfServer
     \/ /\ p.type = "data" /\ p.blk = Number(Sent + 1)
        /\ tfServer' = [tfServer EXCEPT !.data = Append(@, p.part), !.done = p.size < 512]
  /\ tfNet' = tfNet \cup {Ack("client", p.blk)}
  /\ UNCHANGED tfUser
ServerFails ==
  /\ ~tfServer.failed /\ tfServer' = [tfServer EXCEPT !.failed = TRUE]
  /\ \E c \in ErrorCodes : tfNet' = tfNet \cup {Failure(c)}
  /\ UNCHANGED tfUser

TfNext ==
  \/ Timeout \/ ServerFails
  \/ \E p \in tfNet : \/ GetBlock(p) \/ GetShort(p) \/ PutAck(p) \/ PutError(p)
                      \/ ServeRead(p) \/ ServeWrite(p)

-----------------------------------------------------------------------------
(* Properties.                                                             *)

TfTypeOK ==
  /\ tfUser.res \in {Running, "ok", "timeout", "error"}
  /\ tfUser.count \in 0 .. MaxTimeouts + 1 /\ tfUser.wait \in Nat

(* A file that get returns is the file, every block once and in order,     *)
(* whatever was lost, doubled or late (stlTftp::get).                      *)
InSequence(s) == \A i \in DOMAIN s : s[i] = i
GetIsFile ==
  tfUser.op = "get" =>
    /\ InSequence(tfUser.data)
    /\ tfUser.res = "ok" => Len(tfUser.data) = Blocks(tfUser.file)

(* When put returns 0 the server has all of the file, its blocks in order  *)
(* (stlTftp::put).                                                         *)
PutIsFile ==
  tfUser.op = "put" =>
    /\ InSequence(tfServer.data)
    /\ tfUser.res = "ok" => tfServer.done /\ Len(tfServer.data) = Blocks(tfUser.file)

(* What get never returns, although no packet is lost: a file whose last   *)
(* block has less than two bytes (a multiple of 512), and one of more      *)
(* blocks than a number counts; put never ends with 0 for the latter.      *)
NeverReceived ==
  tfUser.res = "ok" =>
    /\ Blocks(tfUser.file) < BlockMod
    /\ tfUser.op = "get" => tfUser.file.rest > 1

(* All of it: transfers are whole.                                         *)
TransferKept == TfTypeOK /\ GetIsFile /\ PutIsFile /\ NeverReceived

-----------------------------------------------------------------------------
(***************************************************************************)
(* The FTP client (ftpClient in stl_ftpClient.cpp): commands and answers   *)
(* over one connection, files over a second one that is made for each.  An *)
(* answer that comes after its timeout stays in the stream and is taken    *)
(* for that of a later command, until connect makes a new connection.  The *)
(* server is the protocol as the client uses it; codes are its numbers.    *)
(*                                                                         *)
(* An answer is [code, port], port the one that PASV's names; lines of an  *)
(* answer are left out.  A file is its parts 1 .. FilePartsOf[f].           *)
(***************************************************************************)

CONSTANTS
  FilePartsOf,           (* file -> how many parts it has                  *)
  MaxCalls,              (* BOUND: calls                                   *)
  MaxLateAnswers         (* BOUND: timeouts                                *)

ASSUME FtpAssumption ==
  /\ \A f \in DOMAIN FilePartsOf : FilePartsOf[f] \in Nat \ {0}
  /\ MaxCalls \in Nat /\ MaxLateAnswers \in Nat

VARIABLES
  fUser,                 (* [call, wait, file, data, logged, calls, late, res, cut] *)
  fLine,                 (* [cmds, answers]: what is on its way            *)
  fData,                 (* [port, parts, open]: the client's data connection *)
  fServer                (* [logged, user, port, open, sending, sent]            *)
ftpVars == <<fUser, fLine, fData, fServer>>

-----------------------------------------------------------------------------
FtpTimeout == -5
NoPort == 0
Nothing == [port |-> NoPort, parts |-> << >>, open |-> FALSE]
FtpFiles == DOMAIN FilePartsOf
Sends(c) == fLine' = [fLine EXCEPT !.cmds = Append(@, c)]
Command(c) == [name |-> c, file |-> fUser.file]
(* The end of a call: late counts the timeouts since connect.              *)
FtpReturn(u, r) == [u EXCEPT !.call = "none", !.wait = "none", !.res = r]

FtpInit ==
  /\ fUser = [call |-> "none", wait |-> "none", file |-> "", data |-> << >>,
              logged |-> FALSE, calls |-> 0, late |-> 0, res |-> "new", cut |-> FALSE]
  /\ fLine = [cmds |-> << >>, answers |-> << >>] /\ fData = Nothing
  /\ fServer = [logged |-> FALSE, user |-> FALSE, port |-> NoPort, open |-> FALSE, sending |-> "", sent |-> 0]

-----------------------------------------------------------------------------
(* The calls.  connect releases the connection there was; download and     *)
(* getList begin with TYPE I and PASV.                                     *)

FtpIdle == fUser.call = "none" /\ fUser.calls < MaxCalls
Calls(c, w, f) ==
  [fUser EXCEPT !.call = c, !.wait = w, !.file = f, !.calls = @ + 1, !.cut = FALSE, !.data = << >>]
Renewed_LoggedIn(u) == [u EXCEPT !.late = 0]  \* mutant
Renewed(u) == [u EXCEPT !.logged = FALSE, !.late = 0]
FtpConnect ==
  /\ FtpIdle
  /\ \/ /\ fUser' = Renewed(Calls("connect", "welcome", ""))
        /\ fLine' = [cmds |-> <<[name |-> "welcome", file |-> ""]>>, answers |-> << >>]
     \/ /\ fUser' = Renewed(FtpReturn(Calls("connect", "", ""), "closed"))
        /\ fLine' = [cmds |-> << >>, answers |-> << >>]
  /\ fServer' = [logged |-> FALSE, user |-> FALSE, port |-> NoPort, open |-> FALSE, sending |-> "", sent |-> 0]
  /\ UNCHANGED fData
Connected == fUser.res \notin {"new", "closed"}
Starts(call, c, f) ==
  /\ FtpIdle /\ Connected
  /\ fUser' = Calls(call, c, f) /\ Sends([name |-> c, file |-> f])
  /\ UNCHANGED <<fData, fServer>>
Login == ~fUser.logged /\ Starts("login", "USER", "")
SetPWD == Starts("cwd", "CWD", "")
GetPWD == fUser.logged /\ Starts("pwd", "PWD", "")
Download(f) == Starts("download", "TYPE", f)

-----------------------------------------------------------------------------
(* What an answer of code c, with a port p, or a timeout, does.            *)

InUser(c) == c >= 200 /\ c <= 400
Preliminary(c) == c >= 100 /\ c <= 200
Positive(c) == c >= 200 /\ c <= 300

(* The state after an answer: the caller's, a command to send, and the     *)
(* data connection.                                                        *)
Step(u, cmd, data) == [u |-> u, cmd |-> cmd, data |-> data]
GoOn(u, cmd) == Step([u EXCEPT !.wait = cmd], <<Command(cmd)>>, fData)
FtpEnds(u, r) == Step(FtpReturn(u, r), << >>, Nothing)
DataPort(p) == IF p = fServer.port /\ fServer.open THEN [Nothing EXCEPT !.port = p, !.open = TRUE]
               ELSE Nothing
After(u, c, p) ==
  CASE u.wait = "welcome" -> FtpEnds(u, IF c >= 200 /\ c < 300 THEN "ok" ELSE "error")
    [] u.wait = "USER" ->
         IF ~InUser(c) THEN FtpEnds(u, "error")
         ELSE IF c > 300 THEN GoOn(u, "PASS") ELSE FtpEnds([u EXCEPT !.logged = TRUE], "ok")
    [] u.wait = "PASS" ->
         IF Positive(c) THEN FtpEnds([u EXCEPT !.logged = TRUE], "ok") ELSE FtpEnds(u, "error")
    [] u.wait = "CWD" -> FtpEnds(u, IF c > 200 /\ c < 300 THEN "ok" ELSE "error")
    [] u.wait = "PWD" -> FtpEnds(u, IF c = 257 THEN "ok" ELSE "null")
    [] u.wait = "TYPE" -> GoOn(u, "PASV")
    [] u.wait = "PASV" ->
         IF Positive(c) /\ DataPort(p).open
           THEN Step([u EXCEPT !.wait = "RETR"], <<Command("RETR")>>, DataPort(p))
           ELSE FtpEnds(u, "null")
    [] u.wait = "RETR" ->
         IF Preliminary(c) THEN Step([u EXCEPT !.wait = "data"], << >>, fData) ELSE FtpEnds(u, "null")
    [] OTHER -> IF Positive(c) THEN FtpEnds(u, "ok") ELSE FtpEnds([u EXCEPT !.data = << >>], "null")
Waits == fUser.wait \notin {"none", "data"}
Comes(u, c, p, answers) ==
  LET s == After(u, c, p)
  IN /\ fUser' = s.u /\ fData' = s.data
     /\ fLine' = [cmds |-> fLine.cmds \o s.cmd, answers |-> answers]
     /\ UNCHANGED fServer
GetAnswer ==
  /\ Waits /\ fLine.answers # << >>
  /\ LET a == Head(fLine.answers) IN Comes(fUser, a.code, a.port, Tail(fLine.answers))
GetNone ==
  /\ Waits /\ fUser.late < MaxLateAnswers
  /\ Comes([fUser EXCEPT !.late = @ + 1], FtpTimeout, NoPort, fLine.answers)

(* getFtpData: until the server closes the connection, or a part is late.  *)
ReadPart ==
  /\ fUser.wait = "data" /\ fData.parts # << >>
  /\ fUser' = [fUser EXCEPT !.data = Append(@, Head(fData.parts))]
  /\ fData' = [fData EXCEPT !.parts = Tail(@)]
  /\ UNCHANGED <<fLine, fServer>>
AfterData_Returns(u) == FtpReturn(u, "ok")  \* mutant
AfterData(u) == [u EXCEPT !.wait = "end"]
EndData ==
  /\ fUser.wait = "data"
  /\ fUser' = [AfterData(fUser) EXCEPT !.cut = fData.parts # << >> \/ fData.open]
  /\ fData' = Nothing
  /\ UNCHANGED <<fLine, fServer>>

-----------------------------------------------------------------------------
(* The server: one command at a time, a transfer before the next.          *)

Answers(as) == fLine' = [cmds |-> Tail(fLine.cmds), answers |-> fLine.answers \o as]
Code(c) == [code |-> c, port |-> NoPort]
Refuses == Answers(<<Code(530)>>) /\ UNCHANGED <<fServer, fData>>
HasData == fData.open /\ fData.port = fServer.port
ServesFtp(c) ==
  CASE c.name = "welcome" -> Answers(<<Code(220)>>) /\ UNCHANGED <<fServer, fData>>
    [] c.name = "USER" -> /\ Answers(<<Code(331)>>) /\ UNCHANGED fData
                          /\ fServer' = [fServer EXCEPT !.user = TRUE, !.logged = FALSE]
    [] c.name = "PASS" /\ fServer.user ->
         /\ Answers(<<Code(230)>>) /\ fServer' = [fServer EXCEPT !.logged = TRUE] /\ UNCHANGED fData
    [] c.name = "TYPE" -> Answers(<<Code(200)>>) /\ UNCHANGED <<fServer, fData>>
    [] ~fServer.logged -> Refuses
    [] c.name = "CWD" -> Answers(<<Code(250)>>) /\ UNCHANGED <<fServer, fData>>
    [] c.name = "PWD" -> Answers(<<Code(257)>>) /\ UNCHANGED <<fServer, fData>>
    [] c.name = "PASV" ->
         /\ fServer' = [fServer EXCEPT !.port = @ + 1, !.open = TRUE]
         /\ Answers(<<[code |-> 227, port |-> fServer.port + 1]>>)
         /\ fData' = [fData EXCEPT !.open = FALSE]
    [] c.name = "RETR" /\ HasData ->
         /\ Answers(<<Code(150)>>) /\ UNCHANGED fData
         /\ fServer' = [fServer EXCEPT !.sending = c.file, !.sent = 0]
    [] OTHER -> Refuses
FtpServe ==
  /\ fLine.cmds # << >> /\ fServer.sending = ""
  /\ ServesFtp(Head(fLine.cmds)) \/ (Refuses /\ Head(fLine.cmds).name # "TYPE")
  /\ UNCHANGED fUser
SendPart ==
  /\ fServer.sending # "" /\ fServer.sent < FilePartsOf[fServer.sending]
  /\ fServer' = [fServer EXCEPT !.sent = @ + 1]
  /\ fData' = IF HasData THEN [fData EXCEPT !.parts = Append(@, <<fServer.sending, fServer.sent + 1>>)]
              ELSE fData
  /\ UNCHANGED <<fUser, fLine>>
(* The end of a transfer.  A client that is gone may be noticed or not.    *)
EndSend ==
  /\ fServer.sending # ""
  /\ LET all == fServer.sent = FilePartsOf[fServer.sending]
     IN \E c \in (IF all THEN {226} ELSE {}) \cup (IF HasData /\ all THEN {} ELSE {426}) :
          fLine' = [fLine EXCEPT !.answers = Append(@, Code(c))]
  /\ fServer' = [fServer EXCEPT !.sending = "", !.open = FALSE]
  /\ fData' = IF HasData THEN [fData EXCEPT !.open = FALSE] ELSE fData
  /\ UNCHANGED fUser

FtpNext ==
  \/ FtpConnect \/ Login \/ SetPWD \/ GetPWD \/ \E f \in FtpFiles : Download(f)
  \/ GetAnswer \/ GetNone \/ ReadPart \/ EndData
  \/ FtpServe \/ SendPart \/ EndSend

-----------------------------------------------------------------------------
(* Properties.                                                             *)

FtpTypeOK ==
  /\ fUser.late \in 0 .. MaxLateAnswers /\ fUser.calls \in 0 .. MaxCalls
  /\ fData.open => fData.port # NoPort

(* What download returns is the beginning of the file that was asked for,  *)
(* never of that of an earlier call (ftpClient::download, enterPassive).   *)
(* Only when two answers of the connection were late can it be another:    *)
(* PASV then gets the port of an earlier call, whose RETR is still to come.*)
OfTheFile ==
  fUser.late <= 1 => \A i \in DOMAIN fUser.data : fUser.data[i] = <<fUser.file, i>>

(* It is all of the file when no answer of this connection was late and    *)
(* the data did not pause: a pause of a quarter of a second ends the data, *)
(* and a late answer makes that of TYPE one to RETR, with an empty file.   *)
Downloaded == fUser.call = "none" /\ fUser.res = "ok" /\ fUser.file # ""
WholeWhenInTime ==
  Downloaded /\ fUser.late = 0 /\ ~fUser.cut => Len(fUser.data) = FilePartsOf[fUser.file]

(* loggedIn means that the server let the user in, unless an answer was    *)
(* late: then a late welcome is taken for the answer to USER.              *)
LoggedInIsTrue == fUser.logged /\ fUser.late = 0 => fServer.logged

(* The answer the client waits for is the one to its command: none is      *)
(* left over between calls, and one that comes late is there until connect.*)
NoneLeftOver ==
  fUser.call = "none" /\ fUser.late = 0 => fLine.answers = << >> /\ fLine.cmds = << >>

(* All of it: files are what was asked for.                                *)
DownloadsKept == FtpTypeOK /\ OfTheFile /\ WholeWhenInTime /\ LoggedInIsTrue /\ NoneLeftOver
=============================================================================
