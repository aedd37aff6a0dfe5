----------------------------- MODULE Dialogues ------------------------------
(***************************************************************************)
(* Clients of servers: mail first, the HTTP client behind it.              *)
(* Sending a mail (stlSmtpSendEx in stl_smtp.c): a dialogue of commands    *)
(* and answers with a server, one recipient at a time, then the text, in   *)
(* which a line of one dot gets a second one.  An answer may come after    *)
(* its timeout, and is then read as the answer to a later command; the     *)
(* connection may be lost.  The server is the protocol as the client uses  *)
(* it.                                                                     *)
(*                                                                         *)
(* Codes of answers are 2 (accepted), 3 (go on with the text), 5 (refused) *)
(* and 0 (none in time); that of the welcome may be anything from 200 to   *)
(* 299.  A text is a sequence of lines; only the lines that begin with a   *)
(* dot are told apart.                                                     *)
(***************************************************************************)
EXTENDS Integers, Sequences
LOCAL INSTANCE SequencesExt

CONSTANTS
  Recipients,            (* how many recipients: 1 .. Recipients           *)
  Mails,                 (* texts                                          *)
  MaxLate                (* BOUND: timeouts                                *)

ASSUME SmtpAssumption == Recipients \in Nat \ {0} /\ MaxLate \in Nat

VARIABLES
  mPc,                   (* command the client waits for an answer to, or "done" *)
  mErr,                  (* iErr                                           *)
  mMark,                 (* recipient -> "", "OK" or "REJECT" in sDest     *)
  mText,                 (* sEml                                           *)
  toServer,              (* commands on their way                          *)
  toClient,              (* answers on their way                           *)
  mServer,               (* [from, accepted, inText, got, delivered, lost] *)
  mLate                  (* timeouts                                       *)
mailVars == <<mPc, mErr, mMark, mText, toServer, toClient, mServer, mLate>>

-----------------------------------------------------------------------------
(* The text: stlSwapStr of newline, dot, newline.  The newline that ends   *)
(* one line is not seen again as the one before the next, and there is     *)
(* none before the first line and behind the last one.                     *)

Cmd(n, a) == [name |-> n, arg |-> a]
(* Whether each line was changed: f[n] for the first n lines.              *)
Swapped(text) ==
  FoldLeft(LAMBDA s, l :
             Append(s, l = "." /\ Len(s) > 0 /\ Len(s) + 1 < Len(text) /\ ~Last(s)),
           << >>, text)
SwappedLines_Not(text) == text  \* mutant
SwappedLines(text) == [i \in DOMAIN text |-> IF Swapped(text)[i] THEN ".." ELSE text[i]]
(* What a server makes of it: the text ends at a line of one dot, and      *)
(* another line that begins with a dot loses it.                           *)
Unstuffed(l) == CASE l = ".." -> "." [] l = ".x" -> "x" [] OTHER -> l
Received(lines) ==
  LET ends == {i \in DOMAIN lines : lines[i] = "."}
      n == IF ends = {} THEN Len(lines) ELSE CHOOSE i \in ends : \A j \in ends : i <= j
  IN [i \in 1 .. (IF ends = {} THEN n ELSE n - 1) |-> Unstuffed(lines[i])]

-----------------------------------------------------------------------------
(* stlSmtpSendEx.  Whether a command or the text could be sent is never    *)
(* known: stlTcpWriteNF returns 0 on a lost connection as well.            *)
(* _smtpReadResponse takes the next answer, or 0 after a timeout.          *)

Say(n, a) == toServer' = Append(toServer, Cmd(n, a))
WaitFor(n, i) == mPc' = <<n, i>>
AsksMail(n, i) == Say(n, i) /\ WaitFor(n, i) /\ UNCHANGED mErr
Fails(e) == mErr' = e /\ WaitFor("done", 0) /\ UNCHANGED toServer
Ok(c) == c = 2
SmtpGoesOn(c) == c = 3
NextRcpt(i) ==
  IF i < Recipients THEN Say("rcpt", i + 1) /\ WaitFor("rcpt", i + 1)
  ELSE Say("data", 0) /\ WaitFor("data", 0)

Dial ==
  /\ mPc[1] = "connect"
  /\ \/ Say("welcome", 0) /\ WaitFor("welcome", 0) /\ UNCHANGED mErr
     \/ IF mPc[2] = 1 THEN WaitFor("connect", 2) /\ UNCHANGED <<mErr, toServer>> ELSE Fails(-1)
  /\ UNCHANGED <<mMark, mText, toClient, mServer, mLate>>
Welcome(c) == mPc[1] = "welcome" /\ (IF Ok(c) THEN AsksMail("helo", 0) ELSE Fails(-2))
Helo(c) == mPc[1] = "helo" /\ (IF Ok(c) THEN AsksMail("mail", 0) ELSE Fails(-3))
MailFrom(c) ==
  mPc[1] = "mail" /\ (IF Ok(c) THEN NextRcpt(0) /\ UNCHANGED mErr ELSE Fails(-3))
MarkAs_Always(c) == "OK"  \* mutant
MarkAs(c) == IF Ok(c) THEN "OK" ELSE "REJECT"
RcptTo(c) ==
  /\ mPc[1] = "rcpt" /\ NextRcpt(mPc[2])
  /\ mMark' = [mMark EXCEPT ![mPc[2]] = MarkAs(c)]
  /\ mErr' = IF Ok(c) THEN mErr ELSE mErr - 4
SendText(c) ==
  /\ mPc[1] = "data"
  /\ IF ~SmtpGoesOn(c) THEN Fails(-5)
     ELSE /\ toServer' = toServer \o <<Cmd("text", SwappedLines(mText)), Cmd("end", 0)>>
          /\ WaitFor("end", 0) /\ UNCHANGED mErr
EndOfText(c) == mPc[1] = "end" /\ (IF Ok(c) THEN AsksMail("quit", 0) ELSE Fails(-7))
Quit(c) == mPc[1] = "quit" /\ WaitFor("done", 0) /\ UNCHANGED <<mErr, toServer>>

OnAnswer(c) ==
  \/ /\ \/ Welcome(c) \/ Helo(c) \/ MailFrom(c) \/ SendText(c) \/ EndOfText(c) \/ Quit(c)
     /\ UNCHANGED mMark
  \/ RcptTo(c)
Answer ==
  /\ toClient # << >> /\ OnAnswer(Head(toClient)) /\ toClient' = Tail(toClient)
  /\ UNCHANGED <<mText, mServer, mLate>>
NoAnswer ==
  /\ toClient = << >> /\ OnAnswer(0)
  /\ mLate' = IF mServer.lost THEN mLate ELSE mLate + 1
  /\ mLate' <= MaxLate
  /\ UNCHANGED <<toClient, mText, mServer>>

-----------------------------------------------------------------------------
(* The server.                                                             *)

Says(cs) == toClient' = toClient \o cs
TakesMail(cmd, c) ==
  LET cut == cmd.name = "text" /\ Len(Received(cmd.arg)) < Len(cmd.arg)
  IN CASE cmd.name = "mail" -> [mServer EXCEPT !.from = Ok(c)]
       [] cmd.name = "rcpt" -> [mServer EXCEPT !.accepted = IF Ok(c) THEN @ \cup {cmd.arg} ELSE @]
       [] cmd.name = "data" -> [mServer EXCEPT !.inText = SmtpGoesOn(c)]
       [] cmd.name = "text" ->
            [mServer EXCEPT !.got = <<Received(cmd.arg)>>, !.inText = ~cut,
                            !.delivered = IF cut /\ Ok(c) THEN <<Received(cmd.arg)>> ELSE @]
       [] cmd.name = "end" /\ mServer.inText ->
            [mServer EXCEPT !.inText = FALSE, !.delivered = IF Ok(c) THEN mServer.got ELSE @]
       [] OTHER -> mServer
MayAnswer(cmd) ==
  CASE cmd.name = "data" -> IF mServer.from THEN {3, 5} ELSE {5}
    [] cmd.name = "rcpt" -> IF mServer.from THEN {2, 5} ELSE {5}
    [] cmd.name = "end" -> IF mServer.inText THEN {2, 5} ELSE {5}
    [] OTHER -> {2, 5}
MailServe ==
  /\ toServer # << >> /\ ~mServer.lost
  /\ \E c \in MayAnswer(Head(toServer)) :
       /\ mServer' = TakesMail(Head(toServer), c)
       /\ Says(IF Head(toServer).name # "text" THEN <<c>>
               ELSE IF mServer'.inText THEN << >> ELSE <<c, 5>>)
  /\ toServer' = Tail(toServer)
  /\ UNCHANGED <<mPc, mErr, mMark, mText, mLate>>
Lost ==
  /\ mPc[1] # "connect" /\ ~mServer.lost /\ mServer' = [mServer EXCEPT !.lost = TRUE]
  /\ toClient' = << >>
  /\ UNCHANGED <<mPc, mErr, mMark, mText, toServer, mLate>>

MailInit ==
  /\ mPc = <<"connect", 1>> /\ mErr = 0 /\ mMark = [r \in 1 .. Recipients |-> ""]
  /\ mText \in Mails /\ toServer = << >> /\ toClient = << >> /\ mLate = 0
  /\ mServer = [from |-> FALSE, accepted |-> {}, inText |-> FALSE, got |-> << >>,
                delivered |-> << >>, lost |-> FALSE]
MailNext == Dial \/ Answer \/ NoAnswer \/ MailServe \/ Lost

-----------------------------------------------------------------------------
(* Properties.                                                             *)

MailTypeOK ==
  /\ mErr <= 0 /\ mLate \in 0 .. MaxLate
  /\ \A r \in 1 .. Recipients : mMark[r] \in {"", "OK", "REJECT"}
Delivered == mServer.delivered # << >>
Rejected == {r \in 1 .. Recipients : mMark[r] = "REJECT"}

(* A mail that goes out goes to exactly the recipients that are marked OK  *)
(* in sDest, also when an answer came after its timeout and was taken for  *)
(* that of another recipient: then the answer to DATA is wrong too.        *)
DeliveredToMarked ==
  Delivered => mServer.accepted = {r \in 1 .. Recipients : mMark[r] = "OK"}

(* 0 means that the server took the mail for every recipient; -1, -2, -3   *)
(* and -5 that nobody gets it (stlSmtpSendEx).                             *)
ResultIsTrue ==
  mPc[1] = "done" =>
    /\ mErr = 0 => Delivered /\ mServer.accepted = 1 .. Recipients
    /\ mErr \in {-1, -2, -3, -5} => ~Delivered

(* Each recipient that is refused takes 4 from the result: one is -4, as   *)
(* the description says of one or more, two are -8.                        *)
RefusedAreCounted == mPc[1] = "quit" => mErr = -4 * Len(SetToSeq(Rejected))

(* The text arrives as it is, unless a line of one dot is the first, the   *)
(* last, or follows on another, or a longer line begins with a dot.        *)
WellDotted(text) ==
  \A i \in DOMAIN text :
    text[i] # "x" => text[i] = "." /\ 1 < i /\ i < Len(text) /\ text[i - 1] # "."
TextIsWhole == Delivered => (mServer.delivered = <<mText>> <=> WellDotted(mText))

(* All of it: mails go where they are said to go.                          *)
MailKept ==
  MailTypeOK /\ DeliveredToMarked /\ ResultIsTrue /\ RefusedAreCounted /\ TextIsWhole

-----------------------------------------------------------------------------
(***************************************************************************)
(* The HTTP client (stlHttpClient in stl_httpClient.cpp, with the reply of *)
(* stl_httpReply.cpp): post sends its header, waits for the server to say  *)
(* that it goes on (100), sends its data, and leaves the reply to a call   *)
(* of read; execute gets a page.  The connection is kept between posts,    *)
(* the server may close it meanwhile, and a header is then sent again on   *)
(* a new one.  What is late stays in the stream.  There may be a backup    *)
(* host.  The servers are the protocol as the client uses it.              *)
(*                                                                         *)
(* What goes to a server is [what, of, host]: a header or data of request  *)
(* number of, host the name in the header.  A reply is [code, of, body]:   *)
(* body "whole" has its length, "toEnd" has none, "chunked" comes in two   *)
(* parts; code 0 stands for one that cannot be read.                       *)
(***************************************************************************)

CONSTANTS
  MaxRequests,           (* BOUND: calls of post and execute               *)
  MaxHttpLate,           (* BOUND: timeouts                                *)
  MaxHttpLost            (* BOUND: connections that servers close          *)

ASSUME HttpAssumption ==
  MaxRequests \in Nat /\ MaxHttpLate \in Nat /\ MaxHttpLost \in Nat

VARIABLES
  hcUser,                (* [keepAlive, backup, op, req, errs, res, reply, sent] *)
  hcHosts,               (* [name: hHost, up: hosts that answer, lost: count] *)
  hcConn,                (* [stc, lost, closed, to, isBackup, late, strange, out, in] *)
  hcServer               (* [waits: request, took: <<request, what, of>>, wrong]  *)
hcVars == <<hcUser, hcHosts, hcConn, hcServer>>

Hosts == {"first", "second", "backup"}
MaxErrors == 2
Silent == [code |-> 0, of |-> 0, body |-> "whole"]
NoConn == [stc |-> FALSE, lost |-> FALSE, closed |-> FALSE, to |-> "first", isBackup |-> FALSE,
           late |-> 0, strange |-> FALSE, out |-> << >>, in |-> << >>]
NoServer == [waits |-> 0, took |-> {}]

HcInit ==
  /\ \E k, b \in BOOLEAN :
       hcUser = [keepAlive |-> k, backup |-> b, op |-> "none", req |-> 0, errs |-> 0, res |-> 0,
                 reply |-> Silent, sent |-> 0]
  /\ hcHosts = [name |-> "first", up |-> Hosts, lost |-> 0]
  /\ hcConn = NoConn /\ hcServer = NoServer

-----------------------------------------------------------------------------
(* connect: the host, or else the backup; a connection that is there is    *)
(* kept, also when it is lost or to another host than hHost is now.        *)

Reached ==
  IF hcHosts.name \in hcHosts.up THEN {hcHosts.name}
  ELSE IF hcUser.backup /\ "backup" \in hcHosts.up THEN {"backup"} ELSE {}
NewConn(h) == [NoConn EXCEPT !.stc = TRUE, !.to = h, !.isBackup = (h = "backup")]
(* The name that constructHeader gives.                                    *)
HostName_First(c) == hcHosts.name  \* mutant
HostName(c) == IF c.isBackup /\ hcUser.backup THEN "backup" ELSE hcHosts.name
Item(w, r, h) == [what |-> w, of |-> r, host |-> h]
Writes(c, m) == IF c.lost \/ c.closed THEN c ELSE [c EXCEPT !.out = Append(@, m)]

-----------------------------------------------------------------------------
(* post and execute, to the point where a reply is waited for.  After a    *)
(* post that returns 0 the caller reads the reply first ("unread").        *)

HcIdle == hcUser.op = "none"
HcWaits == hcUser.op \in {"post", "read", "execute"}
Asks(op, what) ==
  /\ HcIdle /\ hcUser.req < MaxRequests
  /\ LET r == hcUser.req + 1
         called == [hcUser EXCEPT !.req = r, !.errs = 0, !.reply = Silent, !.sent = 0]
         sendsOn(c) == /\ hcConn' = Writes(c, Item(what, r, HostName(c)))
                       /\ hcUser' = [called EXCEPT !.op = op]
     IN \/ hcConn.stc /\ sendsOn(hcConn) /\ UNCHANGED hcServer
        \/ /\ ~hcConn.stc /\ Reached = {}
           /\ hcUser' = [called EXCEPT !.res = -1] /\ UNCHANGED <<hcConn, hcServer>>
        \/ /\ ~hcConn.stc /\ hcServer' = NoServer
           /\ \E h \in Reached : sendsOn(NewConn(h))
  /\ UNCHANGED hcHosts
Post == Asks("post", IF hcUser.keepAlive THEN "expect" ELSE "post")
Execute == Asks("execute", "get")
ReadReply ==
  /\ hcUser.op = "unread"
  /\ hcUser' = [hcUser EXCEPT !.op = "read"]
  /\ UNCHANGED <<hcHosts, hcConn, hcServer>>
SetHost ==
  /\ HcIdle /\ hcHosts.name = "first"
  /\ hcHosts' = [hcHosts EXCEPT !.name = "second"]
  /\ UNCHANGED <<hcUser, hcConn, hcServer>>

-----------------------------------------------------------------------------
(* A reply a, and the connection c after it was read.  The first part of a *)
(* chunked body is read and the rest is left; a body without a length is   *)
(* read until the server closes or is silent.                              *)

Releases(c) == [NoConn EXCEPT !.to = c.to]
SaysHow(a) == IF a.code > 0 THEN -a.code ELSE -2
SendsBody_Always(a) == TRUE  \* mutant
SendsBody(a) == a.code = 100
Again(c) == hcUser.keepAlive /\ c.lost /\ hcUser.errs < MaxErrors
PostGot(a, c) ==
  /\ hcUser.op = "post"
  /\ IF Again(c)
     THEN IF Reached = {}
          THEN /\ hcConn' = Releases(c) /\ hcServer' = NoServer
               /\ hcUser' = [hcUser EXCEPT !.op = "none", !.res = -3]
          ELSE /\ \E h \in Reached :
                    hcConn' = Writes(NewConn(h), Item("expect", hcUser.req, HostName(NewConn(h))))
               /\ hcServer' = NoServer
               /\ hcUser' = [hcUser EXCEPT !.errs = @ + 1]
     ELSE /\ UNCHANGED hcServer
          /\ IF SendsBody(a)
             THEN /\ hcUser' = [hcUser EXCEPT !.op = IF c.lost THEN "none" ELSE "unread",
                                  !.res = IF c.lost THEN -99 ELSE 0, !.sent = hcUser.req]
                  /\ hcConn' = Writes(c, Item("data", hcUser.req, ""))
             ELSE /\ hcUser' = [hcUser EXCEPT !.op = "none", !.res = SaysHow(a)]
                  /\ hcConn' = c
ReadGot(a, c) ==
  /\ hcUser.op = "read" /\ hcConn' = c /\ hcUser' = [hcUser EXCEPT !.op = "none", !.reply = a]
  /\ UNCHANGED hcServer
ExecuteGot(a, c) ==
  /\ hcUser.op = "execute" /\ hcConn' = Releases(c)
  /\ hcUser' = [hcUser EXCEPT !.op = "none", !.reply = a, !.res = a.code]
  /\ hcServer' = NoServer
Got(a, c) == (PostGot(a, c) \/ ReadGot(a, c) \/ ExecuteGot(a, c)) /\ UNCHANGED hcHosts

AfterBody(a) ==
  LET rest == Tail(hcConn.in)
  IN CASE a.body = "chunked" -> [hcConn EXCEPT !.in = <<[a EXCEPT !.body = "blank"], [a EXCEPT !.body = "rest"]>> \o rest,
                                               !.strange = TRUE]
       [] a.body = "toEnd" \/ a.body = "rest" -> [hcConn EXCEPT !.in = << >>, !.lost = hcConn.closed]
       [] OTHER -> [hcConn EXCEPT !.in = rest]
GetReply ==
  /\ HcWaits /\ ~hcConn.lost /\ hcConn.in # << >>
  /\ LET a == Head(hcConn.in)
     IN Got(IF a.body \in {"blank", "rest"} THEN Silent ELSE a, AfterBody(a))
GetLost ==
  /\ HcWaits /\ hcConn.in = << >> /\ hcConn.closed
  /\ Got(Silent, [hcConn EXCEPT !.lost = TRUE])
GetTimeout ==
  /\ HcWaits /\ hcConn.in = << >> /\ ~hcConn.closed /\ hcConn.late < MaxHttpLate
  /\ Got(Silent, [hcConn EXCEPT !.late = @ + 1])

-----------------------------------------------------------------------------
(* The server: what follows a header it said 100 to is the data.           *)

Replies == {[code |-> 200, body |-> "whole"], [code |-> 200, body |-> "chunked"],
            [code |-> 500, body |-> "toEnd"]}
Reply(r, of) == [code |-> r.code, of |-> of, body |-> r.body]
HttpServe ==
  /\ hcConn.out # << >> /\ ~hcConn.closed
  /\ LET m == Head(hcConn.out)
         says(as) == hcConn' = [hcConn EXCEPT !.out = Tail(@), !.in = @ \o as]
     IN IF hcServer.waits # 0
        THEN /\ hcServer' = [waits |-> 0,
                             took |-> hcServer.took \cup {<<hcServer.waits, m.what, m.of>>}]
             /\ \E r \in Replies : says(<<Reply(r, hcServer.waits)>>)
        ELSE CASE m.what = "expect" ->
                    \/ /\ hcServer' = [hcServer EXCEPT !.waits = m.of]
                       /\ says(<<[code |-> 100, of |-> m.of, body |-> "whole"]>>)
                    \/ /\ UNCHANGED hcServer
                       /\ \E r \in Replies : r.code = 500 /\ says(<<Reply(r, m.of)>>)
               [] m.what = "post" -> hcServer' = [hcServer EXCEPT !.waits = m.of] /\ says(<< >>)
               [] m.what = "get" -> UNCHANGED hcServer /\ \E r \in Replies : says(<<Reply(r, m.of)>>)
               [] OTHER -> UNCHANGED hcServer /\ says(<<Reply([code |-> 400, body |-> "whole"], 0)>>)
  /\ UNCHANGED <<hcUser, hcHosts>>
Closes ==
  /\ hcConn.stc /\ ~hcConn.closed /\ hcHosts.lost < MaxHttpLost
  /\ hcConn' = [hcConn EXCEPT !.closed = TRUE, !.out = << >>]
  /\ hcHosts' = [hcHosts EXCEPT !.lost = @ + 1]
  /\ UNCHANGED <<hcUser, hcServer>>
HostFails ==
  /\ \E h \in hcHosts.up : hcHosts' = [hcHosts EXCEPT !.up = @ \ {h}]
  /\ UNCHANGED <<hcUser, hcConn, hcServer>>

HcNext ==
  \/ Post \/ Execute \/ ReadReply \/ SetHost
  \/ GetReply \/ GetLost \/ GetTimeout
  \/ HttpServe \/ Closes \/ HostFails

-----------------------------------------------------------------------------
(* Properties.                                                             *)

HcTypeOK ==
  /\ hcUser.errs \in 0 .. MaxErrors /\ hcUser.req \in 0 .. MaxRequests
  /\ hcUser.sent \in 0 .. hcUser.req /\ hcConn.late \in 0 .. MaxHttpLate

(* In time: nothing on this connection was late, and no chunked reply left *)
(* its rest in the stream.                                                 *)
InTime == hcConn.late = 0 /\ ~hcConn.strange

(* The data a server takes for a request is that of the request: also when *)
(* the header was sent again, and only a timeout or the rest of a chunked  *)
(* reply lets it take the next header for data (stlHttpClient::post).      *)
DataIsOwn ==
  InTime /\ hcUser.keepAlive => \A t \in hcServer.took : t[2] = "data" /\ t[3] = t[1]

(* The reply that read or execute returns is the one to its request.       *)
ReplyIsOwn ==
  InTime /\ hcConn.stc /\ hcUser.reply.code > 0 => hcUser.reply.of = hcUser.req

(* A post that returns 0 was told to go on: without keepAlive no server is *)
(* asked to, and every post fails.                                         *)
PostsNeedKeepAlive == hcUser.sent > 0 /\ hcConn.late = 0 => hcUser.keepAlive

(* A header names the host it goes to, the backup too, unless setHost was  *)
(* called while the connection was kept.                                   *)
NamesItsHost ==
  hcConn.to # "first" \/ hcHosts.name = "first" =>
    \A i \in DOMAIN hcConn.out : hcConn.out[i].what = "data" \/ hcConn.out[i].host = hcConn.to

(* All of it: requests and replies belong together.                        *)
RequestsOwn == HcTypeOK /\ DataIsOwn /\ ReplyIsOwn /\ PostsNeedKeepAlive /\ NamesItsHost
=============================================================================
