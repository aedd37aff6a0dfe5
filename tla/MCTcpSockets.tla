---------------------------- MODULE MCTcpSockets ----------------------------
(* Instances for TLC of servers: TCP services (TcpServer), the sockets of  *)
(* connections and UDP (Sockets), the files of a configuration document    *)
(* (XmlDoc), and clients of servers of files (Transfers), mail and pages   *)
(* (Dialogues).  They share no state: part is the one that moves, the      *)
(* others stay as they begin (in one of their initial states, so that none *)
(* is explored twice).                                                     *)
EXTENDS MCTcpServer, Sockets, XmlDoc, Transfers, Dialogues

TwoPeers == {<<"h1", 1>>, <<"h2", 2>>}

(* Files of one block to one more than a number counts.                    *)
SomeFiles == [full : 0 .. 3, rest : {0, 1, 100}]
SomeMails == UNION {[1 .. n -> {"x", "."}] : n \in 1 .. 4} \cup {<<"x", "..">>, <<"x", ".x", "x">>}
TwoFiles == [a |-> 2, b |-> 1]

VARIABLE part

dialogueVars == <<tfVars, mailVars, ftpVars, hcVars>>

AllInit ==
  /\ part \in {"services", "sockets", "files", "tftp", "smtp", "ftp", "http"}
  /\ Init /\ SkInit /\ XdInit /\ TfInit /\ MailInit /\ FtpInit /\ HcInit
  /\ part # "services" => case = CHOOSE c \in Cases : TRUE
  /\ part # "files" => cfgDoc = NoDoc
  /\ part # "tftp" => tfUser.op = "get" /\ tfUser.file = [full |-> 0, rest |-> 0]
  /\ part # "smtp" => mText = <<"x">>
  /\ part # "http" => ~hcUser.keepAlive /\ ~hcUser.backup

ServerParts == <<part, vars, skVars, fileVars>>
AllNext ==
  \/ part = "services" /\ Next /\ UNCHANGED <<part, skVars, fileVars, dialogueVars>>
  \/ part = "sockets" /\ SkNext /\ UNCHANGED <<part, vars, fileVars, dialogueVars>>
  \/ part = "files" /\ XdNext /\ UNCHANGED <<part, vars, skVars, dialogueVars>>
  \/ part = "tftp" /\ TfNext /\ UNCHANGED <<ServerParts, mailVars, ftpVars, hcVars>>
  \/ part = "smtp" /\ MailNext /\ UNCHANGED <<ServerParts, tfVars, ftpVars, hcVars>>
  \/ part = "ftp" /\ FtpNext /\ UNCHANGED <<ServerParts, tfVars, mailVars, hcVars>>
  \/ part = "http" /\ HcNext /\ UNCHANGED <<ServerParts, tfVars, mailVars, ftpVars>>

(* What the parts keep; only the one that moves can break it.              *)
(* The listen thread serves only what is open, with its own handler.       *)
TcpServicesKept == part = "services" => ServicesKept

(* Sockets are closed once, and datagrams go back to where they came from. *)
TcpSocketsKept == part = "sockets" => SocketsKept

(* A document is on disk in whole, whenever a process ends.                *)
DocumentFilesKept == part = "files" => FilesKept

(* Transfers, mails, files and pages: what dialogues with servers keep.    *)
DialoguesKept ==
  /\ part = "tftp" => TransferKept
  /\ part = "smtp" => MailKept
  /\ part = "ftp" => DownloadsKept
  /\ part = "http" => RequestsOwn

(* The fairness of TcpServer.                                              *)
AllSpec ==
  /\ AllInit /\ [][AllNext]_<<ServerParts, dialogueVars>>
  /\ \A m \in Threads : WF_vars(MainStep(m))
  /\ \A u \in Users : WF_vars(UserStep(u))
=============================================================================
