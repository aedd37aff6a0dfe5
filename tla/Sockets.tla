------------------------------- MODULE Sockets -------------------------------
(***************************************************************************)
(* Opening TCP connections and the UDP functions of stl_tcpbase.c: one     *)
(* thread makes TCP connections and opens and releases a UDP socket, one   *)
(* is in stlUdpServer, and one sends on the same UDP socket without naming *)
(* a destination, which is the host and port of the last datagram.         *)
(*                                                                         *)
(* The kernel gives out the lowest free number; 0 is free in a program     *)
(* that was started without standard input.  The callback answers every    *)
(* datagram.  A socket is released when nobody uses it.                    *)
(***************************************************************************)
EXTENDS Integers, Sequences, FiniteSets

CONSTANTS
  Fds,                   (* numbers of sockets                             *)
  Peers,                 (* <<host, port>> of the other sides              *)
  MaxDatagrams,          (* BOUND: datagrams received                      *)
  MaxSends               (* BOUND: datagrams the third thread sends        *)

ASSUME SocketsAssumption ==
  /\ Fds \subseteq Nat
  /\ \A p \in Peers : p[1] \notin {"", "none"} /\ p[2] # 0
  /\ MaxDatagrams \in Nat /\ MaxSends \in Nat

VARIABLES
  skOpen,                (* sockets the kernel has open                  *)
  held,                  (* sockets of connections the program was given   *)
  con,                   (* stlTcpConnectTout: [pc, fd]                    *)
  suc,                   (* the UDP connection: [fd, host, port], or << >> *)
  server,                (* stlUdpServer: [pc, from]                       *)
  sender,                (* stlUdpSendEx of the third thread               *)
  received,              (* datagrams so far                               *)
  sent,                  (* sends of the third thread so far               *)
  replied,               (* HISTORY: <<peer, destination>> of the last reply *)
  mixed,                 (* HISTORY: a destination that is no peer's       *)
  raced                  (* HISTORY: a datagram came in while sending      *)
skVars == <<skOpen, held, con, suc, server, sender, received, sent, replied, mixed, raced>>

NoUdp == << >>
Idle == [pc |-> "idle", fd |-> -1]
NotServing == [pc |-> "idle", from |-> <<"none", 0>>]
NotSending == [pc |-> "idle", port |-> 0]

SkInit ==
  /\ skOpen = {} /\ held = {} /\ con = Idle /\ suc = NoUdp
  /\ server = NotServing /\ sender = NotSending /\ received = 0 /\ sent = 0
  /\ replied = << >> /\ mixed = FALSE /\ raced = FALSE

Free == Fds \ skOpen
LowestFd == CHOOSE f \in Free : \A g \in Free : f <= g

-----------------------------------------------------------------------------
(* stlTcpConnectTout.                                                      *)

UdpUnchanged == UNCHANGED <<suc, server, sender, received, sent, replied, mixed, raced>>

TcpSocket ==
  /\ con = Idle /\ Free # {}
  /\ con' = [pc |-> "connect", fd |-> LowestFd] /\ skOpen' = skOpen \cup {LowestFd}
  /\ UNCHANGED held /\ UdpUnchanged

(* A step that succeeds gives the socket out, one that fails closes it.    *)
GivenOut ==
  /\ held' = held \cup {con.fd} /\ con' = Idle
  /\ UNCHANGED skOpen /\ UdpUnchanged
CloseFailed_Not(pc) == skOpen                                  \* mutant
CloseFailed(pc) == skOpen \ {con.fd}
Failed ==
  /\ skOpen' = CloseFailed(con.pc) /\ con' = Idle
  /\ UNCHANGED held /\ UdpUnchanged
GoesOn(pc) ==
  /\ con' = [con EXCEPT !.pc = pc]
  /\ UNCHANGED <<skOpen, held>> /\ UdpUnchanged

TcpConnect == con.pc = "connect" /\ (GivenOut \/ Failed \/ GoesOn("select"))
TcpSelect == con.pc = "select" /\ (Failed \/ GoesOn("status"))
TcpStatus == con.pc = "status" /\ (GivenOut \/ Failed)

(* stlTcpRelease of a connection.                                          *)
TcpClose ==
  /\ \E fd \in held : held' = held \ {fd} /\ skOpen' = skOpen \ {fd}
  /\ UNCHANGED con /\ UdpUnchanged

-----------------------------------------------------------------------------
(* stlUdpConnectIp, the binds, and stlUdpRelease, which takes 0 for no     *)
(* socket.                                                                 *)

ClosesUdp_Never(fd) == FALSE                                 \* mutant
ClosesUdp(fd) == fd > 0

UdpConnect ==
  /\ suc = NoUdp /\ Free # {}
  /\ \/ /\ suc' = [fd |-> LowestFd, host |-> "", port |-> 0]
        /\ skOpen' = skOpen \cup {LowestFd}
     \/ /\ \E p \in Peers : suc' = [fd |-> LowestFd, host |-> p[1], port |-> p[2]]
        /\ skOpen' = skOpen \cup {LowestFd}
     \/ /\ skOpen' = (IF ClosesUdp(LowestFd) THEN skOpen ELSE skOpen \cup {LowestFd})    (* bind fails *)
        /\ UNCHANGED suc
  /\ UNCHANGED <<held, con, server, sender, received, sent, replied, mixed, raced>>

UdpRelease ==
  /\ suc # NoUdp /\ server.pc = "idle" /\ sender.pc = "idle"
  /\ skOpen' = (IF ClosesUdp(suc.fd) THEN skOpen \ {suc.fd} ELSE skOpen)
  /\ suc' = NoUdp
  /\ UNCHANGED <<held, con, server, sender, received, sent, replied, mixed, raced>>

-----------------------------------------------------------------------------
(* stlUdpServer: stlUdpRecv takes a datagram, then stores its host, then   *)
(* its port; the callback answers with stlUdpSend.                         *)

SocketsUnchanged == UNCHANGED <<skOpen, held, con>>

Usable == suc # NoUdp /\ suc.fd > 0

UdpServe ==
  /\ Usable /\ server.pc = "idle"
  /\ server' = [server EXCEPT !.pc = "recv"]
  /\ UNCHANGED <<suc, sender, received, sent, replied, mixed, raced>> /\ SocketsUnchanged

Recv ==
  /\ server.pc = "recv" /\ received < MaxDatagrams
  /\ received' = received + 1
  /\ \E p \in Peers : server' = [pc |-> "host", from |-> p]
  /\ UNCHANGED <<suc, sender, sent, replied, mixed, raced>> /\ SocketsUnchanged

RecvError ==
  /\ server.pc = "recv" /\ server' = NotServing
  /\ UNCHANGED <<suc, sender, received, sent, replied, mixed, raced>> /\ SocketsUnchanged

During == raced' = (raced \/ sender.pc # "idle")

StoreHost ==
  /\ server.pc = "host" /\ server' = [server EXCEPT !.pc = "port"]
  /\ suc' = [suc EXCEPT !.host = server.from[1]] /\ During
  /\ UNCHANGED <<sender, received, sent, replied, mixed>> /\ SocketsUnchanged

StoredPort_Old(p) == suc.port                                \* mutant
StoredPort(p) == p[2]
StorePort ==
  /\ server.pc = "port" /\ server' = [server EXCEPT !.pc = "callback"]
  /\ suc' = [suc EXCEPT !.port = StoredPort(server.from)] /\ During
  /\ UNCHANGED <<sender, received, sent, replied, mixed>> /\ SocketsUnchanged

Callback ==
  /\ server.pc = "callback" /\ server' = [server EXCEPT !.pc = "recv"]
  /\ replied' = <<server.from, <<suc.host, suc.port>>>>
  /\ UNCHANGED <<suc, sender, received, sent, mixed, raced>> /\ SocketsUnchanged

-----------------------------------------------------------------------------
(* stlUdpSend of the other thread: -4 without a host, -5 without a port;   *)
(* the port is read, then the host.                                        *)

SendPort ==
  /\ Usable /\ sender.pc = "idle" /\ sent < MaxSends
  /\ suc.host # "" /\ suc.port # 0
  /\ sender' = [pc |-> "host", port |-> suc.port] /\ sent' = sent + 1
  /\ raced' = (server.pc = "port") /\ mixed' = FALSE
  /\ UNCHANGED <<suc, server, received, replied>> /\ SocketsUnchanged

SendTo ==
  /\ sender.pc = "host" /\ sender' = NotSending
  /\ mixed' = (<<suc.host, sender.port>> \notin Peers)
  /\ UNCHANGED <<suc, server, received, sent, replied, raced>> /\ SocketsUnchanged

SkNext ==
  \/ TcpSocket \/ TcpConnect \/ TcpSelect \/ TcpStatus \/ TcpClose
  \/ UdpConnect \/ UdpRelease
  \/ UdpServe \/ Recv \/ RecvError \/ StoreHost \/ StorePort \/ Callback
  \/ SendPort \/ SendTo

SkSpec == SkInit /\ [][SkNext]_skVars

-----------------------------------------------------------------------------
(* Properties.                                                             *)

(* Type invariant.                                                         *)
SkTypeOK ==
  /\ skOpen \subseteq Fds /\ held \subseteq skOpen
  /\ con.pc \in {"idle", "connect", "select", "status"}
  /\ suc # NoUdp => suc.fd \in skOpen
  /\ server.pc \in {"idle", "recv", "host", "port", "callback"}
  /\ sender.pc \in {"idle", "host"}

(* A socket that nobody holds any more is closed, whatever failed, but for *)
(* a UDP socket with the number 0.                                         *)
NoSocketLeft ==
  skOpen \ (held \cup {con.fd} \cup (IF suc = NoUdp THEN {} ELSE {suc.fd})) \subseteq {0}

(* The answer of the callback goes to the peer its datagram came from.     *)
RepliesToSender == replied # << >> => replied[1] = replied[2]

(* A datagram goes to the host of one peer and the port of another only if *)
(* one was received while it was sent.                                     *)
MixedOnlyInRace == mixed => raced

(* All of it: sockets are given back, datagrams go where they should.      *)
SocketsKept ==
  /\ SkTypeOK /\ NoSocketLeft /\ RepliesToSender
  /\ MixedOnlyInRace
=============================================================================
