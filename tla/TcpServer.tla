----------------------------- MODULE TcpServer ------------------------------
(***************************************************************************)
(* The TCP services of stl_tcpsrv.c: user threads add and remove services  *)
(* in the table lSvrData and start and stop the listen thread; the listen  *)
(* thread opens a socket for each service, waits for connections and       *)
(* starts a handler for each.  The table, the flags and the status are     *)
(* under no lock; only the start of the listen thread is.                  *)
(*                                                                         *)
(* A step reads or writes what another thread can see.  iFlags |= bit is a *)
(* load and a store.  A service is named by its port: its handler and its  *)
(* configuration are the port number too, 0 is NULL.  Sockets are numbered *)
(* as the kernel does, lowest free number first.  Reuse, keep-alive and    *)
(* the printing of connects are left out, so is the exit of the process    *)
(* when a bind or a malloc fails, and so are a select or an accept that    *)
(* fails, after which the thread waits and begins again.                   *)
(***************************************************************************)
EXTENDS Integers, Sequences, FiniteSets

CONSTANTS
  Users, None,
  Cases,        (* what users do: for each call of each user the choices,  *)
                (* as [op, port] with op "add", "remove" or "stop"         *)
  Ports,        (* the ports asked for                                     *)
  MaxServers,   (* _MaxServers_: 20 in the code                            *)
  MaxSocks,     (* sockets the process may have open                       *)
  MaxThreads,   (* BOUND: listen threads ever started                      *)
  MaxConns      (* BOUND: connections made                                 *)

ASSUME TcpServerAssumption ==
  /\ \A c \in Cases, u \in Users : 
       c[u] \in Seq(SUBSET [op : {"add", "remove", "stop"}, port : Ports \cup {0}])
  /\ Ports \subseteq Nat \ {0}
  /\ {MaxServers, MaxSocks, MaxThreads} \subseteq Nat \ {0}
  /\ MaxConns \in Nat
  /\ None \notin Users

Slots   == 1 .. MaxServers
Socks   == 1 .. MaxSocks
Threads == 1 .. MaxThreads
Flags   == {"HaveSock", "Bound", "InitOk", "StopListen"}

VARIABLES
  case,                                       (* member of Cases, constant *)
  iPortNr, sockFd, proces, pConfig, iFlags,   (* lSvrData                  *)
  status,                                     (* _stlSrvStatus             *)
  mux,                                        (* of _stlSrvInit            *)
  open, bound, pend,    (* open sockets, their ports, connections waiting  *)
  conns,
  mpc, idx, readfs, mreg, CD,       (* locals of a listen thread           *)
  handed,                           (* the last handler started            *)
  upc, ucall, uidx, ureg, calls     (* locals of a user                    *)

table  == <<iPortNr, sockFd, proces, pConfig, iFlags>>
net    == <<open, bound, pend, conns>>
main   == <<mpc, idx, readfs, mreg, CD, handed>>
user   == <<upc, ucall, uidx, ureg, calls>>
vars   == <<case, table, status, mux, net, main, user>>

Nowhere == [port |-> 0, config |-> 0, fx |-> 0]

Init ==
  /\ case \in Cases
  /\ iPortNr = [i \in Slots |-> 0] /\ sockFd = [i \in Slots |-> 0]
  /\ proces = [i \in Slots |-> 0] /\ pConfig = [i \in Slots |-> 0]
  /\ iFlags = [i \in Slots |-> {}]
  /\ status = "NotRunning" /\ mux = None
  /\ open = {} /\ bound = [s \in Socks |-> 0] /\ pend = [s \in Socks |-> 0] /\ conns = 0
  /\ mpc = [m \in Threads |-> "none"] /\ idx = [m \in Threads |-> 1]
  /\ readfs = [m \in Threads |-> {}] /\ mreg = [m \in Threads |-> {}]
  /\ CD = [m \in Threads |-> Nowhere] /\ handed = Nowhere
  /\ upc = [u \in Users |-> "idle"] /\ ucall = [u \in Users |-> [op |-> "none", port |-> 0]]
  /\ uidx = [u \in Users |-> 1] /\ ureg = [u \in Users |-> {}]
  /\ calls = [u \in Users |-> 0]

(* A client connects to a port that a socket of the process listens to.    *)
Connect(s) ==
  /\ conns < MaxConns /\ s \in open /\ bound[s] # 0
  /\ conns' = conns + 1
  /\ pend' = [pend EXCEPT ![s] = @ + 1]
  /\ UNCHANGED <<case, table, status, mux, open, bound, main, user>>

-----------------------------------------------------------------------------
(* The listen thread: _stlSrvMain and _stlTcpSrvInitSocket.                *)

MAt(m, label) == mpc[m] = label
MGoto(m, label) == mpc' = [mpc EXCEPT ![m] = label]
Has(m, flag) == flag \in iFlags[idx[m]]

MainStart(m) ==
  /\ MAt(m, "start")
  /\ status' = "Running"
  /\ MGoto(m, "top")
  /\ UNCHANGED <<case, table, mux, net, idx, readfs, mreg, CD, handed, user>>

MainGoesOn_UntilStopped == status # "Stopped"             \* mutant
MainGoesOn == status = "Running"

FdZero_Not(m) == readfs                                   \* mutant
FdZero(m) == [readfs EXCEPT ![m] = {}]

MainTop(m) ==
  /\ MAt(m, "top")
  /\ idx' = [idx EXCEPT ![m] = 1]
  /\ readfs' = FdZero(m)
  /\ MGoto(m, IF MainGoesOn THEN "scan" ELSE "closing")
  /\ handed' = Nowhere
  /\ UNCHANGED <<case, table, status, mux, net, mreg, CD, user>>

(* The slots the loops of the listen thread visit.                         *)
LastSlot == MaxServers

NextSlot(m, label) ==
  /\ idx' = [idx EXCEPT ![m] = @ + 1]
  /\ MGoto(m, label)

Scan(m) ==
  /\ MAt(m, "scan") /\ idx[m] <= LastSlot
  /\ \/ /\ iPortNr[idx[m]] = 0
        /\ NextSlot(m, "scan")
     \/ /\ iPortNr[idx[m]] # 0
        /\ MGoto(m, IF Has(m, "InitOk") THEN "stop" ELSE "sock")
        /\ UNCHANGED idx
  /\ UNCHANGED <<case, table, status, mux, net, readfs, mreg, CD, handed, user>>

(* No socket at all: wait and begin again.                                 *)
ScanEnd(m) ==
  /\ MAt(m, "scan") /\ idx[m] > LastSlot
  /\ MGoto(m, IF readfs[m] = {} THEN "top" ELSE "select")
  /\ UNCHANGED <<case, table, status, mux, net, idx, readfs, mreg, CD, handed, user>>

Lowest(S) == CHOOSE s \in S : \A r \in S : s <= r

LoadFlags(m) == mreg' = [mreg EXCEPT ![m] = iFlags[idx[m]]]

OpenSocket(m) ==
  /\ MAt(m, "sock") /\ ~Has(m, "HaveSock") /\ open # Socks
  /\ LET s == Lowest(Socks \ open) IN
       /\ sockFd' = [sockFd EXCEPT ![idx[m]] = s]
       /\ open' = open \cup {s}
  /\ LoadFlags(m)
  /\ MGoto(m, "HaveSock")
  /\ UNCHANGED <<case, iPortNr, proces, pConfig, iFlags, status, mux, bound, pend, conns,
                 idx, readfs, CD, handed, user>>

NoSocket(m) ==          (* -2                                              *)
  /\ MAt(m, "sock") /\ ~Has(m, "HaveSock") /\ open = Socks
  /\ MGoto(m, "stop")
  /\ UNCHANGED <<case, table, status, mux, net, idx, readfs, mreg, CD, handed, user>>

HadSocket(m) ==
  /\ MAt(m, "sock") /\ Has(m, "HaveSock")
  /\ MGoto(m, "bind")
  /\ UNCHANGED <<case, table, status, mux, net, idx, readfs, mreg, CD, handed, user>>

(* The store of iFlags |= HaveSock, Bound or InitOk.                       *)
StoreFlag(m, flag, to) ==
  /\ MAt(m, flag)
  /\ iFlags' = [iFlags EXCEPT ![idx[m]] = mreg[m] \cup {flag}]
  /\ mreg' = [mreg EXCEPT ![m] = {}]
  /\ MGoto(m, to)
  /\ UNCHANGED <<case, iPortNr, sockFd, proces, pConfig, status, mux, net,
                 idx, readfs, CD, handed, user>>

(* A port somebody listens to cannot be bound again: -3.                   *)
Bind(m) ==
  /\ MAt(m, "bind") /\ ~Has(m, "Bound")
  /\ LET port == iPortNr[idx[m]]
         taken == \E s \in open : bound[s] = port
     IN  IF taken THEN MGoto(m, "stop") /\ UNCHANGED <<bound, mreg>>
         ELSE /\ bound' = [bound EXCEPT ![sockFd[idx[m]]] = port]
              /\ LoadFlags(m)
              /\ MGoto(m, "Bound")
  /\ UNCHANGED <<case, table, status, mux, open, pend, conns, idx, readfs, CD, handed, user>>

Listen(m) ==            (* bound: listen, then iFlags |= InitOk            *)
  /\ \/ MAt(m, "listen")
     \/ MAt(m, "bind") /\ Has(m, "Bound")
  /\ LoadFlags(m)
  /\ MGoto(m, "InitOk")
  /\ UNCHANGED <<case, table, status, mux, net, idx, readfs, CD, handed, user>>

(* A service to stop is closed, one that is ready is waited for.           *)
StopOrWait(m) ==
  /\ MAt(m, "stop")
  /\ \/ /\ Has(m, "StopListen")
        /\ MGoto(m, "close")
        /\ UNCHANGED <<idx, readfs>>
     \/ /\ ~Has(m, "StopListen")
        /\ readfs' = IF Has(m, "InitOk")
                     THEN [readfs EXCEPT ![m] = @ \cup {sockFd[idx[m]]}] ELSE readfs
        /\ NextSlot(m, "scan")
  /\ UNCHANGED <<case, table, status, mux, net, mreg, CD, handed, user>>

Close(m, from, to) ==
  /\ MAt(m, from)
  /\ open' = open \ {sockFd[idx[m]]}
  /\ bound' = [s \in Socks |-> IF s = sockFd[idx[m]] THEN 0 ELSE bound[s]]
  /\ pend' = [s \in Socks |-> IF s = sockFd[idx[m]] THEN 0 ELSE pend[s]]
  /\ MGoto(m, to)
  /\ UNCHANGED <<case, table, status, mux, conns, idx, readfs, mreg, CD, handed, user>>

Clear(m, from, to) ==   (* memset of the slot                              *)
  /\ MAt(m, from)
  /\ iPortNr' = [iPortNr EXCEPT ![idx[m]] = 0]
  /\ sockFd' = [sockFd EXCEPT ![idx[m]] = 0]
  /\ proces' = [proces EXCEPT ![idx[m]] = 0]
  /\ pConfig' = [pConfig EXCEPT ![idx[m]] = 0]
  /\ iFlags' = [iFlags EXCEPT ![idx[m]] = {}]
  /\ NextSlot(m, to)
  /\ UNCHANGED <<case, status, mux, net, readfs, mreg, CD, handed, user>>

FirstServed_OffByOne == 2                                 \* mutant
FirstServed == 1

Ready(m) == {s \in readfs[m] : pend[s] > 0}

Select(m) ==            (* the ready sockets, or none after a second       *)
  /\ MAt(m, "select")
  /\ readfs' = [readfs EXCEPT ![m] = Ready(m)]
  /\ idx' = [idx EXCEPT ![m] = FirstServed]
  /\ MGoto(m, IF Ready(m) = {} THEN "top" ELSE "serve")
  /\ UNCHANGED <<case, table, status, mux, net, mreg, CD, handed, user>>

Serves_NotAsked(m) == iPortNr[idx[m]] # 0 /\ Has(m, "InitOk")  \* mutant

Serves(m) ==
  iPortNr[idx[m]] # 0 /\ Has(m, "InitOk") /\ sockFd[idx[m]] \in readfs[m]

Serve(m) ==
  /\ MAt(m, "serve")
  /\ IF idx[m] > LastSlot THEN MGoto(m, "top") /\ UNCHANGED idx
     ELSE IF Serves(m) THEN MGoto(m, "accept") /\ UNCHANGED idx
     ELSE NextSlot(m, "serve")
  /\ UNCHANGED <<case, table, status, mux, net, readfs, mreg, CD, handed, user>>

(* The configuration is read now, the handler later.                       *)
Accept(m) ==
  /\ MAt(m, "accept")
  /\ pend' = [pend EXCEPT ![sockFd[idx[m]]] = @ - 1]
  /\ CD' = [CD EXCEPT ![m] = [port |-> bound[sockFd[idx[m]]],
                              config |-> pConfig[idx[m]], fx |-> 0]]
  /\ MGoto(m, "handler")
  /\ UNCHANGED <<case, table, status, mux, open, bound, conns, idx, readfs, mreg, handed, user>>

NoHandler(m) ==         (* no handler: the connection is closed            *)
  /\ MAt(m, "handler") /\ proces[idx[m]] = 0
  /\ CD' = [CD EXCEPT ![m] = Nowhere]
  /\ NextSlot(m, "serve")
  /\ UNCHANGED <<case, table, status, mux, net, readfs, mreg, handed, user>>

HasHandler(m) ==
  /\ MAt(m, "handler") /\ proces[idx[m]] # 0
  /\ MGoto(m, "startHandler")
  /\ UNCHANGED <<case, table, status, mux, net, idx, readfs, mreg, CD, handed, user>>

StartHandler(m) ==      (* the handler is read once more                   *)
  /\ MAt(m, "startHandler")
  /\ handed' = [CD[m] EXCEPT !.fx = proces[idx[m]]]
  /\ CD' = [CD EXCEPT ![m] = Nowhere]
  /\ NextSlot(m, "serve")
  /\ UNCHANGED <<case, table, status, mux, net, readfs, mreg, user>>

(* Told to stop: every service is closed and forgotten.                    *)
Closing(m) ==
  /\ MAt(m, "closing") /\ idx[m] <= LastSlot
  /\ IF iPortNr[idx[m]] = 0 THEN NextSlot(m, "closing")
     ELSE MGoto(m, "closing2") /\ UNCHANGED idx
  /\ UNCHANGED <<case, table, status, mux, net, readfs, mreg, CD, handed, user>>

MainStopped(m) ==
  /\ MAt(m, "closing") /\ idx[m] > LastSlot
  /\ status' = "Stopped"
  /\ MGoto(m, "gone")
  /\ UNCHANGED <<case, table, mux, net, idx, readfs, mreg, CD, handed, user>>

MainStep(m) ==
  \/ MainStart(m) \/ MainTop(m) \/ Scan(m) \/ ScanEnd(m)
  \/ OpenSocket(m) \/ NoSocket(m) \/ HadSocket(m) \/ StoreFlag(m, "HaveSock", "bind")
  \/ Bind(m) \/ StoreFlag(m, "Bound", "listen")
  \/ Listen(m) \/ StoreFlag(m, "InitOk", "stop")
  \/ StopOrWait(m) \/ Close(m, "close", "clear") \/ Clear(m, "clear", "scan")
  \/ Select(m) \/ Serve(m) \/ Accept(m) \/ NoHandler(m) \/ HasHandler(m) \/ StartHandler(m)
  \/ Closing(m) \/ Close(m, "closing2", "closing3") \/ Clear(m, "closing3", "closing")
  \/ MainStopped(m)

-----------------------------------------------------------------------------
(* The users.                                                              *)

UAt(u, label) == upc[u] = label
UGoto(u, label) == upc' = [upc EXCEPT ![u] = label]
Return(u) ==
  /\ UGoto(u, "idle")
  /\ uidx' = [uidx EXCEPT ![u] = 1]
  /\ ureg' = [ureg EXCEPT ![u] = {}]

Begin(u) ==
  /\ UAt(u, "idle") /\ calls[u] < Len(case[u])
  /\ calls' = [calls EXCEPT ![u] = @ + 1]
  /\ \E c \in case[u][calls[u] + 1] :
       /\ ucall' = [ucall EXCEPT ![u] = c]
       /\ UGoto(u, IF c.op = "stop" THEN "stop" ELSE "init")
  /\ UNCHANGED <<case, table, status, mux, net, main, uidx, ureg>>

(* _stlSrvInit: nothing when the thread runs, else it is started under a   *)
(* lock, unless another user was first.                                    *)
InitRunning(u) ==
  /\ UAt(u, "init") /\ status = "Running"
  /\ UGoto(u, ucall[u].op)
  /\ UNCHANGED <<case, table, status, mux, net, main, ucall, uidx, ureg, calls>>

InitLock(u) ==
  /\ UAt(u, "init") /\ status # "Running"
  /\ UGoto(u, "initLock")
  /\ UNCHANGED <<case, table, status, mux, net, main, ucall, uidx, ureg, calls>>

MustStart_Unchecked == status # "Running"                 \* mutant
MustStart == status = "NotRunning"

InitTest(u) ==
  /\ UAt(u, "initLock") /\ mux = None
  /\ IF MustStart THEN status' = "Starting" /\ mux' = u /\ UGoto(u, "initStart")
     ELSE UGoto(u, ucall[u].op) /\ UNCHANGED <<status, mux>>
  /\ UNCHANGED <<case, table, net, main, ucall, uidx, ureg, calls>>

InitStart(u) ==
  /\ UAt(u, "initStart")
  /\ iPortNr' = [i \in Slots |-> 0] /\ sockFd' = [i \in Slots |-> 0]
  /\ proces' = [i \in Slots |-> 0] /\ pConfig' = [i \in Slots |-> 0]
  /\ iFlags' = [i \in Slots |-> {}]
  /\ \E m \in Threads :
       /\ mpc[m] = "none" /\ \A n \in Threads : n < m => mpc[n] # "none"
       /\ MGoto(m, "start")
  /\ mux' = None
  /\ UGoto(u, ucall[u].op)
  /\ UNCHANGED <<case, status, net, idx, readfs, mreg, CD, handed, ucall, uidx, ureg, calls>>

(* stlTcpAddServiceEx: the first free slot; its port is set first, and its *)
(* flags, which are then only those of the caller, last.                   *)
FreeSlots_Any == Slots                                    \* mutant
FreeSlots == {i \in Slots : iPortNr[i] = 0}

AddFind(u) ==
  /\ UAt(u, "add")
  /\ IF FreeSlots = {} THEN Return(u)                       \* -1
     ELSE /\ UGoto(u, "addPort")
          /\ uidx' = [uidx EXCEPT ![u] = Lowest(FreeSlots)]
          /\ UNCHANGED ureg
  /\ UNCHANGED <<case, table, status, mux, net, main, ucall, calls>>

AddPort(u) ==
  /\ UAt(u, "addPort")
  /\ iPortNr' = [iPortNr EXCEPT ![uidx[u]] = ucall[u].port]
  /\ UGoto(u, "addProces")
  /\ UNCHANGED <<case, sockFd, proces, pConfig, iFlags, status, mux, net, main,
                 ucall, uidx, ureg, calls>>

SetProces(u, from, to, fx) ==
  /\ UAt(u, from)
  /\ proces' = [proces EXCEPT ![uidx[u]] = fx]
  /\ UGoto(u, to)
  /\ UNCHANGED <<case, iPortNr, sockFd, pConfig, iFlags, status, mux, net, main,
                 ucall, uidx, ureg, calls>>

SetConfig(u, from, to, config) ==
  /\ UAt(u, from)
  /\ pConfig' = [pConfig EXCEPT ![uidx[u]] = config]
  /\ UGoto(u, to)
  /\ UNCHANGED <<case, iPortNr, sockFd, proces, iFlags, status, mux, net, main,
                 ucall, uidx, ureg, calls>>

SetFlags(u, from, flags) ==
  /\ UAt(u, from)
  /\ iFlags' = [iFlags EXCEPT ![uidx[u]] = flags]
  /\ Return(u)
  /\ UNCHANGED <<case, iPortNr, sockFd, proces, pConfig, status, mux, net, main, ucall, calls>>

(* stlTcpRemoveService                                                     *)
RemoveFind(u) ==
  /\ UAt(u, "remove")
  /\ LET found == {i \in Slots : iPortNr[i] = ucall[u].port} IN
       IF found = {} THEN Return(u)                         \* -2
       ELSE /\ UGoto(u, "removeConfig")
            /\ uidx' = [uidx EXCEPT ![u] = Lowest(found)]
            /\ UNCHANGED ureg
  /\ UNCHANGED <<case, table, status, mux, net, main, ucall, calls>>

RemoveLoad(u) ==
  /\ UAt(u, "removeLoad")
  /\ ureg' = [ureg EXCEPT ![u] = iFlags[uidx[u]]]
  /\ UGoto(u, "removeStore")
  /\ UNCHANGED <<case, table, status, mux, net, main, ucall, uidx, calls>>

(* _stlSrvStop                                                             *)
StopStarted(u) ==
  /\ UAt(u, "stop") /\ status # "Starting"
  /\ IF status = "Running" THEN UGoto(u, "stopSet") /\ UNCHANGED <<uidx, ureg>> ELSE Return(u)
  /\ UNCHANGED <<case, table, status, mux, net, main, ucall, calls>>

StopSet(u) ==
  /\ UAt(u, "stopSet")
  /\ status' = "Stopping"
  /\ UGoto(u, "stopWait")
  /\ UNCHANGED <<case, table, mux, net, main, ucall, uidx, ureg, calls>>

StopDone(u) ==
  /\ UAt(u, "stopWait") /\ status # "Stopping"
  /\ status' = "NotRunning"
  /\ Return(u)
  /\ UNCHANGED <<case, table, mux, net, main, ucall, calls>>

UserStep(u) ==
  \/ InitRunning(u) \/ InitLock(u) \/ InitTest(u) \/ InitStart(u)
  \/ AddFind(u) \/ AddPort(u)
  \/ SetProces(u, "addProces", "addConfig", ucall[u].port)
  \/ SetConfig(u, "addConfig", "addFlags", ucall[u].port)
  \/ SetFlags(u, "addFlags", {})
  \/ RemoveFind(u)
  \/ SetConfig(u, "removeConfig", "removeProces", 0)
  \/ SetProces(u, "removeProces", "removeLoad", 0)
  \/ RemoveLoad(u)
  \/ SetFlags(u, "removeStore", ureg[u] \cup {"StopListen"})
  \/ StopStarted(u) \/ StopSet(u) \/ StopDone(u)

-----------------------------------------------------------------------------

Next ==
  \/ \E s \in Socks : Connect(s)
  \/ \E m \in Threads : MainStep(m)
  \/ \E u \in Users : Begin(u) \/ UserStep(u)

Spec == Init /\ [][Next]_vars

(* The listen thread goes on (select returns after a second at the latest, *)
(* accept has a connection to take) and so does a user inside a call.      *)
FairSpec ==
  /\ Spec
  /\ \A m \in Threads : WF_vars(MainStep(m))
  /\ \A u \in Users : WF_vars(UserStep(u))

-----------------------------------------------------------------------------
(* Properties.                                                             *)

(* Type invariant.                                                         *)
TypeOK ==
  /\ iPortNr \in [Slots -> Ports \cup {0}]
  /\ sockFd \in [Slots -> Socks \cup {0}]
  /\ proces \in [Slots -> Ports \cup {0}] /\ pConfig \in [Slots -> Ports \cup {0}]
  /\ iFlags \in [Slots -> SUBSET Flags]
  /\ status \in {"NotRunning", "Starting", "Running", "Stopping", "Stopped"}
  /\ open \subseteq Socks /\ bound \in [Socks -> Ports \cup {0}] /\ pend \in [Socks -> Nat]
  /\ idx \in [Threads -> 1 .. MaxServers + 1]
  /\ readfs \in [Threads -> SUBSET Socks]

(* However calls that start and stop the service race, there is one listen *)
(* thread at a time.                                                       *)
Listens(m) == mpc[m] \notin {"none", "gone"}
OneListenThread == \A m, n \in Threads : Listens(m) /\ Listens(n) => m = n

(* The listen thread never waits for, nor accepts from, a socket that was  *)
(* closed: its number could be another file by then.                       *)
SelectsOnlyOpen ==
  \A m \in Threads :
    /\ mpc[m] \in {"select", "serve", "accept"} => readfs[m] \subseteq open
    /\ mpc[m] = "accept" => sockFd[idx[m]] \in open

(* As long as one thread at a time adds services, the handler started for  *)
(* a connection is the one of the port the client connected to (or none,   *)
(* when the service is removed at that moment).                            *)
Adds(u) == \E n \in 1 .. Len(case[u]) : \E c \in case[u][n] : c.op = "add"
HandlerMatchesPort ==
  Cardinality({u \in Users : Adds(u)}) <= 1 =>
    /\ handed.fx \in {0, handed.port}
    /\ handed.config \in {0, handed.port}

(* A call of stlTcpStopServices returns, whenever it comes.                *)
StopReturns == \A u \in Users : (upc[u] = "stop") ~> (upc[u] = "idle")

(* A connection to a service that is ready is taken, unless the service    *)
(* is removed or stopped.                                                  *)
Waited(i) == sockFd[i] # 0 /\ "InitOk" \in iFlags[i] /\ pend[sockFd[i]] > 0
ConnectionTaken == \A i \in Slots : Waited(i) ~> ~Waited(i)

(* stl_tcpsrv.c:304 "Return 0 Ok": a service whose stlTcpAddServiceEx has  *)
(* returned is listened to in the end, unless it is removed or everything  *)
(* is stopped.                                                             *)
Adding(i) ==
  \E u \in Users : uidx[u] = i /\ upc[u] \in {"addPort", "addProces", "addConfig", "addFlags"}
AddedIsListened ==
  \A i \in Slots :
    (iPortNr[i] # 0 /\ ~Adding(i))
      ~> ("InitOk" \in iFlags[i] \/ "StopListen" \in iFlags[i] \/ status = "Stopping")

(* All of it: one thread listens, on open sockets, and gives connections   *)
(* to the handler of their port.                                           *)
ServicesKept ==
  /\ TypeOK /\ OneListenThread /\ SelectsOnlyOpen
  /\ HandlerMatchesPort

(* Stops return and connections are taken.                                 *)
ServicesEnd == StopReturns /\ ConnectionTaken
=============================================================================
