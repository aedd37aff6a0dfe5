----------------------------- MODULE SerialPort ------------------------------
(***************************************************************************)
(* Opening and closing serial ports on Linux (stl_rs232.cpp): the lock     *)
(* file of a port, which holds the number of the process, the table in     *)
(* which a process finds the port of a handle again, and                   *)
(* stlSerialHwFlow(0), which closes and opens a USB port under the same    *)
(* handle.  Threads of two processes use the ports; nothing but the lock   *)
(* files keeps them apart.  A process may die and start again with another *)
(* number.                                                                 *)
(***************************************************************************)
EXTENDS Integers, Sequences, FiniteSets

CONSTANTS
  SpThreads,             (* <<process, number>>                            *)
  Ports,                 (* names of ports                                 *)
  UsbPorts,              (* those called ttyUSB                            *)
  MaxFd,                 (* _MaxFd_: size of the table                     *)
  MaxPortOpens,          (* BOUND: opens                                   *)
  MaxDeaths              (* BOUND: deaths of processes                     *)

(* No process has number 0.                                                *)
ASSUME SerialPortAssumption ==
  /\ IsFiniteSet(SpThreads) /\ \A t \in SpThreads : t[1] # 0
  /\ UsbPorts \subseteq Ports /\ "none" \notin Ports
  /\ MaxFd \in Nat \ {0} /\ MaxPortOpens \in Nat /\ MaxDeaths \in Nat

SpProcs == {t[1] : t \in SpThreads}
NoPort == "none"
SpNoPid == <<0, 0>>
FdNumbers == 3 .. 3 + Cardinality(SpThreads)    (* 0 to 2 are taken        *)

VARIABLES
  portLock,              (* the process number in the lock file of a port  *)
  spLife,                (* how often a process has died                 *)
  fdOf,                  (* kernel: the port behind a number of a process  *)
  fdTab,                 (* devFdTab and devDevName: <<number, port>> or << >> *)
  sp,                    (* a thread: [pc, port, fd, slot]                 *)
  portOpens,
  lateLock,              (* HISTORY: two held the answer "not locked" at once *)
  lateBind,              (* HISTORY: lost its entry of the table           *)
  lateFlow               (* HISTORY: opened, or an entry lost, while HwFlow had a port closed *)
spVars == <<portLock, spLife, fdOf, fdTab, sp, portOpens, lateLock, lateBind, lateFlow>>

NoEntry == << >>
Nothing == [pc |-> "idle", port |-> NoPort, fd |-> 0, slot |-> 0]
PidOf(p) == <<p, spLife[p]>>
Lives(pid) == pid # SpNoPid /\ spLife[pid[1]] = pid[2]

SpInit ==
  /\ portLock = [d \in Ports |-> SpNoPid] /\ spLife = [p \in SpProcs |-> 0]
  /\ fdOf = [p \in SpProcs |-> [f \in FdNumbers |-> NoPort]]
  /\ fdTab = [p \in SpProcs |-> [i \in 1 .. MaxFd |-> NoEntry]]
  /\ sp = [t \in SpThreads |-> Nothing] /\ portOpens = 0
  /\ lateLock = {} /\ lateBind = {} /\ lateFlow = FALSE

Moves(t, pc) == sp' = [sp EXCEPT ![t].pc = pc]
LowestFd(p) == CHOOSE f \in FdNumbers : fdOf[p][f] = NoPort
                 /\ \A g \in FdNumbers : fdOf[p][g] = NoPort => f <= g

-----------------------------------------------------------------------------
(* stlSerialOpen: stlSerialDevLock tests the lock, then writes it.         *)

IsLocked_Not(d) == FALSE                                     \* mutant
IsLocked(d) == Lives(portLock[d])

LockTest(t) ==
  /\ sp[t].pc = "idle" /\ portOpens < MaxPortOpens /\ portOpens' = portOpens + 1
  /\ \E d \in Ports :
       /\ sp' = [sp EXCEPT ![t] = IF IsLocked(d) THEN Nothing ELSE [Nothing EXCEPT !.pc = "lock", !.port = d]]
       /\ lateLock' = IF ~IsLocked(d) /\ \E u \in SpThreads : sp[u].pc = "lock" /\ sp[u].port = d
                      THEN lateLock \cup {d} ELSE lateLock
  /\ UNCHANGED <<portLock, spLife, fdOf, fdTab, lateBind, lateFlow>>

LockWrite(t) ==
  /\ sp[t].pc = "lock" /\ Moves(t, "open")
  /\ portLock' = [portLock EXCEPT ![sp[t].port] = PidOf(t[1])]
  /\ UNCHANGED <<spLife, fdOf, fdTab, portOpens, lateLock, lateBind, lateFlow>>

Flowing(p) == \E u \in SpThreads : u[1] = p /\ sp[u].pc = "reopen"

OpenDev(t) ==
  /\ sp[t].pc = "open"
  /\ LET f == LowestFd(t[1])
     IN /\ fdOf' = [fdOf EXCEPT ![t[1]][f] = sp[t].port]
        /\ sp' = [sp EXCEPT ![t].pc = "find", ![t].fd = f]
        /\ lateFlow' = (lateFlow \/ Flowing(t[1]))
  /\ UNCHANGED <<portLock, spLife, fdTab, portOpens, lateLock, lateBind>>
UnlockFailed_Not(d) == portLock                              \* mutant
UnlockFailed(d) == [portLock EXCEPT ![d] = SpNoPid]
OpenFails(t) ==
  /\ sp[t].pc = "open" /\ sp' = [sp EXCEPT ![t] = Nothing]
  /\ portLock' = UnlockFailed(sp[t].port)
  /\ UNCHANGED <<spLife, fdOf, fdTab, portOpens, lateLock, lateBind, lateFlow>>

(* stlSerialDevHdlBind: the first free entry, found and then filled; a     *)
(* handle that finds none has none.                                        *)
FreeEntries(p) == {i \in 1 .. MaxFd : fdTab[p][i] = NoEntry}
FindEntry(t) ==
  /\ sp[t].pc = "find"
  /\ LET free == FreeEntries(t[1])
     IN IF free = {}
        THEN Moves(t, "have") /\ lateBind' = lateBind \cup {sp[t].port}
        ELSE /\ sp' = [sp EXCEPT ![t].pc = "fill",
                                 ![t].slot = CHOOSE i \in free : \A j \in free : i <= j]
             /\ UNCHANGED lateBind
  /\ UNCHANGED <<portLock, spLife, fdOf, fdTab, portOpens, lateLock, lateFlow>>
FillEntry(t) ==
  /\ sp[t].pc = "fill" /\ Moves(t, "have")
  /\ lateBind' = lateBind \cup (IF fdTab[t[1]][sp[t].slot] = NoEntry THEN {}
                                ELSE {fdTab[t[1]][sp[t].slot][2]})
  /\ fdTab' = [fdTab EXCEPT ![t[1]][sp[t].slot] = <<sp[t].fd, sp[t].port>>]
  /\ UNCHANGED <<portLock, spLife, fdOf, portOpens, lateLock, lateFlow>>

-----------------------------------------------------------------------------
(* stlSerialHwFlow(0) of a USB port: the number is closed, the port opened *)
(* again, and given the old number when it got another.                    *)

EntryOf(p, fd) == {i \in 1 .. MaxFd : fdTab[p][i] # NoEntry /\ fdTab[p][i][1] = fd}
FirstOf(p, fd) == CHOOSE i \in EntryOf(p, fd) : \A j \in EntryOf(p, fd) : i <= j

FlowClose(t) ==
  /\ sp[t].pc = "have" /\ sp[t].port \in UsbPorts /\ EntryOf(t[1], sp[t].fd) # {}
  /\ sp' = [sp EXCEPT ![t].pc = "reopen", ![t].slot = FirstOf(t[1], sp[t].fd)]
  /\ fdOf' = [fdOf EXCEPT ![t[1]][sp[t].fd] = NoPort]
  /\ UNCHANGED <<portLock, spLife, fdTab, portOpens, lateLock, lateBind, lateFlow>>
SameNumber_Not(fd, new) == new                               \* mutant
SameNumber(fd, new) == fd
FlowOpen(t) ==
  /\ sp[t].pc = "reopen" /\ Moves(t, "have")
  /\ LET entry == fdTab[t[1]][sp[t].slot]
     IN /\ fdOf' = IF entry = NoEntry THEN fdOf
                   ELSE [fdOf EXCEPT ![t[1]][SameNumber(sp[t].fd, LowestFd(t[1]))] = entry[2]]
        /\ lateFlow' = (lateFlow \/ entry = NoEntry \/ entry # <<sp[t].fd, sp[t].port>>)
  /\ UNCHANGED <<portLock, spLife, fdTab, portOpens, lateLock, lateBind>>

-----------------------------------------------------------------------------
(* stlSerialClose: the port of the handle is unlocked and its entry freed, *)
(* then the handle is closed.                                              *)

FreedEntry_Not(p, i) == fdTab                                \* mutant
FreedEntry(p, i) == [fdTab EXCEPT ![p][i] = NoEntry]
Unlock(t) ==
  /\ sp[t].pc = "have" /\ Moves(t, "close")
  /\ LET i == FirstOf(t[1], sp[t].fd)
     IN IF EntryOf(t[1], sp[t].fd) = {} THEN UNCHANGED <<portLock, fdTab>>
        ELSE /\ portLock' = [portLock EXCEPT ![fdTab[t[1]][i][2]] = SpNoPid]
             /\ fdTab' = FreedEntry(t[1], i)
  /\ UNCHANGED <<spLife, fdOf, portOpens, lateLock, lateBind, lateFlow>>
CloseDev(t) ==
  /\ sp[t].pc = "close" /\ sp' = [sp EXCEPT ![t] = Nothing]
  /\ fdOf' = [fdOf EXCEPT ![t[1]][sp[t].fd] = NoPort]
  /\ UNCHANGED <<portLock, spLife, fdTab, portOpens, lateLock, lateBind, lateFlow>>

Dies(p) ==
  /\ spLife[p] < MaxDeaths /\ spLife' = [spLife EXCEPT ![p] = @ + 1]
  /\ sp' = [t \in SpThreads |-> IF t[1] = p THEN Nothing ELSE sp[t]]
  /\ fdOf' = [fdOf EXCEPT ![p] = [f \in FdNumbers |-> NoPort]]
  /\ fdTab' = [fdTab EXCEPT ![p] = [i \in 1 .. MaxFd |-> NoEntry]]
  /\ UNCHANGED <<portLock, portOpens, lateLock, lateBind, lateFlow>>

SpNext ==
  \/ \E t \in SpThreads :
       \/ LockTest(t) \/ LockWrite(t) \/ OpenDev(t) \/ OpenFails(t)
       \/ FindEntry(t) \/ FillEntry(t) \/ FlowClose(t) \/ FlowOpen(t)
       \/ Unlock(t) \/ CloseDev(t)
  \/ \E p \in SpProcs : Dies(p)

SpSpec == SpInit /\ [][SpNext]_spVars

-----------------------------------------------------------------------------
(* Properties.                                                             *)

Claims(t) == sp[t].pc \in {"open", "find", "fill", "have", "reopen"}

(* Type invariant.                                                         *)
SpTypeOK ==
  /\ \A d \in Ports : portLock[d] = SpNoPid \/ portLock[d][2] <= spLife[portLock[d][1]]
  /\ \A p \in SpProcs, f \in FdNumbers : fdOf[p][f] \in Ports \cup {NoPort}
  /\ \A t \in SpThreads : sp[t].port = NoPort <=> sp[t].pc = "idle"

(* Two threads, of whichever processes, have a port open only if both      *)
(* tested its lock before either wrote it, or one's handle had lost its    *)
(* port to another.                                                        *)
PortHeldOnce ==
  \A t, u \in SpThreads :
    t # u /\ Claims(t) /\ Claims(u) /\ sp[t].port = sp[u].port
      => sp[t].port \in lateLock \/ lateFlow

(* A port that is open has the lock of its process, and a lock of a living *)
(* process is of a port that it has open: a port can be opened again after *)
(* it was closed, unless its entry was lost or two tested its lock at once.*)
LockIsOfOpener ==
  ~lateFlow =>
    /\ \A t \in SpThreads :
         Claims(t) /\ sp[t].port \notin lateLock => portLock[sp[t].port] = PidOf(t[1])
    /\ \A d \in Ports : Lives(portLock[d]) /\ d \notin lateLock /\ d \notin lateBind
         => \E t \in SpThreads : Claims(t) /\ sp[t].port = d

(* A handle is of the port it was opened for, unless a port was opened     *)
(* while stlSerialHwFlow had another one closed.                           *)
HandleIsOfPort ==
  ~lateFlow =>
    \A t \in SpThreads : sp[t].pc \in {"find", "fill", "have", "close"} => fdOf[t[1]][sp[t].fd] = sp[t].port

(* All of it: a port, its lock and its handle are those of one opener.     *)
PortsAreOwn == SpTypeOK /\ PortHeldOnce /\ LockIsOfOpener /\ HandleIsOfPort
=============================================================================
