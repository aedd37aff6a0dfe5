----------------------------- MODULE EventTable -----------------------------
(***************************************************************************)
(* The handles of events, stl_thread_p.cpp: eventDB is a vector of         *)
(* pointers whose index is the handle.  stlEventCreate looks for a free    *)
(* slot under eventDBmux and makes the vector longer when there is none;   *)
(* every other call reads the vector, and stlEventDelete writes it,        *)
(* without the lock.  A vector that is full is copied to a larger one and  *)
(* freed: a delete that has read where the old one is writes to it.        *)
(* What set, reset, wait and shoot do to the event is StlEvent.            *)
(*                                                                         *)
(* Users keep the rule of the library: a handle is used from its create    *)
(* to its delete, and deleted once, when nobody else is in a call of it.   *)
(***************************************************************************)
EXTENDS Integers, FiniteSets

CONSTANTS
  EtUsers,
  FirstSize,     (* the size of the vector at first: 5 in the code        *)
  MaxSize,       (* BOUND: handles                                        *)
  MaxEtCalls     (* BOUND: calls of one user                              *)

ASSUME EventTableAssumption ==
  /\ FirstSize \in Nat \ {0, 1} /\ MaxSize \in Nat /\ MaxEtCalls \in Nat
  /\ FirstSize <= MaxSize /\ "free" \notin EtUsers

NoEvent == 0                               (* a pointer that is NULL      *)
EventMemory == 1 .. MaxSize + Cardinality(EtUsers)      (* memory for an event  *)
NoUser == "free"
LowestOf(S) == CHOOSE x \in S : \A y \in S : x <= y

VARIABLES
  eventDB, capacity,     (* the vector: its elements from index 0         *)
  vblock,                (* the memory the vector is in, by its number    *)
  eventDBmux,            (* NoUser or who has it                          *)
  iMagic,                (* events that are: malloc gives out the others  *)
  etUpc, iHdl, vevt, vbase, (* a user's call: its handle, the event it has *)
                         (* found, the block it  found it in              *)
  vcalls,
  madeFor,               (* HISTORY: handles in use and their events      *)
  vmoved                 (* HISTORY: the vector moved  while a user was  *)
                         (* between reading it and writing it             *)

etTable == <<eventDB, capacity, vblock>>
etUser == <<etUpc, iHdl, vevt, vbase, vcalls>>
etVars == <<etTable, eventDBmux, iMagic, etUser, madeFor, vmoved>>

VectorSize == Cardinality(DOMAIN eventDB)

EtInit ==
  /\ eventDB = [i \in {} |-> NoEvent] /\ capacity = 0 /\ vblock = 0
  /\ eventDBmux = NoUser /\ iMagic = {}
  /\ etUpc = [u \in EtUsers |-> "idle"]
  /\ iHdl = [u \in EtUsers |-> 0]
  /\ vevt = [u \in EtUsers |-> NoEvent]
  /\ vbase = [u \in EtUsers |-> 0]
  /\ vcalls = [u \in EtUsers |-> 0]
  /\ madeFor = {}
  /\ vmoved = {}

AtUser(u, label) == etUpc[u] = label
GotoUser(u, label) == etUpc' = [etUpc EXCEPT ![u] = label]
CallReturns(u) == GotoUser(u, "idle")
MayCall(u) == AtUser(u, "idle") /\ vcalls[u] < MaxEtCalls
Counted(u) == vcalls' = [vcalls EXCEPT ![u] = @ + 1]

-----------------------------------------------------------------------------
(* stlEventCreate.                                                         *)

(* malloc may fail, and gives out again what was freed before all else.    *)
CreateMalloc(u) ==
  /\ MayCall(u) /\ Counted(u)
  /\ \/ LET e == LowestOf(EventMemory \ iMagic)
        IN  /\ EventMemory \ iMagic # {}
            /\ iMagic' = iMagic \cup {e}
            /\ vevt' = [vevt EXCEPT ![u] = e]
            /\ GotoUser(u, "lock")
     \/ UNCHANGED <<etUpc, iMagic, vevt>>
  /\ UNCHANGED <<etTable, eventDBmux, iHdl, vbase, madeFor, vmoved>>

LockDB_Not(u) == TRUE                                     \* mutant
LockDB(u) == eventDBmux = NoUser

CreateLock(u) ==
  /\ AtUser(u, "lock") /\ LockDB(u)
  /\ eventDBmux' = u
  /\ GotoUser(u, "size")
  /\ UNCHANGED <<etTable, iMagic, iHdl, vevt, vbase, vcalls, madeFor, vmoved>>

CreateResize(u) ==
  /\ AtUser(u, "size")
  /\ IF VectorSize < 2
       THEN /\ eventDB' = [i \in 0 .. FirstSize - 1 |-> NoEvent]
            /\ capacity' = FirstSize /\ vblock' = vblock + 1
       ELSE UNCHANGED etTable
  /\ GotoUser(u, "search")
  /\ UNCHANGED <<eventDBmux, iMagic, iHdl, vevt, vbase, vcalls, madeFor, vmoved>>

FreeHandles_All(db) == {i \in DOMAIN db \ {0} : TRUE}     \* mutant
FreeHandles(db) == {i \in DOMAIN db \ {0} : db[i] = NoEvent}

Readers == {v \in EtUsers : etUpc[v] = "write"}

(* The first free handle, or the next one: the size.                       *)
CreateSearch(u) ==
  /\ AtUser(u, "search")
  /\ LET free == FreeHandles(eventDB)
     IN  iHdl' = [iHdl EXCEPT ![u] = IF free # {} THEN LowestOf(free) ELSE VectorSize]
  /\ GotoUser(u, "store")
  /\ UNCHANGED <<etTable, eventDBmux, iMagic, vevt, vbase, vcalls, madeFor, vmoved>>

CreateStore(u) ==
  /\ AtUser(u, "store")
  /\ LET h == iHdl[u]
     IN  /\ h < MaxSize
         /\ eventDB' = [i \in DOMAIN eventDB \cup {h} |->
                          IF i = h THEN vevt[u] ELSE eventDB[i]]
         /\ madeFor' = madeFor \cup {<<h, vevt[u]>>}
         /\ IF h = capacity
              THEN /\ capacity' = 2 * capacity /\ vblock' = vblock + 1
                   /\ vmoved' = vmoved \cup Readers
              ELSE UNCHANGED <<capacity, vblock, vmoved>>
  /\ GotoUser(u, "unlock")
  /\ UNCHANGED <<eventDBmux, iMagic, iHdl, vevt, vbase, vcalls>>

CreateUnlock(u) ==
  /\ AtUser(u, "unlock")
  /\ eventDBmux' = NoUser
  /\ CallReturns(u)
  /\ UNCHANGED <<etTable, iMagic, iHdl, vevt, vbase, vcalls, madeFor, vmoved>>

-----------------------------------------------------------------------------
(* The other calls.                                                        *)

(* Handles that have been returned, and those that are being used.         *)
Handles == {p[1] : p \in madeFor}
HdlOf(labels) == {iHdl[u] : u \in {v \in EtUsers : etUpc[v] \in labels}}
KnownHandles == Handles \ HdlOf({"unlock", "delete", "write"})
HandlesInCall == HdlOf({"find", "use"})

CallBegin(u) ==
  /\ MayCall(u) /\ Counted(u)
  /\ \/ \E h \in KnownHandles : iHdl' = [iHdl EXCEPT ![u] = h] /\ GotoUser(u, "find")
     \/ \E h \in KnownHandles \ HandlesInCall : iHdl' = [iHdl EXCEPT ![u] = h] /\ GotoUser(u, "delete")
  /\ UNCHANGED <<etTable, eventDBmux, iMagic, vevt, vbase, madeFor, vmoved>>

ValidHandle(h) == h \in DOMAIN eventDB \ {0} /\ eventDB[h] # NoEvent /\ eventDB[h] \in iMagic

(* The test of the handle and the read of its pointer.                     *)
CallFind(u) ==
  /\ AtUser(u, "find")
  /\ IF ValidHandle(iHdl[u])
       THEN vevt' = [vevt EXCEPT ![u] = eventDB[iHdl[u]]] /\ GotoUser(u, "use")
       ELSE CallReturns(u) /\ UNCHANGED vevt
  /\ UNCHANGED <<etTable, eventDBmux, iMagic, iHdl, vbase, vcalls, madeFor, vmoved>>

CallUse(u) ==
  /\ AtUser(u, "use")
  /\ CallReturns(u)
  /\ UNCHANGED <<etTable, eventDBmux, iMagic, iHdl, vevt, vbase, vcalls, madeFor, vmoved>>

(* stlEventDelete.                                                         *)
DeleteFind(u) ==
  /\ AtUser(u, "delete")
  /\ IF ValidHandle(iHdl[u])
       THEN /\ vevt' = [vevt EXCEPT ![u] = eventDB[iHdl[u]]]
            /\ vbase' = [vbase EXCEPT ![u] = vblock]
            /\ GotoUser(u, "write")
       ELSE CallReturns(u) /\ UNCHANGED <<vevt, vbase>>
  /\ UNCHANGED <<etTable, eventDBmux, iMagic, iHdl, vcalls, madeFor, vmoved>>

Erased_Not(db, h) == db                                   \* mutant
Erased(db, h) == [db EXCEPT ![h] = NoEvent]

(* The NULL goes to the block that was the vector's when it was read.      *)
DeleteWrite(u) ==
  /\ AtUser(u, "write")
  /\ eventDB' = IF vbase[u] = vblock THEN Erased(eventDB, iHdl[u]) ELSE eventDB
  /\ madeFor' = {p \in madeFor : p[1] # iHdl[u]}
  /\ GotoUser(u, "free")
  /\ UNCHANGED <<capacity, vblock, eventDBmux, iMagic, iHdl, vevt, vbase, vcalls, vmoved>>

DeleteFree(u) ==
  /\ AtUser(u, "free")
  /\ iMagic' = iMagic \ {vevt[u]}
  /\ CallReturns(u)
  /\ UNCHANGED <<etTable, eventDBmux, iHdl, vevt, vbase, vcalls, madeFor, vmoved>>

-----------------------------------------------------------------------------

EtStep(u) ==
  \/ CreateMalloc(u) \/ CreateLock(u) \/ CreateResize(u) \/ CreateSearch(u)
  \/ CreateStore(u) \/ CreateUnlock(u)
  \/ CallBegin(u) \/ CallFind(u) \/ CallUse(u)
  \/ DeleteFind(u) \/ DeleteWrite(u) \/ DeleteFree(u)

EtNext == \E u \in EtUsers : EtStep(u)

EtSpec == EtInit /\ [][EtNext]_etVars

-----------------------------------------------------------------------------
(* Properties.                                                             *)

(* Type invariant.                                                         *)
EtTypeOK ==
  /\ DOMAIN eventDB = 0 .. VectorSize - 1 /\ VectorSize <= MaxSize /\ VectorSize <= capacity
  /\ \A i \in DOMAIN eventDB : eventDB[i] \in EventMemory \cup {NoEvent}
  /\ eventDBmux \in EtUsers \cup {NoUser} /\ iMagic \subseteq EventMemory
  /\ etUpc \in [EtUsers -> {"idle", "lock", "size", "search", "store", "unlock", "find",
                          "use", "delete", "write", "free"}]
  /\ madeFor \subseteq (1 .. MaxSize) \X EventMemory
  /\ vmoved \subseteq EtUsers

(* A handle in use finds its own event: no other call gives its slot away, *)
(* writes over it or frees its event.                                      *)
HandleFindsOwn == \A p \in madeFor : ValidHandle(p[1]) /\ eventDB[p[1]] = p[2]

(* The vector holds no event but of a handle in use or just deleted, unless*)
(* it moved while  a delete was about to write its NULL.                    *)
NoSlotLost ==
  vmoved = {} => \A i \in DOMAIN eventDB : eventDB[i] # NoEvent => i \in Handles

(* All of it: handles and events belong together, and slots come back.     *)
HandlesAreOwn == EtTypeOK /\ HandleFindsOwn /\ NoSlotLost
=============================================================================
