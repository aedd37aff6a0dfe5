---------------------------- MODULE Tables_proofs ----------------------------
(***************************************************************************)
(* Proofs about tables that threads and processes share: the pid lock      *)
(* (PidLock), the vector of events (EventTable) and the serial ports of a  *)
(* machine with their lock files and tables of handles (SerialPort).       *)
(*                                                                         *)
(* Each inductive invariant says whose an entry is from the moment that it *)
(* is found free to the moment it is cleared, and what the history         *)
(* variables of the races tell: while none has happened, no two are        *)
(* between the test and the write of the same entry.  The library's        *)
(* induction takes an operator, so "there is a least one" (LeastOfNumbers) *)
(* is taken from the well-foundedness of < on Nat, and "there is a free    *)
(* one" (FreeNumber) from cardinalities.                                   *)
(***************************************************************************)
EXTENDS PidLock, EventTable, SerialPort, FiniteSetTheorems, WellFoundedInduction, TLAPS

-----------------------------------------------------------------------------
(* The pid lock.                                                           *)

(* Living processes have numbers of their own.                             *)
PidsAreOwn ==
  /\ \A a \in Apps : apc[a] # "gone" => apid[a] \in PidNumbers \ strangers
  /\ \A a, b \in Apps : apc[a] # "gone" /\ apc[b] # "gone" /\ apid[a] = apid[b] => a = b

(* One at a time tests and sets the lock, as long as none overlap.         *)
OneLocks == ~together => \A a, b \in Locking : a = b

(* While one runs the file has its number, and who is testing the lock     *)
(* finds that out: nobody gets as far as setting it.                       *)
RunnerHolds ==
  ~together /\ ~forked =>
    \A a \in Apps : apc[a] = "runs" =>
      /\ lockFile = apid[a]
      /\ \A b \in Apps : /\ apc[b] \notin {"truncate", "write"}
                         /\ apc[b] = "look" => readPid[b] = apid[a]

PlInv == PlTypeOK /\ PidsAreOwn /\ OneLocks /\ RunnerHolds

LEMMA PlInitInv == PlInit => PlInv
<1> SUFFICES ASSUME PlInit PROVE PlInv
  OBVIOUS
<1>1. PlTypeOK
  <2>1. together \in BOOLEAN /\ forked \in BOOLEAN
    BY DEF PlInit
  <2>2. QED
    BY <2>1, PidLockAssumption DEF PlInit, PlTypeOK, NoPid, Absent
<1>2. PidsAreOwn /\ OneLocks /\ RunnerHolds
  BY DEF PlInit, PidsAreOwn, OneLocks, RunnerHolds, Locking
<1>3. QED
  BY <1>1, <1>2 DEF PlInv

LEMMA PlNextType ==
  ASSUME PlInv, [PlNext]_plVars
  PROVE  PlTypeOK'
<1> USE PidLockAssumption DEF PlInv, PlTypeOK, AtApp, GotoApp, NoPid, Absent
<1>1. CASE Stranger
  BY <1>1 DEF Stranger
<1>2. ASSUME NEW a \in Apps, StartApp(a) PROVE PlTypeOK'
  <2>1. together' \in BOOLEAN
    BY <1>2 DEF StartApp
  <2>2. QED
    BY <1>2, <2>1 DEF StartApp
<1>3. ASSUME NEW a \in Apps, ReadLock(a) PROVE PlTypeOK'
  BY <1>3 DEF ReadLock
<1>4. ASSUME NEW a \in Apps, LookForPid(a) PROVE PlTypeOK'
  BY <1>4 DEF LookForPid
<1>5. ASSUME NEW a \in Apps, TruncateLock(a) PROVE PlTypeOK'
  BY <1>5 DEF TruncateLock
<1>6. ASSUME NEW a \in Apps, WriteLock(a) PROVE PlTypeOK'
  BY <1>6 DEF WriteLock, WritesPid
<1>7. ASSUME NEW a \in Apps, stlDeamonize(a) PROVE PlTypeOK'
  <2>1. forked' \in BOOLEAN
    BY <1>7 DEF stlDeamonize
  <2>2. QED
    BY <1>7, <2>1 DEF stlDeamonize
<1>8. ASSUME NEW a \in Apps, EndApp(a) PROVE PlTypeOK'
  BY <1>8 DEF EndApp
<1>9. CASE UNCHANGED plVars
  BY <1>9 DEF plVars
<1>10. QED
  BY <1>1, <1>2, <1>3, <1>4, <1>5, <1>6, <1>7, <1>8, <1>9 DEF PlNext

(* A number that is free is no living process's.                           *)
LEMMA FreePid ==
  ASSUME PlInv, NEW n \in PidNumbers \ PidsAlive
  PROVE  n \notin strangers /\ \A a \in Apps : apc[a] # "gone" => apid[a] # n
BY DEF PidsAlive

LEMMA PlNextPids ==
  ASSUME PlInv, [PlNext]_plVars
  PROVE  PidsAreOwn' /\ OneLocks'
<1> USE DEF PlInv, PlTypeOK, PidsAreOwn, OneLocks, Locking, AtApp, GotoApp
<1>1. CASE Stranger
  BY <1>1, FreePid DEF Stranger
<1>2. ASSUME NEW a \in Apps, StartApp(a) PROVE PidsAreOwn' /\ OneLocks'
  <2>1. PICK n \in PidNumbers \ PidsAlive : apid' = [apid EXCEPT ![a] = n]
    BY <1>2 DEF StartApp
  <2>2. n \notin strangers /\ n \in PidNumbers /\ \A b \in Apps : apc[b] # "gone" => apid[b] # n
    BY <2>1, FreePid
  <2>3. apid'[a] = n /\ \A b \in Apps : b # a => apid'[b] = apid[b] /\ apc'[b] = apc[b]
    BY <1>2, <2>1 DEF StartApp
  <2>4. UNCHANGED strangers
    BY <1>2 DEF StartApp
  <2>5. PidsAreOwn'
    BY <2>2, <2>3, <2>4
  <2>6. OneLocks'
    <3>1. ASSUME ~together' PROVE \A b \in Locking' : b = a
      <4>1. Locking = {}
        BY <1>2, <3>1 DEF StartApp
      <4>2. QED
        BY <2>3, <4>1
    <3>2. QED
      BY <3>1
  <2>7. QED
    BY <2>5, <2>6
<1>3. ASSUME NEW a \in Apps, ReadLock(a) PROVE PidsAreOwn' /\ OneLocks'
  BY <1>3 DEF ReadLock
<1>4. ASSUME NEW a \in Apps, LookForPid(a) PROVE PidsAreOwn' /\ OneLocks'
  BY <1>4 DEF LookForPid
<1>5. ASSUME NEW a \in Apps, TruncateLock(a) PROVE PidsAreOwn' /\ OneLocks'
  BY <1>5 DEF TruncateLock
<1>6. ASSUME NEW a \in Apps, WriteLock(a) PROVE PidsAreOwn' /\ OneLocks'
  BY <1>6 DEF WriteLock
<1>7. ASSUME NEW a \in Apps, stlDeamonize(a) PROVE PidsAreOwn' /\ OneLocks'
  <2>1. PICK n \in PidNumbers \ PidsAlive : apid' = [apid EXCEPT ![a] = n]
    BY <1>7 DEF stlDeamonize
  <2>2. QED
    BY <1>7, <2>1, FreePid DEF stlDeamonize
<1>8. ASSUME NEW a \in Apps, EndApp(a) PROVE PidsAreOwn' /\ OneLocks'
  BY <1>8 DEF EndApp
<1>9. CASE UNCHANGED plVars
  BY <1>9 DEF plVars
<1>10. QED
  BY <1>1, <1>2, <1>3, <1>4, <1>5, <1>6, <1>7, <1>8, <1>9 DEF PlNext

LEMMA PlNextHolds ==
  ASSUME PlInv, [PlNext]_plVars, ~together', ~forked'
  PROVE  RunnerHolds'
<1> USE DEF PlInv, PlTypeOK, RunnerHolds, AtApp, GotoApp
<1>1. CASE Stranger
  BY <1>1 DEF Stranger
<1>2. ASSUME NEW a \in Apps, StartApp(a) PROVE RunnerHolds'
  BY <1>2 DEF StartApp
<1>3. ASSUME NEW a \in Apps, ReadLock(a) PROVE RunnerHolds'
  BY <1>3 DEF ReadLock, PidsAreOwn
<1>4. ASSUME NEW a \in Apps, LookForPid(a) PROVE RunnerHolds'
  <2>1. ASSUME NEW b \in Apps, apc[b] = "runs" PROVE Exists(readPid[a])
    BY <1>4, <2>1 DEF LookForPid, Exists, PidsAlive
  <2>2. QED
    BY <1>4, <2>1 DEF LookForPid
<1>5. ASSUME NEW a \in Apps, TruncateLock(a) PROVE RunnerHolds'
  BY <1>5 DEF TruncateLock
<1>6. ASSUME NEW a \in Apps, WriteLock(a) PROVE RunnerHolds'
  BY <1>6 DEF WriteLock, WritesPid, OneLocks, Locking
<1>7. ASSUME NEW a \in Apps, stlDeamonize(a) PROVE RunnerHolds'
  BY <1>7 DEF stlDeamonize
<1>8. ASSUME NEW a \in Apps, EndApp(a) PROVE RunnerHolds'
  BY <1>8 DEF EndApp
<1>9. CASE UNCHANGED plVars
  BY <1>9 DEF plVars
<1>10. QED
  BY <1>1, <1>2, <1>3, <1>4, <1>5, <1>6, <1>7, <1>8, <1>9 DEF PlNext

LEMMA PlAlways == PlSpec => []PlInv
<1>1. PlInv /\ [PlNext]_plVars => PlInv'
  <2> SUFFICES ASSUME PlInv, [PlNext]_plVars PROVE PlInv'
    OBVIOUS
  <2>1. RunnerHolds'
    BY PlNextHolds DEF RunnerHolds
  <2>2. QED
    BY <2>1, PlNextType, PlNextPids DEF PlInv
<1>2. QED
  BY <1>1, PlInitInv, PTL DEF PlSpec

(* setPidLock and testPidLock (stl_daemon.c:496-529) let one instance of   *)
(* an application run and keep its number in the file, whichever crash,    *)
(* restart or reuse of a process number comes between, unless two test or  *)
(* set the lock at once or one becomes a daemon with the lock set.         *)
THEOREM OneInstanceRuns == PlSpec => []OneInstance
<1>1. PlInv => OneInstance
  BY DEF PlInv, PidsAreOwn, RunnerHolds, OneInstance, RunsOnce, LockIsHeld
<1>2. QED
  BY <1>1, PlAlways, PTL

-----------------------------------------------------------------------------
(* The handles of events.                                                  *)

EtTypes ==
  /\ VectorSize \in Nat /\ VectorSize <= MaxSize /\ VectorSize <= capacity
  /\ VectorSize = 0 \/ VectorSize >= 2
  /\ capacity \in Nat /\ vblock \in Nat
  /\ eventDB \in [0 .. VectorSize - 1 -> EventMemory \cup {NoEvent}]
  /\ eventDBmux \in EtUsers \cup {NoUser} /\ iMagic \subseteq EventMemory
  /\ etUpc \in [EtUsers -> {"idle", "lock", "size", "search", "store", "unlock", "find",
                            "use", "delete", "write", "free"}]
  /\ iHdl \in [EtUsers -> Nat] /\ vevt \in [EtUsers -> EventMemory \cup {NoEvent}]
  /\ vbase \in [EtUsers -> Nat] /\ vcalls \in [EtUsers -> Nat]
  /\ madeFor \subseteq (1 .. MaxSize) \X EventMemory /\ vmoved \subseteq EtUsers

(* One looks for a slot, and what it found is a free slot or the next one. *)
DBLocked ==
  \A u \in EtUsers : etUpc[u] \in {"size", "search", "store", "unlock"} <=> eventDBmux = u
SlotFound ==
  \A u \in EtUsers :
    /\ etUpc[u] \in {"search", "store"} => VectorSize >= 2
    /\ etUpc[u] = "store" =>
         /\ iHdl[u] \in 1 .. VectorSize
         /\ iHdl[u] < VectorSize => eventDB[iHdl[u]] = NoEvent

(* An event is that of one handle, or of a call that makes or frees it.    *)
HasEvent(u) == etUpc[u] \in {"lock", "size", "search", "store", "free"}
EventOfOne ==
  /\ \A p, q \in madeFor : p[2] = q[2] => p = q
  /\ \A u \in EtUsers : HasEvent(u) =>
       vevt[u] \in iMagic /\ \A p \in madeFor : p[2] # vevt[u]
  /\ \A u, v \in EtUsers : HasEvent(u) /\ HasEvent(v) /\ vevt[u] = vevt[v] => u = v

(* A handle is deleted by one, which has its event, and knows where the    *)
(* vector is unless it moved.                                              *)
Deletes(u) == etUpc[u] \in {"delete", "write"}
DeletedByOne ==
  /\ \A u \in EtUsers : Deletes(u) => iHdl[u] \in Handles
  /\ \A u, v \in EtUsers : Deletes(u) /\ Deletes(v) /\ iHdl[u] = iHdl[v] => u = v
  /\ \A u \in EtUsers : etUpc[u] = "write" =>
       <<iHdl[u], vevt[u]>> \in madeFor /\ (vbase[u] = vblock \/ u \in vmoved)

EtInv ==
  /\ EtTypes /\ DBLocked /\ SlotFound /\ EventOfOne /\ DeletedByOne
  /\ HandleFindsOwn /\ NoSlotLost

(* A set of numbers has a least element, and LowestOf is it.               *)
LEMMA LeastOfNumbers ==
  ASSUME NEW S \in SUBSET Nat, S # {}
  PROVE  \E x \in S : \A y \in S : x <= y
<1> DEFINE Less == OpToRel(<, Nat)
<1>1. IsWellFoundedOn(Less, Nat)
  BY NatLessThanWellFounded
<1>2. PICK x \in S : \A y \in S : ~ (<<y, x>> \in Less)
  BY <1>1, WFMin
<1>3. \A y \in S : x <= y
  <2>1. ASSUME NEW y \in S, ~(x <= y) PROVE FALSE
    <3>1. y < x /\ y \in Nat /\ x \in Nat
      BY <2>1
    <3>2. <<y, x>> \in Less
      BY <3>1 DEF OpToRel
    <3>3. QED
      BY <1>2, <3>2
  <2>2. QED
    BY <2>1
<1>4. QED
  BY <1>3

LEMMA LowestIsIn ==
  ASSUME NEW S \in SUBSET Nat, S # {}
  PROVE  LowestOf(S) \in S
<1>1. PICK x \in S : \A y \in S : x <= y
  BY LeastOfNumbers
<1>2. QED
  BY <1>1 DEF LowestOf

(* The number of elements of a vector.                                     *)
LEMMA SizeOfVector ==
  ASSUME NEW n \in Nat, NEW T, NEW f \in [0 .. n - 1 -> T]
  PROVE  DOMAIN f = 0 .. n - 1 /\ Cardinality(DOMAIN f) = n
<1>1. Cardinality(0 .. n - 1) = IF 0 > n - 1 THEN 0 ELSE n - 1 - 0 + 1
  BY FS_Interval
<1>2. QED
  BY <1>1

(* What each action does, place by place.                                  *)
UserGoes(u, from, to) ==
  etUpc[u] = from /\ etUpc'[u] = to /\ \A v \in EtUsers : v # u => etUpc'[v] = etUpc[v]
SetFor(u, vec, old, x) == vec[u] = x /\ \A v \in EtUsers : v # u => vec[v] = old[v]

MallocDoes(u) ==
  /\ \/ \E e \in EventMemory \ iMagic :
          iMagic' = iMagic \cup {e} /\ SetFor(u, vevt', vevt, e) /\ UserGoes(u, "idle", "lock")
     \/ UNCHANGED <<etUpc, iMagic, vevt>>
  /\ UNCHANGED <<eventDB, capacity, vblock, eventDBmux, iHdl, vbase, madeFor, vmoved>>
LockDoes(u) ==
  /\ UserGoes(u, "lock", "size") /\ eventDBmux = NoUser /\ eventDBmux' = u
  /\ UNCHANGED <<eventDB, capacity, vblock, iMagic, iHdl, vevt, vbase, madeFor, vmoved>>
ResizeDoes(u) ==
  /\ UserGoes(u, "size", "search")
  /\ \/ VectorSize = 0 /\ eventDB' = [i \in 0 .. FirstSize - 1 |-> NoEvent]
        /\ capacity' = FirstSize /\ vblock' = vblock + 1
     \/ VectorSize >= 2 /\ UNCHANGED <<eventDB, capacity, vblock>>
  /\ UNCHANGED <<eventDBmux, iMagic, iHdl, vevt, vbase, madeFor, vmoved>>
SearchDoes(u) ==
  /\ UserGoes(u, "search", "store")
  /\ \E h \in 1 .. VectorSize :
       (h < VectorSize => eventDB[h] = NoEvent) /\ SetFor(u, iHdl', iHdl, h)
  /\ UNCHANGED <<eventDB, capacity, vblock, eventDBmux, iMagic, vevt, vbase, madeFor, vmoved>>
(* The store makes the vector longer when no slot was free.                *)
StoreDoes(u) ==
  /\ UserGoes(u, "store", "unlock") /\ iHdl[u] \in 1 .. VectorSize /\ iHdl[u] < MaxSize
  /\ iHdl[u] < VectorSize => eventDB[iHdl[u]] = NoEvent
  /\ eventDB'[iHdl[u]] = vevt[u]
  /\ \A i \in 0 .. VectorSize - 1 : i # iHdl[u] => eventDB'[i] = eventDB[i]
  /\ madeFor' = madeFor \cup {<<iHdl[u], vevt[u]>>}
  /\ VectorSize' = IF iHdl[u] = VectorSize THEN VectorSize + 1 ELSE VectorSize
  /\ eventDB' \in [0 .. VectorSize' - 1 -> EventMemory \cup {NoEvent}]
  /\ \/ iHdl[u] = capacity /\ capacity' = 2 * capacity /\ vblock' = vblock + 1
        /\ vmoved' = vmoved \cup Readers
     \/ iHdl[u] # capacity /\ UNCHANGED <<capacity, vblock, vmoved>>
  /\ UNCHANGED <<eventDBmux, iMagic, iHdl, vevt, vbase>>
UnlockDoes(u) ==
  /\ UserGoes(u, "unlock", "idle") /\ eventDBmux' = NoUser
  /\ UNCHANGED <<eventDB, capacity, vblock, iMagic, iHdl, vevt, vbase, madeFor, vmoved>>
BeginDoes(u) ==
  /\ \E h \in KnownHandles : SetFor(u, iHdl', iHdl, h)
  /\ UserGoes(u, "idle", "find") \/ UserGoes(u, "idle", "delete")
  /\ UNCHANGED <<eventDB, capacity, vblock, eventDBmux, iMagic, vevt, vbase, madeFor, vmoved>>
FindDoes(u) ==
  /\ UserGoes(u, "find", "use") \/ UserGoes(u, "find", "idle")
  /\ \A v \in EtUsers : v # u => vevt'[v] = vevt[v]
  /\ UNCHANGED <<eventDB, capacity, vblock, eventDBmux, iMagic, iHdl, vbase, madeFor, vmoved>>
UseDoes(u) ==
  /\ UserGoes(u, "use", "idle")
  /\ UNCHANGED <<eventDB, capacity, vblock, eventDBmux, iMagic, iHdl, vevt, vbase, madeFor, vmoved>>
DeleteFindDoes(u) ==
  /\ <<iHdl[u], eventDB[iHdl[u]]>> \in madeFor
  /\ UserGoes(u, "delete", "write")
  /\ SetFor(u, vevt', vevt, eventDB[iHdl[u]]) /\ SetFor(u, vbase', vbase, vblock)
  /\ UNCHANGED <<eventDB, capacity, vblock, eventDBmux, iMagic, iHdl, madeFor, vmoved>>
DeleteWriteDoes(u) ==
  /\ UserGoes(u, "write", "free") /\ iHdl[u] \in 1 .. VectorSize - 1
  /\ \/ vbase[u] = vblock /\ eventDB'[iHdl[u]] = NoEvent
     \/ vbase[u] # vblock /\ UNCHANGED eventDB
  /\ \A i \in 0 .. VectorSize - 1 : i # iHdl[u] => eventDB'[i] = eventDB[i]
  /\ eventDB' \in [0 .. VectorSize - 1 -> EventMemory \cup {NoEvent}] /\ UNCHANGED VectorSize
  /\ madeFor' = {p \in madeFor : p[1] # iHdl[u]}
  /\ UNCHANGED <<capacity, vblock, eventDBmux, iMagic, iHdl, vevt, vbase, vmoved>>
FreeDoes(u) ==
  /\ UserGoes(u, "free", "idle") /\ iMagic' = iMagic \ {vevt[u]}
  /\ UNCHANGED <<eventDB, capacity, vblock, eventDBmux, iHdl, vevt, vbase, madeFor, vmoved>>

(* A handle in use is a place of the vector, with its own event.           *)
LEMMA HandleIs ==
  ASSUME EtInv, NEW p \in madeFor
  PROVE  /\ p[1] \in 1 .. VectorSize - 1 /\ eventDB[p[1]] = p[2] /\ p[2] \in iMagic /\ p[2] # NoEvent
         /\ ValidHandle(p[1]) /\ p[1] \in Handles
<1>1. ValidHandle(p[1]) /\ eventDB[p[1]] = p[2]
  BY DEF EtInv, HandleFindsOwn
<1>2. DOMAIN eventDB = 0 .. VectorSize - 1 /\ VectorSize \in Nat
  BY DEF EtInv, EtTypes
<1>3. QED
  BY <1>1, <1>2 DEF ValidHandle, NoEvent, Handles

LEMMA MallocDoesLemma ==
  ASSUME EtInv, NEW u \in EtUsers, CreateMalloc(u)
  PROVE  MallocDoes(u)
<1>0. EtTypes
  BY DEF EtInv
<1>1. CASE UNCHANGED <<etUpc, iMagic, vevt>>
  BY <1>1 DEF CreateMalloc, MallocDoes, AtUser, GotoUser, CallReturns, etTable, UserGoes, SetFor
<1>2. ASSUME NEW e, e = LowestOf(EventMemory \ iMagic), EventMemory \ iMagic # {},
             iMagic' = iMagic \cup {e}, vevt' = [vevt EXCEPT ![u] = e], GotoUser(u, "lock")
      PROVE  MallocDoes(u)
  <2>1. EventMemory \ iMagic \in SUBSET Nat
    BY DEF EventMemory
  <2>2. e \in EventMemory \ iMagic
    BY <1>2, <2>1, LowestIsIn
  <2>3. SetFor(u, vevt', vevt, e) /\ UserGoes(u, "idle", "lock")
    BY <1>0, <1>2 DEF EtTypes, CreateMalloc, MayCall, AtUser, GotoUser, CallReturns, etTable, UserGoes, SetFor
  <2>4. QED
    BY <1>2, <2>2, <2>3 DEF CreateMalloc, MallocDoes, etTable
<1>3. QED
  BY <1>1, <1>2 DEF CreateMalloc

LEMMA LockDoesLemma ==
  ASSUME EtInv, NEW u \in EtUsers, CreateLock(u)
  PROVE  LockDoes(u)
<1>0. EtTypes
  BY DEF EtInv
<1>1. QED
  BY <1>0 DEF EtTypes, CreateLock, LockDB, LockDoes, AtUser, GotoUser, CallReturns, etTable, UserGoes, SetFor

LEMMA ResizeDoesLemma ==
  ASSUME EtInv, NEW u \in EtUsers, CreateResize(u)
  PROVE  ResizeDoes(u)
<1>0. EtTypes
  BY DEF EtInv
<1>1. UserGoes(u, "size", "search")
  BY <1>0 DEF EtTypes, CreateResize, AtUser, GotoUser, CallReturns, etTable, UserGoes, SetFor
<1>2. VectorSize < 2 => VectorSize = 0
  BY <1>0 DEF EtTypes
<1>3. VectorSize >= 2 \/ VectorSize < 2
  BY <1>0 DEF EtTypes
<1>4. QED
  BY <1>1, <1>2, <1>3 DEF CreateResize, ResizeDoes, etTable

LEMMA SearchDoesLemma ==
  ASSUME EtInv, NEW u \in EtUsers, CreateSearch(u)
  PROVE  SearchDoes(u)
<1>0. EtTypes
  BY DEF EtInv
<1>1. VectorSize >= 2 /\ DOMAIN eventDB = 0 .. VectorSize - 1 /\ VectorSize \in Nat
  BY DEF EtInv, EtTypes, SlotFound, CreateSearch, AtUser
<1>2. FreeHandles(eventDB) \in SUBSET Nat
  BY <1>1 DEF FreeHandles
<1>3. \A h \in FreeHandles(eventDB) : h \in 1 .. VectorSize /\ eventDB[h] = NoEvent
  BY <1>1 DEF FreeHandles
<1>4. PICK h : /\ iHdl' = [iHdl EXCEPT ![u] = h]
              /\ h = IF FreeHandles(eventDB) # {} THEN LowestOf(FreeHandles(eventDB)) ELSE VectorSize
  BY DEF CreateSearch
<1>5. h \in 1 .. VectorSize /\ (h < VectorSize => eventDB[h] = NoEvent)
  <2>1. CASE FreeHandles(eventDB) # {}
    <3>1. h \in FreeHandles(eventDB)
      BY <1>2, <1>4, <2>1, LowestIsIn
    <3>2. QED
      BY <1>3, <3>1
  <2>2. CASE FreeHandles(eventDB) = {}
    BY <1>1, <1>4, <2>2
  <2>3. QED
    BY <2>1, <2>2
<1>6. UserGoes(u, "search", "store") /\ SetFor(u, iHdl', iHdl, h)
  BY <1>0, <1>4 DEF EtTypes, CreateSearch, AtUser, GotoUser, CallReturns, etTable, UserGoes, SetFor
<1>7. QED
  BY <1>5, <1>6 DEF CreateSearch, SearchDoes, etTable

LEMMA StoreDoesLemma ==
  ASSUME EtInv, NEW u \in EtUsers, CreateStore(u)
  PROVE  StoreDoes(u)
<1>0. EtTypes
  BY DEF EtInv
<1> DEFINE h == iHdl[u]
<1>1. h \in 1 .. VectorSize /\ (h < VectorSize => eventDB[h] = NoEvent)
  BY DEF EtInv, SlotFound, CreateStore, AtUser
<1>2. UserGoes(u, "store", "unlock") /\ h < MaxSize
  BY <1>0 DEF EtTypes, CreateStore, AtUser, GotoUser, CallReturns, etTable, UserGoes, SetFor
<1>3. vevt[u] \in EventMemory /\ VectorSize \in Nat /\ h \in Nat /\ DOMAIN eventDB = 0 .. VectorSize - 1
  <2>1. vevt[u] \in iMagic
    BY DEF EtInv, EventOfOne, HasEvent, CreateStore, AtUser
  <2>2. QED
    BY <1>0, <1>1, <2>1 DEF EtTypes
<1>4. eventDB' = [i \in (0 .. VectorSize - 1) \cup {h} |-> IF i = h THEN vevt[u] ELSE eventDB[i]]
  BY <1>3 DEF CreateStore
<1> DEFINE n == IF h = VectorSize THEN VectorSize + 1 ELSE VectorSize
<1>5. n \in Nat /\ (0 .. VectorSize - 1) \cup {h} = 0 .. n - 1
  BY <1>1, <1>3
<1>6. eventDB' \in [0 .. n - 1 -> EventMemory \cup {NoEvent}]
  <2>1. eventDB \in [0 .. VectorSize - 1 -> EventMemory \cup {NoEvent}]
    BY <1>0 DEF EtTypes
  <2>2. \A i \in (0 .. VectorSize - 1) \cup {h} :
          (IF i = h THEN vevt[u] ELSE eventDB[i]) \in EventMemory \cup {NoEvent}
    BY <1>3, <2>1
  <2>3. QED
    BY <1>4, <1>5, <2>2
<1>7. VectorSize' = n
  <2>1. Cardinality(DOMAIN eventDB') = n
    BY <1>5, <1>6, SizeOfVector
  <2>2. QED
    BY <2>1 DEF VectorSize
<1>8. /\ eventDB'[h] = vevt[u]
      /\ \A i \in 0 .. VectorSize - 1 : i # h => eventDB'[i] = eventDB[i]
  BY <1>4
<1>9. /\ \/ h = capacity /\ capacity' = 2 * capacity /\ vblock' = vblock + 1
            /\ vmoved' = vmoved \cup Readers
         \/ h # capacity /\ UNCHANGED <<capacity, vblock, vmoved>>
      /\ UNCHANGED <<eventDBmux, iMagic, iHdl, vevt, vbase>>
      /\ madeFor' = madeFor \cup {<<h, vevt[u]>>}
  BY DEF CreateStore
<1>10. QED
  BY <1>1, <1>2, <1>6, <1>7, <1>8, <1>9 DEF StoreDoes

LEMMA UnlockDoesLemma ==
  ASSUME EtInv, NEW u \in EtUsers, CreateUnlock(u)
  PROVE  UnlockDoes(u)
<1>0. EtTypes
  BY DEF EtInv
<1>1. QED
  BY <1>0 DEF EtTypes, CreateUnlock, UnlockDoes, AtUser, GotoUser, CallReturns, etTable, UserGoes, SetFor

LEMMA BeginDoesLemma ==
  ASSUME EtInv, NEW u \in EtUsers, CallBegin(u)
  PROVE  BeginDoes(u)
<1>0. EtTypes
  BY DEF EtInv
<1>1. PICK h \in KnownHandles : /\ iHdl' = [iHdl EXCEPT ![u] = h]
                                /\ GotoUser(u, "find") \/ GotoUser(u, "delete")
  BY DEF CallBegin
<1>2. SetFor(u, iHdl', iHdl, h)
  BY <1>0, <1>1 DEF EtTypes, SetFor
<1>3. UserGoes(u, "idle", "find") \/ UserGoes(u, "idle", "delete")
  BY <1>0, <1>1 DEF EtTypes, CallBegin, MayCall, AtUser, GotoUser, CallReturns, etTable, UserGoes, SetFor
<1>4. QED
  BY <1>2, <1>3 DEF CallBegin, BeginDoes, etTable

LEMMA FindDoesLemma ==
  ASSUME EtInv, NEW u \in EtUsers, CallFind(u)
  PROVE  FindDoes(u)
<1>0. EtTypes
  BY DEF EtInv
<1>1. QED
  BY <1>0 DEF EtTypes, CallFind, FindDoes, AtUser, GotoUser, CallReturns, etTable, UserGoes, SetFor

LEMMA UseDoesLemma ==
  ASSUME EtInv, NEW u \in EtUsers, CallUse(u)
  PROVE  UseDoes(u)
<1>0. EtTypes
  BY DEF EtInv
<1>1. QED
  BY <1>0 DEF EtTypes, CallUse, UseDoes, AtUser, GotoUser, CallReturns, etTable, UserGoes, SetFor

LEMMA DeleteFindDoesLemma ==
  ASSUME EtInv, NEW u \in EtUsers, DeleteFind(u)
  PROVE  DeleteFindDoes(u)
<1>0. EtTypes
  BY DEF EtInv
<1>1. iHdl[u] \in Handles
  BY DEF EtInv, DeletedByOne, Deletes, DeleteFind, AtUser
<1>2. PICK p \in madeFor : p[1] = iHdl[u]
  BY <1>1 DEF Handles
<1>3. ValidHandle(iHdl[u]) /\ <<iHdl[u], eventDB[iHdl[u]]>> \in madeFor
  <2>1. p = <<p[1], p[2]>>
    BY <1>0, <1>2 DEF EtTypes
  <2>2. QED
    BY <1>2, <2>1, HandleIs
<1>4. QED
  BY <1>0, <1>3 DEF EtTypes, DeleteFind, DeleteFindDoes, AtUser, GotoUser, CallReturns, etTable, UserGoes, SetFor

LEMMA DeleteWriteDoesLemma ==
  ASSUME EtInv, NEW u \in EtUsers, DeleteWrite(u)
  PROVE  DeleteWriteDoes(u)
<1>0. EtTypes
  BY DEF EtInv
<1>1. <<iHdl[u], vevt[u]>> \in madeFor
  BY DEF EtInv, DeletedByOne, DeleteWrite, AtUser
<1>2. iHdl[u] \in 1 .. VectorSize - 1
  BY <1>1, HandleIs
<1>3. UserGoes(u, "write", "free")
  BY <1>0 DEF EtTypes, DeleteWrite, AtUser, GotoUser, CallReturns, etTable, UserGoes, SetFor
<1>4. eventDB \in [0 .. VectorSize - 1 -> EventMemory \cup {NoEvent}] /\ VectorSize \in Nat
  BY <1>0 DEF EtTypes
<1>5. eventDB' = [eventDB EXCEPT ![iHdl[u]] = IF vbase[u] = vblock THEN NoEvent ELSE @]
  BY <1>2, <1>4 DEF DeleteWrite, Erased
<1>6. /\ eventDB' \in [0 .. VectorSize - 1 -> EventMemory \cup {NoEvent}]
      /\ \A i \in 0 .. VectorSize - 1 : i # iHdl[u] => eventDB'[i] = eventDB[i]
      /\ eventDB'[iHdl[u]] = IF vbase[u] = vblock THEN NoEvent ELSE eventDB[iHdl[u]]
  BY <1>2, <1>4, <1>5
<1>7. UNCHANGED VectorSize
  BY <1>4, <1>6, SizeOfVector DEF VectorSize
<1>8. vbase[u] # vblock => UNCHANGED eventDB
  BY DEF DeleteWrite
<1>9. QED
  BY <1>2, <1>3, <1>6, <1>7, <1>8 DEF DeleteWrite, DeleteWriteDoes

LEMMA FreeDoesLemma ==
  ASSUME EtInv, NEW u \in EtUsers, DeleteFree(u)
  PROVE  FreeDoes(u)
<1>0. EtTypes
  BY DEF EtInv
<1>1. QED
  BY <1>0 DEF EtTypes, DeleteFree, FreeDoes, AtUser, GotoUser, CallReturns, etTable, UserGoes, SetFor

(* The types.                                                              *)
LEMMA EtNextTypes ==
  ASSUME EtInv, [EtNext]_etVars
  PROVE  EtTypes'
<1>0. EtTypes
  BY DEF EtInv
<1>1. ASSUME NEW u \in EtUsers, CreateMalloc(u) PROVE EtTypes'
  <2>1. UNCHANGED eventDB /\ UNCHANGED VectorSize
    BY <1>1 DEF CreateMalloc, etTable, VectorSize
  <2>2. iMagic' \subseteq EventMemory /\ vevt' \in [EtUsers -> EventMemory \cup {NoEvent}]
    <3>1. CASE UNCHANGED <<etUpc, iMagic, vevt>>
      BY <1>0, <3>1 DEF EtTypes
    <3>2. ASSUME NEW e, e = LowestOf(EventMemory \ iMagic), EventMemory \ iMagic # {},
                 iMagic' = iMagic \cup {e}, vevt' = [vevt EXCEPT ![u] = e]
          PROVE  iMagic' \subseteq EventMemory /\ vevt' \in [EtUsers -> EventMemory \cup {NoEvent}]
      <4>1. EventMemory \ iMagic \in SUBSET Nat
        BY DEF EventMemory
      <4>2. e \in EventMemory
        BY <3>2, <4>1, LowestIsIn
      <4>3. QED
        BY <1>0, <3>2, <4>2 DEF EtTypes
    <3>3. QED
      BY <1>1, <3>1, <3>2 DEF CreateMalloc
  <2>3. etUpc' = etUpc \/ etUpc' = [etUpc EXCEPT ![u] = "lock"]
    BY <1>1 DEF CreateMalloc, GotoUser
  <2>4. etUpc' \in [EtUsers -> {"idle", "lock", "size", "search", "store", "unlock", "find",
                              "use", "delete", "write", "free"}]
    BY <1>0, <2>3 DEF EtTypes
  <2>5. vcalls' \in [EtUsers -> Nat]
    BY <1>0, <1>1 DEF EtTypes, CreateMalloc, Counted
  <2>6. UNCHANGED <<eventDB, capacity, vblock, eventDBmux, iHdl, vbase, madeFor, vmoved>>
    BY <1>1 DEF CreateMalloc, etTable
  <2>7. QED
    BY <1>0, <2>1, <2>2, <2>4, <2>5, <2>6 DEF EtTypes
<1>2. ASSUME NEW u \in EtUsers, CreateLock(u) PROVE EtTypes'
  <2>1. UNCHANGED eventDB /\ UNCHANGED VectorSize
    BY <1>2 DEF CreateLock, etTable, VectorSize
  <2>2. QED
    BY <1>0, <1>2, <2>1 DEF EtTypes, CreateLock, AtUser, GotoUser, CallReturns, MayCall, Counted, etTable
<1>3. ASSUME NEW u \in EtUsers, CreateResize(u) PROVE EtTypes'
  <2>0. ResizeDoes(u)
    BY <1>3, ResizeDoesLemma
  <2>1. CASE UNCHANGED <<eventDB, capacity, vblock>>
    <3>1. UNCHANGED VectorSize
      BY <2>1 DEF VectorSize
    <3>2. QED
      BY <1>0, <1>3, <2>1, <3>1 DEF EtTypes, CreateResize, AtUser, GotoUser, CallReturns, MayCall, Counted, etTable
  <2>2. CASE eventDB' = [i \in 0 .. FirstSize - 1 |-> NoEvent] /\ capacity' = FirstSize /\ vblock' = vblock + 1
    <3>1. FirstSize \in Nat /\ FirstSize >= 2 /\ FirstSize <= MaxSize
      BY EventTableAssumption
    <3>2. eventDB' \in [0 .. FirstSize - 1 -> EventMemory \cup {NoEvent}]
      BY <2>2
    <3>3. VectorSize' = FirstSize
      BY <3>1, <3>2, SizeOfVector DEF VectorSize
    <3>4. capacity' \in Nat /\ vblock' \in Nat
      BY <1>0, <2>2, <3>1 DEF EtTypes
    <3>5. etUpc' = [etUpc EXCEPT ![u] = "search"] /\ UNCHANGED <<eventDBmux, iMagic, iHdl, vevt, vbase, vcalls, madeFor, vmoved>>
      BY <1>3 DEF CreateResize, GotoUser
    <3>6. QED
      BY <1>0, <2>2, <3>1, <3>2, <3>3, <3>4, <3>5 DEF EtTypes
  <2>3. QED
    BY <2>0, <2>1, <2>2 DEF ResizeDoes
<1>4. ASSUME NEW u \in EtUsers, CreateSearch(u) PROVE EtTypes'
  <2>0. SearchDoes(u)
    BY <1>4, SearchDoesLemma
  <2>1. UNCHANGED eventDB /\ UNCHANGED VectorSize
    BY <1>4 DEF CreateSearch, etTable, VectorSize
  <2>2. iHdl' \in [EtUsers -> Nat]
    <3>1. PICK x : iHdl' = [iHdl EXCEPT ![u] = x]
      BY <1>4 DEF CreateSearch
    <3>2. iHdl \in [EtUsers -> Nat] /\ VectorSize \in Nat
      BY <1>0 DEF EtTypes
    <3>3. x \in Nat
      BY <2>0, <3>1, <3>2 DEF SearchDoes, SetFor
    <3>4. QED
      BY <3>1, <3>2, <3>3
  <2>3. QED
    BY <1>0, <1>4, <2>1, <2>2 DEF EtTypes, CreateSearch, AtUser, GotoUser, CallReturns, MayCall, Counted, etTable
<1>5. ASSUME NEW u \in EtUsers, CreateStore(u) PROVE EtTypes'
  <2>0. StoreDoes(u)
    BY <1>5, StoreDoesLemma
  <2>1. /\ VectorSize' \in Nat /\ VectorSize' <= MaxSize /\ VectorSize' >= 2 /\ VectorSize' <= capacity'
        /\ capacity' \in Nat /\ vblock' \in Nat
    <3>1. VectorSize \in Nat /\ VectorSize >= 2 /\ VectorSize <= capacity /\ capacity \in Nat /\ vblock \in Nat
      BY <1>0, <1>5 DEF EtTypes, EtInv, SlotFound, CreateStore, AtUser
    <3>2. iHdl[u] \in 1 .. VectorSize /\ iHdl[u] < MaxSize /\ VectorSize <= MaxSize /\ MaxSize \in Nat
      BY <1>0, <2>0, EventTableAssumption DEF EtTypes, StoreDoes
    <3>3. /\ VectorSize' = IF iHdl[u] = VectorSize THEN VectorSize + 1 ELSE VectorSize
          /\ \/ iHdl[u] = capacity /\ capacity' = 2 * capacity /\ vblock' = vblock + 1
             \/ iHdl[u] # capacity /\ capacity' = capacity /\ vblock' = vblock
      BY <2>0 DEF StoreDoes
    <3>4. QED
      BY <3>1, <3>2, <3>3
  <2>2. madeFor' \subseteq (1 .. MaxSize) \X EventMemory
    <3>1. vevt[u] \in iMagic
      BY <1>5 DEF EtInv, EventOfOne, HasEvent, CreateStore, AtUser
    <3>2. iHdl[u] \in 1 .. MaxSize /\ vevt[u] \in EventMemory
      BY <1>0, <2>0, <3>1, EventTableAssumption DEF EtTypes, StoreDoes
    <3>3. QED
      BY <1>0, <2>0, <3>2 DEF EtTypes, StoreDoes
  <2>3. vmoved' \subseteq EtUsers
    BY <1>0, <2>0 DEF EtTypes, StoreDoes, Readers
  <2>4. etUpc' = [etUpc EXCEPT ![u] = "unlock"] /\ UNCHANGED <<eventDBmux, iMagic, iHdl, vevt, vbase, vcalls>>
    BY <1>5 DEF CreateStore, GotoUser
  <2>5. QED
    BY <1>0, <2>0, <2>1, <2>2, <2>3, <2>4 DEF EtTypes, StoreDoes
<1>6. ASSUME NEW u \in EtUsers, CreateUnlock(u) PROVE EtTypes'
  <2>1. UNCHANGED eventDB /\ UNCHANGED VectorSize
    BY <1>6 DEF CreateUnlock, etTable, VectorSize
  <2>2. QED
    BY <1>0, <1>6, <2>1 DEF EtTypes, CreateUnlock, AtUser, GotoUser, CallReturns, MayCall, Counted, etTable
<1>7. ASSUME NEW u \in EtUsers, CallBegin(u) PROVE EtTypes'
  <2>1. UNCHANGED eventDB /\ UNCHANGED VectorSize
    BY <1>7 DEF CallBegin, etTable, VectorSize
  <2>2. PICK h \in KnownHandles : /\ iHdl' = [iHdl EXCEPT ![u] = h]
                                  /\ GotoUser(u, "find") \/ GotoUser(u, "delete")
    BY <1>7 DEF CallBegin
  <2>3. h \in Nat
    BY <1>0, HandleIs DEF KnownHandles, Handles, EtTypes
  <2>4. etUpc' \in [EtUsers -> {"idle", "lock", "size", "search", "store", "unlock", "find",
                              "use", "delete", "write", "free"}]
    <3>1. etUpc' = [etUpc EXCEPT ![u] = "find"] \/ etUpc' = [etUpc EXCEPT ![u] = "delete"]
      BY <2>2 DEF GotoUser
    <3>2. QED
      BY <1>0, <3>1 DEF EtTypes
  <2>5. iHdl' \in [EtUsers -> Nat] /\ vcalls' \in [EtUsers -> Nat]
    BY <1>0, <1>7, <2>2, <2>3 DEF EtTypes, CallBegin, Counted
  <2>6. UNCHANGED <<eventDB, capacity, vblock, eventDBmux, iMagic, vevt, vbase, madeFor, vmoved>>
    BY <1>7 DEF CallBegin, etTable
  <2>7. QED
    BY <1>0, <2>1, <2>4, <2>5, <2>6 DEF EtTypes
<1>8. ASSUME NEW u \in EtUsers, CallFind(u) PROVE EtTypes'
  <2>1. UNCHANGED eventDB /\ UNCHANGED VectorSize
    BY <1>8 DEF CallFind, etTable, VectorSize
  <2>2. vevt' \in [EtUsers -> EventMemory \cup {NoEvent}]
    <3>1. iHdl[u] \in DOMAIN eventDB => eventDB[iHdl[u]] \in EventMemory \cup {NoEvent}
      BY <1>0 DEF EtTypes
    <3>2. QED
      BY <1>0, <1>8, <3>1 DEF EtTypes, CallFind, ValidHandle
  <2>3. etUpc' = [etUpc EXCEPT ![u] = "use"] \/ etUpc' = [etUpc EXCEPT ![u] = "idle"]
    BY <1>8 DEF CallFind, GotoUser, CallReturns
  <2>4. QED
    BY <1>0, <1>8, <2>1, <2>2, <2>3 DEF EtTypes, CallFind, etTable
<1>9. ASSUME NEW u \in EtUsers, CallUse(u) PROVE EtTypes'
  <2>1. UNCHANGED eventDB /\ UNCHANGED VectorSize
    BY <1>9 DEF CallUse, etTable, VectorSize
  <2>2. QED
    BY <1>0, <1>9, <2>1 DEF EtTypes, CallUse, AtUser, GotoUser, CallReturns, MayCall, Counted, etTable
<1>10. ASSUME NEW u \in EtUsers, DeleteFind(u) PROVE EtTypes'
  <2>0. DeleteFindDoes(u)
    BY <1>10, DeleteFindDoesLemma
  <2>1. UNCHANGED eventDB /\ UNCHANGED VectorSize
    BY <1>10 DEF DeleteFind, etTable, VectorSize
  <2>2. /\ vevt' \in [EtUsers -> EventMemory \cup {NoEvent}] /\ vbase' \in [EtUsers -> Nat]
    <3>1. eventDB[iHdl[u]] \in EventMemory \cup {NoEvent} /\ vblock \in Nat
      BY <1>0, <2>0 DEF EtTypes, DeleteFindDoes
    <3>2. QED
      BY <1>0, <1>10, <3>1 DEF EtTypes, DeleteFind
  <2>3. etUpc' = [etUpc EXCEPT ![u] = "write"] \/ etUpc' = [etUpc EXCEPT ![u] = "idle"]
    BY <1>10 DEF DeleteFind, GotoUser, CallReturns
  <2>4. QED
    BY <1>0, <1>10, <2>1, <2>2, <2>3 DEF EtTypes, DeleteFind, etTable
<1>11. ASSUME NEW u \in EtUsers, DeleteWrite(u) PROVE EtTypes'
  <2>0. DeleteWriteDoes(u)
    BY <1>11, DeleteWriteDoesLemma
  <2>1. /\ etUpc' = [etUpc EXCEPT ![u] = "free"]
        /\ UNCHANGED <<capacity, vblock, eventDBmux, iMagic, iHdl, vevt, vbase, vcalls, vmoved>>
    BY <1>11 DEF DeleteWrite, GotoUser
  <2>2. madeFor' \subseteq madeFor
    BY <2>0 DEF DeleteWriteDoes
  <2>3. QED
    BY <1>0, <2>0, <2>1, <2>2 DEF EtTypes, DeleteWriteDoes
<1>12. ASSUME NEW u \in EtUsers, DeleteFree(u) PROVE EtTypes'
  <2>1. UNCHANGED eventDB /\ UNCHANGED VectorSize
    BY <1>12 DEF DeleteFree, etTable, VectorSize
  <2>2. QED
    BY <1>0, <1>12, <2>1 DEF EtTypes, DeleteFree, AtUser, GotoUser, CallReturns, MayCall, Counted, etTable
<1>13. CASE UNCHANGED etVars
  BY <1>0, <1>13 DEF etVars, etTable, etUser, EtTypes, VectorSize
<1>14. QED
  BY <1>1, <1>2, <1>3, <1>4, <1>5, <1>6, <1>7, <1>8, <1>9, <1>10, <1>11, <1>12, <1>13 DEF EtNext, EtStep

(* The lock of the vector.                                                 *)
LEMMA EtNextLocked ==
  ASSUME EtInv, [EtNext]_etVars
  PROVE  DBLocked'
<1>0. DBLocked
  BY DEF EtInv
<1>1. ASSUME NEW u \in EtUsers, CreateMalloc(u) PROVE DBLocked'
  <2>1. MallocDoes(u)
    BY <1>1, MallocDoesLemma
  <2>2. QED
    BY <1>0, <2>1 DEF MallocDoes, UserGoes, SetFor, DBLocked
<1>2. ASSUME NEW u \in EtUsers, CreateLock(u) PROVE DBLocked'
  <2>1. LockDoes(u)
    BY <1>2, LockDoesLemma
  <2>2. \A v \in EtUsers : v # NoUser
    BY EventTableAssumption DEF NoUser
  <2>3. QED
    BY <1>0, <2>1, <2>2 DEF LockDoes, UserGoes, DBLocked
<1>3. ASSUME NEW u \in EtUsers, CreateResize(u) PROVE DBLocked'
  <2>1. ResizeDoes(u)
    BY <1>3, ResizeDoesLemma
  <2>2. QED
    BY <1>0, <2>1 DEF ResizeDoes, UserGoes, SetFor, DBLocked
<1>4. ASSUME NEW u \in EtUsers, CreateSearch(u) PROVE DBLocked'
  <2>1. SearchDoes(u)
    BY <1>4, SearchDoesLemma
  <2>2. QED
    BY <1>0, <2>1 DEF SearchDoes, UserGoes, SetFor, DBLocked
<1>5. ASSUME NEW u \in EtUsers, CreateStore(u) PROVE DBLocked'
  <2>1. StoreDoes(u)
    BY <1>5, StoreDoesLemma
  <2>2. QED
    BY <1>0, <2>1 DEF StoreDoes, UserGoes, SetFor, DBLocked
<1>6. ASSUME NEW u \in EtUsers, CreateUnlock(u) PROVE DBLocked'
  <2>1. UnlockDoes(u)
    BY <1>6, UnlockDoesLemma
  <2>2. \A v \in EtUsers : v # NoUser
    BY EventTableAssumption DEF NoUser
  <2>3. QED
    BY <1>0, <2>1, <2>2 DEF UnlockDoes, UserGoes, DBLocked
<1>7. ASSUME NEW u \in EtUsers, CallBegin(u) PROVE DBLocked'
  <2>1. BeginDoes(u)
    BY <1>7, BeginDoesLemma
  <2>2. QED
    BY <1>0, <2>1 DEF BeginDoes, UserGoes, SetFor, DBLocked
<1>8. ASSUME NEW u \in EtUsers, CallFind(u) PROVE DBLocked'
  <2>1. FindDoes(u)
    BY <1>8, FindDoesLemma
  <2>2. QED
    BY <1>0, <2>1 DEF FindDoes, UserGoes, SetFor, DBLocked
<1>9. ASSUME NEW u \in EtUsers, CallUse(u) PROVE DBLocked'
  <2>1. UseDoes(u)
    BY <1>9, UseDoesLemma
  <2>2. QED
    BY <1>0, <2>1 DEF UseDoes, UserGoes, SetFor, DBLocked
<1>10. ASSUME NEW u \in EtUsers, DeleteFind(u) PROVE DBLocked'
  <2>1. DeleteFindDoes(u)
    BY <1>10, DeleteFindDoesLemma
  <2>2. QED
    BY <1>0, <2>1 DEF DeleteFindDoes, UserGoes, SetFor, DBLocked
<1>11. ASSUME NEW u \in EtUsers, DeleteWrite(u) PROVE DBLocked'
  <2>1. DeleteWriteDoes(u)
    BY <1>11, DeleteWriteDoesLemma
  <2>2. QED
    BY <1>0, <2>1 DEF DeleteWriteDoes, UserGoes, SetFor, DBLocked
<1>12. ASSUME NEW u \in EtUsers, DeleteFree(u) PROVE DBLocked'
  <2>1. FreeDoes(u)
    BY <1>12, FreeDoesLemma
  <2>2. QED
    BY <1>0, <2>1 DEF FreeDoes, UserGoes, SetFor, DBLocked
<1>13. CASE UNCHANGED etVars
  BY <1>0, <1>13 DEF etVars, etTable, etUser, DBLocked
<1>14. QED
  BY <1>1, <1>2, <1>3, <1>4, <1>5, <1>6, <1>7, <1>8, <1>9, <1>10, <1>11, <1>12, <1>13 DEF EtNext, EtStep

(* The slot that was found stays free.                                     *)
LEMMA EtNextSlot ==
  ASSUME EtInv, [EtNext]_etVars
  PROVE  SlotFound'
<1>0. SlotFound /\ DBLocked /\ EtTypes
  BY DEF EtInv
<1>1. ASSUME NEW u \in EtUsers, CreateMalloc(u) PROVE SlotFound'
  <2>1. MallocDoes(u)
    BY <1>1, MallocDoesLemma
  <2>2. UNCHANGED eventDB /\ UNCHANGED VectorSize
    BY <2>1 DEF MallocDoes, VectorSize
  <2>3. QED
    BY <1>0, <2>1, <2>2 DEF MallocDoes, UserGoes, SetFor, SlotFound
<1>2. ASSUME NEW u \in EtUsers, CreateLock(u) PROVE SlotFound'
  <2>1. LockDoes(u)
    BY <1>2, LockDoesLemma
  <2>2. UNCHANGED eventDB /\ UNCHANGED VectorSize
    BY <2>1 DEF LockDoes, VectorSize
  <2>3. QED
    BY <1>0, <2>1, <2>2 DEF LockDoes, UserGoes, SetFor, SlotFound
<1>3. ASSUME NEW u \in EtUsers, CreateResize(u) PROVE SlotFound'
  <2>1. ResizeDoes(u)
    BY <1>3, ResizeDoesLemma
  <2>2. \A v \in EtUsers : v # u => etUpc[v] \notin {"search", "store"}
    BY <1>0, <2>1 DEF ResizeDoes, UserGoes, DBLocked
  <2>3. VectorSize' >= 2
    <3>1. CASE VectorSize >= 2 /\ UNCHANGED eventDB
      BY <3>1 DEF VectorSize
    <3>2. CASE eventDB' = [i \in 0 .. FirstSize - 1 |-> NoEvent]
      <4>1. FirstSize \in Nat /\ FirstSize >= 2
        BY EventTableAssumption
      <4>2. eventDB' \in [0 .. FirstSize - 1 -> {NoEvent}]
        BY <3>2
      <4>3. QED
        BY <4>1, <4>2, SizeOfVector DEF VectorSize
    <3>3. QED
      BY <2>1, <3>1, <3>2 DEF ResizeDoes
  <2>4. QED
    BY <2>1, <2>2, <2>3 DEF ResizeDoes, UserGoes, SlotFound
<1>4. ASSUME NEW u \in EtUsers, CreateSearch(u) PROVE SlotFound'
  <2>1. SearchDoes(u)
    BY <1>4, SearchDoesLemma
  <2>2. UNCHANGED eventDB /\ UNCHANGED VectorSize /\ VectorSize >= 2
    BY <1>0, <2>1 DEF SearchDoes, UserGoes, SlotFound, VectorSize
  <2>3. QED
    BY <1>0, <2>1, <2>2 DEF SearchDoes, UserGoes, SetFor, SlotFound
<1>5. ASSUME NEW u \in EtUsers, CreateStore(u) PROVE SlotFound'
  <2>1. StoreDoes(u)
    BY <1>5, StoreDoesLemma
  <2>2. \A v \in EtUsers : etUpc'[v] \notin {"search", "store"}
    BY <1>0, <2>1 DEF StoreDoes, UserGoes, DBLocked
  <2>3. QED
    BY <2>2 DEF SlotFound
<1>6. ASSUME NEW u \in EtUsers, CreateUnlock(u) PROVE SlotFound'
  <2>1. UnlockDoes(u)
    BY <1>6, UnlockDoesLemma
  <2>2. UNCHANGED eventDB /\ UNCHANGED VectorSize
    BY <2>1 DEF UnlockDoes, VectorSize
  <2>3. QED
    BY <1>0, <2>1, <2>2 DEF UnlockDoes, UserGoes, SetFor, SlotFound
<1>7. ASSUME NEW u \in EtUsers, CallBegin(u) PROVE SlotFound'
  <2>1. BeginDoes(u)
    BY <1>7, BeginDoesLemma
  <2>2. UNCHANGED eventDB /\ UNCHANGED VectorSize
    BY <2>1 DEF BeginDoes, VectorSize
  <2>3. QED
    BY <1>0, <2>1, <2>2 DEF BeginDoes, UserGoes, SetFor, SlotFound
<1>8. ASSUME NEW u \in EtUsers, CallFind(u) PROVE SlotFound'
  <2>1. FindDoes(u)
    BY <1>8, FindDoesLemma
  <2>2. UNCHANGED eventDB /\ UNCHANGED VectorSize
    BY <2>1 DEF FindDoes, VectorSize
  <2>3. QED
    BY <1>0, <2>1, <2>2 DEF FindDoes, UserGoes, SetFor, SlotFound
<1>9. ASSUME NEW u \in EtUsers, CallUse(u) PROVE SlotFound'
  <2>1. UseDoes(u)
    BY <1>9, UseDoesLemma
  <2>2. UNCHANGED eventDB /\ UNCHANGED VectorSize
    BY <2>1 DEF UseDoes, VectorSize
  <2>3. QED
    BY <1>0, <2>1, <2>2 DEF UseDoes, UserGoes, SetFor, SlotFound
<1>10. ASSUME NEW u \in EtUsers, DeleteFind(u) PROVE SlotFound'
  <2>1. DeleteFindDoes(u)
    BY <1>10, DeleteFindDoesLemma
  <2>2. UNCHANGED eventDB /\ UNCHANGED VectorSize
    BY <2>1 DEF DeleteFindDoes, VectorSize
  <2>3. QED
    BY <1>0, <2>1, <2>2 DEF DeleteFindDoes, UserGoes, SetFor, SlotFound
<1>11. ASSUME NEW u \in EtUsers, DeleteWrite(u) PROVE SlotFound'
  <2>1. DeleteWriteDoes(u)
    BY <1>11, DeleteWriteDoesLemma
  <2>2. \A v \in EtUsers : v # u => etUpc'[v] = etUpc[v]
    BY <2>1 DEF DeleteWriteDoes, UserGoes
  <2>3. ASSUME NEW v \in EtUsers, etUpc'[v] = "store"
        PROVE  iHdl'[v] \in 1 .. VectorSize' /\ (iHdl'[v] < VectorSize' => eventDB'[iHdl'[v]] = NoEvent)
    <3>1. v # u /\ etUpc[v] = "store" /\ UNCHANGED <<iHdl, VectorSize>> /\ VectorSize \in Nat
      BY <1>0, <2>1, <2>2, <2>3 DEF DeleteWriteDoes, UserGoes, EtTypes
    <3>2. iHdl[v] \in 1 .. VectorSize /\ (iHdl[v] < VectorSize => eventDB[iHdl[v]] = NoEvent)
      BY <1>0, <3>1 DEF SlotFound
    <3>3. ASSUME iHdl[v] < VectorSize PROVE eventDB'[iHdl[v]] = NoEvent
      <4>1. iHdl[v] \in 0 .. VectorSize - 1 /\ eventDB[iHdl[v]] = NoEvent
        BY <3>1, <3>2, <3>3
      <4>2. CASE iHdl[v] = iHdl[u]
        BY <2>1, <4>1, <4>2 DEF DeleteWriteDoes
      <4>3. CASE iHdl[v] # iHdl[u]
        BY <2>1, <4>1, <4>3 DEF DeleteWriteDoes
      <4>4. QED
        BY <4>2, <4>3
    <3>4. QED
      BY <3>1, <3>2, <3>3
  <2>4. ASSUME NEW v \in EtUsers, etUpc'[v] \in {"search", "store"} PROVE VectorSize' >= 2
    BY <1>0, <2>1, <2>2, <2>4 DEF DeleteWriteDoes, UserGoes, SlotFound
  <2>5. QED
    BY <2>3, <2>4 DEF SlotFound
<1>12. ASSUME NEW u \in EtUsers, DeleteFree(u) PROVE SlotFound'
  <2>1. FreeDoes(u)
    BY <1>12, FreeDoesLemma
  <2>2. UNCHANGED eventDB /\ UNCHANGED VectorSize
    BY <2>1 DEF FreeDoes, VectorSize
  <2>3. QED
    BY <1>0, <2>1, <2>2 DEF FreeDoes, UserGoes, SetFor, SlotFound
<1>13. CASE UNCHANGED etVars
  BY <1>0, <1>13 DEF etVars, etTable, etUser, SlotFound, VectorSize
<1>14. QED
  BY <1>1, <1>2, <1>3, <1>4, <1>5, <1>6, <1>7, <1>8, <1>9, <1>10, <1>11, <1>12, <1>13 DEF EtNext, EtStep

(* An event is that of one handle or call.                                 *)
LEMMA EtNextEvents ==
  ASSUME EtInv, [EtNext]_etVars
  PROVE  EventOfOne'
<1>0. EventOfOne /\ EtTypes
  BY DEF EtInv
<1>1. ASSUME NEW u \in EtUsers, CreateMalloc(u) PROVE EventOfOne'
  <2>1. MallocDoes(u)
    BY <1>1, MallocDoesLemma
  <2>2. CASE UNCHANGED <<etUpc, iMagic, vevt>>
    BY <1>0, <2>1, <2>2 DEF MallocDoes, EventOfOne, HasEvent
  <2>3. ASSUME NEW e \in EventMemory \ iMagic, iMagic' = iMagic \cup {e},
               SetFor(u, vevt', vevt, e), UserGoes(u, "idle", "lock")
        PROVE  EventOfOne'
    <3>1. \A p \in madeFor : p[2] # e
      BY HandleIs
    <3>2. UNCHANGED madeFor
      BY <2>1 DEF MallocDoes
    <3>3. ASSUME NEW v \in EtUsers, HasEvent(v)'
          PROVE  /\ vevt'[v] \in iMagic' /\ \A p \in madeFor : p[2] # vevt'[v]
                 /\ v # u => HasEvent(v) /\ vevt'[v] = vevt[v] /\ vevt'[v] # e
      <4>1. CASE v = u
        BY <2>3, <3>1, <4>1 DEF SetFor
      <4>2. CASE v # u
        BY <1>0, <2>3, <3>3, <4>2 DEF SetFor, UserGoes, EventOfOne, HasEvent
      <4>3. QED
        BY <4>1, <4>2
    <3>4. ASSUME NEW v \in EtUsers, NEW w \in EtUsers, HasEvent(v)', HasEvent(w)', vevt'[v] = vevt'[w]
          PROVE  v = w
      BY <1>0, <2>3, <3>3, <3>4 DEF SetFor, EventOfOne
    <3>5. QED
      BY <1>0, <3>2, <3>3, <3>4 DEF EventOfOne
  <2>4. QED
    BY <2>1, <2>2, <2>3 DEF MallocDoes
<1>2. ASSUME NEW u \in EtUsers, CreateLock(u) PROVE EventOfOne'
  <2>1. LockDoes(u)
    BY <1>2, LockDoesLemma
  <2>2. QED
    BY <1>0, <2>1 DEF LockDoes, UserGoes, SetFor, EventOfOne, HasEvent
<1>3. ASSUME NEW u \in EtUsers, CreateResize(u) PROVE EventOfOne'
  <2>1. ResizeDoes(u)
    BY <1>3, ResizeDoesLemma
  <2>2. QED
    BY <1>0, <2>1 DEF ResizeDoes, UserGoes, SetFor, EventOfOne, HasEvent
<1>4. ASSUME NEW u \in EtUsers, CreateSearch(u) PROVE EventOfOne'
  <2>1. SearchDoes(u)
    BY <1>4, SearchDoesLemma
  <2>2. QED
    BY <1>0, <2>1 DEF SearchDoes, UserGoes, SetFor, EventOfOne, HasEvent
<1>5. ASSUME NEW u \in EtUsers, CreateStore(u) PROVE EventOfOne'
  <2>1. StoreDoes(u)
    BY <1>5, StoreDoesLemma
  <2>2. HasEvent(u) /\ ~HasEvent(u)' /\ UNCHANGED <<iMagic, vevt>>
    BY <2>1 DEF StoreDoes, UserGoes, HasEvent
  <2>3. \A v \in EtUsers : HasEvent(v)' => HasEvent(v) /\ v # u
    BY <2>1, <2>2 DEF StoreDoes, UserGoes, HasEvent
  <2>4. madeFor' = madeFor \cup {<<iHdl[u], vevt[u]>>}
    BY <2>1 DEF StoreDoes
  <2>5. \A p \in madeFor : p[2] # vevt[u]
    BY <1>0, <2>2 DEF EventOfOne
  <2>6. \A p, q \in madeFor' : p[2] = q[2] => p = q
    BY <1>0, <2>4, <2>5 DEF EventOfOne
  <2>7. \A v \in EtUsers : HasEvent(v)' => vevt[v] \in iMagic /\ vevt[v] # vevt[u] /\ \A p \in madeFor : p[2] # vevt[v]
    BY <1>0, <2>2, <2>3 DEF EventOfOne
  <2>8. \A v \in EtUsers : HasEvent(v)' => vevt'[v] \in iMagic' /\ \A p \in madeFor' : p[2] # vevt'[v]
    BY <2>2, <2>4, <2>7
  <2>9. \A v, w \in EtUsers : HasEvent(v)' /\ HasEvent(w)' /\ vevt'[v] = vevt'[w] => v = w
    BY <1>0, <2>2, <2>3 DEF EventOfOne
  <2>10. QED
    BY <2>6, <2>8, <2>9 DEF EventOfOne
<1>6. ASSUME NEW u \in EtUsers, CreateUnlock(u) PROVE EventOfOne'
  <2>1. UnlockDoes(u)
    BY <1>6, UnlockDoesLemma
  <2>2. QED
    BY <1>0, <2>1 DEF UnlockDoes, UserGoes, SetFor, EventOfOne, HasEvent
<1>7. ASSUME NEW u \in EtUsers, CallBegin(u) PROVE EventOfOne'
  <2>1. BeginDoes(u)
    BY <1>7, BeginDoesLemma
  <2>2. QED
    BY <1>0, <2>1 DEF BeginDoes, UserGoes, SetFor, EventOfOne, HasEvent
<1>8. ASSUME NEW u \in EtUsers, CallFind(u) PROVE EventOfOne'
  <2>1. FindDoes(u)
    BY <1>8, FindDoesLemma
  <2>2. QED
    BY <1>0, <2>1 DEF FindDoes, UserGoes, SetFor, EventOfOne, HasEvent
<1>9. ASSUME NEW u \in EtUsers, CallUse(u) PROVE EventOfOne'
  <2>1. UseDoes(u)
    BY <1>9, UseDoesLemma
  <2>2. QED
    BY <1>0, <2>1 DEF UseDoes, UserGoes, SetFor, EventOfOne, HasEvent
<1>10. ASSUME NEW u \in EtUsers, DeleteFind(u) PROVE EventOfOne'
  <2>1. DeleteFindDoes(u)
    BY <1>10, DeleteFindDoesLemma
  <2>2. QED
    BY <1>0, <2>1 DEF DeleteFindDoes, UserGoes, SetFor, EventOfOne, HasEvent
<1>11. ASSUME NEW u \in EtUsers, DeleteWrite(u) PROVE EventOfOne'
  <2>1. DeleteWriteDoes(u)
    BY <1>11, DeleteWriteDoesLemma
  <2>2. <<iHdl[u], vevt[u]>> \in madeFor /\ UNCHANGED <<iMagic, vevt>> /\ vevt[u] \in iMagic
    <3>1. <<iHdl[u], vevt[u]>> \in madeFor
      BY <2>1 DEF DeleteWriteDoes, UserGoes, EtInv, DeletedByOne
    <3>2. QED
      BY <2>1, <3>1, HandleIs DEF DeleteWriteDoes
  <2>3. madeFor' = {p \in madeFor : p[1] # iHdl[u]}
    BY <2>1 DEF DeleteWriteDoes
  <2>4. \A p \in madeFor' : p \in madeFor /\ p[2] # vevt[u]
    BY <1>0, <2>2, <2>3 DEF EventOfOne
  <2>5. \A v \in EtUsers : v # u /\ HasEvent(v)' => HasEvent(v) /\ vevt[v] # vevt[u]
    <3>1. \A v \in EtUsers : v # u /\ HasEvent(v)' => HasEvent(v)
      BY <2>1 DEF DeleteWriteDoes, UserGoes, HasEvent
    <3>2. QED
      BY <1>0, <2>2, <3>1 DEF EventOfOne
  <2>6. \A p, q \in madeFor' : p[2] = q[2] => p = q
    BY <1>0, <2>4 DEF EventOfOne
  <2>7. \A v \in EtUsers : HasEvent(v)' => vevt'[v] \in iMagic' /\ \A p \in madeFor' : p[2] # vevt'[v]
    BY <1>0, <2>2, <2>4, <2>5 DEF EventOfOne
  <2>8. \A v, w \in EtUsers : HasEvent(v)' /\ HasEvent(w)' /\ vevt'[v] = vevt'[w] => v = w
    BY <1>0, <2>2, <2>5 DEF EventOfOne
  <2>9. QED
    BY <2>6, <2>7, <2>8 DEF EventOfOne
<1>12. ASSUME NEW u \in EtUsers, DeleteFree(u) PROVE EventOfOne'
  <2>1. FreeDoes(u)
    BY <1>12, FreeDoesLemma
  <2>2. QED
    BY <1>0, <2>1 DEF FreeDoes, UserGoes, SetFor, EventOfOne, HasEvent
<1>13. CASE UNCHANGED etVars
  BY <1>0, <1>13 DEF etVars, etTable, etUser, EventOfOne, HasEvent
<1>14. QED
  BY <1>1, <1>2, <1>3, <1>4, <1>5, <1>6, <1>7, <1>8, <1>9, <1>10, <1>11, <1>12, <1>13 DEF EtNext, EtStep

(* A handle is deleted by one.                                             *)
LEMMA EtNextDeletes ==
  ASSUME EtInv, [EtNext]_etVars
  PROVE  DeletedByOne'
<1>0. DeletedByOne /\ EtTypes /\ SlotFound
  BY DEF EtInv
<1>1. ASSUME NEW u \in EtUsers, CreateMalloc(u) PROVE DeletedByOne'
  <2>1. MallocDoes(u)
    BY <1>1, MallocDoesLemma
  <2>2. QED
    BY <1>0, <2>1 DEF MallocDoes, UserGoes, SetFor, DeletedByOne, Deletes, Handles
<1>2. ASSUME NEW u \in EtUsers, CreateLock(u) PROVE DeletedByOne'
  <2>1. LockDoes(u)
    BY <1>2, LockDoesLemma
  <2>2. QED
    BY <1>0, <2>1 DEF LockDoes, UserGoes, SetFor, DeletedByOne, Deletes, Handles
<1>3. ASSUME NEW u \in EtUsers, CreateResize(u) PROVE DeletedByOne'
  <2>1. ResizeDoes(u)
    BY <1>3, ResizeDoesLemma
  <2>2. CASE VectorSize >= 2 /\ UNCHANGED <<eventDB, capacity, vblock>>
    BY <1>0, <2>1, <2>2 DEF ResizeDoes, UserGoes, DeletedByOne, Deletes, Handles
  <2>3. CASE VectorSize = 0
    <3>1. madeFor = {}
      BY <2>3, HandleIs
    <3>2. \A v \in EtUsers : ~Deletes(v)
      BY <1>0, <3>1 DEF DeletedByOne, Handles
    <3>3. \A v \in EtUsers : ~Deletes(v)' /\ etUpc'[v] # "write"
      BY <2>1, <3>2 DEF ResizeDoes, UserGoes, Deletes
    <3>4. QED
      BY <3>3 DEF DeletedByOne
  <2>4. QED
    BY <2>1, <2>2, <2>3 DEF ResizeDoes
<1>4. ASSUME NEW u \in EtUsers, CreateSearch(u) PROVE DeletedByOne'
  <2>1. SearchDoes(u)
    BY <1>4, SearchDoesLemma
  <2>2. \A v \in EtUsers : Deletes(v)' => Deletes(v) /\ v # u
    BY <2>1 DEF SearchDoes, UserGoes, Deletes
  <2>3. \A v \in EtUsers : v # u => iHdl'[v] = iHdl[v] /\ etUpc'[v] = etUpc[v]
    BY <2>1 DEF SearchDoes, UserGoes, SetFor
  <2>4. UNCHANGED <<vblock, vevt, vbase, madeFor, vmoved>> /\ etUpc'[u] # "write"
    BY <2>1 DEF SearchDoes, UserGoes
  <2>5. QED
    BY <1>0, <2>2, <2>3, <2>4 DEF DeletedByOne, Handles
<1>5. ASSUME NEW u \in EtUsers, CreateStore(u) PROVE DeletedByOne'
  <2>1. StoreDoes(u)
    BY <1>5, StoreDoesLemma
  <2>2. \A v \in EtUsers : Deletes(v)' => Deletes(v)
    BY <2>1 DEF StoreDoes, UserGoes, Deletes
  <2>3. madeFor \subseteq madeFor' /\ Handles \subseteq Handles' /\ UNCHANGED <<iHdl, vevt, vbase>>
    BY <2>1 DEF StoreDoes, Handles
  <2>4. ASSUME NEW v \in EtUsers, etUpc'[v] = "write"
        PROVE  <<iHdl'[v], vevt'[v]>> \in madeFor' /\ (vbase'[v] = vblock' \/ v \in vmoved')
    <3>1. etUpc[v] = "write" /\ v \in Readers
      BY <2>1, <2>4 DEF StoreDoes, UserGoes, Readers
    <3>2. <<iHdl[v], vevt[v]>> \in madeFor /\ (vbase[v] = vblock \/ v \in vmoved)
      BY <1>0, <3>1 DEF DeletedByOne
    <3>3. v \in vmoved' \/ UNCHANGED <<vblock, vmoved>>
      BY <2>1, <3>1 DEF StoreDoes
    <3>4. vmoved \subseteq vmoved'
      BY <2>1 DEF StoreDoes
    <3>5. QED
      BY <2>3, <3>2, <3>3, <3>4
  <2>5. \A v \in EtUsers : Deletes(v)' => iHdl'[v] \in Handles'
    BY <1>0, <2>2, <2>3 DEF DeletedByOne
  <2>6. \A v, w \in EtUsers : Deletes(v)' /\ Deletes(w)' /\ iHdl'[v] = iHdl'[w] => v = w
    BY <1>0, <2>2, <2>3 DEF DeletedByOne
  <2>7. QED
    BY <2>4, <2>5, <2>6 DEF DeletedByOne
<1>6. ASSUME NEW u \in EtUsers, CreateUnlock(u) PROVE DeletedByOne'
  <2>1. UnlockDoes(u)
    BY <1>6, UnlockDoesLemma
  <2>2. QED
    BY <1>0, <2>1 DEF UnlockDoes, UserGoes, SetFor, DeletedByOne, Deletes, Handles
<1>7. ASSUME NEW u \in EtUsers, CallBegin(u) PROVE DeletedByOne'
  <2>1. BeginDoes(u)
    BY <1>7, BeginDoesLemma
  <2>2. PICK h \in KnownHandles : SetFor(u, iHdl', iHdl, h)
    BY <2>1 DEF BeginDoes
  <2>3. h \in Handles /\ \A v \in EtUsers : Deletes(v) => iHdl[v] # h
    BY <2>2 DEF KnownHandles, HdlOf, Deletes
  <2>4. /\ UNCHANGED <<vblock, vevt, vbase, madeFor, vmoved>> /\ etUpc'[u] # "write" /\ iHdl'[u] = h
        /\ \A v \in EtUsers : v # u => etUpc'[v] = etUpc[v] /\ iHdl'[v] = iHdl[v]
    BY <2>1, <2>2 DEF BeginDoes, UserGoes, SetFor
  <2>5. \A v \in EtUsers : Deletes(v)' => v = u \/ Deletes(v)
    BY <2>4 DEF Deletes
  <2>6. \A v \in EtUsers : Deletes(v)' => iHdl'[v] \in Handles'
    BY <1>0, <2>3, <2>4, <2>5 DEF DeletedByOne, Handles
  <2>7. \A v, w \in EtUsers : Deletes(v)' /\ Deletes(w)' /\ iHdl'[v] = iHdl'[w] => v = w
    BY <1>0, <2>3, <2>4, <2>5 DEF DeletedByOne
  <2>8. \A v \in EtUsers : etUpc'[v] = "write" =>
          <<iHdl'[v], vevt'[v]>> \in madeFor' /\ (vbase'[v] = vblock' \/ v \in vmoved')
    BY <1>0, <2>4 DEF DeletedByOne
  <2>9. QED
    BY <2>6, <2>7, <2>8 DEF DeletedByOne
<1>8. ASSUME NEW u \in EtUsers, CallFind(u) PROVE DeletedByOne'
  <2>1. FindDoes(u)
    BY <1>8, FindDoesLemma
  <2>2. QED
    BY <1>0, <2>1 DEF FindDoes, UserGoes, SetFor, DeletedByOne, Deletes, Handles
<1>9. ASSUME NEW u \in EtUsers, CallUse(u) PROVE DeletedByOne'
  <2>1. UseDoes(u)
    BY <1>9, UseDoesLemma
  <2>2. QED
    BY <1>0, <2>1 DEF UseDoes, UserGoes, SetFor, DeletedByOne, Deletes, Handles
<1>10. ASSUME NEW u \in EtUsers, DeleteFind(u) PROVE DeletedByOne'
  <2>1. DeleteFindDoes(u)
    BY <1>10, DeleteFindDoesLemma
  <2>2. /\ UNCHANGED <<vblock, iHdl, madeFor, vmoved>> /\ Deletes(u)
        /\ \A v \in EtUsers : v # u => etUpc'[v] = etUpc[v] /\ vevt'[v] = vevt[v] /\ vbase'[v] = vbase[v]
        /\ <<iHdl[u], vevt'[u]>> \in madeFor /\ vbase'[u] = vblock
    BY <2>1 DEF DeleteFindDoes, UserGoes, SetFor, Deletes
  <2>3. \A v \in EtUsers : Deletes(v)' => Deletes(v)
    BY <2>2 DEF Deletes
  <2>4. \A v \in EtUsers : etUpc'[v] = "write" =>
          <<iHdl'[v], vevt'[v]>> \in madeFor' /\ (vbase'[v] = vblock' \/ v \in vmoved')
    BY <1>0, <2>2 DEF DeletedByOne
  <2>5. QED
    BY <1>0, <2>2, <2>3, <2>4 DEF DeletedByOne, Handles
<1>11. ASSUME NEW u \in EtUsers, DeleteWrite(u) PROVE DeletedByOne'
  <2>1. DeleteWriteDoes(u)
    BY <1>11, DeleteWriteDoesLemma
  <2>2. /\ UNCHANGED <<vblock, iHdl, vevt, vbase, vmoved>> /\ Deletes(u) /\ ~Deletes(u)'
        /\ \A v \in EtUsers : v # u => etUpc'[v] = etUpc[v]
        /\ etUpc'[u] # "write"
    BY <2>1 DEF DeleteWriteDoes, UserGoes, Deletes
  <2>3. \A v \in EtUsers : Deletes(v)' => Deletes(v) /\ v # u /\ iHdl[v] # iHdl[u]
    <3>1. \A v \in EtUsers : Deletes(v)' => Deletes(v) /\ v # u
      BY <2>2 DEF Deletes
    <3>2. QED
      BY <1>0, <2>2, <3>1 DEF DeletedByOne
  <2>4. \A p \in madeFor : p[1] # iHdl[u] => p \in madeFor'
    BY <2>1 DEF DeleteWriteDoes
  <2>5. \A v \in EtUsers : Deletes(v)' => iHdl'[v] \in Handles'
    BY <1>0, <2>2, <2>3, <2>4 DEF DeletedByOne, Handles
  <2>6. ASSUME NEW v \in EtUsers, etUpc'[v] = "write"
        PROVE  <<iHdl'[v], vevt'[v]>> \in madeFor' /\ (vbase'[v] = vblock' \/ v \in vmoved')
    <3>1. etUpc[v] = "write" /\ Deletes(v)' /\ v # u
      BY <2>2, <2>6 DEF Deletes
    <3>2. <<iHdl[v], vevt[v]>> \in madeFor /\ (vbase[v] = vblock \/ v \in vmoved) /\ iHdl[v] # iHdl[u]
      BY <1>0, <2>3, <3>1 DEF DeletedByOne
    <3>3. QED
      BY <2>2, <2>4, <3>2
  <2>7. QED
    BY <1>0, <2>2, <2>3, <2>5, <2>6 DEF DeletedByOne
<1>12. ASSUME NEW u \in EtUsers, DeleteFree(u) PROVE DeletedByOne'
  <2>1. FreeDoes(u)
    BY <1>12, FreeDoesLemma
  <2>2. QED
    BY <1>0, <2>1 DEF FreeDoes, UserGoes, SetFor, DeletedByOne, Deletes, Handles
<1>13. CASE UNCHANGED etVars
  BY <1>0, <1>13 DEF etVars, etTable, etUser, DeletedByOne, Deletes, Handles
<1>14. QED
  BY <1>1, <1>2, <1>3, <1>4, <1>5, <1>6, <1>7, <1>8, <1>9, <1>10, <1>11, <1>12, <1>13 DEF EtNext, EtStep

(* A handle in use finds its own event.                                    *)
LEMMA EtNextOwn ==
  ASSUME EtInv, [EtNext]_etVars
  PROVE  HandleFindsOwn'
<1>0. HandleFindsOwn /\ EtTypes
  BY DEF EtInv
<1>1. ASSUME NEW u \in EtUsers, CreateMalloc(u) PROVE HandleFindsOwn'
  <2>1. MallocDoes(u)
    BY <1>1, MallocDoesLemma
  <2>2. UNCHANGED <<eventDB, madeFor>> /\ iMagic \subseteq iMagic'
    BY <2>1 DEF MallocDoes
  <2>3. QED
    BY <1>0, <2>2 DEF HandleFindsOwn, ValidHandle
<1>2. ASSUME NEW u \in EtUsers, CreateLock(u) PROVE HandleFindsOwn'
  <2>1. LockDoes(u)
    BY <1>2, LockDoesLemma
  <2>2. UNCHANGED <<eventDB, madeFor>> /\ iMagic \subseteq iMagic'
    BY <2>1 DEF LockDoes
  <2>3. QED
    BY <1>0, <2>2 DEF HandleFindsOwn, ValidHandle
<1>3. ASSUME NEW u \in EtUsers, CreateResize(u) PROVE HandleFindsOwn'
  <2>1. ResizeDoes(u)
    BY <1>3, ResizeDoesLemma
  <2>2. CASE VectorSize >= 2 /\ UNCHANGED eventDB
    BY <1>0, <2>1, <2>2 DEF ResizeDoes, HandleFindsOwn, ValidHandle
  <2>3. CASE VectorSize = 0
    <3>1. madeFor = {}
      BY <2>3, HandleIs
    <3>2. QED
      BY <2>1, <3>1 DEF ResizeDoes, HandleFindsOwn
  <2>4. QED
    BY <2>1, <2>2, <2>3 DEF ResizeDoes
<1>4. ASSUME NEW u \in EtUsers, CreateSearch(u) PROVE HandleFindsOwn'
  <2>1. SearchDoes(u)
    BY <1>4, SearchDoesLemma
  <2>2. UNCHANGED <<eventDB, madeFor>> /\ iMagic \subseteq iMagic'
    BY <2>1 DEF SearchDoes
  <2>3. QED
    BY <1>0, <2>2 DEF HandleFindsOwn, ValidHandle
<1>5. ASSUME NEW u \in EtUsers, CreateStore(u) PROVE HandleFindsOwn'
  <2>1. StoreDoes(u)
    BY <1>5, StoreDoesLemma
  <2>2. VectorSize \in Nat /\ VectorSize' \in Nat /\ VectorSize <= VectorSize'
    <3>1. VectorSize \in Nat
      BY <1>0 DEF EtTypes
    <3>2. QED
      BY <2>1, <3>1 DEF StoreDoes
  <2>3. DOMAIN eventDB' = 0 .. VectorSize' - 1 /\ UNCHANGED iMagic
    BY <2>1 DEF StoreDoes
  <2>4. ASSUME NEW p \in madeFor PROVE ValidHandle(p[1])' /\ eventDB'[p[1]] = p[2]
    <3>1. /\ p[1] \in 1 .. VectorSize - 1 /\ eventDB[p[1]] = p[2] /\ p[2] \in iMagic /\ p[2] # NoEvent
      BY HandleIs
    <3>2. p[1] # iHdl[u]
      BY <2>1, <2>2, <3>1 DEF StoreDoes
    <3>3. eventDB'[p[1]] = p[2]
      BY <2>1, <3>1, <3>2 DEF StoreDoes
    <3>4. QED
      BY <2>2, <2>3, <3>1, <3>3 DEF ValidHandle
  <2>5. ValidHandle(iHdl[u])' /\ eventDB'[iHdl[u]] = vevt[u]
    <3>1. iHdl[u] \in 1 .. VectorSize' - 1
      BY <2>1, <2>2 DEF StoreDoes
    <3>2. vevt[u] \in iMagic
      BY <2>1 DEF StoreDoes, UserGoes, EtInv, EventOfOne, HasEvent
    <3>3. vevt[u] # NoEvent
      BY <1>0, <3>2 DEF EtTypes, EventMemory, NoEvent
    <3>4. eventDB'[iHdl[u]] = vevt[u] /\ UNCHANGED iHdl
      BY <2>1 DEF StoreDoes
    <3>5. QED
      BY <2>3, <3>1, <3>2, <3>3, <3>4 DEF ValidHandle
  <2>6. UNCHANGED iHdl /\ madeFor' = madeFor \cup {<<iHdl[u], vevt[u]>>}
    BY <2>1 DEF StoreDoes
  <2>7. QED
    BY <2>4, <2>5, <2>6 DEF HandleFindsOwn, ValidHandle
<1>6. ASSUME NEW u \in EtUsers, CreateUnlock(u) PROVE HandleFindsOwn'
  <2>1. UnlockDoes(u)
    BY <1>6, UnlockDoesLemma
  <2>2. UNCHANGED <<eventDB, madeFor>> /\ iMagic \subseteq iMagic'
    BY <2>1 DEF UnlockDoes
  <2>3. QED
    BY <1>0, <2>2 DEF HandleFindsOwn, ValidHandle
<1>7. ASSUME NEW u \in EtUsers, CallBegin(u) PROVE HandleFindsOwn'
  <2>1. BeginDoes(u)
    BY <1>7, BeginDoesLemma
  <2>2. UNCHANGED <<eventDB, madeFor>> /\ iMagic \subseteq iMagic'
    BY <2>1 DEF BeginDoes
  <2>3. QED
    BY <1>0, <2>2 DEF HandleFindsOwn, ValidHandle
<1>8. ASSUME NEW u \in EtUsers, CallFind(u) PROVE HandleFindsOwn'
  <2>1. FindDoes(u)
    BY <1>8, FindDoesLemma
  <2>2. UNCHANGED <<eventDB, madeFor>> /\ iMagic \subseteq iMagic'
    BY <2>1 DEF FindDoes
  <2>3. QED
    BY <1>0, <2>2 DEF HandleFindsOwn, ValidHandle
<1>9. ASSUME NEW u \in EtUsers, CallUse(u) PROVE HandleFindsOwn'
  <2>1. UseDoes(u)
    BY <1>9, UseDoesLemma
  <2>2. UNCHANGED <<eventDB, madeFor>> /\ iMagic \subseteq iMagic'
    BY <2>1 DEF UseDoes
  <2>3. QED
    BY <1>0, <2>2 DEF HandleFindsOwn, ValidHandle
<1>10. ASSUME NEW u \in EtUsers, DeleteFind(u) PROVE HandleFindsOwn'
  <2>1. DeleteFindDoes(u)
    BY <1>10, DeleteFindDoesLemma
  <2>2. UNCHANGED <<eventDB, madeFor>> /\ iMagic \subseteq iMagic'
    BY <2>1 DEF DeleteFindDoes
  <2>3. QED
    BY <1>0, <2>2 DEF HandleFindsOwn, ValidHandle
<1>11. ASSUME NEW u \in EtUsers, DeleteWrite(u) PROVE HandleFindsOwn'
  <2>1. DeleteWriteDoes(u)
    BY <1>11, DeleteWriteDoesLemma
  <2>2. ASSUME NEW p \in madeFor, p[1] # iHdl[u]
        PROVE  ValidHandle(p[1])' /\ eventDB'[p[1]] = p[2]
    <3>1. /\ p[1] \in 1 .. VectorSize - 1 /\ eventDB[p[1]] = p[2] /\ p[2] \in iMagic /\ p[2] # NoEvent
      BY HandleIs
    <3>2. VectorSize \in Nat
      BY <1>0 DEF EtTypes
    <3>3. eventDB'[p[1]] = p[2] /\ DOMAIN eventDB' = 0 .. VectorSize - 1 /\ UNCHANGED iMagic
      BY <2>1, <2>2, <3>1, <3>2 DEF DeleteWriteDoes
    <3>4. QED
      BY <3>1, <3>2, <3>3 DEF ValidHandle
  <2>3. madeFor' = {p \in madeFor : p[1] # iHdl[u]}
    BY <2>1 DEF DeleteWriteDoes
  <2>4. QED
    BY <2>2, <2>3 DEF HandleFindsOwn, ValidHandle
<1>12. ASSUME NEW u \in EtUsers, DeleteFree(u) PROVE HandleFindsOwn'
  <2>1. FreeDoes(u)
    BY <1>12, FreeDoesLemma
  <2>2. UNCHANGED <<eventDB, madeFor>> /\ iMagic' = iMagic \ {vevt[u]}
    BY <2>1 DEF FreeDoes
  <2>3. \A p \in madeFor : p[2] # vevt[u]
    BY <2>1 DEF FreeDoes, UserGoes, EtInv, EventOfOne, HasEvent
  <2>4. QED
    BY <1>0, <2>2, <2>3 DEF HandleFindsOwn, ValidHandle
<1>13. CASE UNCHANGED etVars
  BY <1>0, <1>13 DEF etVars, etTable, etUser, HandleFindsOwn, ValidHandle
<1>14. QED
  BY <1>1, <1>2, <1>3, <1>4, <1>5, <1>6, <1>7, <1>8, <1>9, <1>10, <1>11, <1>12, <1>13 DEF EtNext, EtStep

(* No slot is lost unless the vector moved.                                *)
LEMMA EtNextLost ==
  ASSUME EtInv, [EtNext]_etVars
  PROVE  NoSlotLost'
<1>0. NoSlotLost /\ EtTypes
  BY DEF EtInv
<1>1. ASSUME NEW u \in EtUsers, CreateMalloc(u) PROVE NoSlotLost'
  <2>1. MallocDoes(u)
    BY <1>1, MallocDoesLemma
  <2>2. UNCHANGED <<eventDB, madeFor, vmoved>>
    BY <2>1 DEF MallocDoes
  <2>3. QED
    BY <1>0, <2>2 DEF NoSlotLost, Handles
<1>2. ASSUME NEW u \in EtUsers, CreateLock(u) PROVE NoSlotLost'
  <2>1. LockDoes(u)
    BY <1>2, LockDoesLemma
  <2>2. UNCHANGED <<eventDB, madeFor, vmoved>>
    BY <2>1 DEF LockDoes
  <2>3. QED
    BY <1>0, <2>2 DEF NoSlotLost, Handles
<1>3. ASSUME NEW u \in EtUsers, CreateResize(u) PROVE NoSlotLost'
  <2>1. ResizeDoes(u)
    BY <1>3, ResizeDoesLemma
  <2>2. CASE VectorSize >= 2 /\ UNCHANGED eventDB
    BY <1>0, <2>1, <2>2 DEF ResizeDoes, NoSlotLost, Handles
  <2>3. CASE eventDB' = [i \in 0 .. FirstSize - 1 |-> NoEvent]
    BY <2>3 DEF NoSlotLost
  <2>4. QED
    BY <2>1, <2>2, <2>3 DEF ResizeDoes
<1>4. ASSUME NEW u \in EtUsers, CreateSearch(u) PROVE NoSlotLost'
  <2>1. SearchDoes(u)
    BY <1>4, SearchDoesLemma
  <2>2. UNCHANGED <<eventDB, madeFor, vmoved>>
    BY <2>1 DEF SearchDoes
  <2>3. QED
    BY <1>0, <2>2 DEF NoSlotLost, Handles
<1>5. ASSUME NEW u \in EtUsers, CreateStore(u) PROVE NoSlotLost'
  <2>1. StoreDoes(u)
    BY <1>5, StoreDoesLemma
  <2>2. DOMAIN eventDB = 0 .. VectorSize - 1 /\ VectorSize \in Nat
    BY <1>0 DEF EtTypes
  <2>3. madeFor' = madeFor \cup {<<iHdl[u], vevt[u]>>}
    BY <2>1 DEF StoreDoes
  <2>4. <<iHdl[u], vevt[u]>> \in madeFor' /\ <<iHdl[u], vevt[u]>>[1] = iHdl[u]
    BY <2>3
  <2>5. iHdl[u] \in Handles'
    BY <2>4 DEF Handles
  <2>6. \A h \in Handles : h \in Handles'
    BY <2>3 DEF Handles
  <2>7. VectorSize' = IF iHdl[u] = VectorSize THEN VectorSize + 1 ELSE VectorSize
    BY <2>1 DEF StoreDoes
  <2>8. DOMAIN eventDB' = 0 .. VectorSize' - 1
    <3>1. eventDB' \in [0 .. VectorSize' - 1 -> EventMemory \cup {NoEvent}]
      BY <2>1 DEF StoreDoes
    <3>2. QED
      BY <3>1
  <2>9. \A i \in DOMAIN eventDB' : i # iHdl[u] => i \in 0 .. VectorSize - 1
    BY <2>2, <2>7, <2>8
  <2>10. \A i \in DOMAIN eventDB' : i # iHdl[u] => i \in DOMAIN eventDB /\ eventDB'[i] = eventDB[i]
    BY <2>1, <2>2, <2>9 DEF StoreDoes
  <2>11. vmoved' = {} => vmoved = {}
    BY <2>1 DEF StoreDoes
  <2>12. QED
    BY <1>0, <2>5, <2>6, <2>10, <2>11 DEF NoSlotLost
<1>6. ASSUME NEW u \in EtUsers, CreateUnlock(u) PROVE NoSlotLost'
  <2>1. UnlockDoes(u)
    BY <1>6, UnlockDoesLemma
  <2>2. UNCHANGED <<eventDB, madeFor, vmoved>>
    BY <2>1 DEF UnlockDoes
  <2>3. QED
    BY <1>0, <2>2 DEF NoSlotLost, Handles
<1>7. ASSUME NEW u \in EtUsers, CallBegin(u) PROVE NoSlotLost'
  <2>1. BeginDoes(u)
    BY <1>7, BeginDoesLemma
  <2>2. UNCHANGED <<eventDB, madeFor, vmoved>>
    BY <2>1 DEF BeginDoes
  <2>3. QED
    BY <1>0, <2>2 DEF NoSlotLost, Handles
<1>8. ASSUME NEW u \in EtUsers, CallFind(u) PROVE NoSlotLost'
  <2>1. FindDoes(u)
    BY <1>8, FindDoesLemma
  <2>2. UNCHANGED <<eventDB, madeFor, vmoved>>
    BY <2>1 DEF FindDoes
  <2>3. QED
    BY <1>0, <2>2 DEF NoSlotLost, Handles
<1>9. ASSUME NEW u \in EtUsers, CallUse(u) PROVE NoSlotLost'
  <2>1. UseDoes(u)
    BY <1>9, UseDoesLemma
  <2>2. UNCHANGED <<eventDB, madeFor, vmoved>>
    BY <2>1 DEF UseDoes
  <2>3. QED
    BY <1>0, <2>2 DEF NoSlotLost, Handles
<1>10. ASSUME NEW u \in EtUsers, DeleteFind(u) PROVE NoSlotLost'
  <2>1. DeleteFindDoes(u)
    BY <1>10, DeleteFindDoesLemma
  <2>2. UNCHANGED <<eventDB, madeFor, vmoved>>
    BY <2>1 DEF DeleteFindDoes
  <2>3. QED
    BY <1>0, <2>2 DEF NoSlotLost, Handles
<1>11. ASSUME NEW u \in EtUsers, DeleteWrite(u) PROVE NoSlotLost'
  <2>1. DeleteWriteDoes(u)
    BY <1>11, DeleteWriteDoesLemma
  <2>2. DOMAIN eventDB = 0 .. VectorSize - 1 /\ DOMAIN eventDB' = 0 .. VectorSize - 1
    BY <1>0, <2>1 DEF EtTypes, DeleteWriteDoes
  <2>3. UNCHANGED vmoved /\ (vmoved = {} => eventDB'[iHdl[u]] = NoEvent)
    BY <2>1 DEF DeleteWriteDoes, UserGoes, EtInv, DeletedByOne
  <2>4. \A i \in DOMAIN eventDB' : i # iHdl[u] => i \in DOMAIN eventDB /\ eventDB'[i] = eventDB[i]
    BY <2>1, <2>2 DEF DeleteWriteDoes
  <2>5. \A h \in Handles : h # iHdl[u] => h \in Handles'
    BY <2>1 DEF DeleteWriteDoes, Handles
  <2>6. QED
    BY <1>0, <2>3, <2>4, <2>5 DEF NoSlotLost
<1>12. ASSUME NEW u \in EtUsers, DeleteFree(u) PROVE NoSlotLost'
  <2>1. FreeDoes(u)
    BY <1>12, FreeDoesLemma
  <2>2. UNCHANGED <<eventDB, madeFor, vmoved>>
    BY <2>1 DEF FreeDoes
  <2>3. QED
    BY <1>0, <2>2 DEF NoSlotLost, Handles
<1>13. CASE UNCHANGED etVars
  BY <1>0, <1>13 DEF etVars, etTable, etUser, NoSlotLost, Handles
<1>14. QED
  BY <1>1, <1>2, <1>3, <1>4, <1>5, <1>6, <1>7, <1>8, <1>9, <1>10, <1>11, <1>12, <1>13 DEF EtNext, EtStep

(* The invariant holds in every state of the specification.                *)
LEMMA EtInvHolds == EtSpec => []EtInv
<1>1. EtInit => EtInv
  <2> SUFFICES ASSUME EtInit PROVE EtInv
    OBVIOUS
  <2>1. eventDB \in [0 .. 0 - 1 -> EventMemory \cup {NoEvent}]
    BY DEF EtInit
  <2>2. VectorSize = 0 /\ DOMAIN eventDB = {}
    <3>1. eventDB = [i \in {} |-> NoEvent]
      BY DEF EtInit
    <3>2. QED
      BY <3>1, FS_EmptySet DEF VectorSize
  <2>3. EtTypes
    BY <2>1, <2>2, EventTableAssumption DEF EtTypes, EtInit
  <2>4. \A u \in EtUsers : etUpc[u] = "idle" /\ u # NoUser
    BY EventTableAssumption DEF EtInit, NoUser
  <2>5. DBLocked /\ SlotFound
    BY <2>4 DEF EtInit, DBLocked, SlotFound
  <2>6. EventOfOne /\ DeletedByOne /\ HandleFindsOwn
    BY <2>4 DEF EtInit, EventOfOne, HasEvent, DeletedByOne, Deletes, HandleFindsOwn
  <2>7. NoSlotLost
    BY <2>2 DEF NoSlotLost
  <2>8. QED
    BY <2>3, <2>5, <2>6, <2>7 DEF EtInv
<1>2. EtInv /\ [EtNext]_etVars => EtInv'
  <2> SUFFICES ASSUME EtInv, [EtNext]_etVars PROVE EtInv'
    OBVIOUS
  <2>1. EtTypes' /\ DBLocked' /\ SlotFound'
    BY EtNextTypes, EtNextLocked, EtNextSlot
  <2>2. EventOfOne' /\ DeletedByOne'
    BY EtNextEvents, EtNextDeletes
  <2>3. HandleFindsOwn' /\ NoSlotLost'
    BY EtNextOwn, EtNextLost
  <2>4. QED
    BY <2>1, <2>2, <2>3 DEF EtInv
<1>3. QED
  BY <1>1, <1>2, PTL DEF EtSpec

(* For all users, sizes of the vector and calls: a handle that stlEventCreate*)
(* gave out finds its own event until it is deleted, however the creates   *)
(* that make the vector longer and the deletes without the lock interleave.*)
THEOREM HandlesFindTheirEvents == EtSpec => []HandlesAreOwn
<1>1. EtInv => HandlesAreOwn
  <2> SUFFICES ASSUME EtInv PROVE HandlesAreOwn
    OBVIOUS
  <2>1. DOMAIN eventDB = 0 .. VectorSize - 1
    BY DEF EtInv, EtTypes
  <2>2. \A i \in DOMAIN eventDB : eventDB[i] \in EventMemory \cup {NoEvent}
    BY DEF EtInv, EtTypes
  <2>3. QED
    BY <2>1, <2>2 DEF EtInv, EtTypes, EtTypeOK, HandlesAreOwn
<1>2. QED
  BY <1>1, EtInvHolds, PTL

-----------------------------------------------------------------------------
(* Serial ports.                                                           *)

HasHandle(t) == sp[t].pc \in {"find", "fill", "have", "close"}
InTable(t) == sp[t].pc \in {"have", "reopen"}
Entries == (FdNumbers \X Ports) \cup {NoEntry}

ThreadStates ==
  [pc : {"idle", "lock", "open", "find", "fill", "have", "reopen", "close"},
   port : Ports \cup {NoPort}, fd : FdNumbers \cup {0}, slot : 0 .. MaxFd]

SpTypes ==
  /\ portLock \in [Ports -> (SpProcs \X Nat) \cup {SpNoPid}] /\ spLife \in [SpProcs -> Nat]
  /\ fdOf \in [SpProcs -> [FdNumbers -> Ports \cup {NoPort}]]
  /\ fdTab \in [SpProcs -> [1 .. MaxFd -> Entries]]
  /\ sp \in [SpThreads -> ThreadStates]
  /\ portOpens \in Nat /\ lateLock \subseteq Ports /\ lateBind \subseteq Ports /\ lateFlow \in BOOLEAN
ThreadsTyped ==
  \A t \in SpThreads :
    /\ sp[t].port = NoPort <=> sp[t].pc = "idle"
    /\ HasHandle(t) \/ InTable(t) => sp[t].fd \in FdNumbers
    /\ sp[t].pc \in {"fill", "reopen"} => sp[t].slot \in 1 .. MaxFd
LocksTyped ==
  \A d \in Ports : portLock[d] = SpNoPid \/ portLock[d][2] <= spLife[portLock[d][1]]

(* A number that is open is some thread's: there is always a free one.     *)
BusyHasThread ==
  \A p \in SpProcs : \A f \in FdNumbers : fdOf[p][f] # NoPort =>
    \E t \in SpThreads : t[1] = p /\ HasHandle(t) /\ sp[t].fd = f

(* The lock of a port is that of the one who opens it or has it open.      *)
Wants(t) == Claims(t) \/ sp[t].pc = "lock"
LockOfOne ==
  \A t, u \in SpThreads :
    t # u /\ Wants(t) /\ Wants(u) /\ sp[t].port = sp[u].port => sp[t].port \in lateLock
LockKept ==
  \A t \in SpThreads : Claims(t) /\ sp[t].port \notin lateLock => portLock[sp[t].port] = PidOf(t[1])
LockUsed ==
  \A d \in Ports : Lives(portLock[d]) /\ d \notin lateLock /\ d \notin lateBind =>
    \E t \in SpThreads : Claims(t) /\ sp[t].port = d

(* Handles, and their entries of the table.                                *)
HandlesRight == \A t \in SpThreads : HasHandle(t) => fdOf[t[1]][sp[t].fd] = sp[t].port
HandlesApart ==
  \A t, u \in SpThreads :
    t # u /\ t[1] = u[1] /\ (HasHandle(t) \/ InTable(t)) /\ (HasHandle(u) \/ InTable(u))
      => sp[t].fd # sp[u].fd
EntryOwned ==
  \A p \in SpProcs : \A i \in 1 .. MaxFd : fdTab[p][i] # NoEntry =>
    \E t \in SpThreads : t[1] = p /\ InTable(t) /\ fdTab[p][i] = <<sp[t].fd, sp[t].port>>
EntryOnce ==
  \A p \in SpProcs : \A i, j \in 1 .. MaxFd :
    fdTab[p][i] # NoEntry /\ fdTab[p][j] # NoEntry /\ fdTab[p][i][1] = fdTab[p][j][1] => i = j
EntryHad ==
  \A t \in SpThreads : InTable(t) =>
    \/ sp[t].port \in lateBind
    \/ \E i \in 1 .. MaxFd : fdTab[t[1]][i] = <<sp[t].fd, sp[t].port>>

SpInv ==
  /\ SpTypes /\ ThreadsTyped /\ LocksTyped /\ BusyHasThread
  /\ ~lateFlow => /\ LockOfOne /\ LockKept /\ LockUsed
                  /\ HandlesRight /\ HandlesApart
                  /\ EntryOwned /\ EntryOnce /\ EntryHad

(* What each action does, place by place.                                  *)
SpTo(t, from, to, d, f, i) ==
  /\ sp[t].pc = from /\ sp'[t].pc = to /\ sp'[t].port = d /\ sp'[t].fd = f /\ sp'[t].slot = i
  /\ \A u \in SpThreads : u # t => sp'[u] = sp[u]
LockSet(d, x) == portLock'[d] = x /\ \A e \in Ports : e # d => portLock'[e] = portLock[e]
FdSet(p, f, d) ==
  /\ fdOf'[p][f] = d
  /\ \A q \in SpProcs : \A g \in FdNumbers : q # p \/ g # f => fdOf'[q][g] = fdOf[q][g]
TabSet(p, i, x) ==
  /\ fdTab'[p][i] = x
  /\ \A q \in SpProcs : \A j \in 1 .. MaxFd : q # p \/ j # i => fdTab'[q][j] = fdTab[q][j]

LockTestDoes(t) ==
  /\ \E d \in Ports :
       \/ SpTo(t, "idle", "idle", NoPort, 0, 0) /\ UNCHANGED lateLock
       \/ /\ ~Lives(portLock[d]) /\ SpTo(t, "idle", "lock", d, 0, 0)
          /\ lateLock \subseteq lateLock'
          /\ (\E u \in SpThreads : sp[u].pc = "lock" /\ sp[u].port = d) => d \in lateLock'
  /\ UNCHANGED <<portLock, spLife, fdOf, fdTab, lateBind, lateFlow>>
LockWriteDoes(t) ==
  /\ SpTo(t, "lock", "open", sp[t].port, sp[t].fd, sp[t].slot) /\ sp[t].port \in Ports
  /\ LockSet(sp[t].port, PidOf(t[1]))
  /\ UNCHANGED <<spLife, fdOf, fdTab, lateLock, lateBind, lateFlow>>
OpenDevDoes(t) ==
  /\ \E f \in FdNumbers :
       /\ fdOf[t[1]][f] = NoPort /\ SpTo(t, "open", "find", sp[t].port, f, sp[t].slot)
       /\ FdSet(t[1], f, sp[t].port)
  /\ sp[t].port \in Ports /\ lateFlow' = (lateFlow \/ Flowing(t[1]))
  /\ UNCHANGED <<portLock, spLife, fdTab, lateLock, lateBind>>
OpenFailsDoes(t) ==
  /\ SpTo(t, "open", "idle", NoPort, 0, 0) /\ sp[t].port \in Ports
  /\ LockSet(sp[t].port, SpNoPid)
  /\ UNCHANGED <<spLife, fdOf, fdTab, lateLock, lateBind, lateFlow>>
FindEntryDoes(t) ==
  /\ \/ SpTo(t, "find", "have", sp[t].port, sp[t].fd, sp[t].slot) /\ lateBind' = lateBind \cup {sp[t].port}
     \/ \E i \in 1 .. MaxFd : SpTo(t, "find", "fill", sp[t].port, sp[t].fd, i) /\ UNCHANGED lateBind
  /\ UNCHANGED <<portLock, spLife, fdOf, fdTab, lateLock, lateFlow>>
FillEntryDoes(t) ==
  /\ SpTo(t, "fill", "have", sp[t].port, sp[t].fd, sp[t].slot) /\ sp[t].slot \in 1 .. MaxFd
  /\ TabSet(t[1], sp[t].slot, <<sp[t].fd, sp[t].port>>) /\ lateBind \subseteq lateBind'
  /\ fdTab[t[1]][sp[t].slot] # NoEntry => fdTab[t[1]][sp[t].slot][2] \in lateBind'
  /\ UNCHANGED <<portLock, spLife, fdOf, lateLock, lateFlow>>
FlowCloseDoes(t) ==
  /\ \E i \in 1 .. MaxFd : SpTo(t, "have", "reopen", sp[t].port, sp[t].fd, i)
  /\ FdSet(t[1], sp[t].fd, NoPort) /\ sp[t].fd \in FdNumbers
  /\ UNCHANGED <<portLock, spLife, fdTab, lateLock, lateBind, lateFlow>>
(* Nothing was late: the port is open again under its number.              *)
FlowOpenDoes(t) ==
  /\ SpTo(t, "reopen", "have", sp[t].port, sp[t].fd, sp[t].slot) /\ sp[t].fd \in FdNumbers
  /\ UNCHANGED fdOf \/ \E d \in Ports : FdSet(t[1], sp[t].fd, d)
  /\ ~lateFlow' => ~lateFlow /\ FdSet(t[1], sp[t].fd, sp[t].port)
  /\ UNCHANGED <<portLock, spLife, fdTab, lateLock, lateBind>>
UnlockPortDoes(t) ==
  /\ SpTo(t, "have", "close", sp[t].port, sp[t].fd, sp[t].slot)
  /\ \/ /\ \A i \in 1 .. MaxFd : fdTab[t[1]][i] # NoEntry => fdTab[t[1]][i][1] # sp[t].fd
        /\ UNCHANGED <<portLock, fdTab>>
     \/ \E i \in 1 .. MaxFd :
          /\ fdTab[t[1]][i] # NoEntry /\ fdTab[t[1]][i][1] = sp[t].fd
          /\ LockSet(fdTab[t[1]][i][2], SpNoPid) /\ TabSet(t[1], i, NoEntry)
  /\ UNCHANGED <<spLife, fdOf, lateLock, lateBind, lateFlow>>
CloseDevDoes(t) ==
  /\ SpTo(t, "close", "idle", NoPort, 0, 0) /\ FdSet(t[1], sp[t].fd, NoPort) /\ sp[t].fd \in FdNumbers
  /\ UNCHANGED <<portLock, spLife, fdTab, lateLock, lateBind, lateFlow>>
DiesDoes(p) ==
  /\ spLife'[p] = spLife[p] + 1 /\ \A q \in SpProcs : q # p => spLife'[q] = spLife[q]
  /\ \A t \in SpThreads : t[1] = p => sp'[t].pc = "idle" /\ sp'[t].port = NoPort /\ sp'[t].fd = 0
  /\ \A t \in SpThreads : t[1] # p => sp'[t] = sp[t]
  /\ \A f \in FdNumbers : fdOf'[p][f] = NoPort
  /\ \A i \in 1 .. MaxFd : fdTab'[p][i] = NoEntry
  /\ \A q \in SpProcs : q # p => fdOf'[q] = fdOf[q] /\ fdTab'[q] = fdTab[q]
  /\ UNCHANGED <<portLock, lateLock, lateBind, lateFlow>>

LEMMA ThreadHasProcess ==
  ASSUME NEW t \in SpThreads
  PROVE  t[1] \in SpProcs
BY DEF SpProcs

(* There are more numbers than threads.                                    *)
LEMMA FreeNumber ==
  ASSUME SpInv, NEW p \in SpProcs
  PROVE  \E f \in FdNumbers : fdOf[p][f] = NoPort
<1>1. SUFFICES ASSUME \A f \in FdNumbers : fdOf[p][f] # NoPort
               PROVE  FALSE
  OBVIOUS
<1>2. \A f \in FdNumbers : \E t \in SpThreads : sp[t].fd = f
  BY <1>1 DEF SpInv, BusyHasThread
<1> DEFINE n == Cardinality(SpThreads)
           FdsOfThreads == {sp[t].fd : t \in SpThreads}
<1>3. IsFiniteSet(SpThreads) /\ n \in Nat
  BY SerialPortAssumption, FS_CardinalityType
<1>4. IsFiniteSet(FdsOfThreads) /\ Cardinality(FdsOfThreads) <= n
  <2>1. [t \in SpThreads |-> sp[t].fd] \in Surjection(SpThreads, FdsOfThreads)
    BY DEF Surjection
  <2>2. QED
    BY <1>3, <2>1, FS_Surjection
<1>5. FdNumbers \subseteq FdsOfThreads
  BY <1>2
<1>6. Cardinality(FdNumbers) = n + 1
  BY <1>3, FS_Interval DEF FdNumbers
<1>7. Cardinality(FdNumbers) <= Cardinality(FdsOfThreads)
  BY <1>4, <1>5, FS_Subset
<1>8. Cardinality(FdsOfThreads) \in Nat
  BY <1>4, FS_CardinalityType
<1> HIDE DEF n, FdsOfThreads
<1>9. QED
  BY <1>3, <1>4, <1>6, <1>7, <1>8

LEMMA LowestFdIsFree ==
  ASSUME SpInv, NEW p \in SpProcs
  PROVE  LowestFd(p) \in FdNumbers /\ fdOf[p][LowestFd(p)] = NoPort
<1> DEFINE S == {f \in FdNumbers : fdOf[p][f] = NoPort}
<1>1. S # {}
  BY FreeNumber
<1>2. S \in SUBSET Nat
  <2>1. Cardinality(SpThreads) \in Nat
    BY SerialPortAssumption, FS_CardinalityType
  <2>2. QED
    BY <2>1 DEF FdNumbers
<1>3. PICK f \in S : \A g \in S : f <= g
  BY <1>1, <1>2, LeastOfNumbers
<1>4. QED
  BY <1>3 DEF LowestFd

LEMMA LockTestDoesLemma ==
  ASSUME SpInv, NEW t \in SpThreads, LockTest(t)
  PROVE  LockTestDoes(t)
<1>0. SpTypes /\ ThreadsTyped
  BY DEF SpInv
<1>1. t[1] \in SpProcs
  BY ThreadHasProcess
<1>2. PICK d \in Ports :
        /\ sp' = [sp EXCEPT ![t] = IF IsLocked(d) THEN Nothing ELSE [Nothing EXCEPT !.pc = "lock", !.port = d]]
        /\ lateLock' = IF ~IsLocked(d) /\ \E u \in SpThreads : sp[u].pc = "lock" /\ sp[u].port = d
                       THEN lateLock \cup {d} ELSE lateLock
  BY DEF LockTest
<1>3. UNCHANGED <<portLock, spLife, fdOf, fdTab, lateBind, lateFlow>> /\ sp[t].pc = "idle"
  BY DEF LockTest
<1>4. CASE IsLocked(d)
  <2>1. sp' = [sp EXCEPT ![t] = Nothing] /\ UNCHANGED lateLock
    BY <1>2, <1>4
  <2>2. SpTo(t, "idle", "idle", NoPort, 0, 0)
    BY <1>0, <1>3, <2>1 DEF SpTypes, ThreadStates, SpTo, Nothing
  <2>3. QED
    BY <1>3, <2>1, <2>2 DEF LockTestDoes
<1>5. CASE ~IsLocked(d)
  <2>1. sp' = [sp EXCEPT ![t] = [Nothing EXCEPT !.pc = "lock", !.port = d]]
    BY <1>2, <1>5
  <2>2. SpTo(t, "idle", "lock", d, 0, 0)
    BY <1>0, <1>3, <2>1 DEF SpTypes, ThreadStates, SpTo, Nothing
  <2>3. /\ lateLock \subseteq lateLock'
        /\ (\E u \in SpThreads : sp[u].pc = "lock" /\ sp[u].port = d) => d \in lateLock'
    BY <1>2, <1>5
  <2>4. ~Lives(portLock[d])
    BY <1>5 DEF IsLocked
  <2>5. QED
    BY <1>3, <2>2, <2>3, <2>4 DEF LockTestDoes
<1>6. QED
  BY <1>4, <1>5

LEMMA LockWriteDoesLemma ==
  ASSUME SpInv, NEW t \in SpThreads, LockWrite(t)
  PROVE  LockWriteDoes(t)
<1>0. SpTypes /\ ThreadsTyped
  BY DEF SpInv
<1>1. t[1] \in SpProcs
  BY ThreadHasProcess
<1>2. SpTo(t, "lock", "open", sp[t].port, sp[t].fd, sp[t].slot)
  BY <1>0 DEF SpTypes, ThreadStates, LockWrite, Moves, SpTo
<1>3. sp[t].port \in Ports
  BY <1>0, <1>2 DEF SpTypes, ThreadStates, ThreadsTyped, SpTo
<1>4. QED
  BY <1>0, <1>2, <1>3 DEF SpTypes, LockWrite, LockWriteDoes, LockSet

LEMMA OpenDevDoesLemma ==
  ASSUME SpInv, NEW t \in SpThreads, OpenDev(t)
  PROVE  OpenDevDoes(t)
<1>0. SpTypes /\ ThreadsTyped
  BY DEF SpInv
<1>1. t[1] \in SpProcs
  BY ThreadHasProcess
<1> DEFINE f == LowestFd(t[1])
<1>2. f \in FdNumbers /\ fdOf[t[1]][f] = NoPort
  BY <1>1, LowestFdIsFree
<1>3. /\ sp[t].pc = "open" /\ fdOf' = [fdOf EXCEPT ![t[1]][f] = sp[t].port]
      /\ sp' = [sp EXCEPT ![t].pc = "find", ![t].fd = f]
  BY DEF OpenDev
<1> HIDE DEF f
<1>4. SpTo(t, "open", "find", sp[t].port, f, sp[t].slot)
  BY <1>0, <1>3 DEF SpTypes, ThreadStates, SpTo
<1>5. FdSet(t[1], f, sp[t].port)
  BY <1>0, <1>1, <1>2, <1>3 DEF SpTypes, FdSet
<1>6. sp[t].port \in Ports
  BY <1>0, <1>3 DEF SpTypes, ThreadStates, ThreadsTyped
<1>7. QED
  BY <1>2, <1>4, <1>5, <1>6 DEF OpenDev, OpenDevDoes

LEMMA OpenFailsDoesLemma ==
  ASSUME SpInv, NEW t \in SpThreads, OpenFails(t)
  PROVE  OpenFailsDoes(t)
<1>0. SpTypes /\ ThreadsTyped
  BY DEF SpInv
<1>1. t[1] \in SpProcs
  BY ThreadHasProcess
<1>2. SpTo(t, "open", "idle", NoPort, 0, 0)
  BY <1>0 DEF SpTypes, ThreadStates, OpenFails, SpTo, Nothing
<1>3. sp[t].port \in Ports
  BY <1>0, <1>2 DEF SpTypes, ThreadStates, ThreadsTyped, SpTo
<1>4. QED
  BY <1>0, <1>2, <1>3 DEF SpTypes, OpenFails, UnlockFailed, OpenFailsDoes, LockSet

LEMMA FindEntryDoesLemma ==
  ASSUME SpInv, NEW t \in SpThreads, FindEntry(t)
  PROVE  FindEntryDoes(t)
<1>0. SpTypes /\ ThreadsTyped
  BY DEF SpInv
<1>1. t[1] \in SpProcs
  BY ThreadHasProcess
<1> DEFINE free == FreeEntries(t[1])
           i == CHOOSE k \in free : \A j \in free : k <= j
<1>2. CASE free = {}
  <2>1. sp[t].pc = "find" /\ Moves(t, "have") /\ lateBind' = lateBind \cup {sp[t].port}
    BY <1>2 DEF FindEntry
  <2>2. SpTo(t, "find", "have", sp[t].port, sp[t].fd, sp[t].slot)
    BY <1>0, <2>1 DEF SpTypes, ThreadStates, Moves, SpTo
  <2>3. QED
    BY <2>1, <2>2 DEF FindEntry, FindEntryDoes
<1>3. CASE free # {}
  <2>1. free \in SUBSET Nat /\ \A k \in free : k \in 1 .. MaxFd
    BY DEF FreeEntries
  <2>2. PICK k \in free : \A j \in free : k <= j
    BY <1>3, <2>1, LeastOfNumbers
  <2>3. i \in free
    BY <2>2
  <2>4. sp[t].pc = "find" /\ sp' = [sp EXCEPT ![t].pc = "fill", ![t].slot = i] /\ UNCHANGED lateBind
    BY <1>3 DEF FindEntry
  <2> HIDE DEF i
  <2>5. SpTo(t, "find", "fill", sp[t].port, sp[t].fd, i)
    BY <1>0, <2>4 DEF SpTypes, ThreadStates, SpTo
  <2>6. QED
    BY <2>1, <2>3, <2>4, <2>5 DEF FindEntry, FindEntryDoes
<1>4. QED
  BY <1>2, <1>3

LEMMA FillEntryDoesLemma ==
  ASSUME SpInv, NEW t \in SpThreads, FillEntry(t)
  PROVE  FillEntryDoes(t)
<1>0. SpTypes /\ ThreadsTyped
  BY DEF SpInv
<1>1. t[1] \in SpProcs
  BY ThreadHasProcess
<1>2. SpTo(t, "fill", "have", sp[t].port, sp[t].fd, sp[t].slot)
  BY <1>0 DEF SpTypes, ThreadStates, FillEntry, Moves, SpTo
<1>3. sp[t].slot \in 1 .. MaxFd
  BY <1>0, <1>2 DEF ThreadsTyped, SpTo
<1>4. TabSet(t[1], sp[t].slot, <<sp[t].fd, sp[t].port>>)
  <2>1. fdTab' = [fdTab EXCEPT ![t[1]][sp[t].slot] = <<sp[t].fd, sp[t].port>>]
    BY DEF FillEntry
  <2>2. QED
    BY <1>0, <1>1, <1>3, <2>1 DEF SpTypes, TabSet
<1>5. QED
  BY <1>2, <1>3, <1>4 DEF FillEntry, FillEntryDoes

(* The first entry of a number is one of its entries.                      *)
LEMMA FirstIsEntry ==
  ASSUME NEW p, NEW f, EntryOf(p, f) # {}
  PROVE  FirstOf(p, f) \in 1 .. MaxFd /\ fdTab[p][FirstOf(p, f)] # NoEntry /\ fdTab[p][FirstOf(p, f)][1] = f
<1>1. EntryOf(p, f) \in SUBSET Nat
  BY DEF EntryOf
<1>2. PICK i \in EntryOf(p, f) : \A j \in EntryOf(p, f) : i <= j
  BY <1>1, LeastOfNumbers
<1>3. FirstOf(p, f) \in EntryOf(p, f)
  BY <1>2 DEF FirstOf
<1>4. QED
  BY <1>3 DEF EntryOf

LEMMA FlowCloseDoesLemma ==
  ASSUME SpInv, NEW t \in SpThreads, FlowClose(t)
  PROVE  FlowCloseDoes(t)
<1>0. SpTypes /\ ThreadsTyped
  BY DEF SpInv
<1>1. t[1] \in SpProcs
  BY ThreadHasProcess
<1> DEFINE i == FirstOf(t[1], sp[t].fd)
<1>2. i \in 1 .. MaxFd
  BY FirstIsEntry DEF FlowClose
<1>3. /\ sp[t].pc = "have" /\ sp' = [sp EXCEPT ![t].pc = "reopen", ![t].slot = i]
      /\ fdOf' = [fdOf EXCEPT ![t[1]][sp[t].fd] = NoPort]
  BY DEF FlowClose
<1> HIDE DEF i
<1>4. SpTo(t, "have", "reopen", sp[t].port, sp[t].fd, i)
  BY <1>0, <1>3 DEF SpTypes, ThreadStates, SpTo
<1>5. sp[t].fd \in FdNumbers
  BY <1>0, <1>3 DEF ThreadsTyped, HasHandle
<1>6. FdSet(t[1], sp[t].fd, NoPort)
  BY <1>0, <1>1, <1>3, <1>5 DEF SpTypes, FdSet
<1>7. QED
  BY <1>2, <1>4, <1>5, <1>6 DEF FlowClose, FlowCloseDoes

LEMMA FlowOpenDoesLemma ==
  ASSUME SpInv, NEW t \in SpThreads, FlowOpen(t)
  PROVE  FlowOpenDoes(t)
<1>0. SpTypes /\ ThreadsTyped
  BY DEF SpInv
<1>1. t[1] \in SpProcs
  BY ThreadHasProcess
<1> DEFINE entry == fdTab[t[1]][sp[t].slot]
<1>2. SpTo(t, "reopen", "have", sp[t].port, sp[t].fd, sp[t].slot)
  BY <1>0 DEF SpTypes, ThreadStates, FlowOpen, Moves, SpTo
<1>3. sp[t].fd \in FdNumbers /\ sp[t].slot \in 1 .. MaxFd
  BY <1>0, <1>2 DEF ThreadsTyped, InTable, SpTo
<1>4. entry \in Entries
  BY <1>0, <1>1, <1>3 DEF SpTypes
<1>5. /\ fdOf' = IF entry = NoEntry THEN fdOf ELSE [fdOf EXCEPT ![t[1]][sp[t].fd] = entry[2]]
      /\ lateFlow' = (lateFlow \/ entry = NoEntry \/ entry # <<sp[t].fd, sp[t].port>>)
  BY DEF FlowOpen, SameNumber
<1> HIDE DEF entry
<1>6. ASSUME entry # NoEntry PROVE entry[2] \in Ports /\ FdSet(t[1], sp[t].fd, entry[2])
  <2>1. entry[2] \in Ports
    BY <1>4, <1>6 DEF Entries
  <2>2. fdOf' = [fdOf EXCEPT ![t[1]][sp[t].fd] = entry[2]]
    BY <1>5, <1>6
  <2>3. QED
    BY <1>0, <1>1, <1>3, <2>1, <2>2 DEF SpTypes, FdSet
<1>7. UNCHANGED fdOf \/ \E d \in Ports : FdSet(t[1], sp[t].fd, d)
  BY <1>5, <1>6
<1>8. ASSUME ~lateFlow' PROVE ~lateFlow /\ FdSet(t[1], sp[t].fd, sp[t].port)
  <2>1. ~lateFlow /\ entry # NoEntry /\ entry = <<sp[t].fd, sp[t].port>>
    BY <1>5, <1>8
  <2>2. entry[2] = sp[t].port
    BY <2>1
  <2>3. QED
    BY <1>6, <2>1, <2>2
<1>9. QED
  BY <1>2, <1>3, <1>7, <1>8 DEF FlowOpen, FlowOpenDoes

LEMMA UnlockPortDoesLemma ==
  ASSUME SpInv, NEW t \in SpThreads, Unlock(t)
  PROVE  UnlockPortDoes(t)
<1>0. SpTypes /\ ThreadsTyped
  BY DEF SpInv
<1>1. t[1] \in SpProcs
  BY ThreadHasProcess
<1> DEFINE i == FirstOf(t[1], sp[t].fd)
<1>2. SpTo(t, "have", "close", sp[t].port, sp[t].fd, sp[t].slot)
  BY <1>0 DEF SpTypes, ThreadStates, Unlock, Moves, SpTo
<1>3. CASE EntryOf(t[1], sp[t].fd) = {}
  <2>1. \A j \in 1 .. MaxFd : fdTab[t[1]][j] # NoEntry => fdTab[t[1]][j][1] # sp[t].fd
    BY <1>3 DEF EntryOf
  <2>2. UNCHANGED <<portLock, fdTab>>
    BY <1>3 DEF Unlock
  <2>3. QED
    BY <1>2, <2>1, <2>2 DEF Unlock, UnlockPortDoes
<1>4. CASE EntryOf(t[1], sp[t].fd) # {}
  <2>1. i \in 1 .. MaxFd /\ fdTab[t[1]][i] # NoEntry /\ fdTab[t[1]][i][1] = sp[t].fd
    BY <1>4, FirstIsEntry
  <2>2. portLock' = [portLock EXCEPT ![fdTab[t[1]][i][2]] = SpNoPid] /\ fdTab' = [fdTab EXCEPT ![t[1]][i] = NoEntry]
    <3>1. IF EntryOf(t[1], sp[t].fd) = {} THEN UNCHANGED <<portLock, fdTab>>
          ELSE portLock' = [portLock EXCEPT ![fdTab[t[1]][i][2]] = SpNoPid] /\ fdTab' = FreedEntry(t[1], i)
      BY DEF Unlock
    <3>2. portLock' = [portLock EXCEPT ![fdTab[t[1]][i][2]] = SpNoPid] /\ fdTab' = FreedEntry(t[1], i)
      BY <1>4, <3>1
    <3>3. QED
      BY <3>2 DEF FreedEntry
  <2> HIDE DEF i
  <2>3. fdTab[t[1]][i][2] \in Ports
    <3>1. fdTab[t[1]][i] \in Entries
      BY <1>0, <1>1, <2>1 DEF SpTypes
    <3>2. fdTab[t[1]][i] \in FdNumbers \X Ports
      BY <2>1, <3>1 DEF Entries
    <3>3. QED
      BY <3>2
  <2>4. LockSet(fdTab[t[1]][i][2], SpNoPid)
    BY <1>0, <2>2, <2>3 DEF SpTypes, LockSet
  <2>5. TabSet(t[1], i, NoEntry)
    BY <1>0, <1>1, <2>1, <2>2 DEF SpTypes, TabSet
  <2>6. QED
    BY <1>2, <2>1, <2>4, <2>5 DEF Unlock, UnlockPortDoes
<1>5. QED
  BY <1>3, <1>4

LEMMA CloseDevDoesLemma ==
  ASSUME SpInv, NEW t \in SpThreads, CloseDev(t)
  PROVE  CloseDevDoes(t)
<1>0. SpTypes /\ ThreadsTyped
  BY DEF SpInv
<1>1. t[1] \in SpProcs
  BY ThreadHasProcess
<1>2. SpTo(t, "close", "idle", NoPort, 0, 0)
  BY <1>0 DEF SpTypes, ThreadStates, CloseDev, SpTo, Nothing
<1>3. sp[t].fd \in FdNumbers
  BY <1>0, <1>2 DEF ThreadsTyped, HasHandle, SpTo
<1>4. FdSet(t[1], sp[t].fd, NoPort)
  <2>1. fdOf' = [fdOf EXCEPT ![t[1]][sp[t].fd] = NoPort]
    BY DEF CloseDev
  <2>2. QED
    BY <1>0, <1>1, <1>3, <2>1 DEF SpTypes, FdSet
<1>5. QED
  BY <1>2, <1>3, <1>4 DEF CloseDev, CloseDevDoes

LEMMA DiesDoesLemma ==
  ASSUME SpInv, NEW p \in SpProcs, Dies(p)
  PROVE  DiesDoes(p)
<1>0. SpTypes /\ ThreadsTyped
  BY DEF SpInv
<1>1. \A t \in SpThreads : t[1] = p => sp'[t].pc = "idle" /\ sp'[t].port = NoPort /\ sp'[t].fd = 0
  BY DEF Dies, Nothing
<1>2. \A t \in SpThreads : t[1] # p => sp'[t] = sp[t]
  BY DEF Dies
<1>3. spLife'[p] = spLife[p] + 1 /\ \A q \in SpProcs : q # p => spLife'[q] = spLife[q]
  BY <1>0 DEF SpTypes, Dies
<1>4. \A f \in FdNumbers : fdOf'[p][f] = NoPort
  BY <1>0 DEF SpTypes, Dies
<1>5. \A i \in 1 .. MaxFd : fdTab'[p][i] = NoEntry
  BY <1>0 DEF SpTypes, Dies
<1>6. \A q \in SpProcs : q # p => fdOf'[q] = fdOf[q] /\ fdTab'[q] = fdTab[q]
  BY <1>0 DEF SpTypes, Dies
<1>7. QED
  BY <1>1, <1>2, <1>3, <1>4, <1>5, <1>6 DEF Dies, DiesDoes

LEMMA LateFlowStays ==
  ASSUME SpInv, [SpNext]_spVars, ~lateFlow'
  PROVE  ~lateFlow
<1>1. \A t \in SpThreads : LockTest(t) \/ LockWrite(t) \/ OpenDev(t) \/ OpenFails(t) \/ FindEntry(t) => ~lateFlow
  BY DEF LockTest, LockWrite, OpenDev, OpenFails, FindEntry
<1>2. \A t \in SpThreads : FillEntry(t) \/ FlowClose(t) \/ Unlock(t) \/ CloseDev(t) => ~lateFlow
  BY DEF FillEntry, FlowClose, Unlock, CloseDev
<1>3. \A t \in SpThreads : FlowOpen(t) => ~lateFlow
  BY FlowOpenDoesLemma DEF FlowOpenDoes
<1>4. \A p \in SpProcs : Dies(p) => ~lateFlow
  BY DEF Dies
<1>5. QED
  BY <1>1, <1>2, <1>3, <1>4 DEF SpNext, spVars

(* What a thread knows.                                                    *)
LEMMA SpNextThreads ==
  ASSUME SpInv, [SpNext]_spVars
  PROVE  ThreadsTyped'
<1>0. ThreadsTyped
  BY DEF SpInv
<1>1. ASSUME NEW t \in SpThreads, LockTest(t) PROVE ThreadsTyped'
  <2>1. LockTestDoes(t)
    BY <1>1, LockTestDoesLemma
  <2>2. NoPort \notin Ports
    BY SerialPortAssumption DEF NoPort
  <2>3. QED
    BY <1>0, <2>1, <2>2 DEF LockTestDoes, SpTo, ThreadsTyped, HasHandle, InTable
<1>2. ASSUME NEW t \in SpThreads, LockWrite(t) PROVE ThreadsTyped'
  <2>1. LockWriteDoes(t)
    BY <1>2, LockWriteDoesLemma
  <2>2. NoPort \notin Ports
    BY SerialPortAssumption DEF NoPort
  <2>3. QED
    BY <1>0, <2>1, <2>2 DEF LockWriteDoes, SpTo, ThreadsTyped, HasHandle, InTable
<1>3. ASSUME NEW t \in SpThreads, OpenDev(t) PROVE ThreadsTyped'
  <2>1. OpenDevDoes(t)
    BY <1>3, OpenDevDoesLemma
  <2>2. NoPort \notin Ports
    BY SerialPortAssumption DEF NoPort
  <2>3. QED
    BY <1>0, <2>1, <2>2 DEF OpenDevDoes, SpTo, ThreadsTyped, HasHandle, InTable
<1>4. ASSUME NEW t \in SpThreads, OpenFails(t) PROVE ThreadsTyped'
  <2>1. OpenFailsDoes(t)
    BY <1>4, OpenFailsDoesLemma
  <2>2. NoPort \notin Ports
    BY SerialPortAssumption DEF NoPort
  <2>3. QED
    BY <1>0, <2>1, <2>2 DEF OpenFailsDoes, SpTo, ThreadsTyped, HasHandle, InTable
<1>5. ASSUME NEW t \in SpThreads, FindEntry(t) PROVE ThreadsTyped'
  <2>1. FindEntryDoes(t)
    BY <1>5, FindEntryDoesLemma
  <2>2. NoPort \notin Ports
    BY SerialPortAssumption DEF NoPort
  <2>3. QED
    BY <1>0, <2>1, <2>2 DEF FindEntryDoes, SpTo, ThreadsTyped, HasHandle, InTable
<1>6. ASSUME NEW t \in SpThreads, FillEntry(t) PROVE ThreadsTyped'
  <2>1. FillEntryDoes(t)
    BY <1>6, FillEntryDoesLemma
  <2>2. NoPort \notin Ports
    BY SerialPortAssumption DEF NoPort
  <2>3. QED
    BY <1>0, <2>1, <2>2 DEF FillEntryDoes, SpTo, ThreadsTyped, HasHandle, InTable
<1>7. ASSUME NEW t \in SpThreads, FlowClose(t) PROVE ThreadsTyped'
  <2>1. FlowCloseDoes(t)
    BY <1>7, FlowCloseDoesLemma
  <2>2. NoPort \notin Ports
    BY SerialPortAssumption DEF NoPort
  <2>3. QED
    BY <1>0, <2>1, <2>2 DEF FlowCloseDoes, SpTo, ThreadsTyped, HasHandle, InTable
<1>8. ASSUME NEW t \in SpThreads, FlowOpen(t) PROVE ThreadsTyped'
  <2>1. FlowOpenDoes(t)
    BY <1>8, FlowOpenDoesLemma
  <2>2. NoPort \notin Ports
    BY SerialPortAssumption DEF NoPort
  <2>3. QED
    BY <1>0, <2>1, <2>2 DEF FlowOpenDoes, SpTo, ThreadsTyped, HasHandle, InTable
<1>9. ASSUME NEW t \in SpThreads, Unlock(t) PROVE ThreadsTyped'
  <2>1. UnlockPortDoes(t)
    BY <1>9, UnlockPortDoesLemma
  <2>2. NoPort \notin Ports
    BY SerialPortAssumption DEF NoPort
  <2>3. QED
    BY <1>0, <2>1, <2>2 DEF UnlockPortDoes, SpTo, ThreadsTyped, HasHandle, InTable
<1>10. ASSUME NEW t \in SpThreads, CloseDev(t) PROVE ThreadsTyped'
  <2>1. CloseDevDoes(t)
    BY <1>10, CloseDevDoesLemma
  <2>2. NoPort \notin Ports
    BY SerialPortAssumption DEF NoPort
  <2>3. QED
    BY <1>0, <2>1, <2>2 DEF CloseDevDoes, SpTo, ThreadsTyped, HasHandle, InTable
<1>11. ASSUME NEW p \in SpProcs, Dies(p) PROVE ThreadsTyped'
  <2>1. DiesDoes(p)
    BY <1>11, DiesDoesLemma
  <2>2. NoPort \notin Ports
    BY SerialPortAssumption DEF NoPort
  <2>3. QED
    BY <1>0, <2>1, <2>2 DEF DiesDoes, SpTo, ThreadsTyped, HasHandle, InTable
<1>12. CASE UNCHANGED spVars
  BY <1>0, <1>12 DEF spVars, ThreadsTyped, HasHandle, InTable
<1>13. QED
  BY <1>1, <1>2, <1>3, <1>4, <1>5, <1>6, <1>7, <1>8, <1>9, <1>10, <1>11, <1>12 DEF SpNext

(* A lock is of a process that was.                                        *)
LEMMA SpNextLocks ==
  ASSUME SpInv, [SpNext]_spVars
  PROVE  LocksTyped'
<1>0. LocksTyped /\ SpTypes
  BY DEF SpInv
<1>1. ASSUME NEW t \in SpThreads, LockTest(t) PROVE LocksTyped'
  <2>1. LockTestDoes(t)
    BY <1>1, LockTestDoesLemma
  <2>2. UNCHANGED <<portLock, spLife>>
    BY <2>1 DEF LockTestDoes
  <2>3. QED
    BY <1>0, <2>2 DEF LocksTyped
<1>2. ASSUME NEW t \in SpThreads, LockWrite(t) PROVE LocksTyped'
  <2>1. LockWriteDoes(t)
    BY <1>2, LockWriteDoesLemma
  <2>2. PidOf(t[1])[2] <= spLife[PidOf(t[1])[1]]
    BY <1>0, ThreadHasProcess DEF SpTypes, PidOf
  <2>3. QED
    BY <1>0, <2>1, <2>2 DEF LockWriteDoes, LockSet, LocksTyped
<1>3. ASSUME NEW t \in SpThreads, OpenDev(t) PROVE LocksTyped'
  <2>1. OpenDevDoes(t)
    BY <1>3, OpenDevDoesLemma
  <2>2. UNCHANGED <<portLock, spLife>>
    BY <2>1 DEF OpenDevDoes
  <2>3. QED
    BY <1>0, <2>2 DEF LocksTyped
<1>4. ASSUME NEW t \in SpThreads, OpenFails(t) PROVE LocksTyped'
  <2>1. OpenFailsDoes(t)
    BY <1>4, OpenFailsDoesLemma
  <2>2. QED
    BY <1>0, <2>1 DEF OpenFailsDoes, LockSet, LocksTyped
<1>5. ASSUME NEW t \in SpThreads, FindEntry(t) PROVE LocksTyped'
  <2>1. FindEntryDoes(t)
    BY <1>5, FindEntryDoesLemma
  <2>2. UNCHANGED <<portLock, spLife>>
    BY <2>1 DEF FindEntryDoes
  <2>3. QED
    BY <1>0, <2>2 DEF LocksTyped
<1>6. ASSUME NEW t \in SpThreads, FillEntry(t) PROVE LocksTyped'
  <2>1. FillEntryDoes(t)
    BY <1>6, FillEntryDoesLemma
  <2>2. UNCHANGED <<portLock, spLife>>
    BY <2>1 DEF FillEntryDoes
  <2>3. QED
    BY <1>0, <2>2 DEF LocksTyped
<1>7. ASSUME NEW t \in SpThreads, FlowClose(t) PROVE LocksTyped'
  <2>1. FlowCloseDoes(t)
    BY <1>7, FlowCloseDoesLemma
  <2>2. UNCHANGED <<portLock, spLife>>
    BY <2>1 DEF FlowCloseDoes
  <2>3. QED
    BY <1>0, <2>2 DEF LocksTyped
<1>8. ASSUME NEW t \in SpThreads, FlowOpen(t) PROVE LocksTyped'
  <2>1. FlowOpenDoes(t)
    BY <1>8, FlowOpenDoesLemma
  <2>2. UNCHANGED <<portLock, spLife>>
    BY <2>1 DEF FlowOpenDoes
  <2>3. QED
    BY <1>0, <2>2 DEF LocksTyped
<1>9. ASSUME NEW t \in SpThreads, Unlock(t) PROVE LocksTyped'
  <2>1. UnlockPortDoes(t)
    BY <1>9, UnlockPortDoesLemma
  <2>2. QED
    BY <1>0, <2>1 DEF UnlockPortDoes, LockSet, LocksTyped
<1>10. ASSUME NEW t \in SpThreads, CloseDev(t) PROVE LocksTyped'
  <2>1. CloseDevDoes(t)
    BY <1>10, CloseDevDoesLemma
  <2>2. UNCHANGED <<portLock, spLife>>
    BY <2>1 DEF CloseDevDoes
  <2>3. QED
    BY <1>0, <2>2 DEF LocksTyped
<1>11. ASSUME NEW p \in SpProcs, Dies(p) PROVE LocksTyped'
  <2>1. DiesDoes(p)
    BY <1>11, DiesDoesLemma
  <2>2. ASSUME NEW d \in Ports, portLock[d] # SpNoPid PROVE portLock[d][2] <= spLife'[portLock[d][1]]
    <3>1. portLock[d] \in SpProcs \X Nat
      BY <1>0, <2>2 DEF SpTypes
    <3>2. portLock[d][2] <= spLife[portLock[d][1]]
      BY <1>0, <2>2 DEF LocksTyped
    <3>3. \A q \in SpProcs : spLife[q] \in Nat /\ (spLife'[q] = spLife[q] \/ spLife'[q] = spLife[q] + 1)
      BY <1>0, <2>1 DEF SpTypes, DiesDoes
    <3>4. PICK q \in SpProcs, n \in Nat : portLock[d] = <<q, n>>
      BY <3>1
    <3>5. QED
      BY <3>2, <3>3, <3>4
  <2>3. UNCHANGED portLock
    BY <2>1 DEF DiesDoes
  <2>4. QED
    BY <2>2, <2>3 DEF LocksTyped
<1>12. CASE UNCHANGED spVars
  BY <1>0, <1>12 DEF spVars, LocksTyped
<1>13. QED
  BY <1>1, <1>2, <1>3, <1>4, <1>5, <1>6, <1>7, <1>8, <1>9, <1>10, <1>11, <1>12 DEF SpNext

(* A number that is open is some thread's.                                 *)
LEMMA SpNextBusy ==
  ASSUME SpInv, [SpNext]_spVars
  PROVE  BusyHasThread'
<1>0. BusyHasThread
  BY DEF SpInv
<1>1. ASSUME NEW t \in SpThreads, LockTest(t) PROVE BusyHasThread'
  <2>1. LockTestDoes(t)
    BY <1>1, LockTestDoesLemma
  <2>2. UNCHANGED fdOf /\ \A u \in SpThreads : HasHandle(u) => HasHandle(u)' /\ sp'[u].fd = sp[u].fd
    BY <2>1 DEF LockTestDoes, SpTo, HasHandle
  <2>3. QED
    BY <1>0, <2>2 DEF BusyHasThread
<1>2. ASSUME NEW t \in SpThreads, LockWrite(t) PROVE BusyHasThread'
  <2>1. LockWriteDoes(t)
    BY <1>2, LockWriteDoesLemma
  <2>2. UNCHANGED fdOf /\ \A u \in SpThreads : HasHandle(u) => HasHandle(u)' /\ sp'[u].fd = sp[u].fd
    BY <2>1 DEF LockWriteDoes, SpTo, HasHandle
  <2>3. QED
    BY <1>0, <2>2 DEF BusyHasThread
<1>3. ASSUME NEW t \in SpThreads, OpenDev(t) PROVE BusyHasThread'
  <2>1. OpenDevDoes(t)
    BY <1>3, OpenDevDoesLemma
  <2>2. \A u \in SpThreads : u # t => (HasHandle(u) => HasHandle(u)') /\ sp'[u].fd = sp[u].fd
    BY <2>1 DEF OpenDevDoes, SpTo, HasHandle
  <2>3. PICK f \in FdNumbers : /\ HasHandle(t)' /\ sp'[t].fd = f
                             /\ \A q \in SpProcs : \A g \in FdNumbers : q # t[1] \/ g # f => fdOf'[q][g] = fdOf[q][g]
    BY <2>1 DEF OpenDevDoes, SpTo, FdSet, HasHandle
  <2>4. ~HasHandle(t)
    BY <2>1 DEF OpenDevDoes, SpTo, HasHandle
  <2>5. ASSUME NEW q \in SpProcs, NEW g \in FdNumbers, fdOf'[q][g] # NoPort
        PROVE  \E u \in SpThreads : u[1] = q /\ HasHandle(u)' /\ sp'[u].fd = g
    <3>1. CASE q = t[1] /\ g = f
      BY <2>3, <3>1
    <3>2. CASE q # t[1] \/ g # f
      <4>1. PICK u \in SpThreads : u[1] = q /\ HasHandle(u) /\ sp[u].fd = g
        BY <1>0, <2>3, <2>5, <3>2 DEF BusyHasThread
      <4>2. QED
        BY <2>2, <2>4, <4>1
    <3>3. QED
      BY <3>1, <3>2
  <2>6. QED
    BY <2>5 DEF BusyHasThread
<1>4. ASSUME NEW t \in SpThreads, OpenFails(t) PROVE BusyHasThread'
  <2>1. OpenFailsDoes(t)
    BY <1>4, OpenFailsDoesLemma
  <2>2. UNCHANGED fdOf /\ \A u \in SpThreads : HasHandle(u) => HasHandle(u)' /\ sp'[u].fd = sp[u].fd
    BY <2>1 DEF OpenFailsDoes, SpTo, HasHandle
  <2>3. QED
    BY <1>0, <2>2 DEF BusyHasThread
<1>5. ASSUME NEW t \in SpThreads, FindEntry(t) PROVE BusyHasThread'
  <2>1. FindEntryDoes(t)
    BY <1>5, FindEntryDoesLemma
  <2>2. UNCHANGED fdOf /\ \A u \in SpThreads : HasHandle(u) => HasHandle(u)' /\ sp'[u].fd = sp[u].fd
    BY <2>1 DEF FindEntryDoes, SpTo, HasHandle
  <2>3. QED
    BY <1>0, <2>2 DEF BusyHasThread
<1>6. ASSUME NEW t \in SpThreads, FillEntry(t) PROVE BusyHasThread'
  <2>1. FillEntryDoes(t)
    BY <1>6, FillEntryDoesLemma
  <2>2. UNCHANGED fdOf /\ \A u \in SpThreads : HasHandle(u) => HasHandle(u)' /\ sp'[u].fd = sp[u].fd
    BY <2>1 DEF FillEntryDoes, SpTo, HasHandle
  <2>3. QED
    BY <1>0, <2>2 DEF BusyHasThread
<1>7. ASSUME NEW t \in SpThreads, FlowClose(t) PROVE BusyHasThread'
  <2>1. FlowCloseDoes(t)
    BY <1>7, FlowCloseDoesLemma
  <2>2. \A u \in SpThreads : u # t => (HasHandle(u) => HasHandle(u)') /\ sp'[u].fd = sp[u].fd
    BY <2>1 DEF FlowCloseDoes, SpTo, HasHandle
  <2>3. \A q \in SpProcs : \A g \in FdNumbers : fdOf'[q][g] # NoPort =>
          fdOf[q][g] # NoPort /\ (q # t[1] \/ g # sp[t].fd)
    BY <2>1, ThreadHasProcess DEF FlowCloseDoes, FdSet
  <2>4. ASSUME NEW q \in SpProcs, NEW g \in FdNumbers, fdOf'[q][g] # NoPort
        PROVE  \E u \in SpThreads : u[1] = q /\ HasHandle(u)' /\ sp'[u].fd = g
    <3>1. PICK u \in SpThreads : u[1] = q /\ HasHandle(u) /\ sp[u].fd = g
      BY <1>0, <2>3, <2>4 DEF BusyHasThread
    <3>2. u # t
      BY <2>3, <2>4, <3>1
    <3>3. QED
      BY <2>2, <3>1, <3>2
  <2>5. QED
    BY <2>4 DEF BusyHasThread
<1>8. ASSUME NEW t \in SpThreads, FlowOpen(t) PROVE BusyHasThread'
  <2>1. FlowOpenDoes(t)
    BY <1>8, FlowOpenDoesLemma
  <2>2. \A u \in SpThreads : u # t => (HasHandle(u) => HasHandle(u)') /\ sp'[u].fd = sp[u].fd
    BY <2>1 DEF FlowOpenDoes, SpTo, HasHandle
  <2>3. PICK f \in FdNumbers : /\ HasHandle(t)' /\ sp'[t].fd = f
                             /\ \A q \in SpProcs : \A g \in FdNumbers : q # t[1] \/ g # f => fdOf'[q][g] = fdOf[q][g]
    BY <2>1 DEF FlowOpenDoes, SpTo, FdSet, HasHandle
  <2>4. ~HasHandle(t)
    BY <2>1 DEF FlowOpenDoes, SpTo, HasHandle
  <2>5. ASSUME NEW q \in SpProcs, NEW g \in FdNumbers, fdOf'[q][g] # NoPort
        PROVE  \E u \in SpThreads : u[1] = q /\ HasHandle(u)' /\ sp'[u].fd = g
    <3>1. CASE q = t[1] /\ g = f
      BY <2>3, <3>1
    <3>2. CASE q # t[1] \/ g # f
      <4>1. PICK u \in SpThreads : u[1] = q /\ HasHandle(u) /\ sp[u].fd = g
        BY <1>0, <2>3, <2>5, <3>2 DEF BusyHasThread
      <4>2. QED
        BY <2>2, <2>4, <4>1
    <3>3. QED
      BY <3>1, <3>2
  <2>6. QED
    BY <2>5 DEF BusyHasThread
<1>9. ASSUME NEW t \in SpThreads, Unlock(t) PROVE BusyHasThread'
  <2>1. UnlockPortDoes(t)
    BY <1>9, UnlockPortDoesLemma
  <2>2. UNCHANGED fdOf /\ \A u \in SpThreads : HasHandle(u) => HasHandle(u)' /\ sp'[u].fd = sp[u].fd
    BY <2>1 DEF UnlockPortDoes, SpTo, HasHandle
  <2>3. QED
    BY <1>0, <2>2 DEF BusyHasThread
<1>10. ASSUME NEW t \in SpThreads, CloseDev(t) PROVE BusyHasThread'
  <2>1. CloseDevDoes(t)
    BY <1>10, CloseDevDoesLemma
  <2>2. \A u \in SpThreads : u # t => (HasHandle(u) => HasHandle(u)') /\ sp'[u].fd = sp[u].fd
    BY <2>1 DEF CloseDevDoes, SpTo, HasHandle
  <2>3. \A q \in SpProcs : \A g \in FdNumbers : fdOf'[q][g] # NoPort =>
          fdOf[q][g] # NoPort /\ (q # t[1] \/ g # sp[t].fd)
    BY <2>1, ThreadHasProcess DEF CloseDevDoes, FdSet
  <2>4. ASSUME NEW q \in SpProcs, NEW g \in FdNumbers, fdOf'[q][g] # NoPort
        PROVE  \E u \in SpThreads : u[1] = q /\ HasHandle(u)' /\ sp'[u].fd = g
    <3>1. PICK u \in SpThreads : u[1] = q /\ HasHandle(u) /\ sp[u].fd = g
      BY <1>0, <2>3, <2>4 DEF BusyHasThread
    <3>2. u # t
      BY <2>3, <2>4, <3>1
    <3>3. QED
      BY <2>2, <3>1, <3>2
  <2>5. QED
    BY <2>4 DEF BusyHasThread
<1>11. ASSUME NEW p \in SpProcs, Dies(p) PROVE BusyHasThread'
  <2>1. DiesDoes(p)
    BY <1>11, DiesDoesLemma
  <2>2. \A u \in SpThreads : u[1] # p => (HasHandle(u) => HasHandle(u)') /\ sp'[u].fd = sp[u].fd
    BY <2>1 DEF DiesDoes, HasHandle
  <2>3. ASSUME NEW q \in SpProcs, NEW g \in FdNumbers, fdOf'[q][g] # NoPort
        PROVE  \E u \in SpThreads : u[1] = q /\ HasHandle(u)' /\ sp'[u].fd = g
    <3>1. q # p /\ fdOf[q][g] # NoPort
      BY <2>1, <2>3 DEF DiesDoes
    <3>2. PICK u \in SpThreads : u[1] = q /\ HasHandle(u) /\ sp[u].fd = g
      BY <1>0, <3>1 DEF BusyHasThread
    <3>3. QED
      BY <2>2, <3>1, <3>2
  <2>4. QED
    BY <2>3 DEF BusyHasThread
<1>12. CASE UNCHANGED spVars
  BY <1>0, <1>12 DEF spVars, BusyHasThread, HasHandle
<1>13. QED
  BY <1>1, <1>2, <1>3, <1>4, <1>5, <1>6, <1>7, <1>8, <1>9, <1>10, <1>11, <1>12 DEF SpNext

(* A process that has a lock is there.                                     *)
LEMMA OwnerLives ==
  ASSUME SpTypes, NEW t \in SpThreads
  PROVE  Lives(PidOf(t[1]))
<1>1. t[1] # 0 /\ t[1] \in SpProcs
  BY SerialPortAssumption, ThreadHasProcess
<1>2. PidOf(t[1]) # SpNoPid
  BY <1>1 DEF PidOf, SpNoPid
<1>3. QED
  BY <1>2 DEF Lives, PidOf

(* A port is wanted by one, unless both tested its lock at once.           *)
LEMMA SpNextLockOfOne ==
  ASSUME SpInv, [SpNext]_spVars, ~lateFlow'
  PROVE  LockOfOne'
<1>0. ~lateFlow /\ LockOfOne /\ LockKept /\ SpTypes
  BY LateFlowStays DEF SpInv
<1>1. ASSUME NEW t \in SpThreads, LockTest(t) PROVE LockOfOne'
  <2>1. LockTestDoes(t)
    BY <1>1, LockTestDoesLemma
  <2>2. CASE SpTo(t, "idle", "idle", NoPort, 0, 0) /\ UNCHANGED lateLock
    <3>1. \A u \in SpThreads : Wants(u)' => Wants(u) /\ sp'[u].port = sp[u].port
      BY <2>2 DEF SpTo, Wants, Claims
    <3>2. QED
      BY <1>0, <2>2, <3>1 DEF LockOfOne
  <2>3. ASSUME NEW d \in Ports, ~Lives(portLock[d]), SpTo(t, "idle", "lock", d, 0, 0),
               lateLock \subseteq lateLock',
               (\E u \in SpThreads : sp[u].pc = "lock" /\ sp[u].port = d) => d \in lateLock'
        PROVE  LockOfOne'
    <3>1. \A u \in SpThreads : u # t /\ Wants(u)' => Wants(u) /\ sp'[u].port = sp[u].port
      BY <2>3 DEF SpTo, Wants, Claims
    <3>2. \A u \in SpThreads : Wants(u) /\ sp[u].port = d => d \in lateLock'
      <4>1. \A u \in SpThreads : Claims(u) /\ sp[u].port = d => d \in lateLock
        BY <1>0, <2>3, OwnerLives DEF LockKept
      <4>2. QED
        BY <2>3, <4>1 DEF Wants
    <3>3. sp'[t].port = d
      BY <2>3 DEF SpTo
    <3>4. QED
      BY <1>0, <2>3, <3>1, <3>2, <3>3 DEF LockOfOne
  <2>4. QED
    BY <2>1, <2>2, <2>3 DEF LockTestDoes
<1>2. ASSUME NEW t \in SpThreads, LockWrite(t) PROVE LockOfOne'
  <2>1. LockWriteDoes(t)
    BY <1>2, LockWriteDoesLemma
  <2>2. /\ lateLock \subseteq lateLock'
        /\ \A u \in SpThreads : Wants(u)' => Wants(u) /\ sp'[u].port = sp[u].port
    BY <2>1 DEF LockWriteDoes, SpTo, Wants, Claims
  <2>3. QED
    BY <1>0, <2>2 DEF LockOfOne
<1>3. ASSUME NEW t \in SpThreads, OpenDev(t) PROVE LockOfOne'
  <2>1. OpenDevDoes(t)
    BY <1>3, OpenDevDoesLemma
  <2>2. /\ lateLock \subseteq lateLock'
        /\ \A u \in SpThreads : Wants(u)' => Wants(u) /\ sp'[u].port = sp[u].port
    BY <2>1 DEF OpenDevDoes, SpTo, Wants, Claims
  <2>3. QED
    BY <1>0, <2>2 DEF LockOfOne
<1>4. ASSUME NEW t \in SpThreads, OpenFails(t) PROVE LockOfOne'
  <2>1. OpenFailsDoes(t)
    BY <1>4, OpenFailsDoesLemma
  <2>2. /\ lateLock \subseteq lateLock'
        /\ \A u \in SpThreads : Wants(u)' => Wants(u) /\ sp'[u].port = sp[u].port
    BY <2>1 DEF OpenFailsDoes, SpTo, Wants, Claims
  <2>3. QED
    BY <1>0, <2>2 DEF LockOfOne
<1>5. ASSUME NEW t \in SpThreads, FindEntry(t) PROVE LockOfOne'
  <2>1. FindEntryDoes(t)
    BY <1>5, FindEntryDoesLemma
  <2>2. /\ lateLock \subseteq lateLock'
        /\ \A u \in SpThreads : Wants(u)' => Wants(u) /\ sp'[u].port = sp[u].port
    BY <2>1 DEF FindEntryDoes, SpTo, Wants, Claims
  <2>3. QED
    BY <1>0, <2>2 DEF LockOfOne
<1>6. ASSUME NEW t \in SpThreads, FillEntry(t) PROVE LockOfOne'
  <2>1. FillEntryDoes(t)
    BY <1>6, FillEntryDoesLemma
  <2>2. /\ lateLock \subseteq lateLock'
        /\ \A u \in SpThreads : Wants(u)' => Wants(u) /\ sp'[u].port = sp[u].port
    BY <2>1 DEF FillEntryDoes, SpTo, Wants, Claims
  <2>3. QED
    BY <1>0, <2>2 DEF LockOfOne
<1>7. ASSUME NEW t \in SpThreads, FlowClose(t) PROVE LockOfOne'
  <2>1. FlowCloseDoes(t)
    BY <1>7, FlowCloseDoesLemma
  <2>2. /\ lateLock \subseteq lateLock'
        /\ \A u \in SpThreads : Wants(u)' => Wants(u) /\ sp'[u].port = sp[u].port
    BY <2>1 DEF FlowCloseDoes, SpTo, Wants, Claims
  <2>3. QED
    BY <1>0, <2>2 DEF LockOfOne
<1>8. ASSUME NEW t \in SpThreads, FlowOpen(t) PROVE LockOfOne'
  <2>1. FlowOpenDoes(t)
    BY <1>8, FlowOpenDoesLemma
  <2>2. /\ lateLock \subseteq lateLock'
        /\ \A u \in SpThreads : Wants(u)' => Wants(u) /\ sp'[u].port = sp[u].port
    BY <2>1 DEF FlowOpenDoes, SpTo, Wants, Claims
  <2>3. QED
    BY <1>0, <2>2 DEF LockOfOne
<1>9. ASSUME NEW t \in SpThreads, Unlock(t) PROVE LockOfOne'
  <2>1. UnlockPortDoes(t)
    BY <1>9, UnlockPortDoesLemma
  <2>2. /\ lateLock \subseteq lateLock'
        /\ \A u \in SpThreads : Wants(u)' => Wants(u) /\ sp'[u].port = sp[u].port
    BY <2>1 DEF UnlockPortDoes, SpTo, Wants, Claims
  <2>3. QED
    BY <1>0, <2>2 DEF LockOfOne
<1>10. ASSUME NEW t \in SpThreads, CloseDev(t) PROVE LockOfOne'
  <2>1. CloseDevDoes(t)
    BY <1>10, CloseDevDoesLemma
  <2>2. /\ lateLock \subseteq lateLock'
        /\ \A u \in SpThreads : Wants(u)' => Wants(u) /\ sp'[u].port = sp[u].port
    BY <2>1 DEF CloseDevDoes, SpTo, Wants, Claims
  <2>3. QED
    BY <1>0, <2>2 DEF LockOfOne
<1>11. ASSUME NEW p \in SpProcs, Dies(p) PROVE LockOfOne'
  <2>1. DiesDoes(p)
    BY <1>11, DiesDoesLemma
  <2>2. UNCHANGED lateLock /\ \A u \in SpThreads : Wants(u)' => Wants(u) /\ sp'[u].port = sp[u].port
    BY <2>1 DEF DiesDoes, Wants, Claims
  <2>3. QED
    BY <1>0, <2>2 DEF LockOfOne
<1>12. CASE UNCHANGED spVars
  BY <1>0, <1>12 DEF spVars, LockOfOne, Wants, Claims
<1>13. QED
  BY <1>1, <1>2, <1>3, <1>4, <1>5, <1>6, <1>7, <1>8, <1>9, <1>10, <1>11, <1>12 DEF SpNext

(* The entry of a number is that of the thread that has it.                *)
LEMMA EntryIsOwn ==
  ASSUME EntryOwned, HandlesApart, NEW t \in SpThreads, InTable(t),
         NEW i \in 1 .. MaxFd, fdTab[t[1]][i] # NoEntry, fdTab[t[1]][i][1] = sp[t].fd
  PROVE  fdTab[t[1]][i] = <<sp[t].fd, sp[t].port>>
<1>1. t[1] \in SpProcs
  BY ThreadHasProcess
<1>2. PICK u \in SpThreads : u[1] = t[1] /\ InTable(u) /\ fdTab[t[1]][i] = <<sp[u].fd, sp[u].port>>
  BY <1>1 DEF EntryOwned
<1>3. sp[u].fd = sp[t].fd
  BY <1>2
<1>4. u = t
  BY <1>2, <1>3 DEF HandlesApart
<1>5. QED
  BY <1>2, <1>4

(* The lock of a port goes with the one who wants it.                      *)
LEMMA OnesLockGone ==
  ASSUME SpInv, LockKept, LockOfOne, UNCHANGED <<spLife, lateLock>>, NEW t \in SpThreads, Wants(t),
         LockSet(sp[t].port, SpNoPid),
         \A u \in SpThreads : Claims(u)' => u # t /\ Claims(u) /\ sp'[u].port = sp[u].port
  PROVE  LockKept'
<1>1. ASSUME NEW u \in SpThreads, Claims(u)', sp'[u].port \notin lateLock'
      PROVE  portLock'[sp'[u].port] = PidOf(u[1])
  <2>1. u # t /\ Claims(u) /\ sp'[u].port = sp[u].port /\ sp[u].port \notin lateLock
    BY <1>1
  <2>2. sp[u].port # sp[t].port
    BY <2>1 DEF LockOfOne, Wants
  <2>3. sp[u].port \in Ports
    BY <2>1 DEF SpInv, SpTypes, ThreadStates, ThreadsTyped, Claims
  <2>4. QED
    BY <2>1, <2>2, <2>3 DEF LockSet, LockKept
<1>2. QED
  BY <1>1 DEF LockKept, PidOf

(* A port that is open has the lock of its process.                        *)
LEMMA SpNextLockKept ==
  ASSUME SpInv, [SpNext]_spVars, ~lateFlow'
  PROVE  LockKept'
<1>0. ~lateFlow /\ LockKept /\ LockOfOne /\ EntryOwned /\ HandlesApart /\ SpTypes
  BY LateFlowStays DEF SpInv
<1>1. ASSUME NEW t \in SpThreads, LockTest(t) PROVE LockKept'
  <2>1. LockTestDoes(t)
    BY <1>1, LockTestDoesLemma
  <2>2. /\ UNCHANGED <<portLock, spLife>> /\ lateLock \subseteq lateLock'
        /\ \A u \in SpThreads : Claims(u)' => Claims(u) /\ sp'[u].port = sp[u].port
    BY <2>1 DEF LockTestDoes, SpTo, Claims
  <2>3. QED
    BY <1>0, <2>2 DEF LockKept, PidOf
<1>2. ASSUME NEW t \in SpThreads, LockWrite(t) PROVE LockKept'
  <2>1. LockWriteDoes(t)
    BY <1>2, LockWriteDoesLemma
  <2>2. \A u \in SpThreads : Claims(u)' => u = t \/ (Claims(u) /\ sp'[u].port = sp[u].port)
    BY <2>1 DEF LockWriteDoes, SpTo, Claims
  <2>3. sp[t].port \in Ports /\ LockSet(sp[t].port, PidOf(t[1])) /\ UNCHANGED <<spLife, lateLock>> /\ sp'[t].port = sp[t].port
    BY <2>1 DEF LockWriteDoes, SpTo
  <2>4. Wants(t)
    BY <2>1 DEF LockWriteDoes, SpTo, Wants
  <2>5. ASSUME NEW u \in SpThreads, u # t, Claims(u)', sp'[u].port \notin lateLock'
        PROVE  portLock'[sp'[u].port] = PidOf(u[1])
    <3>1. Claims(u) /\ sp'[u].port = sp[u].port /\ sp[u].port \notin lateLock
      BY <2>2, <2>3, <2>5
    <3>2. sp[u].port # sp[t].port
      BY <1>0, <2>4, <2>5, <3>1 DEF LockOfOne, Wants
    <3>3. sp[u].port \in Ports
      BY <1>0, <3>1 DEF SpInv, SpTypes, ThreadStates, ThreadsTyped, Claims
    <3>4. QED
      BY <1>0, <2>3, <3>1, <3>2, <3>3 DEF LockSet, LockKept
  <2>6. ASSUME NEW u \in SpThreads, Claims(u)', sp'[u].port \notin lateLock'
        PROVE  portLock'[sp'[u].port] = PidOf(u[1])
    BY <2>3, <2>5, <2>6 DEF LockSet
  <2>7. QED
    BY <2>3, <2>6 DEF LockKept, PidOf
<1>3. ASSUME NEW t \in SpThreads, OpenDev(t) PROVE LockKept'
  <2>1. OpenDevDoes(t)
    BY <1>3, OpenDevDoesLemma
  <2>2. /\ UNCHANGED <<portLock, spLife, lateLock>>
        /\ \A u \in SpThreads : Claims(u)' => Claims(u) /\ sp'[u].port = sp[u].port
    BY <2>1 DEF OpenDevDoes, SpTo, Claims
  <2>3. QED
    BY <1>0, <2>2 DEF LockKept, PidOf
<1>4. ASSUME NEW t \in SpThreads, OpenFails(t) PROVE LockKept'
  <2>1. OpenFailsDoes(t)
    BY <1>4, OpenFailsDoesLemma
  <2>2. Wants(t) /\ sp[t].port \in Ports /\ LockSet(sp[t].port, SpNoPid) /\ UNCHANGED <<spLife, lateLock>>
    BY <2>1 DEF OpenFailsDoes, SpTo, Wants, Claims
  <2>3. \A u \in SpThreads : Claims(u)' => u # t /\ Claims(u) /\ sp'[u].port = sp[u].port
    BY <2>1 DEF OpenFailsDoes, SpTo, Claims
  <2>4. QED
    BY <1>0, <2>2, <2>3, OnesLockGone
<1>5. ASSUME NEW t \in SpThreads, FindEntry(t) PROVE LockKept'
  <2>1. FindEntryDoes(t)
    BY <1>5, FindEntryDoesLemma
  <2>2. /\ UNCHANGED <<portLock, spLife, lateLock>>
        /\ \A u \in SpThreads : Claims(u)' => Claims(u) /\ sp'[u].port = sp[u].port
    BY <2>1 DEF FindEntryDoes, SpTo, Claims
  <2>3. QED
    BY <1>0, <2>2 DEF LockKept, PidOf
<1>6. ASSUME NEW t \in SpThreads, FillEntry(t) PROVE LockKept'
  <2>1. FillEntryDoes(t)
    BY <1>6, FillEntryDoesLemma
  <2>2. /\ UNCHANGED <<portLock, spLife, lateLock>>
        /\ \A u \in SpThreads : Claims(u)' => Claims(u) /\ sp'[u].port = sp[u].port
    BY <2>1 DEF FillEntryDoes, SpTo, Claims
  <2>3. QED
    BY <1>0, <2>2 DEF LockKept, PidOf
<1>7. ASSUME NEW t \in SpThreads, FlowClose(t) PROVE LockKept'
  <2>1. FlowCloseDoes(t)
    BY <1>7, FlowCloseDoesLemma
  <2>2. /\ UNCHANGED <<portLock, spLife, lateLock>>
        /\ \A u \in SpThreads : Claims(u)' => Claims(u) /\ sp'[u].port = sp[u].port
    BY <2>1 DEF FlowCloseDoes, SpTo, Claims
  <2>3. QED
    BY <1>0, <2>2 DEF LockKept, PidOf
<1>8. ASSUME NEW t \in SpThreads, FlowOpen(t) PROVE LockKept'
  <2>1. FlowOpenDoes(t)
    BY <1>8, FlowOpenDoesLemma
  <2>2. /\ UNCHANGED <<portLock, spLife, lateLock>>
        /\ \A u \in SpThreads : Claims(u)' => Claims(u) /\ sp'[u].port = sp[u].port
    BY <2>1 DEF FlowOpenDoes, SpTo, Claims
  <2>3. QED
    BY <1>0, <2>2 DEF LockKept, PidOf
<1>9. ASSUME NEW t \in SpThreads, Unlock(t) PROVE LockKept'
  <2>1. UnlockPortDoes(t)
    BY <1>9, UnlockPortDoesLemma
  <2>2. UNCHANGED <<spLife, lateLock>> /\ \A u \in SpThreads : Claims(u)' => u # t /\ Claims(u) /\ sp'[u].port = sp[u].port
    BY <2>1 DEF UnlockPortDoes, SpTo, Claims
  <2>3. CASE UNCHANGED portLock
    BY <1>0, <2>2, <2>3 DEF LockKept, PidOf
  <2>4. ASSUME NEW i \in 1 .. MaxFd, fdTab[t[1]][i] # NoEntry, fdTab[t[1]][i][1] = sp[t].fd,
               LockSet(fdTab[t[1]][i][2], SpNoPid)
        PROVE  LockKept'
    <3>1. Wants(t) /\ InTable(t)
      BY <2>1 DEF UnlockPortDoes, SpTo, Wants, Claims, InTable
    <3>2. fdTab[t[1]][i] = <<sp[t].fd, sp[t].port>>
      BY <1>0, <2>4, <3>1, EntryIsOwn
    <3>3. LockSet(sp[t].port, SpNoPid)
      BY <2>4, <3>2
    <3>4. QED
      BY <1>0, <2>2, <3>1, <3>3, OnesLockGone
  <2>5. QED
    BY <2>1, <2>3, <2>4 DEF UnlockPortDoes
<1>10. ASSUME NEW t \in SpThreads, CloseDev(t) PROVE LockKept'
  <2>1. CloseDevDoes(t)
    BY <1>10, CloseDevDoesLemma
  <2>2. /\ UNCHANGED <<portLock, spLife, lateLock>>
        /\ \A u \in SpThreads : Claims(u)' => Claims(u) /\ sp'[u].port = sp[u].port
    BY <2>1 DEF CloseDevDoes, SpTo, Claims
  <2>3. QED
    BY <1>0, <2>2 DEF LockKept, PidOf
<1>11. ASSUME NEW p \in SpProcs, Dies(p) PROVE LockKept'
  <2>1. DiesDoes(p)
    BY <1>11, DiesDoesLemma
  <2>2. \A u \in SpThreads : Claims(u)' => u[1] # p /\ Claims(u) /\ sp'[u].port = sp[u].port
    BY <2>1 DEF DiesDoes, Claims
  <2>3. UNCHANGED <<portLock, lateLock>> /\ \A q \in SpProcs : q # p => spLife'[q] = spLife[q]
    BY <2>1 DEF DiesDoes
  <2>4. ASSUME NEW u \in SpThreads, Claims(u)', sp'[u].port \notin lateLock'
        PROVE  portLock'[sp'[u].port] = PidOf(u[1])'
    <3>1. portLock[sp[u].port] = PidOf(u[1]) /\ sp'[u].port = sp[u].port /\ u[1] # p
      BY <1>0, <2>2, <2>3, <2>4 DEF LockKept
    <3>2. PidOf(u[1])' = PidOf(u[1])
      BY <2>3, <3>1, ThreadHasProcess DEF PidOf
    <3>3. QED
      BY <2>3, <3>1, <3>2
  <2>5. QED
    BY <2>4 DEF LockKept, PidOf
<1>12. CASE UNCHANGED spVars
  BY <1>0, <1>12 DEF spVars, LockKept, PidOf, Claims
<1>13. QED
  BY <1>1, <1>2, <1>3, <1>4, <1>5, <1>6, <1>7, <1>8, <1>9, <1>10, <1>11, <1>12 DEF SpNext

(* A lock of a living process is of a port that it has open.               *)
LEMMA SpNextLockUsed ==
  ASSUME SpInv, [SpNext]_spVars, ~lateFlow'
  PROVE  LockUsed'
<1>0. ~lateFlow /\ LockUsed /\ LockOfOne /\ LockKept /\ EntryHad /\ EntryOwned /\ HandlesApart /\ SpTypes
  BY LateFlowStays DEF SpInv
<1>1. ASSUME NEW t \in SpThreads, LockTest(t) PROVE LockUsed'
  <2>1. LockTestDoes(t)
    BY <1>1, LockTestDoesLemma
  <2>2. /\ UNCHANGED <<portLock, spLife>> /\ lateLock \subseteq lateLock' /\ lateBind \subseteq lateBind'
        /\ \A u \in SpThreads : Claims(u) => Claims(u)' /\ sp'[u].port = sp[u].port
    BY <2>1 DEF LockTestDoes, SpTo, Claims
  <2>3. QED
    BY <1>0, <2>2 DEF LockUsed, Lives
<1>2. ASSUME NEW t \in SpThreads, LockWrite(t) PROVE LockUsed'
  <2>1. LockWriteDoes(t)
    BY <1>2, LockWriteDoesLemma
  <2>2. /\ LockSet(sp[t].port, PidOf(t[1])) /\ UNCHANGED <<spLife, lateLock, lateBind>>
        /\ \A u \in SpThreads : Claims(u) => Claims(u)' /\ sp'[u].port = sp[u].port
        /\ Claims(t)' /\ sp'[t].port = sp[t].port
    BY <2>1 DEF LockWriteDoes, SpTo, Claims
  <2>3. QED
    BY <1>0, <2>2 DEF LockUsed, LockSet, Lives
<1>3. ASSUME NEW t \in SpThreads, OpenDev(t) PROVE LockUsed'
  <2>1. OpenDevDoes(t)
    BY <1>3, OpenDevDoesLemma
  <2>2. /\ UNCHANGED <<portLock, spLife>> /\ lateLock \subseteq lateLock' /\ lateBind \subseteq lateBind'
        /\ \A u \in SpThreads : Claims(u) => Claims(u)' /\ sp'[u].port = sp[u].port
    BY <2>1 DEF OpenDevDoes, SpTo, Claims
  <2>3. QED
    BY <1>0, <2>2 DEF LockUsed, Lives
<1>4. ASSUME NEW t \in SpThreads, OpenFails(t) PROVE LockUsed'
  <2>1. OpenFailsDoes(t)
    BY <1>4, OpenFailsDoesLemma
  <2>2. LockSet(sp[t].port, SpNoPid)
    BY <2>1 DEF OpenFailsDoes
  <2>3. /\ UNCHANGED <<spLife, lateLock, lateBind>>
        /\ \A u \in SpThreads : u # t => (Claims(u) => Claims(u)') /\ sp'[u].port = sp[u].port
    BY <2>1 DEF OpenFailsDoes, SpTo, Claims
  <2>4. ASSUME NEW d \in Ports, Lives(portLock[d])', d \notin lateLock', d \notin lateBind'
        PROVE  \E u \in SpThreads : Claims(u)' /\ sp'[u].port = d
    <3>1. d # sp[t].port /\ portLock'[d] = portLock[d]
      BY <2>2, <2>4 DEF LockSet, Lives
    <3>2. Lives(portLock[d])
      BY <2>3, <2>4, <3>1 DEF Lives
    <3>3. PICK u \in SpThreads : Claims(u) /\ sp[u].port = d
      BY <1>0, <2>3, <2>4, <3>2 DEF LockUsed
    <3>4. QED
      BY <2>3, <3>1, <3>3
  <2>5. QED
    BY <2>4 DEF LockUsed
<1>5. ASSUME NEW t \in SpThreads, FindEntry(t) PROVE LockUsed'
  <2>1. FindEntryDoes(t)
    BY <1>5, FindEntryDoesLemma
  <2>2. /\ UNCHANGED <<portLock, spLife>> /\ lateLock \subseteq lateLock' /\ lateBind \subseteq lateBind'
        /\ \A u \in SpThreads : Claims(u) => Claims(u)' /\ sp'[u].port = sp[u].port
    BY <2>1 DEF FindEntryDoes, SpTo, Claims
  <2>3. QED
    BY <1>0, <2>2 DEF LockUsed, Lives
<1>6. ASSUME NEW t \in SpThreads, FillEntry(t) PROVE LockUsed'
  <2>1. FillEntryDoes(t)
    BY <1>6, FillEntryDoesLemma
  <2>2. /\ UNCHANGED <<portLock, spLife>> /\ lateLock \subseteq lateLock' /\ lateBind \subseteq lateBind'
        /\ \A u \in SpThreads : Claims(u) => Claims(u)' /\ sp'[u].port = sp[u].port
    BY <2>1 DEF FillEntryDoes, SpTo, Claims
  <2>3. QED
    BY <1>0, <2>2 DEF LockUsed, Lives
<1>7. ASSUME NEW t \in SpThreads, FlowClose(t) PROVE LockUsed'
  <2>1. FlowCloseDoes(t)
    BY <1>7, FlowCloseDoesLemma
  <2>2. /\ UNCHANGED <<portLock, spLife>> /\ lateLock \subseteq lateLock' /\ lateBind \subseteq lateBind'
        /\ \A u \in SpThreads : Claims(u) => Claims(u)' /\ sp'[u].port = sp[u].port
    BY <2>1 DEF FlowCloseDoes, SpTo, Claims
  <2>3. QED
    BY <1>0, <2>2 DEF LockUsed, Lives
<1>8. ASSUME NEW t \in SpThreads, FlowOpen(t) PROVE LockUsed'
  <2>1. FlowOpenDoes(t)
    BY <1>8, FlowOpenDoesLemma
  <2>2. /\ UNCHANGED <<portLock, spLife>> /\ lateLock \subseteq lateLock' /\ lateBind \subseteq lateBind'
        /\ \A u \in SpThreads : Claims(u) => Claims(u)' /\ sp'[u].port = sp[u].port
    BY <2>1 DEF FlowOpenDoes, SpTo, Claims
  <2>3. QED
    BY <1>0, <2>2 DEF LockUsed, Lives
<1>9. ASSUME NEW t \in SpThreads, Unlock(t) PROVE LockUsed'
  <2>1. UnlockPortDoes(t)
    BY <1>9, UnlockPortDoesLemma
  <2>2. InTable(t) /\ sp[t].port \in Ports
    BY <2>1 DEF UnlockPortDoes, SpTo, InTable, SpInv, SpTypes, ThreadStates, ThreadsTyped
  <2>3. /\ UNCHANGED <<spLife, lateLock, lateBind>>
        /\ \A u \in SpThreads : u # t => (Claims(u) => Claims(u)') /\ sp'[u].port = sp[u].port
    BY <2>1 DEF UnlockPortDoes, SpTo, Claims
  <2>4. ASSUME NEW d \in Ports, Lives(portLock[d])', d \notin lateLock', d \notin lateBind'
        PROVE  \E u \in SpThreads : Claims(u)' /\ sp'[u].port = d
    <3>1. CASE d = sp[t].port
      <4>1. PICK i \in 1 .. MaxFd : fdTab[t[1]][i] = <<sp[t].fd, sp[t].port>>
        BY <1>0, <2>2, <2>3, <2>4, <3>1 DEF EntryHad
      <4>2. fdTab[t[1]][i] # NoEntry /\ fdTab[t[1]][i][1] = sp[t].fd
        BY <4>1 DEF NoEntry
      <4>3. PICK j \in 1 .. MaxFd : /\ fdTab[t[1]][j] # NoEntry /\ fdTab[t[1]][j][1] = sp[t].fd
                                    /\ LockSet(fdTab[t[1]][j][2], SpNoPid)
        BY <2>1, <4>2 DEF UnlockPortDoes
      <4>4. fdTab[t[1]][j] = <<sp[t].fd, sp[t].port>>
        BY <1>0, <2>2, <4>3, EntryIsOwn
      <4>5. portLock'[d] = SpNoPid
        BY <3>1, <4>3, <4>4 DEF LockSet
      <4>6. QED
        BY <2>4, <4>5 DEF Lives
    <3>2. CASE d # sp[t].port
      <4>1. portLock'[d] = portLock[d]
        <5>1. CASE UNCHANGED portLock
          BY <5>1
        <5>2. ASSUME NEW j \in 1 .. MaxFd, fdTab[t[1]][j] # NoEntry, fdTab[t[1]][j][1] = sp[t].fd,
                     LockSet(fdTab[t[1]][j][2], SpNoPid)
              PROVE  portLock'[d] = portLock[d]
          <6>1. fdTab[t[1]][j] = <<sp[t].fd, sp[t].port>>
            BY <1>0, <2>2, <5>2, EntryIsOwn
          <6>2. QED
            BY <3>2, <5>2, <6>1 DEF LockSet
        <5>3. QED
          BY <2>1, <5>1, <5>2 DEF UnlockPortDoes
      <4>2. Lives(portLock[d])
        BY <2>3, <2>4, <4>1 DEF Lives
      <4>3. PICK u \in SpThreads : Claims(u) /\ sp[u].port = d
        BY <1>0, <2>3, <2>4, <4>2 DEF LockUsed
      <4>4. QED
        BY <2>3, <3>2, <4>3
    <3>3. QED
      BY <3>1, <3>2
  <2>5. QED
    BY <2>4 DEF LockUsed
<1>10. ASSUME NEW t \in SpThreads, CloseDev(t) PROVE LockUsed'
  <2>1. CloseDevDoes(t)
    BY <1>10, CloseDevDoesLemma
  <2>2. /\ UNCHANGED <<portLock, spLife>> /\ lateLock \subseteq lateLock' /\ lateBind \subseteq lateBind'
        /\ \A u \in SpThreads : Claims(u) => Claims(u)' /\ sp'[u].port = sp[u].port
    BY <2>1 DEF CloseDevDoes, SpTo, Claims
  <2>3. QED
    BY <1>0, <2>2 DEF LockUsed, Lives
<1>11. ASSUME NEW p \in SpProcs, Dies(p) PROVE LockUsed'
  <2>1. DiesDoes(p)
    BY <1>11, DiesDoesLemma
  <2>2. UNCHANGED <<portLock, lateLock, lateBind>> /\ \A q \in SpProcs : q # p => spLife'[q] = spLife[q]
    BY <2>1 DEF DiesDoes
  <2>3. \A u \in SpThreads : u[1] # p => (Claims(u) => Claims(u)') /\ sp'[u].port = sp[u].port
    BY <2>1 DEF DiesDoes, Claims
  <2>4. ASSUME NEW d \in Ports, Lives(portLock[d])', d \notin lateLock', d \notin lateBind'
        PROVE  \E u \in SpThreads : Claims(u)' /\ sp'[u].port = d
    <3>1. portLock[d] \in SpProcs \X Nat /\ portLock[d] # SpNoPid /\ spLife'[portLock[d][1]] = portLock[d][2]
      BY <1>0, <2>2, <2>4 DEF SpTypes, Lives
    <3>2. portLock[d][1] # p
      <4>1. ASSUME portLock[d][1] = p PROVE FALSE
        <5>1. portLock[d][2] <= spLife[p] /\ spLife[p] \in Nat
          BY <1>0, <3>1, <4>1 DEF SpInv, LocksTyped, SpTypes
        <5>2. portLock[d][2] = spLife[p] + 1
          BY <2>1, <3>1, <4>1 DEF DiesDoes
        <5>3. QED
          BY <5>1, <5>2
      <4>2. QED
        BY <4>1
    <3>3. Lives(portLock[d])
      BY <2>2, <3>1, <3>2 DEF Lives
    <3>4. PICK u \in SpThreads : Claims(u) /\ sp[u].port = d
      BY <1>0, <2>2, <2>4, <3>3 DEF LockUsed
    <3>5. portLock[d] = PidOf(u[1])
      BY <1>0, <2>2, <2>4, <3>4 DEF LockKept
    <3>6. u[1] # p
      BY <3>2, <3>5 DEF PidOf
    <3>7. QED
      BY <2>3, <3>4, <3>6
  <2>5. QED
    BY <2>4 DEF LockUsed
<1>12. CASE UNCHANGED spVars
  BY <1>0, <1>12 DEF spVars, LockUsed, Lives, Claims
<1>13. QED
  BY <1>1, <1>2, <1>3, <1>4, <1>5, <1>6, <1>7, <1>8, <1>9, <1>10, <1>11, <1>12 DEF SpNext

(* A handle is of the port it was opened for.                              *)
LEMMA SpNextHandles ==
  ASSUME SpInv, [SpNext]_spVars, ~lateFlow'
  PROVE  HandlesRight'
<1>0. ~lateFlow /\ HandlesRight /\ HandlesApart
  BY LateFlowStays DEF SpInv
<1>1. ASSUME NEW t \in SpThreads, LockTest(t) PROVE HandlesRight'
  <2>1. LockTestDoes(t)
    BY <1>1, LockTestDoesLemma
  <2>2. UNCHANGED fdOf /\ \A u \in SpThreads : HasHandle(u)' => HasHandle(u) /\ sp'[u].fd = sp[u].fd /\ sp'[u].port = sp[u].port
    BY <2>1 DEF LockTestDoes, SpTo, HasHandle
  <2>3. QED
    BY <1>0, <2>2 DEF HandlesRight
<1>2. ASSUME NEW t \in SpThreads, LockWrite(t) PROVE HandlesRight'
  <2>1. LockWriteDoes(t)
    BY <1>2, LockWriteDoesLemma
  <2>2. UNCHANGED fdOf /\ \A u \in SpThreads : HasHandle(u)' => HasHandle(u) /\ sp'[u].fd = sp[u].fd /\ sp'[u].port = sp[u].port
    BY <2>1 DEF LockWriteDoes, SpTo, HasHandle
  <2>3. QED
    BY <1>0, <2>2 DEF HandlesRight
<1>3. ASSUME NEW t \in SpThreads, OpenDev(t) PROVE HandlesRight'
  <2>1. OpenDevDoes(t)
    BY <1>3, OpenDevDoesLemma
  <2>2. \A u \in SpThreads : u # t => (HasHandle(u)' => HasHandle(u)) /\ sp'[u].fd = sp[u].fd /\ sp'[u].port = sp[u].port
    BY <2>1 DEF OpenDevDoes, SpTo, HasHandle
  <2>3. PICK f \in FdNumbers : /\ fdOf[t[1]][f] = NoPort /\ FdSet(t[1], f, sp[t].port)
                             /\ sp'[t].fd = f /\ sp'[t].port = sp[t].port
    BY <2>1 DEF OpenDevDoes, SpTo
  <2>4. ASSUME NEW u \in SpThreads, u # t, HasHandle(u)' PROVE fdOf'[u[1]][sp'[u].fd] = sp'[u].port
    <3>1. HasHandle(u) /\ u[1] \in SpProcs /\ sp[u].fd \in FdNumbers /\ sp[u].port # NoPort
      BY <2>2, <2>4, ThreadHasProcess DEF SpInv, ThreadsTyped, HasHandle
    <3>2. fdOf[u[1]][sp[u].fd] = sp[u].port
      BY <1>0, <3>1 DEF HandlesRight
    <3>3. u[1] # t[1] \/ sp[u].fd # f
      BY <2>3, <3>1, <3>2
    <3>4. fdOf'[u[1]][sp[u].fd] = fdOf[u[1]][sp[u].fd]
      BY <2>3, <3>1, <3>3 DEF FdSet
    <3>5. QED
      BY <2>2, <2>4, <3>2, <3>4
  <2>5. fdOf'[t[1]][sp'[t].fd] = sp'[t].port
    BY <2>3 DEF FdSet
  <2>6. QED
    BY <2>4, <2>5 DEF HandlesRight
<1>4. ASSUME NEW t \in SpThreads, OpenFails(t) PROVE HandlesRight'
  <2>1. OpenFailsDoes(t)
    BY <1>4, OpenFailsDoesLemma
  <2>2. UNCHANGED fdOf /\ \A u \in SpThreads : HasHandle(u)' => HasHandle(u) /\ sp'[u].fd = sp[u].fd /\ sp'[u].port = sp[u].port
    BY <2>1 DEF OpenFailsDoes, SpTo, HasHandle
  <2>3. QED
    BY <1>0, <2>2 DEF HandlesRight
<1>5. ASSUME NEW t \in SpThreads, FindEntry(t) PROVE HandlesRight'
  <2>1. FindEntryDoes(t)
    BY <1>5, FindEntryDoesLemma
  <2>2. UNCHANGED fdOf /\ \A u \in SpThreads : HasHandle(u)' => HasHandle(u) /\ sp'[u].fd = sp[u].fd /\ sp'[u].port = sp[u].port
    BY <2>1 DEF FindEntryDoes, SpTo, HasHandle
  <2>3. QED
    BY <1>0, <2>2 DEF HandlesRight
<1>6. ASSUME NEW t \in SpThreads, FillEntry(t) PROVE HandlesRight'
  <2>1. FillEntryDoes(t)
    BY <1>6, FillEntryDoesLemma
  <2>2. UNCHANGED fdOf /\ \A u \in SpThreads : HasHandle(u)' => HasHandle(u) /\ sp'[u].fd = sp[u].fd /\ sp'[u].port = sp[u].port
    BY <2>1 DEF FillEntryDoes, SpTo, HasHandle
  <2>3. QED
    BY <1>0, <2>2 DEF HandlesRight
<1>7. ASSUME NEW t \in SpThreads, FlowClose(t) PROVE HandlesRight'
  <2>1. FlowCloseDoes(t)
    BY <1>7, FlowCloseDoesLemma
  <2>2. \A u \in SpThreads : u # t => (HasHandle(u)' => HasHandle(u)) /\ sp'[u].fd = sp[u].fd /\ sp'[u].port = sp[u].port
    BY <2>1 DEF FlowCloseDoes, SpTo, HasHandle
  <2>3. ~HasHandle(t)' /\ (HasHandle(t) \/ InTable(t)) /\ FdSet(t[1], sp[t].fd, NoPort)
    BY <2>1 DEF FlowCloseDoes, SpTo, HasHandle, InTable
  <2>4. ASSUME NEW u \in SpThreads, HasHandle(u)' PROVE fdOf'[u[1]][sp'[u].fd] = sp'[u].port
    <3>1. u # t /\ HasHandle(u)
      BY <2>2, <2>3, <2>4
    <3>2. u[1] \in SpProcs /\ sp[u].fd \in FdNumbers
      BY <3>1, ThreadHasProcess DEF SpInv, ThreadsTyped
    <3>3. u[1] # t[1] \/ sp[u].fd # sp[t].fd
      BY <1>0, <2>3, <3>1 DEF HandlesApart
    <3>4. fdOf'[u[1]][sp[u].fd] = fdOf[u[1]][sp[u].fd]
      BY <2>3, <3>2, <3>3 DEF FdSet
    <3>5. QED
      BY <1>0, <2>2, <3>1, <3>4 DEF HandlesRight
  <2>5. QED
    BY <2>4 DEF HandlesRight
<1>8. ASSUME NEW t \in SpThreads, FlowOpen(t) PROVE HandlesRight'
  <2>1. FlowOpenDoes(t)
    BY <1>8, FlowOpenDoesLemma
  <2>2. \A u \in SpThreads : u # t => (HasHandle(u)' => HasHandle(u)) /\ sp'[u].fd = sp[u].fd /\ sp'[u].port = sp[u].port
    BY <2>1 DEF FlowOpenDoes, SpTo, HasHandle
  <2>3. FdSet(t[1], sp[t].fd, sp[t].port) /\ sp'[t].fd = sp[t].fd /\ sp'[t].port = sp[t].port /\ InTable(t)
    BY <2>1 DEF FlowOpenDoes, SpTo, InTable
  <2>4. ASSUME NEW u \in SpThreads, u # t, HasHandle(u)' PROVE fdOf'[u[1]][sp'[u].fd] = sp'[u].port
    <3>1. HasHandle(u) /\ u[1] \in SpProcs /\ sp[u].fd \in FdNumbers
      BY <2>2, <2>4, ThreadHasProcess DEF SpInv, ThreadsTyped
    <3>2. u[1] # t[1] \/ sp[u].fd # sp[t].fd
      BY <1>0, <2>3, <2>4, <3>1 DEF HandlesApart
    <3>3. fdOf'[u[1]][sp[u].fd] = fdOf[u[1]][sp[u].fd]
      BY <2>3, <3>1, <3>2 DEF FdSet
    <3>4. QED
      BY <1>0, <2>2, <2>4, <3>1, <3>3 DEF HandlesRight
  <2>5. fdOf'[t[1]][sp'[t].fd] = sp'[t].port
    BY <2>3 DEF FdSet
  <2>6. QED
    BY <2>4, <2>5 DEF HandlesRight
<1>9. ASSUME NEW t \in SpThreads, Unlock(t) PROVE HandlesRight'
  <2>1. UnlockPortDoes(t)
    BY <1>9, UnlockPortDoesLemma
  <2>2. UNCHANGED fdOf /\ \A u \in SpThreads : HasHandle(u)' => HasHandle(u) /\ sp'[u].fd = sp[u].fd /\ sp'[u].port = sp[u].port
    BY <2>1 DEF UnlockPortDoes, SpTo, HasHandle
  <2>3. QED
    BY <1>0, <2>2 DEF HandlesRight
<1>10. ASSUME NEW t \in SpThreads, CloseDev(t) PROVE HandlesRight'
  <2>1. CloseDevDoes(t)
    BY <1>10, CloseDevDoesLemma
  <2>2. \A u \in SpThreads : u # t => (HasHandle(u)' => HasHandle(u)) /\ sp'[u].fd = sp[u].fd /\ sp'[u].port = sp[u].port
    BY <2>1 DEF CloseDevDoes, SpTo, HasHandle
  <2>3. ~HasHandle(t)' /\ (HasHandle(t) \/ InTable(t)) /\ FdSet(t[1], sp[t].fd, NoPort)
    BY <2>1 DEF CloseDevDoes, SpTo, HasHandle, InTable
  <2>4. ASSUME NEW u \in SpThreads, HasHandle(u)' PROVE fdOf'[u[1]][sp'[u].fd] = sp'[u].port
    <3>1. u # t /\ HasHandle(u)
      BY <2>2, <2>3, <2>4
    <3>2. u[1] \in SpProcs /\ sp[u].fd \in FdNumbers
      BY <3>1, ThreadHasProcess DEF SpInv, ThreadsTyped
    <3>3. u[1] # t[1] \/ sp[u].fd # sp[t].fd
      BY <1>0, <2>3, <3>1 DEF HandlesApart
    <3>4. fdOf'[u[1]][sp[u].fd] = fdOf[u[1]][sp[u].fd]
      BY <2>3, <3>2, <3>3 DEF FdSet
    <3>5. QED
      BY <1>0, <2>2, <3>1, <3>4 DEF HandlesRight
  <2>5. QED
    BY <2>4 DEF HandlesRight
<1>11. ASSUME NEW p \in SpProcs, Dies(p) PROVE HandlesRight'
  <2>1. DiesDoes(p)
    BY <1>11, DiesDoesLemma
  <2>2. ASSUME NEW u \in SpThreads, HasHandle(u)' PROVE fdOf'[u[1]][sp'[u].fd] = sp'[u].port
    <3>1. u[1] # p /\ u[1] \in SpProcs
      BY <2>1, <2>2, ThreadHasProcess DEF DiesDoes, HasHandle
    <3>2. sp'[u] = sp[u] /\ fdOf'[u[1]] = fdOf[u[1]]
      BY <2>1, <3>1 DEF DiesDoes
    <3>3. QED
      BY <1>0, <2>2, <3>2 DEF HandlesRight, HasHandle
  <2>3. QED
    BY <2>2 DEF HandlesRight
<1>12. CASE UNCHANGED spVars
  BY <1>0, <1>12 DEF spVars, HandlesRight, HasHandle
<1>13. QED
  BY <1>1, <1>2, <1>3, <1>4, <1>5, <1>6, <1>7, <1>8, <1>9, <1>10, <1>11, <1>12 DEF SpNext

(* Two threads of a process have two numbers.                              *)
LEMMA SpNextApart ==
  ASSUME SpInv, [SpNext]_spVars, ~lateFlow'
  PROVE  HandlesApart'
<1>0. ~lateFlow /\ HandlesApart /\ HandlesRight
  BY LateFlowStays DEF SpInv
<1>1. ASSUME NEW t \in SpThreads, LockTest(t) PROVE HandlesApart'
  <2>1. LockTestDoes(t)
    BY <1>1, LockTestDoesLemma
  <2>2. \A u \in SpThreads : (HasHandle(u)' \/ InTable(u)') => (HasHandle(u) \/ InTable(u)) /\ sp'[u].fd = sp[u].fd
    BY <2>1 DEF LockTestDoes, SpTo, HasHandle, InTable
  <2>3. QED
    BY <1>0, <2>2 DEF HandlesApart
<1>2. ASSUME NEW t \in SpThreads, LockWrite(t) PROVE HandlesApart'
  <2>1. LockWriteDoes(t)
    BY <1>2, LockWriteDoesLemma
  <2>2. \A u \in SpThreads : (HasHandle(u)' \/ InTable(u)') => (HasHandle(u) \/ InTable(u)) /\ sp'[u].fd = sp[u].fd
    BY <2>1 DEF LockWriteDoes, SpTo, HasHandle, InTable
  <2>3. QED
    BY <1>0, <2>2 DEF HandlesApart
<1>3. ASSUME NEW t \in SpThreads, OpenDev(t) PROVE HandlesApart'
  <2>1. OpenDevDoes(t)
    BY <1>3, OpenDevDoesLemma
  <2>2. \A u \in SpThreads : u # t => ((HasHandle(u)' \/ InTable(u)') => (HasHandle(u) \/ InTable(u))) /\ sp'[u].fd = sp[u].fd
    BY <2>1 DEF OpenDevDoes, SpTo, HasHandle, InTable
  <2>3. PICK f \in FdNumbers : fdOf[t[1]][f] = NoPort /\ sp'[t].fd = f
    BY <2>1 DEF OpenDevDoes, SpTo
  <2>4. \A u \in SpThreads : u[1] = t[1] => sp[u].pc # "reopen"
    BY <2>1 DEF OpenDevDoes, Flowing
  <2>5. ASSUME NEW u \in SpThreads, u # t, u[1] = t[1], HasHandle(u)' \/ InTable(u)' PROVE sp'[u].fd # f
    <3>1. HasHandle(u)
      BY <2>2, <2>4, <2>5 DEF HasHandle, InTable
    <3>2. fdOf[u[1]][sp[u].fd] = sp[u].port /\ sp[u].port # NoPort
      BY <1>0, <3>1 DEF HandlesRight, SpInv, ThreadsTyped, HasHandle
    <3>3. QED
      BY <2>2, <2>3, <2>5, <3>2
  <2>6. QED
    BY <1>0, <2>2, <2>3, <2>5 DEF HandlesApart
<1>4. ASSUME NEW t \in SpThreads, OpenFails(t) PROVE HandlesApart'
  <2>1. OpenFailsDoes(t)
    BY <1>4, OpenFailsDoesLemma
  <2>2. \A u \in SpThreads : (HasHandle(u)' \/ InTable(u)') => (HasHandle(u) \/ InTable(u)) /\ sp'[u].fd = sp[u].fd
    BY <2>1 DEF OpenFailsDoes, SpTo, HasHandle, InTable
  <2>3. QED
    BY <1>0, <2>2 DEF HandlesApart
<1>5. ASSUME NEW t \in SpThreads, FindEntry(t) PROVE HandlesApart'
  <2>1. FindEntryDoes(t)
    BY <1>5, FindEntryDoesLemma
  <2>2. \A u \in SpThreads : (HasHandle(u)' \/ InTable(u)') => (HasHandle(u) \/ InTable(u)) /\ sp'[u].fd = sp[u].fd
    BY <2>1 DEF FindEntryDoes, SpTo, HasHandle, InTable
  <2>3. QED
    BY <1>0, <2>2 DEF HandlesApart
<1>6. ASSUME NEW t \in SpThreads, FillEntry(t) PROVE HandlesApart'
  <2>1. FillEntryDoes(t)
    BY <1>6, FillEntryDoesLemma
  <2>2. \A u \in SpThreads : (HasHandle(u)' \/ InTable(u)') => (HasHandle(u) \/ InTable(u)) /\ sp'[u].fd = sp[u].fd
    BY <2>1 DEF FillEntryDoes, SpTo, HasHandle, InTable
  <2>3. QED
    BY <1>0, <2>2 DEF HandlesApart
<1>7. ASSUME NEW t \in SpThreads, FlowClose(t) PROVE HandlesApart'
  <2>1. FlowCloseDoes(t)
    BY <1>7, FlowCloseDoesLemma
  <2>2. \A u \in SpThreads : (HasHandle(u)' \/ InTable(u)') => (HasHandle(u) \/ InTable(u)) /\ sp'[u].fd = sp[u].fd
    BY <2>1 DEF FlowCloseDoes, SpTo, HasHandle, InTable
  <2>3. QED
    BY <1>0, <2>2 DEF HandlesApart
<1>8. ASSUME NEW t \in SpThreads, FlowOpen(t) PROVE HandlesApart'
  <2>1. FlowOpenDoes(t)
    BY <1>8, FlowOpenDoesLemma
  <2>2. \A u \in SpThreads : (HasHandle(u)' \/ InTable(u)') => (HasHandle(u) \/ InTable(u)) /\ sp'[u].fd = sp[u].fd
    BY <2>1 DEF FlowOpenDoes, SpTo, HasHandle, InTable
  <2>3. QED
    BY <1>0, <2>2 DEF HandlesApart
<1>9. ASSUME NEW t \in SpThreads, Unlock(t) PROVE HandlesApart'
  <2>1. UnlockPortDoes(t)
    BY <1>9, UnlockPortDoesLemma
  <2>2. \A u \in SpThreads : (HasHandle(u)' \/ InTable(u)') => (HasHandle(u) \/ InTable(u)) /\ sp'[u].fd = sp[u].fd
    BY <2>1 DEF UnlockPortDoes, SpTo, HasHandle, InTable
  <2>3. QED
    BY <1>0, <2>2 DEF HandlesApart
<1>10. ASSUME NEW t \in SpThreads, CloseDev(t) PROVE HandlesApart'
  <2>1. CloseDevDoes(t)
    BY <1>10, CloseDevDoesLemma
  <2>2. \A u \in SpThreads : (HasHandle(u)' \/ InTable(u)') => (HasHandle(u) \/ InTable(u)) /\ sp'[u].fd = sp[u].fd
    BY <2>1 DEF CloseDevDoes, SpTo, HasHandle, InTable
  <2>3. QED
    BY <1>0, <2>2 DEF HandlesApart
<1>11. ASSUME NEW p \in SpProcs, Dies(p) PROVE HandlesApart'
  <2>1. DiesDoes(p)
    BY <1>11, DiesDoesLemma
  <2>2. \A u \in SpThreads : (HasHandle(u)' \/ InTable(u)') => (HasHandle(u) \/ InTable(u)) /\ sp'[u].fd = sp[u].fd
    BY <2>1 DEF DiesDoes, HasHandle, InTable
  <2>3. QED
    BY <1>0, <2>2 DEF HandlesApart
<1>12. CASE UNCHANGED spVars
  BY <1>0, <1>12 DEF spVars, HandlesApart, HasHandle, InTable
<1>13. QED
  BY <1>1, <1>2, <1>3, <1>4, <1>5, <1>6, <1>7, <1>8, <1>9, <1>10, <1>11, <1>12 DEF SpNext

(* An entry is of a thread that has the port open.                         *)
LEMMA SpNextOwned ==
  ASSUME SpInv, [SpNext]_spVars, ~lateFlow'
  PROVE  EntryOwned'
<1>0. ~lateFlow /\ EntryOwned /\ EntryOnce /\ HandlesApart
  BY LateFlowStays DEF SpInv
<1>1. ASSUME NEW t \in SpThreads, LockTest(t) PROVE EntryOwned'
  <2>1. LockTestDoes(t)
    BY <1>1, LockTestDoesLemma
  <2>2. /\ UNCHANGED fdTab
        /\ \A u \in SpThreads : InTable(u) => InTable(u)' /\ sp'[u].fd = sp[u].fd /\ sp'[u].port = sp[u].port
    BY <2>1 DEF LockTestDoes, SpTo, InTable
  <2>3. QED
    BY <1>0, <2>2 DEF EntryOwned
<1>2. ASSUME NEW t \in SpThreads, LockWrite(t) PROVE EntryOwned'
  <2>1. LockWriteDoes(t)
    BY <1>2, LockWriteDoesLemma
  <2>2. /\ UNCHANGED fdTab
        /\ \A u \in SpThreads : InTable(u) => InTable(u)' /\ sp'[u].fd = sp[u].fd /\ sp'[u].port = sp[u].port
    BY <2>1 DEF LockWriteDoes, SpTo, InTable
  <2>3. QED
    BY <1>0, <2>2 DEF EntryOwned
<1>3. ASSUME NEW t \in SpThreads, OpenDev(t) PROVE EntryOwned'
  <2>1. OpenDevDoes(t)
    BY <1>3, OpenDevDoesLemma
  <2>2. /\ UNCHANGED fdTab
        /\ \A u \in SpThreads : InTable(u) => InTable(u)' /\ sp'[u].fd = sp[u].fd /\ sp'[u].port = sp[u].port
    BY <2>1 DEF OpenDevDoes, SpTo, InTable
  <2>3. QED
    BY <1>0, <2>2 DEF EntryOwned
<1>4. ASSUME NEW t \in SpThreads, OpenFails(t) PROVE EntryOwned'
  <2>1. OpenFailsDoes(t)
    BY <1>4, OpenFailsDoesLemma
  <2>2. /\ UNCHANGED fdTab
        /\ \A u \in SpThreads : InTable(u) => InTable(u)' /\ sp'[u].fd = sp[u].fd /\ sp'[u].port = sp[u].port
    BY <2>1 DEF OpenFailsDoes, SpTo, InTable
  <2>3. QED
    BY <1>0, <2>2 DEF EntryOwned
<1>5. ASSUME NEW t \in SpThreads, FindEntry(t) PROVE EntryOwned'
  <2>1. FindEntryDoes(t)
    BY <1>5, FindEntryDoesLemma
  <2>2. /\ UNCHANGED fdTab
        /\ \A u \in SpThreads : InTable(u) => InTable(u)' /\ sp'[u].fd = sp[u].fd /\ sp'[u].port = sp[u].port
    BY <2>1 DEF FindEntryDoes, SpTo, InTable
  <2>3. QED
    BY <1>0, <2>2 DEF EntryOwned
<1>6. ASSUME NEW t \in SpThreads, FillEntry(t) PROVE EntryOwned'
  <2>1. FillEntryDoes(t)
    BY <1>6, FillEntryDoesLemma
  <2>2. /\ \A u \in SpThreads : InTable(u) => InTable(u)' /\ sp'[u].fd = sp[u].fd /\ sp'[u].port = sp[u].port
        /\ InTable(t)' /\ sp'[t].fd = sp[t].fd /\ sp'[t].port = sp[t].port
        /\ TabSet(t[1], sp[t].slot, <<sp[t].fd, sp[t].port>>)
    BY <2>1 DEF FillEntryDoes, SpTo, InTable
  <2>3. ASSUME NEW q \in SpProcs, NEW j \in 1 .. MaxFd, fdTab'[q][j] # NoEntry
        PROVE  \E u \in SpThreads : u[1] = q /\ InTable(u)' /\ fdTab'[q][j] = <<sp'[u].fd, sp'[u].port>>
    <3>1. CASE q = t[1] /\ j = sp[t].slot
      BY <2>2, <3>1 DEF TabSet
    <3>2. CASE q # t[1] \/ j # sp[t].slot
      <4>1. fdTab'[q][j] = fdTab[q][j]
        BY <2>2, <3>2 DEF TabSet
      <4>2. PICK u \in SpThreads : u[1] = q /\ InTable(u) /\ fdTab[q][j] = <<sp[u].fd, sp[u].port>>
        BY <1>0, <2>3, <4>1 DEF EntryOwned
      <4>3. QED
        BY <2>2, <4>1, <4>2
    <3>3. QED
      BY <3>1, <3>2
  <2>4. QED
    BY <2>3 DEF EntryOwned
<1>7. ASSUME NEW t \in SpThreads, FlowClose(t) PROVE EntryOwned'
  <2>1. FlowCloseDoes(t)
    BY <1>7, FlowCloseDoesLemma
  <2>2. /\ UNCHANGED fdTab
        /\ \A u \in SpThreads : InTable(u) => InTable(u)' /\ sp'[u].fd = sp[u].fd /\ sp'[u].port = sp[u].port
    BY <2>1 DEF FlowCloseDoes, SpTo, InTable
  <2>3. QED
    BY <1>0, <2>2 DEF EntryOwned
<1>8. ASSUME NEW t \in SpThreads, FlowOpen(t) PROVE EntryOwned'
  <2>1. FlowOpenDoes(t)
    BY <1>8, FlowOpenDoesLemma
  <2>2. /\ UNCHANGED fdTab
        /\ \A u \in SpThreads : InTable(u) => InTable(u)' /\ sp'[u].fd = sp[u].fd /\ sp'[u].port = sp[u].port
    BY <2>1 DEF FlowOpenDoes, SpTo, InTable
  <2>3. QED
    BY <1>0, <2>2 DEF EntryOwned
<1>9. ASSUME NEW t \in SpThreads, Unlock(t) PROVE EntryOwned'
  <2>1. UnlockPortDoes(t)
    BY <1>9, UnlockPortDoesLemma
  <2>2. /\ \A u \in SpThreads : u # t => (InTable(u) => InTable(u)') /\ sp'[u].fd = sp[u].fd /\ sp'[u].port = sp[u].port
        /\ t[1] \in SpProcs
    BY <2>1, ThreadHasProcess DEF UnlockPortDoes, SpTo, InTable
  <2>3. ASSUME NEW q \in SpProcs, NEW j \in 1 .. MaxFd, fdTab'[q][j] # NoEntry
        PROVE  \E u \in SpThreads : u[1] = q /\ InTable(u)' /\ fdTab'[q][j] = <<sp'[u].fd, sp'[u].port>>
    <3>1. fdTab'[q][j] = fdTab[q][j] /\ (q = t[1] => fdTab[q][j][1] # sp[t].fd)
      <4>1. CASE /\ \A i \in 1 .. MaxFd : fdTab[t[1]][i] # NoEntry => fdTab[t[1]][i][1] # sp[t].fd
                 /\ UNCHANGED fdTab
        BY <2>3, <4>1
      <4>2. ASSUME NEW i \in 1 .. MaxFd, fdTab[t[1]][i] # NoEntry, fdTab[t[1]][i][1] = sp[t].fd, TabSet(t[1], i, NoEntry)
            PROVE  fdTab'[q][j] = fdTab[q][j] /\ (q = t[1] => fdTab[q][j][1] # sp[t].fd)
        <5>1. q # t[1] \/ j # i
          BY <2>3, <4>2 DEF TabSet
        <5>2. fdTab'[q][j] = fdTab[q][j]
          BY <4>2, <5>1 DEF TabSet
        <5>3. q = t[1] => fdTab[q][j][1] # sp[t].fd
          BY <1>0, <2>2, <2>3, <4>2, <5>1, <5>2 DEF EntryOnce
        <5>4. QED
          BY <5>2, <5>3
      <4>3. QED
        BY <2>1, <4>1, <4>2 DEF UnlockPortDoes
    <3>2. PICK u \in SpThreads : u[1] = q /\ InTable(u) /\ fdTab[q][j] = <<sp[u].fd, sp[u].port>>
      BY <1>0, <2>3, <3>1 DEF EntryOwned
    <3>3. u # t
      BY <3>1, <3>2
    <3>4. QED
      BY <2>2, <3>1, <3>2, <3>3
  <2>4. QED
    BY <2>3 DEF EntryOwned
<1>10. ASSUME NEW t \in SpThreads, CloseDev(t) PROVE EntryOwned'
  <2>1. CloseDevDoes(t)
    BY <1>10, CloseDevDoesLemma
  <2>2. /\ UNCHANGED fdTab
        /\ \A u \in SpThreads : InTable(u) => InTable(u)' /\ sp'[u].fd = sp[u].fd /\ sp'[u].port = sp[u].port
    BY <2>1 DEF CloseDevDoes, SpTo, InTable
  <2>3. QED
    BY <1>0, <2>2 DEF EntryOwned
<1>11. ASSUME NEW p \in SpProcs, Dies(p) PROVE EntryOwned'
  <2>1. DiesDoes(p)
    BY <1>11, DiesDoesLemma
  <2>2. \A u \in SpThreads : u[1] # p => (InTable(u) => InTable(u)') /\ sp'[u] = sp[u]
    BY <2>1 DEF DiesDoes, InTable
  <2>3. ASSUME NEW q \in SpProcs, NEW j \in 1 .. MaxFd, fdTab'[q][j] # NoEntry
        PROVE  \E u \in SpThreads : u[1] = q /\ InTable(u)' /\ fdTab'[q][j] = <<sp'[u].fd, sp'[u].port>>
    <3>1. q # p /\ fdTab'[q] = fdTab[q]
      BY <2>1, <2>3 DEF DiesDoes
    <3>2. PICK u \in SpThreads : u[1] = q /\ InTable(u) /\ fdTab[q][j] = <<sp[u].fd, sp[u].port>>
      BY <1>0, <2>3, <3>1 DEF EntryOwned
    <3>3. QED
      BY <2>2, <3>1, <3>2
  <2>4. QED
    BY <2>3 DEF EntryOwned
<1>12. CASE UNCHANGED spVars
  BY <1>0, <1>12 DEF spVars, EntryOwned, InTable
<1>13. QED
  BY <1>1, <1>2, <1>3, <1>4, <1>5, <1>6, <1>7, <1>8, <1>9, <1>10, <1>11, <1>12 DEF SpNext

(* A number has one entry.                                                 *)
LEMMA SpNextOnce ==
  ASSUME SpInv, [SpNext]_spVars, ~lateFlow'
  PROVE  EntryOnce'
<1>0. ~lateFlow /\ EntryOnce /\ EntryOwned /\ HandlesApart
  BY LateFlowStays DEF SpInv
<1>1. ASSUME NEW t \in SpThreads, LockTest(t) PROVE EntryOnce'
  <2>1. LockTestDoes(t)
    BY <1>1, LockTestDoesLemma
  <2>2. UNCHANGED fdTab
    BY <2>1 DEF LockTestDoes
  <2>3. QED
    BY <1>0, <2>2 DEF EntryOnce
<1>2. ASSUME NEW t \in SpThreads, LockWrite(t) PROVE EntryOnce'
  <2>1. LockWriteDoes(t)
    BY <1>2, LockWriteDoesLemma
  <2>2. UNCHANGED fdTab
    BY <2>1 DEF LockWriteDoes
  <2>3. QED
    BY <1>0, <2>2 DEF EntryOnce
<1>3. ASSUME NEW t \in SpThreads, OpenDev(t) PROVE EntryOnce'
  <2>1. OpenDevDoes(t)
    BY <1>3, OpenDevDoesLemma
  <2>2. UNCHANGED fdTab
    BY <2>1 DEF OpenDevDoes
  <2>3. QED
    BY <1>0, <2>2 DEF EntryOnce
<1>4. ASSUME NEW t \in SpThreads, OpenFails(t) PROVE EntryOnce'
  <2>1. OpenFailsDoes(t)
    BY <1>4, OpenFailsDoesLemma
  <2>2. UNCHANGED fdTab
    BY <2>1 DEF OpenFailsDoes
  <2>3. QED
    BY <1>0, <2>2 DEF EntryOnce
<1>5. ASSUME NEW t \in SpThreads, FindEntry(t) PROVE EntryOnce'
  <2>1. FindEntryDoes(t)
    BY <1>5, FindEntryDoesLemma
  <2>2. UNCHANGED fdTab
    BY <2>1 DEF FindEntryDoes
  <2>3. QED
    BY <1>0, <2>2 DEF EntryOnce
<1>6. ASSUME NEW t \in SpThreads, FillEntry(t) PROVE EntryOnce'
  <2>1. FillEntryDoes(t)
    BY <1>6, FillEntryDoesLemma
  <2>2. /\ TabSet(t[1], sp[t].slot, <<sp[t].fd, sp[t].port>>) /\ HasHandle(t) /\ ~InTable(t)
        /\ t[1] \in SpProcs
    BY <2>1, ThreadHasProcess DEF FillEntryDoes, SpTo, HasHandle, InTable
  <2>3. ASSUME NEW j \in 1 .. MaxFd, fdTab[t[1]][j] # NoEntry PROVE fdTab[t[1]][j][1] # sp[t].fd
    <3>1. PICK u \in SpThreads : u[1] = t[1] /\ InTable(u) /\ fdTab[t[1]][j] = <<sp[u].fd, sp[u].port>>
      BY <1>0, <2>2, <2>3 DEF EntryOwned
    <3>2. u # t
      BY <2>2, <3>1
    <3>3. sp[u].fd # sp[t].fd
      BY <1>0, <2>2, <3>1, <3>2 DEF HandlesApart
    <3>4. QED
      BY <3>1, <3>3
  <2>4. ASSUME NEW q \in SpProcs, NEW i \in 1 .. MaxFd, NEW j \in 1 .. MaxFd,
               fdTab'[q][i] # NoEntry, fdTab'[q][j] # NoEntry, fdTab'[q][i][1] = fdTab'[q][j][1]
        PROVE  i = j
    <3>1. CASE q # t[1]
      BY <1>0, <2>2, <2>4, <3>1 DEF EntryOnce, TabSet
    <3>2. CASE q = t[1]
      <4>1. \A k \in 1 .. MaxFd : k # sp[t].slot => fdTab'[q][k] = fdTab[q][k]
        BY <2>2, <3>2 DEF TabSet
      <4>2. fdTab'[q][sp[t].slot][1] = sp[t].fd
        BY <2>2, <3>2 DEF TabSet
      <4>3. CASE i = sp[t].slot
        BY <2>3, <2>4, <3>2, <4>1, <4>2, <4>3
      <4>4. CASE j = sp[t].slot
        BY <2>3, <2>4, <3>2, <4>1, <4>2, <4>4
      <4>5. CASE i # sp[t].slot /\ j # sp[t].slot
        BY <1>0, <2>4, <4>1, <4>5 DEF EntryOnce
      <4>6. QED
        BY <4>3, <4>4, <4>5
    <3>3. QED
      BY <3>1, <3>2
  <2>5. QED
    BY <2>4 DEF EntryOnce
<1>7. ASSUME NEW t \in SpThreads, FlowClose(t) PROVE EntryOnce'
  <2>1. FlowCloseDoes(t)
    BY <1>7, FlowCloseDoesLemma
  <2>2. UNCHANGED fdTab
    BY <2>1 DEF FlowCloseDoes
  <2>3. QED
    BY <1>0, <2>2 DEF EntryOnce
<1>8. ASSUME NEW t \in SpThreads, FlowOpen(t) PROVE EntryOnce'
  <2>1. FlowOpenDoes(t)
    BY <1>8, FlowOpenDoesLemma
  <2>2. UNCHANGED fdTab
    BY <2>1 DEF FlowOpenDoes
  <2>3. QED
    BY <1>0, <2>2 DEF EntryOnce
<1>9. ASSUME NEW t \in SpThreads, Unlock(t) PROVE EntryOnce'
  <2>1. UnlockPortDoes(t)
    BY <1>9, UnlockPortDoesLemma
  <2>2. \A q \in SpProcs : \A j \in 1 .. MaxFd : fdTab'[q][j] # NoEntry => fdTab'[q][j] = fdTab[q][j]
    BY <2>1 DEF UnlockPortDoes, TabSet
  <2>3. QED
    BY <1>0, <2>2 DEF EntryOnce
<1>10. ASSUME NEW t \in SpThreads, CloseDev(t) PROVE EntryOnce'
  <2>1. CloseDevDoes(t)
    BY <1>10, CloseDevDoesLemma
  <2>2. UNCHANGED fdTab
    BY <2>1 DEF CloseDevDoes
  <2>3. QED
    BY <1>0, <2>2 DEF EntryOnce
<1>11. ASSUME NEW p \in SpProcs, Dies(p) PROVE EntryOnce'
  <2>1. DiesDoes(p)
    BY <1>11, DiesDoesLemma
  <2>2. \A q \in SpProcs : \A j \in 1 .. MaxFd : fdTab'[q][j] # NoEntry => fdTab'[q][j] = fdTab[q][j]
    BY <2>1 DEF DiesDoes
  <2>3. QED
    BY <1>0, <2>2 DEF EntryOnce
<1>12. CASE UNCHANGED spVars
  BY <1>0, <1>12 DEF spVars, EntryOnce
<1>13. QED
  BY <1>1, <1>2, <1>3, <1>4, <1>5, <1>6, <1>7, <1>8, <1>9, <1>10, <1>11, <1>12 DEF SpNext

(* A thread that has a port open has an entry unless it lost it.           *)
LEMMA SpNextHad ==
  ASSUME SpInv, [SpNext]_spVars, ~lateFlow'
  PROVE  EntryHad'
<1>0. ~lateFlow /\ EntryHad /\ EntryOwned /\ HandlesApart
  BY LateFlowStays DEF SpInv
<1>1. ASSUME NEW t \in SpThreads, LockTest(t) PROVE EntryHad'
  <2>1. LockTestDoes(t)
    BY <1>1, LockTestDoesLemma
  <2>2. /\ UNCHANGED fdTab /\ lateBind \subseteq lateBind'
        /\ \A u \in SpThreads : InTable(u)' =>
             \/ sp'[u].port \in lateBind'
             \/ InTable(u) /\ sp'[u].fd = sp[u].fd /\ sp'[u].port = sp[u].port
    BY <2>1 DEF LockTestDoes, SpTo, InTable
  <2>3. QED
    BY <1>0, <2>2 DEF EntryHad
<1>2. ASSUME NEW t \in SpThreads, LockWrite(t) PROVE EntryHad'
  <2>1. LockWriteDoes(t)
    BY <1>2, LockWriteDoesLemma
  <2>2. /\ UNCHANGED fdTab /\ lateBind \subseteq lateBind'
        /\ \A u \in SpThreads : InTable(u)' =>
             \/ sp'[u].port \in lateBind'
             \/ InTable(u) /\ sp'[u].fd = sp[u].fd /\ sp'[u].port = sp[u].port
    BY <2>1 DEF LockWriteDoes, SpTo, InTable
  <2>3. QED
    BY <1>0, <2>2 DEF EntryHad
<1>3. ASSUME NEW t \in SpThreads, OpenDev(t) PROVE EntryHad'
  <2>1. OpenDevDoes(t)
    BY <1>3, OpenDevDoesLemma
  <2>2. /\ UNCHANGED fdTab /\ lateBind \subseteq lateBind'
        /\ \A u \in SpThreads : InTable(u)' =>
             \/ sp'[u].port \in lateBind'
             \/ InTable(u) /\ sp'[u].fd = sp[u].fd /\ sp'[u].port = sp[u].port
    BY <2>1 DEF OpenDevDoes, SpTo, InTable
  <2>3. QED
    BY <1>0, <2>2 DEF EntryHad
<1>4. ASSUME NEW t \in SpThreads, OpenFails(t) PROVE EntryHad'
  <2>1. OpenFailsDoes(t)
    BY <1>4, OpenFailsDoesLemma
  <2>2. /\ UNCHANGED fdTab /\ lateBind \subseteq lateBind'
        /\ \A u \in SpThreads : InTable(u)' =>
             \/ sp'[u].port \in lateBind'
             \/ InTable(u) /\ sp'[u].fd = sp[u].fd /\ sp'[u].port = sp[u].port
    BY <2>1 DEF OpenFailsDoes, SpTo, InTable
  <2>3. QED
    BY <1>0, <2>2 DEF EntryHad
<1>5. ASSUME NEW t \in SpThreads, FindEntry(t) PROVE EntryHad'
  <2>1. FindEntryDoes(t)
    BY <1>5, FindEntryDoesLemma
  <2>2. /\ UNCHANGED fdTab /\ lateBind \subseteq lateBind'
        /\ \A u \in SpThreads : InTable(u)' =>
             \/ sp'[u].port \in lateBind'
             \/ InTable(u) /\ sp'[u].fd = sp[u].fd /\ sp'[u].port = sp[u].port
    BY <2>1 DEF FindEntryDoes, SpTo, InTable
  <2>3. QED
    BY <1>0, <2>2 DEF EntryHad
<1>6. ASSUME NEW t \in SpThreads, FillEntry(t) PROVE EntryHad'
  <2>1. FillEntryDoes(t)
    BY <1>6, FillEntryDoesLemma
  <2>2. /\ TabSet(t[1], sp[t].slot, <<sp[t].fd, sp[t].port>>) /\ sp[t].slot \in 1 .. MaxFd
        /\ sp'[t].fd = sp[t].fd /\ sp'[t].port = sp[t].port /\ lateBind \subseteq lateBind'
        /\ fdTab[t[1]][sp[t].slot] # NoEntry => fdTab[t[1]][sp[t].slot][2] \in lateBind'
        /\ \A u \in SpThreads : u # t => sp'[u] = sp[u] /\ (InTable(u)' => InTable(u))
    BY <2>1 DEF FillEntryDoes, SpTo, InTable
  <2>3. fdTab'[t[1]][sp[t].slot] = <<sp[t].fd, sp[t].port>>
    BY <2>2 DEF TabSet
  <2>4. ASSUME NEW u \in SpThreads, u # t, InTable(u)', sp[u].port \notin lateBind'
        PROVE  \E i \in 1 .. MaxFd : fdTab'[u[1]][i] = <<sp[u].fd, sp[u].port>>
    <3>1. PICK i \in 1 .. MaxFd : fdTab[u[1]][i] = <<sp[u].fd, sp[u].port>>
      BY <1>0, <2>2, <2>4 DEF EntryHad
    <3>2. u[1] # t[1] \/ i # sp[t].slot
      <4>1. ASSUME u[1] = t[1], i = sp[t].slot PROVE FALSE
        <5>1. fdTab[t[1]][sp[t].slot] = <<sp[u].fd, sp[u].port>>
          BY <3>1, <4>1
        <5>2. fdTab[t[1]][sp[t].slot] # NoEntry /\ fdTab[t[1]][sp[t].slot][2] = sp[u].port
          BY <5>1 DEF NoEntry
        <5>3. QED
          BY <2>2, <2>4, <5>2
      <4>2. QED
        BY <4>1
    <3>3. fdTab'[u[1]][i] = fdTab[u[1]][i]
      BY <2>2, <3>2, ThreadHasProcess DEF TabSet
    <3>4. QED
      BY <3>1, <3>3
  <2>5. QED
    BY <2>2, <2>3, <2>4 DEF EntryHad
<1>7. ASSUME NEW t \in SpThreads, FlowClose(t) PROVE EntryHad'
  <2>1. FlowCloseDoes(t)
    BY <1>7, FlowCloseDoesLemma
  <2>2. /\ UNCHANGED fdTab /\ lateBind \subseteq lateBind'
        /\ \A u \in SpThreads : InTable(u)' =>
             \/ sp'[u].port \in lateBind'
             \/ InTable(u) /\ sp'[u].fd = sp[u].fd /\ sp'[u].port = sp[u].port
    BY <2>1 DEF FlowCloseDoes, SpTo, InTable
  <2>3. QED
    BY <1>0, <2>2 DEF EntryHad
<1>8. ASSUME NEW t \in SpThreads, FlowOpen(t) PROVE EntryHad'
  <2>1. FlowOpenDoes(t)
    BY <1>8, FlowOpenDoesLemma
  <2>2. /\ UNCHANGED fdTab /\ lateBind \subseteq lateBind'
        /\ \A u \in SpThreads : InTable(u)' =>
             \/ sp'[u].port \in lateBind'
             \/ InTable(u) /\ sp'[u].fd = sp[u].fd /\ sp'[u].port = sp[u].port
    BY <2>1 DEF FlowOpenDoes, SpTo, InTable
  <2>3. QED
    BY <1>0, <2>2 DEF EntryHad
<1>9. ASSUME NEW t \in SpThreads, Unlock(t) PROVE EntryHad'
  <2>1. UnlockPortDoes(t)
    BY <1>9, UnlockPortDoesLemma
  <2>2. /\ UNCHANGED lateBind /\ ~InTable(t)' /\ InTable(t)
        /\ \A u \in SpThreads : u # t => sp'[u] = sp[u] /\ (InTable(u)' => InTable(u))
    BY <2>1 DEF UnlockPortDoes, SpTo, InTable
  <2>3. ASSUME NEW u \in SpThreads, u # t, InTable(u), sp[u].port \notin lateBind
        PROVE  \E i \in 1 .. MaxFd : fdTab'[u[1]][i] = <<sp[u].fd, sp[u].port>>
    <3>1. PICK i \in 1 .. MaxFd : fdTab[u[1]][i] = <<sp[u].fd, sp[u].port>>
      BY <1>0, <2>3 DEF EntryHad
    <3>2. u[1] \in SpProcs /\ (u[1] = t[1] => sp[u].fd # sp[t].fd)
      BY <1>0, <2>2, <2>3, ThreadHasProcess DEF HandlesApart
    <3>3. fdTab'[u[1]][i] = fdTab[u[1]][i]
      <4>1. CASE UNCHANGED fdTab
        BY <4>1
      <4>2. ASSUME NEW j \in 1 .. MaxFd, fdTab[t[1]][j][1] = sp[t].fd, TabSet(t[1], j, NoEntry)
            PROVE  fdTab'[u[1]][i] = fdTab[u[1]][i]
        <5>1. fdTab[u[1]][i][1] = sp[u].fd
          BY <3>1
        <5>2. u[1] # t[1] \/ i # j
          BY <3>2, <4>2, <5>1
        <5>3. QED
          BY <3>2, <4>2, <5>2 DEF TabSet
      <4>3. QED
        BY <2>1, <4>1, <4>2 DEF UnlockPortDoes
    <3>4. QED
      BY <3>1, <3>3
  <2>4. QED
    BY <2>2, <2>3 DEF EntryHad
<1>10. ASSUME NEW t \in SpThreads, CloseDev(t) PROVE EntryHad'
  <2>1. CloseDevDoes(t)
    BY <1>10, CloseDevDoesLemma
  <2>2. /\ UNCHANGED fdTab /\ lateBind \subseteq lateBind'
        /\ \A u \in SpThreads : InTable(u)' =>
             \/ sp'[u].port \in lateBind'
             \/ InTable(u) /\ sp'[u].fd = sp[u].fd /\ sp'[u].port = sp[u].port
    BY <2>1 DEF CloseDevDoes, SpTo, InTable
  <2>3. QED
    BY <1>0, <2>2 DEF EntryHad
<1>11. ASSUME NEW p \in SpProcs, Dies(p) PROVE EntryHad'
  <2>1. DiesDoes(p)
    BY <1>11, DiesDoesLemma
  <2>2. ASSUME NEW u \in SpThreads, InTable(u)'
        PROVE  \/ sp'[u].port \in lateBind'
               \/ \E i \in 1 .. MaxFd : fdTab'[u[1]][i] = <<sp'[u].fd, sp'[u].port>>
    <3>1. u[1] # p /\ u[1] \in SpProcs
      BY <2>1, <2>2, ThreadHasProcess DEF DiesDoes, InTable
    <3>2. sp'[u] = sp[u] /\ fdTab'[u[1]] = fdTab[u[1]] /\ UNCHANGED lateBind /\ InTable(u)
      BY <2>1, <2>2, <3>1 DEF DiesDoes, InTable
    <3>3. QED
      BY <1>0, <3>2 DEF EntryHad
  <2>3. QED
    BY <2>2 DEF EntryHad
<1>12. CASE UNCHANGED spVars
  BY <1>0, <1>12 DEF spVars, EntryHad, InTable
<1>13. QED
  BY <1>1, <1>2, <1>3, <1>4, <1>5, <1>6, <1>7, <1>8, <1>9, <1>10, <1>11, <1>12 DEF SpNext

(* The types.                                                              *)
LEMMA SpNextTypes ==
  ASSUME SpInv, [SpNext]_spVars
  PROVE  SpTypes'
<1>0. SpTypes
  BY DEF SpInv
<1>1. ASSUME NEW t \in SpThreads, LockTest(t) PROVE SpTypes'
  <2>1. LockTestDoes(t)
    BY <1>1, LockTestDoesLemma
  <2>2. PICK d \in Ports : sp' = [sp EXCEPT ![t] =
           IF IsLocked(d) THEN Nothing ELSE [Nothing EXCEPT !.pc = "lock", !.port = d]]
    BY <1>1 DEF LockTest
  <2>3. Nothing \in ThreadStates /\ [Nothing EXCEPT !.pc = "lock", !.port = d] \in ThreadStates
    <3>1. 0 \in 0 .. MaxFd
      BY SerialPortAssumption
    <3>2. QED
      BY <3>1 DEF Nothing, ThreadStates
  <2>4. sp' \in [SpThreads -> ThreadStates]
    BY <1>0, <2>2, <2>3 DEF SpTypes
  <2>5. lateLock' \subseteq Ports /\ portOpens' \in Nat
    BY <1>0, <1>1 DEF SpTypes, LockTest
  <2>6. UNCHANGED <<portLock, spLife, fdOf, fdTab, lateBind, lateFlow>>
    BY <1>1 DEF LockTest
  <2>7. QED
    BY <1>0, <2>4, <2>5, <2>6 DEF SpTypes
<1>2. ASSUME NEW t \in SpThreads, LockWrite(t) PROVE SpTypes'
  <2>1. LockWriteDoes(t)
    BY <1>2, LockWriteDoesLemma
  <2>2. sp' = [sp EXCEPT ![t] = [@ EXCEPT !.pc = "open"]]
    BY <1>2 DEF LockWrite, Moves
  <2>3. PidOf(t[1]) \in SpProcs \X Nat
    BY <1>0, ThreadHasProcess DEF SpTypes, PidOf
  <2>4. portLock' \in [Ports -> (SpProcs \X Nat) \cup {SpNoPid}]
    BY <1>0, <1>2, <2>3 DEF SpTypes, LockWrite
  <2>5. UNCHANGED <<spLife, fdOf, fdTab, portOpens, lateLock, lateBind, lateFlow>>
    BY <1>2 DEF LockWrite
  <2>6. [sp[t] EXCEPT !.pc = "open"] \in ThreadStates
    BY <1>0 DEF SpTypes, ThreadStates
  <2>7. sp' \in [SpThreads -> ThreadStates]
    BY <1>0, <2>2, <2>6 DEF SpTypes
  <2>8. QED
    BY <1>0, <2>4, <2>5, <2>7 DEF SpTypes
<1>3. ASSUME NEW t \in SpThreads, OpenDev(t) PROVE SpTypes'
  <2>1. OpenDevDoes(t)
    BY <1>3, OpenDevDoesLemma
  <2>2. PICK f \in FdNumbers : sp' = [sp EXCEPT ![t] = [@ EXCEPT !.pc = "find", !.fd = f]]
                            /\ fdOf' = [fdOf EXCEPT ![t[1]][f] = sp[t].port]
    BY LowestFdIsFree, ThreadHasProcess, <1>3 DEF OpenDev
  <2>3. sp[t] \in ThreadStates /\ sp[t].port \in Ports
    BY <1>0, <2>1 DEF SpTypes, OpenDevDoes
  <2>4. [sp[t] EXCEPT !.pc = "find", !.fd = f] \in ThreadStates
    BY <2>3 DEF ThreadStates
  <2>5. sp' \in [SpThreads -> ThreadStates]
    BY <1>0, <2>2, <2>4 DEF SpTypes
  <2>6. fdOf' \in [SpProcs -> [FdNumbers -> Ports \cup {NoPort}]]
    BY <1>0, <2>2, <2>3 DEF SpTypes
  <2>7. lateFlow' \in BOOLEAN
    BY <1>3 DEF OpenDev, Flowing
  <2>8. UNCHANGED <<portLock, spLife, fdTab, portOpens, lateLock, lateBind>>
    BY <1>3 DEF OpenDev
  <2>9. QED
    BY <1>0, <2>5, <2>6, <2>7, <2>8 DEF SpTypes
<1>4. ASSUME NEW t \in SpThreads, OpenFails(t) PROVE SpTypes'
  <2>1. OpenFailsDoes(t)
    BY <1>4, OpenFailsDoesLemma
  <2>2. sp' = [sp EXCEPT ![t] = Nothing] /\ Nothing \in ThreadStates
    BY <1>4, SerialPortAssumption DEF OpenFails, Nothing, ThreadStates
  <2>3. sp' \in [SpThreads -> ThreadStates]
    BY <1>0, <2>2 DEF SpTypes
  <2>4. portLock' \in [Ports -> (SpProcs \X Nat) \cup {SpNoPid}]
    BY <1>0, <1>4 DEF SpTypes, OpenFails, UnlockFailed
  <2>5. UNCHANGED <<spLife, fdOf, fdTab, portOpens, lateLock, lateBind, lateFlow>>
    BY <1>4 DEF OpenFails
  <2>6. QED
    BY <1>0, <2>3, <2>4, <2>5 DEF SpTypes
<1>5. ASSUME NEW t \in SpThreads, FindEntry(t) PROVE SpTypes'
  <2>1. FindEntryDoes(t)
    BY <1>5, FindEntryDoesLemma
  <2>2. sp[t] \in ThreadStates /\ sp[t].pc = "find" /\ sp[t].port \in Ports
    BY <1>0, <1>5 DEF SpTypes, ThreadStates, SpInv, ThreadsTyped, FindEntry
  <2>3. PICK x \in ThreadStates : sp' = [sp EXCEPT ![t] = x]
    <3>1. CASE FreeEntries(t[1]) = {}
      <4>1. sp' = [sp EXCEPT ![t] = [@ EXCEPT !.pc = "have"]]
        BY <1>5, <3>1 DEF FindEntry, Moves
      <4>2. [sp[t] EXCEPT !.pc = "have"] \in ThreadStates
        BY <2>2 DEF ThreadStates
      <4>3. QED
        BY <4>1, <4>2
    <3>2. CASE FreeEntries(t[1]) # {}
      <4>1. PICK i : sp' = [sp EXCEPT ![t] = [@ EXCEPT !.pc = "fill", !.slot = i]]
        BY <1>5, <3>2 DEF FindEntry
      <4>2. sp'[t].slot = i /\ sp'[t].pc = "fill"
        BY <1>0, <2>2, <4>1 DEF SpTypes, ThreadStates
      <4>3. i \in 1 .. MaxFd
        BY <2>1, <4>2 DEF FindEntryDoes, SpTo
      <4>4. [sp[t] EXCEPT !.pc = "fill", !.slot = i] \in ThreadStates
        <5>1. i \in 0 .. MaxFd
          BY <4>3, SerialPortAssumption
        <5>2. QED
          BY <2>2, <5>1 DEF ThreadStates
      <4>5. QED
        BY <4>1, <4>4
    <3>3. QED
      BY <3>1, <3>2
  <2>4. sp' \in [SpThreads -> ThreadStates]
    BY <1>0, <2>3 DEF SpTypes
  <2>5. lateBind' \subseteq Ports
    BY <1>0, <2>1, <2>2 DEF SpTypes, FindEntryDoes
  <2>6. UNCHANGED <<portLock, spLife, fdOf, fdTab, portOpens, lateLock, lateFlow>>
    BY <1>5 DEF FindEntry
  <2>7. QED
    BY <1>0, <2>4, <2>5, <2>6 DEF SpTypes
<1>6. ASSUME NEW t \in SpThreads, FillEntry(t) PROVE SpTypes'
  <2>1. FillEntryDoes(t)
    BY <1>6, FillEntryDoesLemma
  <2>2. sp' = [sp EXCEPT ![t] = [@ EXCEPT !.pc = "have"]]
    BY <1>6 DEF FillEntry, Moves
  <2>3. sp[t].fd \in FdNumbers /\ sp[t].port \in Ports /\ sp[t].slot \in 1 .. MaxFd /\ t[1] \in SpProcs
    BY <1>0, <1>6, ThreadHasProcess DEF SpTypes, ThreadStates, SpInv, ThreadsTyped, HasHandle, FillEntry
  <2>4. <<sp[t].fd, sp[t].port>> \in Entries
    BY <2>3 DEF Entries
  <2>5. fdTab' = [fdTab EXCEPT ![t[1]][sp[t].slot] = <<sp[t].fd, sp[t].port>>]
    BY <1>6 DEF FillEntry
  <2>6. fdTab' \in [SpProcs -> [1 .. MaxFd -> Entries]]
    BY <1>0, <2>3, <2>4, <2>5 DEF SpTypes
  <2>7. lateBind' \subseteq Ports
    <3>1. fdTab[t[1]][sp[t].slot] \in Entries
      BY <1>0, <2>3 DEF SpTypes
    <3>2. fdTab[t[1]][sp[t].slot] # NoEntry => fdTab[t[1]][sp[t].slot][2] \in Ports
      BY <3>1 DEF Entries
    <3>3. QED
      BY <1>0, <1>6, <3>2 DEF SpTypes, FillEntry
  <2>8. UNCHANGED <<portLock, spLife, fdOf, portOpens, lateLock, lateFlow>>
    BY <1>6 DEF FillEntry
  <2>9. [sp[t] EXCEPT !.pc = "have"] \in ThreadStates
    BY <1>0 DEF SpTypes, ThreadStates
  <2>10. sp' \in [SpThreads -> ThreadStates]
    BY <1>0, <2>2, <2>9 DEF SpTypes
  <2>11. QED
    BY <1>0, <2>6, <2>7, <2>8, <2>10 DEF SpTypes
<1>7. ASSUME NEW t \in SpThreads, FlowClose(t) PROVE SpTypes'
  <2>1. FlowCloseDoes(t)
    BY <1>7, FlowCloseDoesLemma
  <2>2. PICK i : sp' = [sp EXCEPT ![t] = [@ EXCEPT !.pc = "reopen", !.slot = i]]
    BY <1>7 DEF FlowClose
  <2>3. sp[t] \in ThreadStates
    BY <1>0 DEF SpTypes
  <2>4. sp'[t].slot = i /\ sp'[t].pc = "reopen"
    BY <1>0, <2>2, <2>3 DEF SpTypes, ThreadStates
  <2>5. i \in 1 .. MaxFd
    BY <2>1, <2>4 DEF FlowCloseDoes, SpTo
  <2>6. [sp[t] EXCEPT !.pc = "reopen", !.slot = i] \in ThreadStates
    <3>1. i \in 0 .. MaxFd
      BY <2>5, SerialPortAssumption
    <3>2. QED
      BY <2>3, <3>1 DEF ThreadStates
  <2>7. sp' \in [SpThreads -> ThreadStates]
    BY <1>0, <2>2, <2>6 DEF SpTypes
  <2>8. fdOf' \in [SpProcs -> [FdNumbers -> Ports \cup {NoPort}]]
    BY <1>0, <1>7 DEF SpTypes, FlowClose
  <2>9. UNCHANGED <<portLock, spLife, fdTab, portOpens, lateLock, lateBind, lateFlow>>
    BY <1>7 DEF FlowClose
  <2>10. QED
    BY <1>0, <2>7, <2>8, <2>9 DEF SpTypes
<1>8. ASSUME NEW t \in SpThreads, FlowOpen(t) PROVE SpTypes'
  <2>1. FlowOpenDoes(t)
    BY <1>8, FlowOpenDoesLemma
  <2>2. sp' = [sp EXCEPT ![t] = [@ EXCEPT !.pc = "have"]]
    BY <1>8 DEF FlowOpen, Moves
  <2>3. fdTab[t[1]][sp[t].slot] \in Entries
    BY <1>0, <1>8, ThreadHasProcess DEF SpTypes, SpInv, ThreadsTyped, FlowOpen
  <2>4. fdTab[t[1]][sp[t].slot] # NoEntry => fdTab[t[1]][sp[t].slot][2] \in Ports
    BY <2>3 DEF Entries
  <2>5. fdOf' = IF fdTab[t[1]][sp[t].slot] = NoEntry THEN fdOf
               ELSE [fdOf EXCEPT ![t[1]][sp[t].fd] = fdTab[t[1]][sp[t].slot][2]]
    BY <1>8 DEF FlowOpen, SameNumber
  <2>6. fdOf' \in [SpProcs -> [FdNumbers -> Ports \cup {NoPort}]]
    BY <1>0, <2>4, <2>5 DEF SpTypes
  <2>7. lateFlow' \in BOOLEAN
    BY <1>8 DEF FlowOpen
  <2>8. UNCHANGED <<portLock, spLife, fdTab, portOpens, lateLock, lateBind>>
    BY <1>8 DEF FlowOpen
  <2>9. [sp[t] EXCEPT !.pc = "have"] \in ThreadStates
    BY <1>0 DEF SpTypes, ThreadStates
  <2>10. sp' \in [SpThreads -> ThreadStates]
    BY <1>0, <2>2, <2>9 DEF SpTypes
  <2>11. QED
    BY <1>0, <2>6, <2>7, <2>8, <2>10 DEF SpTypes
<1>9. ASSUME NEW t \in SpThreads, Unlock(t) PROVE SpTypes'
  <2>1. UnlockPortDoes(t)
    BY <1>9, UnlockPortDoesLemma
  <2>2. sp' = [sp EXCEPT ![t] = [@ EXCEPT !.pc = "close"]]
    BY <1>9 DEF Unlock, Moves
  <2>3. portLock' \in [Ports -> (SpProcs \X Nat) \cup {SpNoPid}]
    <3>1. portLock' = portLock \/ \E d : portLock' = [portLock EXCEPT ![d] = SpNoPid]
      BY <1>9 DEF Unlock
    <3>2. QED
      BY <1>0, <3>1 DEF SpTypes
  <2>4. fdTab' \in [SpProcs -> [1 .. MaxFd -> Entries]]
    <3>1. fdTab' = fdTab \/ \E i : fdTab' = [fdTab EXCEPT ![t[1]][i] = NoEntry]
      BY <1>9 DEF Unlock, FreedEntry
    <3>2. NoEntry \in Entries
      BY DEF Entries
    <3>3. ASSUME NEW i, fdTab' = [fdTab EXCEPT ![t[1]][i] = NoEntry]
          PROVE  fdTab' \in [SpProcs -> [1 .. MaxFd -> Entries]]
      <4>1. fdTab[t[1]] \in [1 .. MaxFd -> Entries]
        BY <1>0, ThreadHasProcess DEF SpTypes
      <4>2. [fdTab[t[1]] EXCEPT ![i] = NoEntry] \in [1 .. MaxFd -> Entries]
        BY <3>2, <4>1
      <4>3. fdTab' = [fdTab EXCEPT ![t[1]] = [fdTab[t[1]] EXCEPT ![i] = NoEntry]]
        BY <3>3
      <4>4. QED
        BY <1>0, <4>2, <4>3 DEF SpTypes
    <3>4. QED
      BY <1>0, <3>1, <3>3 DEF SpTypes
  <2>5. UNCHANGED <<spLife, fdOf, portOpens, lateLock, lateBind, lateFlow>>
    BY <1>9 DEF Unlock
  <2>6. [sp[t] EXCEPT !.pc = "close"] \in ThreadStates
    BY <1>0 DEF SpTypes, ThreadStates
  <2>7. sp' \in [SpThreads -> ThreadStates]
    BY <1>0, <2>2, <2>6 DEF SpTypes
  <2>8. QED
    BY <1>0, <2>3, <2>4, <2>5, <2>7 DEF SpTypes
<1>10. ASSUME NEW t \in SpThreads, CloseDev(t) PROVE SpTypes'
  <2>1. CloseDevDoes(t)
    BY <1>10, CloseDevDoesLemma
  <2>2. sp' = [sp EXCEPT ![t] = Nothing] /\ Nothing \in ThreadStates
    BY <1>10, SerialPortAssumption DEF CloseDev, Nothing, ThreadStates
  <2>3. sp' \in [SpThreads -> ThreadStates]
    BY <1>0, <2>2 DEF SpTypes
  <2>4. fdOf' \in [SpProcs -> [FdNumbers -> Ports \cup {NoPort}]]
    BY <1>0, <1>10 DEF SpTypes, CloseDev
  <2>5. UNCHANGED <<portLock, spLife, fdTab, portOpens, lateLock, lateBind, lateFlow>>
    BY <1>10 DEF CloseDev
  <2>6. QED
    BY <1>0, <2>3, <2>4, <2>5 DEF SpTypes
<1>11. ASSUME NEW p \in SpProcs, Dies(p) PROVE SpTypes'
  <2>1. DiesDoes(p)
    BY <1>11, DiesDoesLemma
  <2>2. Nothing \in ThreadStates /\ NoEntry \in Entries
    BY SerialPortAssumption DEF Nothing, ThreadStates, Entries
  <2>3. sp' \in [SpThreads -> ThreadStates]
    BY <1>0, <1>11, <2>2 DEF SpTypes, Dies
  <2>4. fdOf' \in [SpProcs -> [FdNumbers -> Ports \cup {NoPort}]]
    BY <1>0, <1>11 DEF SpTypes, Dies
  <2>5. fdTab' \in [SpProcs -> [1 .. MaxFd -> Entries]]
    BY <1>0, <1>11, <2>2 DEF SpTypes, Dies
  <2>6. spLife' \in [SpProcs -> Nat]
    BY <1>0, <1>11 DEF SpTypes, Dies
  <2>7. UNCHANGED <<portLock, portOpens, lateLock, lateBind, lateFlow>>
    BY <1>11 DEF Dies
  <2>8. QED
    BY <1>0, <2>3, <2>4, <2>5, <2>6, <2>7 DEF SpTypes
<1>12. CASE UNCHANGED spVars
  BY <1>0, <1>12 DEF spVars, SpTypes
<1>13. QED
  BY <1>1, <1>2, <1>3, <1>4, <1>5, <1>6, <1>7, <1>8, <1>9, <1>10, <1>11, <1>12 DEF SpNext

(* The invariant holds in every state of the specification.                *)
LEMMA SpInvHolds == SpSpec => []SpInv
<1>1. SpInit => SpInv
  <2> SUFFICES ASSUME SpInit PROVE SpInv
    OBVIOUS
  <2>1. Nothing \in ThreadStates /\ NoEntry \in Entries
    BY SerialPortAssumption DEF Nothing, ThreadStates, Entries
  <2>2. SpTypes
    BY <2>1 DEF SpInit, SpTypes
  <2>3. \A t \in SpThreads : sp[t].pc = "idle" /\ sp[t].port = NoPort /\ t[1] \in SpProcs
    BY ThreadHasProcess DEF SpInit, Nothing
  <2>4. ThreadsTyped /\ LocksTyped /\ BusyHasThread
    BY <2>3 DEF SpInit, ThreadsTyped, HasHandle, InTable, LocksTyped, BusyHasThread
  <2>5. LockOfOne /\ LockKept /\ LockUsed
    BY <2>3 DEF SpInit, LockOfOne, LockKept, LockUsed, Wants, Claims, Lives
  <2>6. HandlesRight /\ HandlesApart
    BY <2>3 DEF HandlesRight, HandlesApart, HasHandle, InTable
  <2>7. EntryOwned /\ EntryOnce /\ EntryHad
    BY <2>3 DEF SpInit, EntryOwned, EntryOnce, EntryHad, InTable
  <2>8. QED
    BY <2>2, <2>4, <2>5, <2>6, <2>7 DEF SpInv
<1>2. SpInv /\ [SpNext]_spVars => SpInv'
  <2> SUFFICES ASSUME SpInv, [SpNext]_spVars PROVE SpInv'
    OBVIOUS
  <2>1. SpTypes' /\ ThreadsTyped' /\ LocksTyped' /\ BusyHasThread'
    BY SpNextTypes, SpNextThreads, SpNextLocks, SpNextBusy
  <2>2. ASSUME ~lateFlow' PROVE LockOfOne' /\ LockKept' /\ LockUsed'
    BY <2>2, SpNextLockOfOne, SpNextLockKept, SpNextLockUsed
  <2>3. ASSUME ~lateFlow' PROVE HandlesRight' /\ HandlesApart'
    BY <2>3, SpNextHandles, SpNextApart
  <2>4. ASSUME ~lateFlow' PROVE EntryOwned' /\ EntryOnce' /\ EntryHad'
    BY <2>4, SpNextOwned, SpNextOnce, SpNextHad
  <2>5. QED
    BY <2>1, <2>2, <2>3, <2>4 DEF SpInv
<1>3. QED
  BY <1>1, <1>2, PTL DEF SpSpec

(* For all threads of all processes, ports, sizes of the table and deaths: *)
(* a port, the lock that stlSerialOpen writes and the handle it returns are*)
(* those of one opener, unless two tested the lock before either wrote it  *)
(* or a port was opened while stlSerialHwFlow had another one closed.      *)
THEOREM PortsHaveOneOpener == SpSpec => []PortsAreOwn
<1>1. SpInv => PortsAreOwn
  <2> SUFFICES ASSUME SpInv PROVE PortsAreOwn
    OBVIOUS
  <2>1. SpTypeOK
    BY DEF SpInv, SpTypes, ThreadsTyped, LocksTyped, SpTypeOK
  <2>2. PortHeldOnce
    BY DEF SpInv, LockOfOne, Wants, PortHeldOnce
  <2>3. LockIsOfOpener
    BY DEF SpInv, LockKept, LockUsed, LockIsOfOpener
  <2>4. HandleIsOfPort
    BY DEF SpInv, HandlesRight, HasHandle, HandleIsOfPort
  <2>5. QED
    BY <2>1, <2>2, <2>3, <2>4 DEF PortsAreOwn
<1>2. QED
  BY <1>1, SpInvHolds, PTL
=============================================================================
