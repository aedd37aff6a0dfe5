------------------------------ MODULE TimeSet -------------------------------
(***************************************************************************)
(* The delayed sets of stl_event.c (lines 421-665): a program asks that a  *)
(* variable, a bit or a mask of bits be set some milliseconds later.  The  *)
(* requests are kept in a table of slots (tsvDB), linked from tsvRoot, the *)
(* newest first.  Adding is under tsvMux; _stlTimeSetEvent, a millisecond  *)
(* event, walks the list without a lock, stores what is due and frees its  *)
(* slot: it takes tsvMux only to free the first of the list.               *)
(*                                                                         *)
(* The walk is one at a time (OneRunAtATime of MsEvent) and is made again  *)
(* and again (DueIsRun of MsEvent).  What is written where (lines 440-490) *)
(* is a member of Requests.  Arguments that are refused (-1) change no     *)
(* state and are left out, and so are delays below zero, which act as      *)
(* zero; malloc of the table succeeds.                                     *)
(***************************************************************************)
EXTENDS Integers, FiniteSets

CONSTANTS
  Users,        (* threads that ask for a set                              *)
  Asks,         (* what they ask: <<destination and value, iMsDelay>>      *)
  MaxItems,     (* slots: _MaxSetDataItems_, 1000 in the code              *)
  NoUser        (* NULL, and no owner of tsvMux                          *)

ASSUME TimeSetAssumption ==
  /\ \A a \in Asks : a[2] \in Nat /\ a[1] # NoUser
  /\ MaxItems \in Nat \ {0}
  /\ NoUser \notin Users /\ "walk" \notin Users

Requests == {a[1] : a \in Asks}
SetSlots == 1 .. MaxItems
Walker == "walk"

VARIABLES
  tsvDB,        (* the table exists and its event is registered            *)
  tsvRoot,      (* first slot of the list, 0 for NULL                      *)
  pData, iMsWait, next,             (* per slot                            *)
  tsvMux,
  wpc, tv, tvl,                     (* the walk                            *)
  upc, req, idx,                    (* locals of a user: what is asked     *)
                                    (* after how long, the slot looked at  *)
  delay, age,                       (* HISTORY per slot: the delay asked   *)
                                    (* for, the walks begun since it was   *)
                                    (* linked                              *)
  owed,                             (* HISTORY: requests accepted and not  *)
                                    (* yet stored                          *)
  full                              (* HISTORY per user: no slot was free  *)
                                    (* when it began to look for one       *)

items == <<pData, iMsWait, next>>
walk  == <<wpc, tv, tvl>>
user  == <<upc, req, idx>>
setHist  == <<delay, age, owed, full>>
setVars  == <<tsvDB, tsvRoot, items, tsvMux, walk, user, setHist>>

SetInit ==
  /\ tsvDB = FALSE /\ tsvRoot = 0 /\ tsvMux = NoUser
  /\ pData = [s \in SetSlots |-> NoUser]
  /\ iMsWait = [s \in SetSlots |-> 0]
  /\ next = [s \in SetSlots |-> 0]
  /\ wpc = "idle" /\ tv = 0 /\ tvl = 0
  /\ upc = [u \in Users |-> "idle"]
  /\ req = [u \in Users |-> <<>>]
  /\ idx = [u \in Users |-> 0]
  /\ delay = [s \in SetSlots |-> 0]
  /\ age = [s \in SetSlots |-> 0]
  /\ owed = [r \in Requests |-> 0]
  /\ full = [u \in Users |-> FALSE]

(* The slots on the list: what can be reached from tsvRoot.                *)
Linked ==
  LET from[n \in 0 .. MaxItems] ==
        IF n = 0 THEN {tsvRoot}
        ELSE from[n - 1] \cup {next[s] : s \in from[n - 1] \ {0}}
  IN  from[MaxItems] \ {0}

UnlockedBy_WalkKeeps(owner) == IF owner = Walker THEN owner ELSE NoUser  \* mutant
UnlockedBy_FullKeeps(owner) ==                                         \* mutant
  IF owner # Walker /\ upc[owner] = "full" THEN owner ELSE NoUser
UnlockedBy(owner) == NoUser

-----------------------------------------------------------------------------
(* A user: stlTimeSetData, stlTimeSetDataBit, stlTimeSetClrDataMask32/16.  *)

UGoto(u, label) == upc' = [upc EXCEPT ![u] = label]

Ask(u, a) ==
  /\ upc[u] = "idle"
  /\ req' = [req EXCEPT ![u] = a]
  /\ UGoto(u, "lock")
  /\ UNCHANGED <<tsvDB, tsvRoot, items, tsvMux, walk, idx, setHist>>

(* tsvMux, and _stlTimeSetInit by the first.                               *)
LockAdd(u) ==
  /\ upc[u] = "lock" /\ tsvMux = NoUser
  /\ tsvMux' = u
  /\ tsvDB' = TRUE
  /\ idx' = [idx EXCEPT ![u] = 1]
  /\ full' = [full EXCEPT ![u] = \A s \in SetSlots : pData[s] # NoUser]
  /\ UGoto(u, "scan")
  /\ UNCHANGED <<tsvRoot, items, walk, req, delay, age, owed>>

LastItem_OffByOne == MaxItems - 1                          \* mutant
LastItem == MaxItems

(* Look for a slot that is free; after the last one the answer is -2.      *)
Scan(u) ==
  /\ upc[u] = "scan"
  /\ IF idx[u] > LastItem THEN UGoto(u, "full") /\ UNCHANGED idx
     ELSE IF pData[idx[u]] = NoUser THEN UGoto(u, "fill") /\ UNCHANGED idx
     ELSE idx' = [idx EXCEPT ![u] = @ + 1] /\ UNCHANGED upc
  /\ UNCHANGED <<tsvDB, tsvRoot, items, tsvMux, walk, req, setHist>>

Fill(u) ==
  /\ upc[u] = "fill"
  /\ pData' = [pData EXCEPT ![idx[u]] = req[u][1]]
  /\ iMsWait' = [iMsWait EXCEPT ![idx[u]] = req[u][2]]
  /\ next' = [next EXCEPT ![idx[u]] = tsvRoot]
  /\ UGoto(u, "link")
  /\ UNCHANGED <<tsvDB, tsvRoot, tsvMux, walk, req, idx, setHist>>

Link(u) ==
  /\ upc[u] = "link"
  /\ tsvRoot' = idx[u]
  /\ delay' = [delay EXCEPT ![idx[u]] = req[u][2]]
  /\ age' = [age EXCEPT ![idx[u]] = 0]
  /\ owed' = [owed EXCEPT ![req[u][1]] = @ + 1]
  /\ UGoto(u, "unlock")
  /\ UNCHANGED <<tsvDB, items, tsvMux, walk, req, idx, full>>

(* 0 when it was linked, -2 when the table was full.                       *)
Return(u) ==
  /\ upc[u] \in {"unlock", "full"}
  /\ tsvMux' = UnlockedBy(u)
  /\ UGoto(u, "idle")
  /\ req' = [req EXCEPT ![u] = <<>>]
  /\ idx' = [idx EXCEPT ![u] = 0]
  /\ full' = [full EXCEPT ![u] = FALSE]
  /\ UNCHANGED <<tsvDB, tsvRoot, items, walk, delay, age, owed>>

-----------------------------------------------------------------------------
(* The walk: _stlTimeSetEvent.                                             *)

WGoto(label) == wpc' = label

BeginWalk ==
  /\ wpc = "idle" /\ tsvDB
  /\ tv' = tsvRoot /\ tvl' = 0
  /\ age' = [s \in SetSlots |-> IF s \in Linked THEN age[s] + 1 ELSE age[s]]
  /\ WGoto("visit")
  /\ UNCHANGED <<tsvDB, tsvRoot, items, tsvMux, user, delay, owed, full>>

IsDue_Late(left) == left < 0                              \* mutant
IsDue_Exactly(left) == left = 0                           \* mutant
IsDue(left) == left <= 0

Visit ==
  /\ wpc = "visit"
  /\ IF tv = 0 THEN WGoto("idle") /\ tvl' = 0 /\ UNCHANGED <<iMsWait, tv>>
     ELSE /\ iMsWait' = [iMsWait EXCEPT ![tv] = @ - 1]
          /\ IF IsDue(iMsWait'[tv]) THEN WGoto("store") /\ UNCHANGED <<tv, tvl>>
             ELSE tvl' = tv /\ tv' = next[tv] /\ UNCHANGED wpc
  /\ UNCHANGED <<tsvDB, tsvRoot, pData, next, tsvMux, user, setHist>>

(* The value, the bit or the mask is written; the root needs more care.    *)
StoreSet ==
  /\ wpc = "store"
  /\ owed' = [owed EXCEPT ![pData[tv]] = @ - 1]
  /\ WGoto(IF tvl # 0 THEN "unlink" ELSE "root")
  /\ UNCHANGED <<tsvDB, tsvRoot, items, tsvMux, tv, tvl, user, delay, age, full>>

(* "In this order": the slot is taken out before it is free.               *)
Unlink_Not ==                                             \* mutant
  /\ wpc = "unlink"
  /\ WGoto("free")
  /\ UNCHANGED <<tsvDB, tsvRoot, items, tsvMux, tv, tvl, user, setHist>>

Unlink ==
  /\ wpc = "unlink"
  /\ next' = [next EXCEPT ![tvl] = next[tv]]
  /\ WGoto("free")
  /\ UNCHANGED <<tsvDB, tsvRoot, pData, iMsWait, tsvMux, tv, tvl, user, setHist>>

Forget(s) ==            (* HISTORY: nothing is asked of the slot any more *)
  /\ delay' = [delay EXCEPT ![s] = 0]
  /\ age' = [age EXCEPT ![s] = 0]
  /\ UNCHANGED <<owed, full>>

FreeItem ==
  /\ wpc = "free"
  /\ pData' = [pData EXCEPT ![tv] = NoUser]
  /\ Forget(tv)
  /\ tv' = next[tvl]
  /\ WGoto("visit")
  /\ UNCHANGED <<tsvDB, tsvRoot, iMsWait, next, tsvMux, tvl, user>>

LockRoot ==
  /\ wpc = "root" /\ tsvMux = NoUser
  /\ tsvMux' = Walker
  /\ WGoto("head")
  /\ UNCHANGED <<tsvDB, tsvRoot, items, tv, tvl, user, setHist>>

StillRoot_NotTested == TRUE                               \* mutant
StillRoot == tv = tsvRoot

(* Under tsvMux: still the first, or a request came in front of it and the *)
(* one before it must be looked for.  Without one the item is visited      *)
(* again.                                                                  *)
FreeRoot ==
  /\ wpc = "head"
  /\ LET before == {s \in Linked : next[s] = tv}
         p == CHOOSE s \in before : TRUE
     IN IF StillRoot
        THEN /\ tsvRoot' = next[tv] /\ tv' = next[tv]
             /\ pData' = [pData EXCEPT ![tv] = NoUser]
             /\ Forget(tv)
             /\ UNCHANGED <<next, tvl>>
        ELSE IF before # {}
        THEN /\ next' = [next EXCEPT ![p] = next[tv]]
             /\ tvl' = p /\ tv' = next[tv]
             /\ pData' = [pData EXCEPT ![tv] = NoUser]
             /\ Forget(tv)
             /\ UNCHANGED tsvRoot
        ELSE tvl' = 0 /\ UNCHANGED <<tsvRoot, next, tv, pData, setHist>>
  /\ tsvMux' = UnlockedBy(Walker)
  /\ WGoto("visit")
  /\ UNCHANGED <<tsvDB, iMsWait, user>>

-----------------------------------------------------------------------------

UserStep(u) == LockAdd(u) \/ Scan(u) \/ Fill(u) \/ Link(u) \/ Return(u)

Walk == BeginWalk \/ Visit \/ StoreSet \/ Unlink \/ FreeItem \/ LockRoot \/ FreeRoot

SetNext ==
  \/ \E u \in Users : UserStep(u) \/ \E a \in Asks : Ask(u, a)
  \/ Walk

SetSpec == SetInit /\ [][SetNext]_setVars

(* The event threads keep calling the walk, a thread inside a call goes    *)
(* on, and who waits for tsvMux gets it when it is free again and again.   *)
SetFairness ==
  /\ WF_setVars(Walk) /\ SF_setVars(LockRoot)
  /\ \A u \in Users : WF_setVars(UserStep(u)) /\ SF_setVars(LockAdd(u))

-----------------------------------------------------------------------------
(* Properties.                                                             *)

(* Type invariant.                                                         *)
SetTypeOK ==
  /\ tsvDB \in BOOLEAN /\ tsvRoot \in 0 .. MaxItems
  /\ pData \in [SetSlots -> Requests \cup {NoUser}]
  /\ iMsWait \in [SetSlots -> Int] /\ \A s \in SetSlots : iMsWait[s] >= -1
  /\ next \in [SetSlots -> 0 .. MaxItems]
  /\ tsvMux \in Users \cup {NoUser, Walker}
  /\ wpc \in {"idle", "visit", "store", "unlink", "free", "root", "head"}
  /\ tv \in 0 .. MaxItems /\ tvl \in 0 .. MaxItems
  /\ upc \in [Users -> {"idle", "lock", "scan", "fill", "link", "unlock", "full"}]
  /\ req \in [Users -> {<<>>} \cup Asks]
  /\ idx \in [Users -> 0 .. MaxItems + 1]
  /\ delay \in [SetSlots -> Int] /\ age \in [SetSlots -> Int] /\ owed \in [Requests -> Int]
  /\ full \in [Users -> BOOLEAN]

BetweenUnlinkAndFree(s) == wpc = "free" /\ s = tv
BetweenFillAndLink(s) == \E u \in Users : upc[u] = "link" /\ idx[u] = s

(* The slots in use are those on the list, but for the one that is being   *)
(* added or freed: no slot is free and linked (it would be given out twice *)
(* and the list cut) or in use and not linked (it would never be stored),  *)
(* although the walk unlinks without the lock the users hold.              *)
ListIsUse ==
  \A s \in SetSlots :
    IF BetweenUnlinkAndFree(s) \/ BetweenFillAndLink(s)
    THEN s \notin Linked /\ pData[s] # NoUser
    ELSE (s \in Linked) = (pData[s] # NoUser)

(* What was accepted and is not stored yet is on the list, as often as it  *)
(* was asked for: no request is lost, none is stored twice.                *)
StoredOnce ==
  \A r \in Requests :
    owed[r] = Cardinality({s \in Linked : pData[s] = r
                                          /\ ~(s = tv /\ wpc \in {"unlink", "root", "head"})})

(* A request is stored in the walk that comes when its delay is over: not  *)
(* earlier and not later, whatever is added and freed around it.           *)
StoredInTime ==
  wpc = "store" => age[tv] = IF delay[tv] > 1 THEN delay[tv] ELSE 1

(* -2, no more room, is only the answer when no slot was free.             *)
RefusedWhenFull == \A u \in Users : upc[u] = "full" => full[u]

(* Every request that is accepted is stored and its slot given back.       *)
AllStored ==
  SetFairness => \A s \in SetSlots : (s \in Linked) ~> (pData[s] = NoUser)

(* Every call returns.                                                     *)
AddReturns ==
  SetFairness => \A u \in Users : (upc[u] = "lock") ~> (upc[u] = "idle")

(* All of it: requests are kept, and stored once and in time.              *)
SetsKept ==
  /\ SetTypeOK /\ ListIsUse /\ StoredOnce
  /\ StoredInTime /\ RefusedWhenFull

(* Requests are stored and calls return.                                   *)
SetsEnd == AllStored /\ AddReturns
=============================================================================
