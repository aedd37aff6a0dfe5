------------------------------- MODULE Modbus -------------------------------
(***************************************************************************)
(* stlModbus.cpp: a Modbus master (stlModbusTcp) used by several threads   *)
(* and the device of the same library (stlModbusDevTcp) at the other end   *)
(* of its connection.                                                      *)
(*                                                                         *)
(* A request is twelve bytes, a block, followed for some functions by a    *)
(* block of data; the device takes the rest of what it does not know for   *)
(* the beginning of the next request.  An answer is read in two parts.     *)
(* What is read late or in part is dropped with its connection.            *)
(***************************************************************************)
EXTENDS Integers, Sequences, FiniteSets
LOCAL INSTANCE Functions

CONSTANTS
  Masters,        (* threads that use one stlModbusTcp                     *)
  Numbers,        (* numbers of requests repeat after: 1000 in the code    *)
  Functions,      (* "read", "write single", "write multiple", "unknown":  *)
                  (* one with data that the device does not know           *)
  MaxRequests,    (* BOUND: calls                                          *)
  MaxCons         (* BOUND: connections made                               *)

ASSUME ModbusAssumption ==
  /\ Numbers \in Nat \ {0} /\ MaxRequests \in Nat /\ MaxCons \in Nat
  /\ Functions \subseteq {"read", "write single", "write multiple", "unknown"}
  /\ 0 \notin Masters

NULL == 0
ConIds == 1 .. MaxCons
WithData == {"write multiple", "unknown"}
NotAnswered == << >>
Junk == <<NULL, 0>>

VARIABLES
  mcon, iMsgIdx, mbMux,      (* con, iMsgIdx, conMux of stlModbusTcp       *)
  mpc, fn, dialledCon,       (* a thread: its function, its new connection *)
  answer,                    (* what _waitReponce returns                  *)
  requests,                  (* calls of a thread                          *)
  cons,                      (* connections made so far                    *)
  masterOpen, deviceOpen,    (* connections open at the two ends           *)
  toDevice, toMaster,        (* the streams, per connection                *)
  dpc, dreq,                 (* the thread of the device of a connection   *)
  misread,                   (* HISTORY: connections with an unknown       *)
                             (* function, whose data is taken for a header *)
  writtenOn,                 (* HISTORY: the connection a thread wrote on  *)
  raced                      (* HISTORY: a connection was put in place of  *)
                             (* another, or under a thread that had found  *)
                             (* none after it had the lock                 *)

mbMaster == <<mcon, iMsgIdx, mbMux>>
mbThread == <<mpc, fn, dialledCon, answer, requests>>
mbLink == <<masterOpen, deviceOpen, toDevice, toMaster>>
mbDevice == <<dpc, dreq>>
mbHist == <<misread, writtenOn, raced>>
mbVars == <<mbMaster, mbThread, cons, mbLink, mbDevice, mbHist>>

MbInit ==
  /\ mcon = NULL /\ iMsgIdx = 0 /\ mbMux = NULL
  /\ mpc = [t \in Masters |-> "idle"] /\ fn = [t \in Masters |-> "none"]
  /\ dialledCon = [t \in Masters |-> NULL]
  /\ answer = [t \in Masters |-> NotAnswered]
  /\ requests = [t \in Masters |-> 0]
  /\ cons = 0 /\ masterOpen = {} /\ deviceOpen = {}
  /\ toDevice = [c \in ConIds |-> << >>] /\ toMaster = [c \in ConIds |-> << >>]
  /\ dpc = [c \in ConIds |-> "none"] /\ dreq = [c \in ConIds |-> NotAnswered]
  /\ misread = {} /\ writtenOn = [t \in Masters |-> NULL] /\ raced = FALSE

AllRequests == FoldFunction(LAMBDA a, b : a + b, 0, requests)
MAt(t, label) == mpc[t] = label
MGoto(t, label) == mpc' = [mpc EXCEPT ![t] = label]

-----------------------------------------------------------------------------
(* The master.                                                             *)

Request(t) ==
  /\ MAt(t, "idle") /\ AllRequests < MaxRequests
  /\ requests' = [requests EXCEPT ![t] = @ + 1]
  /\ \E f \in Functions : fn' = [fn EXCEPT ![t] = f]
  /\ answer' = [answer EXCEPT ![t] = NotAnswered]
  /\ writtenOn' = [writtenOn EXCEPT ![t] = NULL]
  /\ MGoto(t, "test")
  /\ UNCHANGED <<mbMaster, dialledCon, cons, mbLink, mbDevice, misread, raced>>

(* _testReconnect, which does not lock; the connect may fail.              *)
TestCon(t) ==
  /\ MAt(t, "test")
  /\ MGoto(t, IF mcon # NULL THEN "lock" ELSE "connect")
  /\ UNCHANGED <<mbMaster, fn, dialledCon, answer, requests, cons, mbLink, mbDevice, mbHist>>

Connect(t) ==
  /\ MAt(t, "connect")
  /\ \/ /\ cons < MaxCons /\ cons' = cons + 1
        /\ masterOpen' = masterOpen \cup {cons'} /\ deviceOpen' = deviceOpen \cup {cons'}
        /\ dpc' = [dpc EXCEPT ![cons'] = "head"]
        /\ dialledCon' = [dialledCon EXCEPT ![t] = cons']
        /\ MGoto(t, "set con")
     \/ MGoto(t, "idle") /\ UNCHANGED <<cons, masterOpen, deviceOpen, dpc, dialledCon>>
  /\ UNCHANGED <<mbMaster, fn, answer, requests, toDevice, toMaster, dreq, mbHist>>

SetCon(t) ==
  /\ MAt(t, "set con")
  /\ mcon' = dialledCon[t]
  /\ dialledCon' = [dialledCon EXCEPT ![t] = NULL]
  /\ raced' = (raced \/ mcon # NULL \/ \E u \in Masters : mpc[u] \in {"write", "release", "forget"})
  /\ MGoto(t, "lock")
  /\ UNCHANGED <<iMsgIdx, mbMux, fn, answer, requests, cons, mbLink, mbDevice, misread, writtenOn>>

MbMuxFree_Not == TRUE                                       \* mutant
MbMuxFree == mbMux = NULL

MasterLock(t) ==
  /\ MAt(t, "lock") /\ MbMuxFree
  /\ mbMux' = t
  /\ iMsgIdx' = (iMsgIdx + 1) % Numbers
  /\ MGoto(t, "write")
  /\ UNCHANGED <<mcon, fn, dialledCon, answer, requests, cons, mbLink, mbDevice, mbHist>>

Blocks(t) ==
  <<[kind |-> "head", nr |-> iMsgIdx, fn |-> fn[t], of |-> <<t, requests[t]>>]>>
  \o IF fn[t] \in WithData THEN <<[kind |-> "data"]>> ELSE << >>

(* stlTcpWrite: of nothing when con is NULL, and it may fail.              *)
WriteRequest(t) ==
  /\ MAt(t, "write")
  /\ \/ /\ mcon \in masterOpen
        /\ toDevice' = [toDevice EXCEPT ![mcon] = @ \o Blocks(t)]
        /\ misread' = IF fn[t] = "unknown" THEN misread \cup {mcon} ELSE misread
        /\ writtenOn' = [writtenOn EXCEPT ![t] = mcon]
        /\ MGoto(t, "header")
     \/ MGoto(t, "release") /\ UNCHANGED <<toDevice, misread, writtenOn>>
  /\ UNCHANGED <<mbMaster, fn, dialledCon, answer, requests, cons, masterOpen, deviceOpen, toMaster, mbDevice, raced>>

(* _readDataBlock: of the header of an answer, then of its data.  It ends  *)
(* without them when nothing came in time or the device has closed.        *)
Came(c) == c # NULL /\ toMaster[c] # << >>

ReadHeader(t) ==
  /\ MAt(t, "header") /\ Came(mcon)
  /\ MGoto(t, "data")
  /\ UNCHANGED <<mbMaster, fn, dialledCon, answer, requests, cons, mbLink, mbDevice, mbHist>>

AfterTimeout_Keeps == "unlock"                             \* mutant
AfterTimeout == "release"

ReadTimeout(t) ==
  /\ MAt(t, "header") \/ MAt(t, "data")
  /\ MAt(t, "header") => ~Came(mcon)
  /\ MGoto(t, AfterTimeout)
  /\ UNCHANGED <<mbMaster, fn, dialledCon, answer, requests, cons, mbLink, mbDevice, mbHist>>

(* An answer of another number is skipped.                                 *)
IsWanted(t, a) == a.nr = iMsgIdx

ReadData(t) ==
  /\ MAt(t, "data") /\ Came(mcon)
  /\ LET a == Head(toMaster[mcon])
     IN  /\ answer' = [answer EXCEPT ![t] = IF IsWanted(t, a) THEN a.of ELSE @]
         /\ MGoto(t, IF IsWanted(t, a) THEN "unlock" ELSE "header")
  /\ toMaster' = [toMaster EXCEPT ![mcon] = Tail(@)]
  /\ UNCHANGED <<mbMaster, fn, dialledCon, requests, cons, masterOpen, deviceOpen, toDevice, mbDevice, mbHist>>

(* stlTcpRelease and con = NULL.                                           *)
Released_Not(c) == {}                                       \* mutant
Released(c) == {c}

ReleaseCon(t) ==
  /\ MAt(t, "release")
  /\ masterOpen' = masterOpen \ Released(mcon)
  /\ toMaster' = [c \in ConIds |-> IF c = mcon THEN << >> ELSE toMaster[c]]
  /\ MGoto(t, "forget")
  /\ UNCHANGED <<mbMaster, fn, dialledCon, answer, requests, cons, deviceOpen, toDevice, mbDevice, mbHist>>

ForgetCon(t) ==
  /\ MAt(t, "forget")
  /\ mcon' = NULL
  /\ MGoto(t, "unlock")
  /\ UNCHANGED <<iMsgIdx, mbMux, fn, dialledCon, answer, requests, cons, mbLink, mbDevice, mbHist>>

MasterUnlock(t) ==
  /\ MAt(t, "unlock")
  /\ mbMux' = NULL
  /\ MGoto(t, "idle")
  /\ UNCHANGED <<mcon, iMsgIdx, fn, dialledCon, answer, requests, cons, mbLink, mbDevice, mbHist>>

-----------------------------------------------------------------------------
(* The device: tcpServer, one thread for each connection.                  *)

DAt(c, label) == dpc[c] = label
DGoto(c, label) == dpc' = [dpc EXCEPT ![c] = label]
HasBlock(c, kind) == toDevice[c] # << >> /\ Head(toDevice[c]).kind = kind
Answers(c, nr, of) ==
  toMaster' = IF c \in masterOpen THEN [toMaster EXCEPT ![c] = Append(@, [nr |-> nr, of |-> of])]
              ELSE toMaster

DeviceHead(c) ==
  /\ DAt(c, "head") /\ HasBlock(c, "head")
  /\ dreq' = [dreq EXCEPT ![c] = Head(toDevice[c])]
  /\ toDevice' = [toDevice EXCEPT ![c] = Tail(@)]
  /\ DGoto(c, IF Head(toDevice[c]).fn = "write multiple" THEN "data" ELSE "answer")
  /\ UNCHANGED <<mbMaster, mbThread, cons, masterOpen, deviceOpen, toMaster, mbHist>>

(* The data of the request, or nothing when it does not come in time.      *)
DeviceData(c) ==
  /\ DAt(c, "data")
  /\ toDevice' = IF HasBlock(c, "data") THEN [toDevice EXCEPT ![c] = Tail(@)] ELSE toDevice
  /\ DGoto(c, "answer")
  /\ UNCHANGED <<mbMaster, mbThread, cons, masterOpen, deviceOpen, toMaster, dreq, mbHist>>

(* What onRequestData and onRxData do is the answer; for an unknown        *)
(* function it is an error frame.  A write to a closed connection is lost. *)
AnswerNumber(c) == dreq[c].nr

DeviceAnswer(c) ==
  /\ DAt(c, "answer")
  /\ Answers(c, AnswerNumber(c), dreq[c].of)
  /\ dreq' = [dreq EXCEPT ![c] = NotAnswered]
  /\ DGoto(c, "head")
  /\ UNCHANGED <<mbMaster, mbThread, cons, masterOpen, deviceOpen, toDevice, mbHist>>

(* Data that was not read: twelve bytes of it and of the request behind it *)
(* are taken for a request, and the end of that is data again.  Its number *)
(* is anything.                                                            *)
DeviceMisreads(c) ==
  /\ DAt(c, "head") /\ HasBlock(c, "data") /\ Len(toDevice[c]) > 1
  /\ \E nr \in 0 .. Numbers - 1 : Answers(c, nr, Junk)
  /\ toDevice' = [toDevice EXCEPT ![c] = <<[kind |-> "data"]>> \o SubSeq(@, 3, Len(@))]
  /\ UNCHANGED <<mbMaster, mbThread, cons, masterOpen, deviceOpen, mbDevice, mbHist>>

(* A read that fails or is short ends the loop: the master has closed, or  *)
(* nothing follows for 100 ms on data that was not read.                   *)
DeviceEnds(c) ==
  /\ DAt(c, "head")
  /\ \/ toDevice[c] = << >> /\ c \notin masterOpen
     \/ Len(toDevice[c]) = 1 /\ HasBlock(c, "data")
  /\ deviceOpen' = deviceOpen \ {c}
  /\ toDevice' = [toDevice EXCEPT ![c] = << >>]
  /\ DGoto(c, "gone")
  /\ UNCHANGED <<mbMaster, mbThread, cons, masterOpen, toMaster, dreq, mbHist>>

-----------------------------------------------------------------------------

MasterStep(t) ==
  \/ TestCon(t) \/ Connect(t) \/ SetCon(t) \/ MasterLock(t) \/ WriteRequest(t)
  \/ ReadHeader(t) \/ ReadTimeout(t) \/ ReadData(t)
  \/ ReleaseCon(t) \/ ForgetCon(t) \/ MasterUnlock(t)

DeviceStep(c) ==
  \/ DeviceHead(c) \/ DeviceData(c) \/ DeviceAnswer(c) \/ DeviceMisreads(c) \/ DeviceEnds(c)

MbNext ==
  \/ \E t \in Masters : Request(t) \/ MasterStep(t)
  \/ \E c \in ConIds : DeviceStep(c)

MbSpec == MbInit /\ [][MbNext]_mbVars

-----------------------------------------------------------------------------
(* Properties.                                                             *)

(* Type invariant.                                                         *)
MbTypeOK ==
  /\ mcon \in {NULL} \cup ConIds /\ iMsgIdx \in 0 .. Numbers - 1
  /\ mbMux \in {NULL} \cup Masters
  /\ mpc \in [Masters -> {"idle", "test", "connect", "set con", "lock", "write", "header",
                          "data", "release", "forget", "unlock"}]
  /\ fn \in [Masters -> Functions \cup {"none"}] /\ dialledCon \in [Masters -> {NULL} \cup ConIds]
  /\ masterOpen \subseteq 1 .. cons /\ deviceOpen \subseteq 1 .. cons
  /\ dpc \in [ConIds -> {"none", "head", "data", "answer", "gone"}]
  /\ misread \subseteq ConIds /\ raced \in BOOLEAN

(* Nothing of an earlier request is left on the connection a request is    *)
(* written on, neither unread nor to be answered: an answer that is late   *)
(* dies with its connection, and the numbers may repeat.                   *)
NothingLate ==
  \A t \in Masters :
    MAt(t, "write") /\ mcon \in masterOpen \ misread =>
      toMaster[mcon] = << >> /\ toDevice[mcon] = << >> /\ dpc[mcon] = "head"

(* A call returns the device's answer to its own request, in every         *)
(* interleaving of threads that share and lose the connection; unless the  *)
(* connection has carried a function the device does not know.             *)
AnswerIsOwn ==
  \A t \in Masters :
    answer[t] \in {NotAnswered, <<t, requests[t]>>} \/ writtenOn[t] \in misread

(* The master has one connection; others are left open only when two       *)
(* threads connected at once.                                              *)
OneConnection == ~raced => masterOpen \subseteq {mcon} \cup {dialledCon[t] : t \in Masters}

(* The connection stays the same from writing a request to its answer,     *)
(* unless another thread has put its own in place meanwhile.               *)
AnswerOnSameCon ==
  \A t \in Masters :
    mpc[t] \in {"header", "data"} /\ ~raced => mcon = writtenOn[t] /\ mcon \in masterOpen

(* All of it: a request gets its own answer, on its own connection.        *)
RequestsKept ==
  /\ MbTypeOK /\ NothingLate /\ AnswerIsOwn
  /\ OneConnection /\ AnswerOnSameCon
=============================================================================
