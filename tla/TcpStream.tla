------------------------------ MODULE TcpStream ------------------------------
(***************************************************************************)
(* One connection of stl_tcpbase.c: a thread that reads characters, blocks *)
(* and lines, and threads that write blocks, over one stlTcpConn.          *)
(*                                                                         *)
(* A byte that is read is <<n, key>>: the n-th byte of the peer, enciphered*)
(* with the key-th byte of the key (0: plain, as every byte should be when *)
(* the caller gets it).  A byte that is written is <<block, n>>.  The      *)
(* sockets are external: what was sent arrives in pieces, select may time  *)
(* out or fail at any moment, send may take a part.  Speed limits, the     *)
(* sizes of the pieces in which a line is read, and characters to ignore   *)
(* are left out; a line's end counts as a part of the line.                *)
(***************************************************************************)
EXTENDS Integers, Sequences, FiniteSets

CONSTANTS
  TxThreads,              (* threads that write                             *)
  Total,                 (* BOUND: bytes the peer sends                    *)
  LineEnds,              (* those of them that end a line                  *)
  RBuf, XBuf,            (* sizes of rBuf and xBuf                         *)
  BlockSizes,            (* BOUND: bytes of a block                        *)
  MaxBlocks              (* BOUND: blocks written                          *)

FreeTX == "free"

ASSUME TcpStreamAssumption ==
  /\ Total \in Nat \ {0} /\ LineEnds \subseteq 1 .. Total
  /\ RBuf \in Nat \ {0} /\ XBuf \in Nat \ {0}
  /\ BlockSizes \subseteq Nat \ {0} /\ MaxBlocks \in Nat
  /\ FreeTX \notin TxThreads

VARIABLES
  plain,                 (* bytes the peer sends before it enciphers       *)
  net,                   (* bytes on their way                             *)
  connected,             (* sockFd >= 0                                    *)
  rBuf,                  (* rBuf from rOfs to rLen                         *)
  rKey,                  (* next byte of the key of pRxCrypt, 0: none      *)
  sLine,                 (* the line that is being read                    *)
  reading,               (* <<call, state, bytes still to read>>           *)
  muxTX, xBuf,
  writing,               (* a writer's <<call, state, bytes still to put,  *)
                         (* block, its length>>                            *)
  sending,               (* what the flush of the mutex's owner must send  *)
  wire,                  (* what was sent                                  *)
  blocks,                (* blocks written                                 *)
  got,                   (* HISTORY: what the reader's calls gave          *)
  skipped,               (* HISTORY: a byte was read past a part of a line *)
  atEnd,                 (* HISTORY: a Read said the connection was lost   *)
  broken,                (* HISTORY: a flush closed the connection         *)
  accepted,              (* HISTORY: blocks whose call returned 0          *)
  dropped                (* HISTORY: bytes a failed flush dropped          *)

tsRead == <<net, rBuf, rKey, sLine, reading, got, skipped, atEnd>>
tsWrite == <<muxTX, xBuf, writing, sending, wire, blocks, broken, accepted, dropped>>
tsVars == <<plain, connected, tsRead, tsWrite>>

Quiet == <<"none", "idle", 0>>
NotWriting == <<"none", "idle", << >>, 0, 0>>

TsInit ==
  /\ plain \in 0 .. Total
  /\ net = [n \in 1 .. Total |-> <<n, IF n > plain THEN n - plain ELSE 0>>]
  /\ connected = TRUE
  /\ rBuf = << >> /\ rKey = 0 /\ sLine = << >> /\ reading = Quiet
  /\ muxTX = FreeTX /\ xBuf = << >> /\ sending = << >> /\ wire = << >> /\ blocks = 0
  /\ writing = [w \in TxThreads |-> NotWriting]
  /\ got = << >> /\ skipped = FALSE /\ atEnd = FALSE /\ broken = FALSE
  /\ accepted = {} /\ dropped = {}

-----------------------------------------------------------------------------
(* Deciphering: the key goes on byte by byte.                              *)

Decipher(s, k) ==
  IF k = 0 THEN s ELSE [i \in DOMAIN s |-> <<s[i][1], s[i][2] - (k + i - 1)>>]
KeyAfter(s, k) == IF k = 0 THEN 0 ELSE k + Len(s)

Taken == Len(got) + Len(sLine)

Rest_Raw(s) == s                                             \* mutant
Rest(s) == Decipher(s, 1)

(* stlTcpCryptStart, by a reader that has read all that is plain.          *)
CryptStart ==
  /\ reading = Quiet /\ rKey = 0 /\ Taken = plain
  /\ rBuf' = Rest(rBuf)
  /\ rKey' = KeyAfter(rBuf, 1)
  /\ UNCHANGED <<plain, connected, net, sLine, reading, got, skipped, atEnd, tsWrite>>

-----------------------------------------------------------------------------
(* stlTcpGetChar, stlTcpRead and stlTcpReadLine.                           *)

(* Who reads knows how many bytes are plain, and reads no further.         *)
MayRead(n) == rKey > 0 \/ Taken + n <= plain

ReadCall ==
  /\ reading = Quiet
  /\ \/ \E n \in 1 .. Total :
          /\ MayRead(n)
          /\ reading' \in {<<"read", "top", n>>} \cup (IF n = 1 THEN {<<"char", "top", 1>>} ELSE {})
     \/ /\ rKey > 0 \/ \E n \in LineEnds : n > Taken /\ n <= plain
        /\ reading' = <<"line", "top", 1>>
  /\ atEnd' = FALSE
  /\ UNCHANGED <<plain, connected, net, rBuf, rKey, sLine, got, skipped, tsWrite>>

Call == reading[1]
TsAt(state) == reading[2] = state
EndRead(lost) == reading' = Quiet /\ atEnd' = (lost /\ Call = "read")

(* A lost connection: a character and a line are not taken from rBuf.      *)
Refuses_Always == ~connected                                 \* mutant
Refuses == ~connected /\ (Call # "read" \/ rBuf = << >>)

ReadRefused ==
  /\ TsAt("top") /\ Refuses
  /\ EndRead(TRUE)
  /\ UNCHANGED <<plain, connected, net, rBuf, rKey, sLine, got, skipped, tsWrite>>

StartedLine_New == << >>                                     \* mutant
StartedLine == sLine

TakeByte ==
  /\ TsAt("top") \/ TsAt("more")
  /\ ~(TsAt("top") /\ Refuses) /\ rBuf # << >>
  /\ rBuf' = Tail(rBuf)
  /\ LET b == Head(rBuf)
         line == Append(IF TsAt("top") THEN StartedLine ELSE sLine, b)
     IN IF Call = "line"
          THEN IF b[1] \in LineEnds
                 THEN got' = got \o line /\ sLine' = << >> /\ EndRead(FALSE)
                 ELSE sLine' = line /\ reading' = <<"line", "more", 1>> /\ UNCHANGED <<got, atEnd>>
          ELSE /\ got' = Append(got, b) /\ UNCHANGED sLine
               /\ IF reading[3] = 1 THEN EndRead(FALSE)
                  ELSE reading' = <<Call, "more", reading[3] - 1>> /\ UNCHANGED atEnd
  /\ skipped' = (skipped \/ (Call # "line" /\ sLine # << >>))
  /\ UNCHANGED <<plain, connected, net, rKey, tsWrite>>

WaitByte ==
  /\ TsAt("top") \/ TsAt("more")
  /\ rBuf = << >>
  /\ IF connected THEN reading' = <<Call, "wait", reading[3]>> /\ UNCHANGED atEnd
     ELSE EndRead(TRUE)
  /\ UNCHANGED <<plain, connected, net, rBuf, rKey, sLine, got, skipped, tsWrite>>

Received_Left(s) == rBuf \o Tail(s)                          \* mutant
Received(s) == Decipher(s, rKey)

(* recv: a part of what arrived; the bytes go on as if read from rBuf.     *)
Receive ==
  /\ TsAt("wait") /\ connected
  /\ \E k \in 1 .. RBuf :
       /\ k <= Len(net)
       /\ rBuf' = Received(SubSeq(net, 1, k))
       /\ rKey' = KeyAfter(SubSeq(net, 1, k), rKey)
       /\ net' = SubSeq(net, k + 1, Len(net))
  /\ reading' = <<Call, "top", reading[3]>>
  /\ UNCHANGED <<plain, connected, sLine, got, skipped, atEnd, tsWrite>>

(* The peer closed (recv gives 0), the wait timed out or failed, or the    *)
(* connection was closed by a flush.                                       *)
EndWait ==
  /\ TsAt("wait")
  /\ \/ net = << >> /\ connected /\ connected' = FALSE /\ EndRead(TRUE)
     \/ connected /\ EndRead(FALSE) /\ UNCHANGED connected
     \/ ~connected /\ EndRead(TRUE) /\ UNCHANGED connected
  /\ UNCHANGED <<plain, net, rBuf, rKey, sLine, got, skipped, tsWrite>>

-----------------------------------------------------------------------------
(* stlTcpWrite, stlTcpWriteNF, stlTcpPutChar and stlTcpFlush.  The last two*)
(* take no mutex: they are called when no other thread writes.             *)

Alone(w) == \A v \in TxThreads \ {w} : writing[v][2] = "idle"
NoUnlocked == \A v \in TxThreads : writing[v][1] \notin {"put", "flush"}
WDoing(w, state) == writing[w][2] = state
Bytes(b, n) == [i \in 1 .. n |-> <<b, i>>]

WriteCall(w) ==
  /\ WDoing(w, "idle") /\ blocks < MaxBlocks /\ NoUnlocked
  /\ \/ /\ blocks' = blocks + 1
        /\ \E n \in BlockSizes, call \in {"write", "nf"} :
             writing' = [writing EXCEPT ![w] = <<call, "lock", Bytes(blocks + 1, n), blocks + 1, n>>]
     \/ /\ Alone(w) /\ blocks' = blocks + 1
        /\ writing' = [writing EXCEPT ![w] = <<"put", "put", Bytes(blocks + 1, 1), blocks + 1, 1>>]
     \/ /\ Alone(w) /\ xBuf # << >> /\ UNCHANGED blocks
        /\ writing' = [writing EXCEPT ![w] = <<"flush", "put", << >>, 0, 0>>]
  /\ UNCHANGED <<plain, connected, tsRead, muxTX, xBuf, sending, wire, broken, accepted, dropped>>

MuxTXFree_Not == TRUE                                        \* mutant
MuxTXFree == muxTX = FreeTX

LockTX(w) ==
  /\ WDoing(w, "lock") /\ MuxTXFree
  /\ muxTX' = w
  /\ writing' = [writing EXCEPT ![w][2] = "put"]
  /\ UNCHANGED <<plain, connected, tsRead, xBuf, sending, wire, blocks, broken, accepted, dropped>>

(* The end of a call, and that it returned 0.                              *)
EndWrite(w) ==
  /\ writing' = [writing EXCEPT ![w] = NotWriting]
  /\ muxTX' = IF muxTX = w THEN FreeTX ELSE muxTX
Accepts(w) == accepted' = accepted \cup {<<writing[w][1], writing[w][4], writing[w][5]>>}
Flushing(w) == writing' = [writing EXCEPT ![w][2] = "flush"]

Flushes_OffByOne(buf) == Len(buf) > XBuf                     \* mutant
Flushes(buf) == Len(buf) >= XBuf

PutByte(w) ==
  /\ WDoing(w, "put") /\ writing[w][3] # << >>
  /\ xBuf' = Append(xBuf, Head(writing[w][3]))
  /\ writing' = [writing EXCEPT ![w][2] = IF Flushes(xBuf') THEN "flush" ELSE "put",
                               ![w][3] = Tail(@)]
  /\ UNCHANGED <<plain, connected, tsRead, muxTX, sending, wire, blocks, broken, accepted, dropped>>

(* Every byte is put: a call that does not flush is done.                  *)
AllPut(w) ==
  /\ WDoing(w, "put") /\ writing[w][3] = << >>
  /\ IF writing[w][1] \in {"write", "flush"}
       THEN Flushing(w) /\ UNCHANGED <<muxTX, accepted>>
       ELSE EndWrite(w) /\ Accepts(w)
  /\ UNCHANGED <<plain, connected, tsRead, xBuf, sending, wire, blocks, broken, dropped>>

InBytes(s) == {s[i] : i \in DOMAIN s}

(* The beginning of stlTcpFlush: xOfs is 0 before anything is sent.        *)
FlushStart(w) ==
  /\ WDoing(w, "flush")
  /\ xBuf' = << >>
  /\ IF ~connected
       THEN EndWrite(w) /\ dropped' = dropped \cup InBytes(xBuf) /\ UNCHANGED sending
       ELSE /\ sending' = xBuf
            /\ writing' = [writing EXCEPT ![w][2] = "send"]
            /\ UNCHANGED <<muxTX, dropped>>
  /\ UNCHANGED <<plain, connected, tsRead, wire, blocks, broken, accepted>>

Send(w) ==
  /\ WDoing(w, "send") /\ sending # << >> /\ connected
  /\ \E k \in 1 .. Len(sending) :
       /\ wire' = wire \o SubSeq(sending, 1, k)
       /\ sending' = SubSeq(sending, k + 1, Len(sending))
  /\ UNCHANGED <<plain, connected, tsRead, muxTX, xBuf, writing, blocks, broken, accepted, dropped>>

Sent(w) ==
  /\ WDoing(w, "send") /\ sending = << >>
  /\ IF writing[w][3] # << >> \/ writing[w][1] = "nf"
       THEN writing' = [writing EXCEPT ![w][2] = "put"] /\ UNCHANGED <<muxTX, accepted>>
       ELSE EndWrite(w) /\ Accepts(w)
  /\ UNCHANGED <<plain, connected, tsRead, xBuf, sending, wire, blocks, broken, dropped>>

(* A call ends when its flush fails: the rest of its block is not written. *)
Fails_GoesOn(w) == writing' = [writing EXCEPT ![w][2] = "put"] /\ UNCHANGED muxTX  \* mutant
Fails(w) == EndWrite(w)

(* select times out or fails: the rest is dropped, the connection stays.   *)
(* send fails, or the reader closed the socket: it is closed.              *)
FlushFails(w) ==
  /\ WDoing(w, "send") /\ sending # << >>
  /\ \/ UNCHANGED <<connected, broken>>
     \/ connected' = FALSE /\ broken' = TRUE
  /\ dropped' = dropped \cup InBytes(sending)
  /\ sending' = << >>
  /\ Fails(w)
  /\ UNCHANGED <<plain, tsRead, xBuf, wire, blocks, accepted>>

-----------------------------------------------------------------------------

TsNext ==
  \/ CryptStart \/ ReadCall \/ ReadRefused \/ TakeByte \/ WaitByte \/ Receive \/ EndWait
  \/ \E w \in TxThreads :
       \/ WriteCall(w) \/ LockTX(w) \/ PutByte(w) \/ AllPut(w)
       \/ FlushStart(w) \/ Send(w) \/ Sent(w) \/ FlushFails(w)

TsSpec == TsInit /\ [][TsNext]_tsVars

-----------------------------------------------------------------------------
(* Properties.                                                             *)

(* Type invariant.                                                         *)
TsTypeOK ==
  /\ plain \in 0 .. Total /\ connected \in BOOLEAN
  /\ Len(rBuf) <= RBuf /\ rKey \in 0 .. Total + 1
  /\ reading \in {"none", "char", "read", "line"} \X {"idle", "top", "more", "wait"} \X (0 .. Total)
  /\ muxTX \in TxThreads \cup {FreeTX} /\ Len(xBuf) <= XBuf /\ Len(sending) <= XBuf

(* Every byte the peer sent is in one place: given to the caller, in the   *)
(* line that is kept over timeouts, in rBuf, or still on its way; what was *)
(* given comes before the rest.                                            *)
EveryByteOnce ==
  LET all == got \o sLine \o rBuf \o net
  IN /\ Len(all) = Total
     /\ \A i, j \in 1 .. Total : i # j => all[i][1] # all[j][1]
     /\ \A i \in Taken + 1 .. Total : all[i][1] = i

(* The caller gets the bytes in their order, unless it reads a character or*)
(* a block while a part of a line is kept.                                 *)
ReadInOrder == skipped \/ \A i \in DOMAIN got : got[i][1] = i

(* What the caller gets is deciphered, once, also what was received before *)
(* stlTcpCryptStart.                                                       *)
Deciphered ==
  /\ \A i \in DOMAIN got : got[i][2] = 0
  /\ \A i \in DOMAIN sLine : sLine[i][2] = 0

(* A stlTcpRead that says that the connection is lost has given all that   *)
(* was received, and all there was unless a flush closed the connection.   *)
ReadToTheEnd == atEnd => rBuf = << >> /\ (net = << >> \/ broken)

(* The bytes of a block are on the wire in their order, none twice, and    *)
(* those of two blocks never mix.                                          *)
BlocksWhole ==
  \A i, j \in DOMAIN wire :
    i < j /\ wire[i][1] = wire[j][1]
      => /\ wire[i][2] < wire[j][2]
         /\ \A k \in i .. j : wire[k][1] = wire[i][1]

(* A block that stlTcpWrite accepted was sent whole.  One that was only    *)
(* stored is sent, or waits, or was dropped by a flush of another call.    *)
AcceptedIsSent ==
  \A a \in accepted : \A n \in 1 .. a[3] :
    \/ <<a[2], n>> \in InBytes(wire)
    \/ a[1] # "write" /\ <<a[2], n>> \in InBytes(xBuf \o sending) \cup dropped

(* All of it: bytes are given and sent once, in order, deciphered and      *)
(* whole.                                                                  *)
StreamKept ==
  /\ TsTypeOK /\ EveryByteOnce /\ ReadInOrder
  /\ Deciphered /\ ReadToTheEnd /\ BlocksWhole
  /\ AcceptedIsSent
=============================================================================
