---------------------------- MODULE Streams_proofs ----------------------------
(***************************************************************************)
(* Proofs that a stream stays whole: over a TCP connection, with its       *)
(* buffers, its key and several writers (TcpStream), and over a serial     *)
(* line, character by character and line by line (SerialRead).  For every  *)
(* number of bytes, writers and blocks and every size of the buffers.      *)
(***************************************************************************)
EXTENDS TcpStream, SerialRead, SequenceTheorems, TLAPS

-----------------------------------------------------------------------------
(* A TCP connection, the reading half: the inductive invariant.            *)

(* How far byte n is enciphered: from plain on, each one step more.        *)
Enc(n) == IF n > plain THEN n - plain ELSE 0
Byte == Nat \X Int

ReadTypes ==
  /\ plain \in 0 .. Total /\ connected \in BOOLEAN
  /\ got \in Seq(Byte) /\ sLine \in Seq(Byte) /\ rBuf \in Seq(Byte) /\ net \in Seq(Byte)
  /\ rKey \in Nat /\ Len(rBuf) <= RBuf
  /\ reading \in {"none", "char", "read", "line"} \X {"idle", "top", "more", "wait"} \X (0 .. Total)
  /\ skipped \in BOOLEAN /\ atEnd \in BOOLEAN /\ broken \in BOOLEAN

(* What comes next is in rBuf and then in net, numbered on from what was   *)
(* taken, and deciphered in rBuf as soon as there is a key.                *)
NextBytes ==
  /\ Taken + Len(rBuf) + Len(net) = Total
  /\ \A i \in 1 .. Len(rBuf) : rBuf[i] = <<Taken + i, IF rKey > 0 THEN 0 ELSE Enc(Taken + i)>>
  /\ \A i \in 1 .. Len(net) : net[i] = <<Taken + Len(rBuf) + i, Enc(Taken + Len(rBuf) + i)>>

(* The key counts the bytes that came behind the plain ones.               *)
KeyInStep == rKey > 0 => rKey = Taken + Len(rBuf) + 1 - plain

(* A call that reads goes no further than the bytes that are plain before  *)
(* there is a key.                                                         *)
StaysPlain ==
  rKey = 0 => IF Call = "line" THEN \E e \in LineEnds : e > Taken /\ e <= plain
              ELSE Taken + reading[3] <= plain

(* A call that reads has still something to read, and only waits when rBuf *)
(* is empty.                                                               *)
ReaderAt ==
  /\ TsAt("idle") => reading = Quiet
  /\ ~TsAt("idle") => Call # "none" /\ reading[3] > 0 /\ ~atEnd /\ StaysPlain
  /\ TsAt("wait") => rBuf = << >>

(* What was taken, given or in the line: each byte once, deciphered.       *)
TakenOnce(g, l) ==
  /\ \A i \in 1 .. Len(g) : g[i][1] \in 1 .. Len(g) + Len(l) /\ g[i][2] = 0
  /\ \A i \in 1 .. Len(l) : l[i][1] \in 1 .. Len(g) + Len(l) /\ l[i][2] = 0
  /\ \A i, j \in 1 .. Len(g) : i # j => g[i][1] # g[j][1]
  /\ \A i, j \in 1 .. Len(l) : i # j => l[i][1] # l[j][1]
  /\ \A i \in 1 .. Len(g), j \in 1 .. Len(l) : g[i][1] # l[j][1]
TakenInOrder(g, l) ==
  /\ \A i \in 1 .. Len(g) : g[i][1] = i
  /\ \A i \in 1 .. Len(l) : l[i][1] = Len(g) + i

(* Nothing comes of a connection that has ended, unless it broke.          *)
Ended ==
  /\ ~connected => net = << >> \/ broken
  /\ atEnd => rBuf = << >> /\ (net = << >> \/ broken)

(* The inductive invariant of the reading half.                            *)
ReadInv ==
  /\ ReadTypes /\ NextBytes /\ KeyInStep /\ ReaderAt /\ Ended
  /\ TakenOnce(got, sLine) /\ (skipped \/ TakenInOrder(got, sLine))

-----------------------------------------------------------------------------
(* Deciphering keeps the places and takes the key off, one more each byte. *)
LEMMA DecipherIs ==
  ASSUME NEW s \in Seq(Byte), NEW k \in Nat
  PROVE  /\ Decipher(s, k) \in Seq(Byte) /\ Len(Decipher(s, k)) = Len(s)
         /\ k = 0 => Decipher(s, k) = s
         /\ k > 0 => \A i \in 1 .. Len(s) :
                       Decipher(s, k)[i] = <<s[i][1], s[i][2] - (k + i - 1)>>
<1>1. CASE k = 0
  BY <1>1 DEF Decipher
<1>2. CASE k # 0
  <2>1. Decipher(s, k) = [i \in 1 .. Len(s) |-> <<s[i][1], s[i][2] - (k + i - 1)>>]
    BY <1>2 DEF Decipher
  <2>2. ASSUME NEW i \in 1 .. Len(s)
        PROVE  <<s[i][1], s[i][2] - (k + i - 1)>> \in Byte
    <3>1. s[i] \in Byte
      OBVIOUS
    <3>2. QED
      BY <3>1 DEF Byte
  <2>3. Len(s) \in Nat
    OBVIOUS
  <2>4. Decipher(s, k) \in [1 .. Len(s) -> Byte]
    BY <2>1, <2>2
  <2>5. Decipher(s, k) \in Seq(Byte) /\ Len(Decipher(s, k)) = Len(s)
    BY <2>3, <2>4, SeqDef, LenProperties
  <2>6. QED
    BY <1>2, <2>1, <2>5
<1>3. QED
  BY <1>1, <1>2

(* One byte more is taken, to what was given or to the line.               *)
LEMMA TakenMore ==
  ASSUME NEW g \in Seq(Byte), NEW l \in Seq(Byte), NEW b \in Byte,
         b = <<Len(g) + Len(l) + 1, 0>>, TakenOnce(g, l)
  PROVE  /\ TakenOnce(Append(g, b), l)
         /\ TakenOnce(g, Append(l, b))
         /\ l = << >> /\ TakenInOrder(g, l) => TakenInOrder(Append(g, b), l)
         /\ TakenInOrder(g, l) => TakenInOrder(g, Append(l, b))
<1> DEFINE m == Len(g) + Len(l) + 1
<1>1. /\ Len(g) \in Nat /\ Len(l) \in Nat
      /\ Len(Append(g, b)) = Len(g) + 1 /\ Len(Append(l, b)) = Len(l) + 1
      /\ \A i \in 1 .. Len(g) : Append(g, b)[i] = g[i]
      /\ \A i \in 1 .. Len(l) : Append(l, b)[i] = l[i]
      /\ Append(g, b)[Len(g) + 1] = b /\ Append(l, b)[Len(l) + 1] = b
  OBVIOUS
<1>2. b[1] = m /\ b[2] = 0
  OBVIOUS
<1>3. /\ \A i \in 1 .. Len(g) : g[i][1] \in 1 .. m - 1 /\ g[i][2] = 0
      /\ \A i \in 1 .. Len(l) : l[i][1] \in 1 .. m - 1 /\ l[i][2] = 0
  BY <1>1 DEF TakenOnce
<1>4. ASSUME NEW i \in 1 .. Len(g) + 1
      PROVE  i \in 1 .. Len(g) \/ i = Len(g) + 1
  BY <1>1
<1>5. ASSUME NEW i \in 1 .. Len(l) + 1
      PROVE  i \in 1 .. Len(l) \/ i = Len(l) + 1
  BY <1>1
<1>6. TakenOnce(Append(g, b), l)
  <2>1. ASSUME NEW i \in 1 .. Len(g) + 1
        PROVE  Append(g, b)[i][1] \in 1 .. m /\ Append(g, b)[i][2] = 0
    <3>1. CASE i \in 1 .. Len(g)
      BY <1>1, <1>3, <3>1
    <3>2. CASE i = Len(g) + 1
      BY <1>1, <1>2, <3>2
    <3>3. QED
      BY <3>1, <3>2, <1>4
  <2>2. \A i \in 1 .. Len(l) : l[i][1] \in 1 .. m /\ l[i][2] = 0
    BY <1>1, <1>3
  <2>3. \A i, j \in 1 .. Len(g) + 1 : i # j => Append(g, b)[i][1] # Append(g, b)[j][1]
    BY <1>1, <1>2, <1>3, <1>4 DEF TakenOnce
  <2>4. \A i \in 1 .. Len(g) + 1, j \in 1 .. Len(l) : Append(g, b)[i][1] # l[j][1]
    BY <1>1, <1>2, <1>3, <1>4 DEF TakenOnce
  <2>5. Len(Append(g, b)) + Len(l) = m /\ Len(Append(g, b)) = Len(g) + 1
    BY <1>1
  <2>6. \A i, j \in 1 .. Len(l) : i # j => l[i][1] # l[j][1]
    BY DEF TakenOnce
  <2> DEFINE a == Append(g, b)
  <2>7. /\ \A i \in 1 .. Len(g) + 1 : a[i][1] \in 1 .. m /\ a[i][2] = 0
        /\ \A i, j \in 1 .. Len(g) + 1 : i # j => a[i][1] # a[j][1]
        /\ \A i \in 1 .. Len(g) + 1, j \in 1 .. Len(l) : a[i][1] # l[j][1]
        /\ Len(a) + Len(l) = m /\ Len(a) = Len(g) + 1
    BY <2>1, <2>3, <2>4, <2>5
  <2> HIDE DEF m, a
  <2>8. TakenOnce(a, l)
    BY <2>2, <2>6, <2>7 DEF TakenOnce
  <2>9. QED
    BY <2>8 DEF a
<1>7. TakenOnce(g, Append(l, b))
  <2>1. ASSUME NEW i \in 1 .. Len(l) + 1
        PROVE  Append(l, b)[i][1] \in 1 .. m /\ Append(l, b)[i][2] = 0
    <3>1. CASE i \in 1 .. Len(l)
      BY <1>1, <1>3, <3>1
    <3>2. CASE i = Len(l) + 1
      BY <1>1, <1>2, <3>2
    <3>3. QED
      BY <3>1, <3>2, <1>5
  <2>2. \A i \in 1 .. Len(g) : g[i][1] \in 1 .. m /\ g[i][2] = 0
    BY <1>1, <1>3
  <2>3. \A i, j \in 1 .. Len(l) + 1 : i # j => Append(l, b)[i][1] # Append(l, b)[j][1]
    BY <1>1, <1>2, <1>3, <1>5 DEF TakenOnce
  <2>4. \A i \in 1 .. Len(g), j \in 1 .. Len(l) + 1 : g[i][1] # Append(l, b)[j][1]
    BY <1>1, <1>2, <1>3, <1>5 DEF TakenOnce
  <2>5. Len(g) + Len(Append(l, b)) = m /\ Len(Append(l, b)) = Len(l) + 1
    BY <1>1
  <2>6. \A i, j \in 1 .. Len(g) : i # j => g[i][1] # g[j][1]
    BY DEF TakenOnce
  <2> DEFINE a == Append(l, b)
  <2>7. /\ \A i \in 1 .. Len(l) + 1 : a[i][1] \in 1 .. m /\ a[i][2] = 0
        /\ \A i, j \in 1 .. Len(l) + 1 : i # j => a[i][1] # a[j][1]
        /\ \A i \in 1 .. Len(g), j \in 1 .. Len(l) + 1 : g[i][1] # a[j][1]
        /\ Len(g) + Len(a) = m /\ Len(a) = Len(l) + 1
    BY <2>1, <2>3, <2>4, <2>5
  <2> HIDE DEF m, a
  <2>8. TakenOnce(g, a)
    BY <2>2, <2>6, <2>7 DEF TakenOnce
  <2>9. QED
    BY <2>8 DEF a
<1>8. ASSUME l = << >>, TakenInOrder(g, l)
      PROVE  TakenInOrder(Append(g, b), l)
  <2>1. Len(l) = 0
    BY <1>8
  <2>2. QED
    BY <1>1, <1>2, <1>4, <1>8, <2>1 DEF TakenInOrder
<1>9. ASSUME TakenInOrder(g, l)
      PROVE  TakenInOrder(g, Append(l, b))
  <2>1. ASSUME NEW i \in 1 .. Len(l) + 1
        PROVE  Append(l, b)[i][1] = Len(g) + i
    <3>1. CASE i \in 1 .. Len(l)
      BY <1>1, <1>9, <3>1 DEF TakenInOrder
    <3>2. CASE i = Len(l) + 1
      BY <1>1, <1>2, <3>2
    <3>3. QED
      BY <3>1, <3>2, <1>5
  <2>2. QED
    BY <1>1, <1>9, <2>1 DEF TakenInOrder
<1>10. QED
  BY <1>6, <1>7, <1>8, <1>9

(* A line that is given becomes a part of what was given.                  *)
LEMMA LineGiven ==
  ASSUME NEW g \in Seq(Byte), NEW l \in Seq(Byte), TakenOnce(g, l)
  PROVE  /\ TakenOnce(g \o l, << >>)
         /\ TakenInOrder(g, l) => TakenInOrder(g \o l, << >>)
<1> DEFINE s == g \o l
<1>1. /\ Len(g) \in Nat /\ Len(l) \in Nat /\ Len(s) = Len(g) + Len(l)
      /\ \A i \in 1 .. Len(g) : s[i] = g[i]
      /\ \A i \in Len(g) + 1 .. Len(s) : s[i] = l[i - Len(g)]
  OBVIOUS
<1>2. ASSUME NEW i \in 1 .. Len(s)
      PROVE  \/ i \in 1 .. Len(g) /\ s[i] = g[i]
             \/ /\ i \notin 1 .. Len(g)
                /\ \E k \in 1 .. Len(l) : i = Len(g) + k /\ s[i] = l[k]
  <2>1. CASE i <= Len(g)
    BY <1>1, <2>1
  <2>2. CASE i > Len(g)
    <3>1. i - Len(g) \in 1 .. Len(l) /\ i = Len(g) + (i - Len(g)) /\ s[i] = l[i - Len(g)]
      BY <1>1, <2>2
    <3>2. QED
      BY <2>2, <3>1
  <2>3. QED
    BY <1>1, <2>1, <2>2
<1> HIDE DEF s
<1>3. \A i \in 1 .. Len(s) : s[i][1] \in 1 .. Len(s) /\ s[i][2] = 0
  <2>1. ASSUME NEW i \in 1 .. Len(s)
        PROVE  s[i][1] \in 1 .. Len(s) /\ s[i][2] = 0
    <3>1. CASE i \in 1 .. Len(g) /\ s[i] = g[i]
      BY <1>1, <3>1 DEF TakenOnce
    <3>2. ASSUME NEW k \in 1 .. Len(l), s[i] = l[k]
          PROVE  s[i][1] \in 1 .. Len(s) /\ s[i][2] = 0
      BY <1>1, <3>2 DEF TakenOnce
    <3>3. QED
      BY <1>2, <3>1, <3>2
  <2>2. QED
    BY <2>1
<1>4. \A i, j \in 1 .. Len(s) : i # j => s[i][1] # s[j][1]
  <2>1. SUFFICES ASSUME NEW i \in 1 .. Len(s), NEW j \in 1 .. Len(s), i # j
                 PROVE  s[i][1] # s[j][1]
    OBVIOUS
  <2>2. CASE i \in 1 .. Len(g) /\ j \in 1 .. Len(g)
    BY <1>1, <2>1, <2>2 DEF TakenOnce
  <2>3. CASE i \in 1 .. Len(g) /\ j \notin 1 .. Len(g)
    <3>1. s[i] = g[i]
      BY <1>1, <2>3
    <3>2. PICK k \in 1 .. Len(l) : s[j] = l[k]
      BY <1>2, <2>3
    <3>3. QED
      BY <2>3, <3>1, <3>2 DEF TakenOnce
  <2>4. CASE i \notin 1 .. Len(g) /\ j \in 1 .. Len(g)
    <3>1. s[j] = g[j]
      BY <1>1, <2>4
    <3>2. PICK k \in 1 .. Len(l) : s[i] = l[k]
      BY <1>2, <2>4
    <3>3. QED
      BY <2>4, <3>1, <3>2 DEF TakenOnce
  <2>5. CASE i \notin 1 .. Len(g) /\ j \notin 1 .. Len(g)
    <3>1. PICK k \in 1 .. Len(l) : i = Len(g) + k /\ s[i] = l[k]
      BY <1>2, <2>5
    <3>2. PICK n \in 1 .. Len(l) : j = Len(g) + n /\ s[j] = l[n]
      BY <1>2, <2>5
    <3>3. k # n
      BY <2>1, <3>1, <3>2
    <3>4. QED
      BY <3>1, <3>2, <3>3 DEF TakenOnce
  <2>6. QED
    BY <2>2, <2>3, <2>4, <2>5
<1>5. Len(<< >>) = 0 /\ 1 .. 0 = {}
  OBVIOUS
<1>6. TakenOnce(s, << >>)
  BY <1>1, <1>3, <1>4, <1>5 DEF TakenOnce
<1>7. ASSUME TakenInOrder(g, l)
      PROVE  TakenInOrder(s, << >>)
  <2>1. ASSUME NEW i \in 1 .. Len(s)
        PROVE  s[i][1] = i
    <3>1. CASE i \in 1 .. Len(g) /\ s[i] = g[i]
      BY <1>7, <3>1 DEF TakenInOrder
    <3>2. ASSUME NEW k \in 1 .. Len(l), i = Len(g) + k, s[i] = l[k]
          PROVE  s[i][1] = i
      BY <1>7, <3>2 DEF TakenInOrder
    <3>3. QED
      BY <1>2, <3>1, <3>2
  <2>2. QED
    BY <1>5, <2>1 DEF TakenInOrder
<1>8. QED
  BY <1>6, <1>7 DEF s

-----------------------------------------------------------------------------
(* Nothing is read at first.                                               *)
LEMMA InitReadInv == TsInit => ReadInv
<1> SUFFICES ASSUME TsInit
             PROVE  ReadInv
  OBVIOUS
<1>1. Total \in Nat \ {0} /\ RBuf \in Nat
  BY TcpStreamAssumption
<1>2. /\ got = << >> /\ sLine = << >> /\ rBuf = << >> /\ rKey = 0 /\ reading = Quiet
      /\ plain \in 0 .. Total /\ connected = TRUE /\ skipped = FALSE /\ atEnd = FALSE /\ broken = FALSE
      /\ net = [n \in 1 .. Total |-> <<n, Enc(n)>>]
  BY DEF TsInit, Enc
<1>3. << >> \in Seq(Byte) /\ Len(<< >>) = 0 /\ Len(got) = 0 /\ Len(sLine) = 0 /\ Len(rBuf) = 0
  BY <1>2
<1>4. net \in Seq(Byte) /\ Len(net) = Total
  <2>1. ASSUME NEW n \in 1 .. Total
        PROVE  <<n, Enc(n)>> \in Byte
    BY <1>1, <1>2 DEF Enc, Byte
  <2>2. net \in [1 .. Total -> Byte]
    BY <1>2, <2>1
  <2>3. QED
    BY <1>1, <1>2, <2>2, SeqDef, LenProperties
<1>5. ReadTypes
  <2>1. <<"none", "idle", 0>> \in {"none", "char", "read", "line"}
                                   \X {"idle", "top", "more", "wait"} \X (0 .. Total)
    BY <1>1
  <2>2. 0 \in Nat /\ 0 <= RBuf
    BY <1>1
  <2>3. QED
    BY <1>2, <1>3, <1>4, <2>1, <2>2 DEF ReadTypes, Quiet
<1>6. NextBytes
  BY <1>1, <1>2, <1>3, <1>4 DEF NextBytes, Taken
<1>7. KeyInStep /\ ReaderAt /\ Ended
  BY <1>2, <1>3 DEF KeyInStep, ReaderAt, TsAt, Quiet, Ended
<1>8. TakenOnce(got, sLine) /\ TakenInOrder(got, sLine)
  BY <1>3 DEF TakenOnce, TakenInOrder
<1>9. QED
  BY <1>5, <1>6, <1>7, <1>8 DEF ReadInv

(* What a step that takes no byte may do: the key and the buffers are left *)
(* alone, and the reader comes to a state that it may be in.               *)
LEMMA NothingTaken ==
  ASSUME ReadInv, UNCHANGED <<plain, got, sLine, rBuf, rKey, net, skipped>>,
         connected' \in BOOLEAN, broken' \in BOOLEAN, atEnd' \in BOOLEAN,
         reading' \in {"none", "char", "read", "line"} \X {"idle", "top", "more", "wait"}
                        \X (0 .. Total),
         ReaderAt', Ended'
  PROVE  ReadInv'
<1>1. ReadTypes'
  BY DEF ReadInv, ReadTypes
<1>2. NextBytes' /\ KeyInStep'
  BY DEF ReadInv, NextBytes, KeyInStep, Taken, Enc
<1>3. TakenOnce(got', sLine') /\ (skipped' \/ TakenInOrder(got', sLine'))
  BY DEF ReadInv
<1>4. QED
  BY <1>1, <1>2, <1>3 DEF ReadInv

(* What a writer changes is no matter to the reader, even when the         *)
(* connection breaks.                                                      *)
LEMMA WriterLeavesReader ==
  ASSUME ReadInv, UNCHANGED <<plain, tsRead>>,
         \/ UNCHANGED <<connected, broken>>
         \/ connected' = FALSE /\ broken' = TRUE
  PROVE  ReadInv'
<1>1. /\ UNCHANGED <<plain, got, sLine, rBuf, rKey, net, skipped, reading, atEnd>>
      /\ connected' \in BOOLEAN /\ broken' \in BOOLEAN /\ atEnd' \in BOOLEAN
  BY DEF tsRead, ReadInv, ReadTypes
<1>2. ReaderAt'
  BY <1>1 DEF ReadInv, ReaderAt, TsAt, Call, StaysPlain, Taken
<1>3. Ended'
  BY <1>1 DEF ReadInv, Ended
<1>4. reading' \in {"none", "char", "read", "line"} \X {"idle", "top", "more", "wait"}
                     \X (0 .. Total)
  BY <1>1 DEF ReadInv, ReadTypes
<1>5. QED
  BY <1>1, <1>2, <1>3, <1>4, NothingTaken

(* A call that ends.                                                       *)
LEMMA ReadEnds ==
  ASSUME ReadInv, NEW lost \in BOOLEAN, EndRead(lost),
         UNCHANGED <<plain, got, sLine, rBuf, rKey, net, skipped, broken>>,
         connected' = connected \/ (connected' = FALSE /\ net = << >>),
         lost /\ Call = "read" => ~connected' /\ rBuf = << >>
  PROVE  ReadInv'
<1>1. /\ reading' = <<"none", "idle", 0>> /\ atEnd' = (lost /\ Call = "read")
      /\ Total \in Nat /\ broken' = broken
      /\ connected' \in BOOLEAN /\ broken' \in BOOLEAN /\ atEnd' \in BOOLEAN
  BY TcpStreamAssumption DEF EndRead, Quiet, ReadInv, ReadTypes
<1>2. ReaderAt'
  BY <1>1 DEF ReaderAt, TsAt, Quiet
<1>3. ~connected' => net = << >> \/ broken
  BY DEF ReadInv, Ended
<1>4. atEnd' => rBuf = << >> /\ ~connected'
  BY <1>1
<1>5. Ended'
  BY <1>1, <1>3, <1>4 DEF Ended
<1>6. QED
  BY <1>1, <1>2, <1>5, NothingTaken

-----------------------------------------------------------------------------
(* A key is set before an enciphered byte was deciphered.                  *)
LEMMA CryptStartKeeps ==
  ASSUME ReadInv, CryptStart
  PROVE  ReadInv'
<1>1. /\ reading = Quiet /\ rKey = 0 /\ Taken = plain
      /\ rBuf' = Decipher(rBuf, 1) /\ rKey' = 1 + Len(rBuf)
      /\ UNCHANGED <<plain, connected, net, sLine, reading, got, skipped, atEnd, broken>>
      /\ Taken' = Taken
  BY DEF CryptStart, Rest, KeyAfter, tsWrite, Taken
<1>2. /\ rBuf \in Seq(Byte) /\ Len(rBuf) \in Nat /\ net \in Seq(Byte) /\ Len(net) \in Nat
      /\ plain \in Nat
  BY TcpStreamAssumption DEF ReadInv, ReadTypes
<1>3. /\ rBuf' \in Seq(Byte) /\ Len(rBuf') = Len(rBuf)
      /\ \A i \in 1 .. Len(rBuf) : rBuf'[i] = <<rBuf[i][1], rBuf[i][2] - (1 + i - 1)>>
  <2>1. /\ Decipher(rBuf, 1) \in Seq(Byte) /\ Len(Decipher(rBuf, 1)) = Len(rBuf)
        /\ \A i \in 1 .. Len(rBuf) :
             Decipher(rBuf, 1)[i] = <<rBuf[i][1], rBuf[i][2] - (1 + i - 1)>>
    <3>1. 1 \in Nat /\ 1 > 0
      OBVIOUS
    <3>2. QED
      BY <1>2, <3>1, DecipherIs
  <2>2. QED
    BY <1>1, <2>1
<1>4. ReadTypes'
  BY <1>1, <1>2, <1>3 DEF ReadInv, ReadTypes
<1>5. NextBytes'
  <2>1. ASSUME NEW i \in 1 .. Len(rBuf)
        PROVE  rBuf'[i] = <<Taken + i, 0>>
    <3>1. rBuf[i] = <<Taken + i, Enc(Taken + i)>>
      BY <1>1 DEF ReadInv, NextBytes
    <3>2. Enc(Taken + i) = i
      BY <1>1, <1>2 DEF Enc
    <3>3. QED
      BY <1>1, <1>2, <1>3, <3>1, <3>2
  <2>2. rKey' > 0
    BY <1>1, <1>2
  <2>3. \A i \in 1 .. Len(net) : net[i] = <<Taken + Len(rBuf) + i, Enc(Taken + Len(rBuf) + i)>>
    BY DEF ReadInv, NextBytes
  <2>4. Taken + Len(rBuf) + Len(net) = Total
    BY DEF ReadInv, NextBytes
  <2>5. ASSUME NEW i \in 1 .. Len(net')
        PROVE  (net[i] = <<Taken + Len(rBuf) + i, Enc(Taken + Len(rBuf) + i)>>)'
    BY <1>1, <1>3, <2>3 DEF Enc
  <2>6. ASSUME NEW i \in 1 .. Len(rBuf')
        PROVE  (rBuf[i] = <<Taken + i, IF rKey > 0 THEN 0 ELSE Enc(Taken + i)>>)'
    BY <1>1, <1>3, <2>1, <2>2
  <2>7. QED
    BY <1>1, <1>3, <2>4, <2>5, <2>6 DEF NextBytes
<1>6. KeyInStep'
  <2>1. rKey' = Taken + Len(rBuf) + 1 - plain
    BY <1>1, <1>2
  <2>2. rKey' = Taken' + Len(rBuf') + 1 - plain'
    BY <1>1, <1>3, <2>1
  <2>3. QED
    BY <2>2 DEF KeyInStep
<1>7. ReaderAt'
  BY <1>1 DEF ReaderAt, TsAt, Quiet
<1>8. Ended'
  <2>1. rBuf = << >> => rBuf' = << >>
    BY <1>3
  <2>2. QED
    BY <1>1, <2>1 DEF ReadInv, Ended
<1>9. TakenOnce(got', sLine') /\ (skipped' \/ TakenInOrder(got', sLine'))
  BY <1>1 DEF ReadInv
<1>10. QED
  BY <1>4, <1>5, <1>6, <1>7, <1>8, <1>9 DEF ReadInv

(* A call begins.                                                          *)
LEMMA ReadCallKeeps ==
  ASSUME ReadInv, ReadCall
  PROVE  ReadInv'
<1>1. /\ UNCHANGED <<plain, connected, net, rBuf, rKey, sLine, got, skipped, broken>>
      /\ atEnd' = FALSE /\ connected' \in BOOLEAN /\ broken' \in BOOLEAN
      /\ Total \in Nat \ {0} /\ Taken' = Taken
  BY TcpStreamAssumption DEF ReadCall, tsWrite, ReadInv, ReadTypes, Taken
<1>2. /\ reading' \in {"none", "char", "read", "line"} \X {"idle", "top", "more", "wait"}
                        \X (0 .. Total)
      /\ ReaderAt'
  <2>1. ASSUME NEW n \in 1 .. Total, MayRead(n), NEW c \in {"read", "char"},
               reading' = <<c, "top", n>>
        PROVE  /\ reading' \in {"none", "char", "read", "line"} \X {"idle", "top", "more", "wait"}
                                 \X (0 .. Total)
               /\ ReaderAt'
    <3>1. StaysPlain'
      BY <1>1, <2>1 DEF StaysPlain, MayRead, Call
    <3>2. QED
      BY <1>1, <2>1, <3>1 DEF ReaderAt, TsAt, Call
  <2>2. ASSUME rKey > 0 \/ \E n \in LineEnds : n > Taken /\ n <= plain,
               reading' = <<"line", "top", 1>>
        PROVE  /\ reading' \in {"none", "char", "read", "line"} \X {"idle", "top", "more", "wait"}
                                 \X (0 .. Total)
               /\ ReaderAt'
    <3>1. StaysPlain'
      BY <1>1, <2>2 DEF StaysPlain, Call
    <3>2. QED
      BY <1>1, <2>2, <3>1 DEF ReaderAt, TsAt, Call
  <2>3. QED
    BY <2>1, <2>2 DEF ReadCall
<1>3. Ended'
  BY <1>1 DEF ReadInv, Ended
<1>4. QED
  BY <1>1, <1>2, <1>3, NothingTaken

(* A call that is refused at once.                                         *)
LEMMA RefusedKeeps ==
  ASSUME ReadInv, ReadRefused
  PROVE  ReadInv'
<1>1. /\ EndRead(TRUE) /\ Refuses
      /\ UNCHANGED <<plain, connected, net, rBuf, rKey, sLine, got, skipped, broken>>
  BY DEF ReadRefused, tsWrite
<1>2. QED
  BY <1>1, ReadEnds DEF Refuses

(* A call that finds rBuf empty.                                           *)
LEMMA WaitByteKeeps ==
  ASSUME ReadInv, WaitByte
  PROVE  ReadInv'
<1>1. /\ TsAt("top") \/ TsAt("more")
      /\ rBuf = << >>
      /\ UNCHANGED <<plain, connected, net, rBuf, rKey, sLine, got, skipped, broken>>
  BY DEF WaitByte, tsWrite
<1>2. CASE connected
  <2>1. reading' = <<Call, "wait", reading[3]>> /\ atEnd' = atEnd
    BY <1>2 DEF WaitByte
  <2>2. /\ reading[1] \in {"none", "char", "read", "line"} /\ reading[3] \in 0 .. Total
        /\ connected \in BOOLEAN /\ broken \in BOOLEAN /\ atEnd \in BOOLEAN
    BY DEF ReadInv, ReadTypes
  <2>3. ~TsAt("idle")
    BY <1>1 DEF TsAt
  <2>4. StaysPlain'
    BY <1>1, <2>1, <2>3 DEF ReadInv, ReaderAt, StaysPlain, Call, Taken
  <2>5. ReaderAt'
    BY <1>1, <2>1, <2>3, <2>4 DEF ReadInv, ReaderAt, TsAt, Call
  <2>6. Ended'
    BY <1>1, <2>1 DEF ReadInv, Ended
  <2>7. reading' \in {"none", "char", "read", "line"} \X {"idle", "top", "more", "wait"}
                       \X (0 .. Total)
    BY <2>1, <2>2 DEF Call
  <2>8. QED
    BY <1>1, <2>1, <2>2, <2>5, <2>6, <2>7, NothingTaken
<1>3. CASE ~connected
  <2>1. EndRead(TRUE)
    BY <1>3 DEF WaitByte
  <2>2. QED
    BY <1>1, <1>3, <2>1, ReadEnds
<1>4. QED
  BY <1>2, <1>3

(* A call that ends for a timeout or the end of the connection.            *)
LEMMA EndWaitKeeps ==
  ASSUME ReadInv, EndWait
  PROVE  ReadInv'
<1>1. /\ rBuf = << >>
      /\ UNCHANGED <<plain, net, rBuf, rKey, sLine, got, skipped, broken>>
  BY DEF EndWait, tsWrite, ReadInv, ReaderAt
<1>2. CASE net = << >> /\ connected /\ connected' = FALSE /\ EndRead(TRUE)
  BY <1>1, <1>2, ReadEnds
<1>3. CASE connected /\ EndRead(FALSE) /\ UNCHANGED connected
  BY <1>1, <1>3, ReadEnds
<1>4. CASE ~connected /\ EndRead(TRUE) /\ UNCHANGED connected
  BY <1>1, <1>4, ReadEnds
<1>5. QED
  BY <1>2, <1>3, <1>4 DEF EndWait

(* What recv gives goes on where rBuf ended, deciphered with the key's     *)
(* next bytes.                                                             *)
LEMMA ReceiveKeeps ==
  ASSUME ReadInv, Receive
  PROVE  ReadInv'
<1>1. PICK k \in 1 .. RBuf :
        /\ k <= Len(net)
        /\ rBuf' = Decipher(SubSeq(net, 1, k), rKey)
        /\ rKey' = KeyAfter(SubSeq(net, 1, k), rKey)
        /\ net' = SubSeq(net, k + 1, Len(net))
  BY DEF Receive, Received
<1>2. /\ TsAt("wait") /\ connected /\ rBuf = << >>
      /\ reading' = <<Call, "top", reading[3]>>
      /\ UNCHANGED <<plain, connected, sLine, got, skipped, atEnd, broken>>
      /\ Taken' = Taken
  BY DEF Receive, tsWrite, ReadInv, ReaderAt, Taken
<1>3. /\ RBuf \in Nat /\ k \in Nat /\ k >= 1 /\ rKey \in Nat /\ Total \in Nat /\ plain \in Nat
      /\ net \in Seq(Byte) /\ Len(net) \in Nat /\ Len(rBuf) = 0 /\ Taken \in Nat
  BY <1>2, TcpStreamAssumption DEF ReadInv, ReadTypes, Taken
<1> DEFINE s == SubSeq(net, 1, k)
<1>4. /\ s \in Seq(Byte) /\ Len(s) = k
      /\ \A i \in 1 .. k : s[i] = net[i]
  BY <1>1, <1>3
<1>5. /\ net' \in Seq(Byte) /\ Len(net') = Len(net) - k
      /\ \A i \in 1 .. Len(net) - k : net'[i] = net[k + i]
  BY <1>1, <1>3
<1> HIDE DEF s
<1>6. /\ rBuf' \in Seq(Byte) /\ Len(rBuf') = k
      /\ rKey = 0 => rBuf' = s
      /\ rKey > 0 => \A i \in 1 .. k : rBuf'[i] = <<s[i][1], s[i][2] - (rKey + i - 1)>>
  <2>1. /\ Decipher(s, rKey) \in Seq(Byte) /\ Len(Decipher(s, rKey)) = Len(s)
        /\ rKey = 0 => Decipher(s, rKey) = s
        /\ rKey > 0 => \A i \in 1 .. Len(s) :
                         Decipher(s, rKey)[i] = <<s[i][1], s[i][2] - (rKey + i - 1)>>
    BY <1>3, <1>4, DecipherIs
  <2>2. rBuf' = Decipher(s, rKey)
    BY <1>1 DEF s
  <2>3. QED
    BY <1>4, <2>1, <2>2
<1>7. rKey' = IF rKey = 0 THEN 0 ELSE rKey + k
  BY <1>1, <1>4 DEF KeyAfter, s
<1>8. ReadTypes'
  <2>1. reading[1] \in {"none", "char", "read", "line"} /\ reading[3] \in 0 .. Total
    BY DEF ReadInv, ReadTypes
  <2>2. reading' \in {"none", "char", "read", "line"} \X {"idle", "top", "more", "wait"}
                       \X (0 .. Total)
    BY <1>2, <2>1 DEF Call
  <2>3. rKey' \in Nat /\ Len(rBuf') <= RBuf
    BY <1>3, <1>6, <1>7
  <2>4. QED
    BY <1>2, <1>5, <1>6, <2>2, <2>3 DEF ReadInv, ReadTypes
<1>9. \A i \in 1 .. Len(net) : net[i] = <<Taken + i, Enc(Taken + i)>>
  BY <1>3 DEF ReadInv, NextBytes
<1>10. rKey > 0 => rKey = Taken + 1 - plain
  BY <1>3 DEF ReadInv, KeyInStep
<1>11. NextBytes'
  <2>1. Taken + Len(rBuf') + Len(net') = Total
    <3>1. Taken + 0 + Len(net) = Total
      BY <1>3 DEF ReadInv, NextBytes
    <3>2. Len(rBuf') = k /\ Len(net') = Len(net) - k
      BY <1>5, <1>6
    <3>3. Taken \in Nat /\ Len(net) \in Nat /\ k \in Nat /\ Total \in Nat
      BY <1>3
    <3>4. QED
      BY <3>1, <3>2, <3>3
  <2>2. ASSUME NEW i \in 1 .. k
        PROVE  (rBuf[i] = <<Taken + i, IF rKey > 0 THEN 0 ELSE Enc(Taken + i)>>)'
    <3>1. s[i] = <<Taken + i, Enc(Taken + i)>>
      <4>1. i \in 1 .. Len(net)
        BY <1>1, <1>3
      <4>2. QED
        BY <1>4, <1>9, <4>1
    <3>2. CASE rKey = 0
      BY <1>2, <1>6, <1>7, <3>1, <3>2 DEF Enc
    <3>3. CASE rKey > 0
      <4>1. Enc(Taken + i) = rKey + i - 1
        BY <1>3, <1>10, <3>3 DEF Enc
      <4>2. Enc(Taken + i) - (rKey + i - 1) = 0
        BY <1>3, <4>1
      <4>3. rBuf'[i] = <<Taken + i, 0>>
        BY <1>6, <3>1, <3>3, <4>2
      <4>4. rKey' > 0
        BY <1>3, <1>7, <3>3
      <4>5. QED
        BY <1>2, <4>3, <4>4
    <3>4. QED
      BY <1>3, <3>2, <3>3
  <2>3. ASSUME NEW i \in 1 .. Len(net) - k
        PROVE  (net[i] = <<Taken + Len(rBuf) + i, Enc(Taken + Len(rBuf) + i)>>)'
    <3>1. k + i \in 1 .. Len(net) /\ Taken + (k + i) = Taken + k + i
      BY <1>1, <1>3
    <3>2. net'[i] = <<Taken + k + i, Enc(Taken + k + i)>>
      BY <1>5, <1>9, <3>1
    <3>3. QED
      BY <1>2, <1>6, <3>2 DEF Enc
  <2>4. QED
    BY <1>2, <1>5, <1>6, <2>1, <2>2, <2>3 DEF NextBytes
<1>12. KeyInStep'
  <2>1. rKey' > 0 => rKey' = Taken + k + 1 - plain
    BY <1>3, <1>7, <1>10
  <2>2. QED
    BY <1>2, <1>6, <2>1 DEF KeyInStep
<1>13. ReaderAt'
  <2>1. ~TsAt("idle")
    BY <1>2 DEF TsAt
  <2>2. Call # "none" /\ reading[3] > 0 /\ ~atEnd /\ StaysPlain
    BY <2>1 DEF ReadInv, ReaderAt
  <2>3. rKey' = 0 => rKey = 0
    BY <1>3, <1>7
  <2>4. StaysPlain'
    BY <1>2, <2>2, <2>3 DEF StaysPlain, Call
  <2>5. QED
    BY <1>2, <2>2, <2>4 DEF ReaderAt, TsAt, Call
<1>14. Ended'
  <2>1. ~atEnd
    BY <1>2 DEF ReadInv, ReaderAt, TsAt
  <2>2. QED
    BY <1>2, <2>1 DEF Ended
<1>15. TakenOnce(got', sLine') /\ (skipped' \/ TakenInOrder(got', sLine'))
  BY <1>2 DEF ReadInv
<1>16. QED
  BY <1>8, <1>11, <1>12, <1>13, <1>14, <1>15 DEF ReadInv

(* A byte is taken: it is the next, and deciphered.                        *)
LEMMA TakeByteKeeps ==
  ASSUME ReadInv, TakeByte
  PROVE  ReadInv'
<1> DEFINE b == Head(rBuf)
<1>1. /\ TsAt("top") \/ TsAt("more")
      /\ rBuf # << >> /\ rBuf' = Tail(rBuf)
      /\ skipped' = (skipped \/ (Call # "line" /\ sLine # << >>))
      /\ UNCHANGED <<plain, connected, net, rKey, broken>>
  BY DEF TakeByte, tsWrite
<1>2. /\ got \in Seq(Byte) /\ sLine \in Seq(Byte) /\ rBuf \in Seq(Byte) /\ net \in Seq(Byte)
      /\ Len(rBuf) \in Nat /\ Len(net) \in Nat /\ Taken \in Nat /\ Len(got) + Len(sLine) = Taken
      /\ rKey \in Nat /\ plain \in Nat /\ plain <= Total /\ Total \in Nat /\ Len(rBuf) <= RBuf
      /\ RBuf \in Nat
      /\ reading[1] \in {"none", "char", "read", "line"} /\ reading[3] \in 0 .. Total
  BY TcpStreamAssumption DEF ReadInv, ReadTypes, Taken
<1>n. /\ Len(got) \in Nat /\ Len(sLine) \in Nat /\ Taken \in Nat /\ Len(got) + Len(sLine) = Taken
      /\ Len(rBuf) \in Nat /\ Len(net) \in Nat /\ plain \in Nat /\ reading[3] \in Int
  BY <1>2
<1>3. /\ Len(rBuf) >= 1 /\ b = rBuf[1] /\ rBuf' \in Seq(Byte) /\ Len(rBuf') = Len(rBuf) - 1
      /\ \A i \in 1 .. Len(rBuf) - 1 : rBuf'[i] = rBuf[i + 1]
  BY <1>1, <1>2
<1>4. ~TsAt("idle") /\ ~TsAt("wait")
  BY <1>1 DEF TsAt
<1>5. Call # "none" /\ reading[3] > 0 /\ ~atEnd /\ StaysPlain
  BY <1>4 DEF ReadInv, ReaderAt
<1>6. b = <<Taken + 1, 0>> /\ b \in Byte
  <2>1. b = <<Taken + 1, IF rKey > 0 THEN 0 ELSE Enc(Taken + 1)>>
    BY <1>2, <1>3 DEF ReadInv, NextBytes
  <2>2. rKey = 0 => Taken + 1 <= plain
    <3>1. CASE Call = "line" /\ rKey = 0
      <4>1. PICK e \in LineEnds : e > Taken /\ e <= plain
        BY <1>5, <3>1 DEF StaysPlain
      <4>2. e \in Nat
        BY TcpStreamAssumption
      <4>3. QED
        BY <1>2, <4>1, <4>2
    <3>2. CASE Call # "line" /\ rKey = 0
      BY <1>2, <1>5, <3>2 DEF StaysPlain
    <3>3. QED
      BY <3>1, <3>2
  <2>3. rKey = 0 => Enc(Taken + 1) = 0
    BY <1>2, <2>2 DEF Enc
  <2>4. b = <<Taken + 1, 0>>
    BY <1>2, <2>1, <2>3
  <2>5. QED
    BY <1>2, <2>4 DEF Byte
<1> HIDE DEF b
(* Where the byte goes.                                                    *)
<1>7. ASSUME Call = "line"
     PROVE  /\ got' \in Seq(Byte) /\ sLine' \in Seq(Byte) /\ Taken' = Taken + 1
            /\ TakenOnce(got', sLine') /\ (skipped' \/ TakenInOrder(got', sLine'))
            /\ reading' \in {"none", "char", "read", "line"} \X {"idle", "top", "more", "wait"}
                              \X (0 .. Total)
            /\ ReaderAt' /\ atEnd' = FALSE
  <2>1. /\ IF b[1] \in LineEnds
             THEN /\ got' = got \o Append(sLine, b) /\ sLine' = << >>
                  /\ EndRead(FALSE)
             ELSE /\ sLine' = Append(sLine, b) /\ got' = got
                  /\ reading' = <<"line", "more", 1>> /\ atEnd' = atEnd
        /\ skipped' = skipped
    <3>1. IF TsAt("top") THEN StartedLine = sLine ELSE TRUE
      BY DEF StartedLine
    <3>2. (IF TsAt("top") THEN StartedLine ELSE sLine) = sLine
      BY <3>1
    <3>3. IF b[1] \in LineEnds
            THEN got' = got \o Append(sLine, b) /\ sLine' = << >> /\ EndRead(FALSE)
            ELSE /\ sLine' = Append(sLine, b) /\ reading' = <<"line", "more", 1>>
                 /\ UNCHANGED <<got, atEnd>>
      BY <1>7, <3>2 DEF TakeByte, b
    <3>4. skipped' = skipped
      BY <1>1, <1>7 DEF ReadInv, ReadTypes
    <3>5. QED
      BY <3>3, <3>4
  <2>2. /\ Append(sLine, b) \in Seq(Byte) /\ Len(Append(sLine, b)) = Len(sLine) + 1
        /\ got \o Append(sLine, b) \in Seq(Byte) /\ << >> \in Seq(Byte)
        /\ Len(got \o Append(sLine, b)) = Len(got) + Len(sLine) + 1
        /\ Len(got) \in Nat /\ Len(sLine) \in Nat /\ Len(<< >>) = 0
    BY <1>2, <1>6
  <2>3. /\ TakenOnce(got, Append(sLine, b))
        /\ TakenInOrder(got, sLine) => TakenInOrder(got, Append(sLine, b))
    BY <1>2, <1>6, TakenMore DEF ReadInv
  <2>4. /\ TakenOnce(got \o Append(sLine, b), << >>)
        /\ TakenInOrder(got, sLine) => TakenInOrder(got \o Append(sLine, b), << >>)
    BY <1>2, <2>2, <2>3, LineGiven
  <2>5. got' \in Seq(Byte) /\ sLine' \in Seq(Byte) /\ Taken' = Taken + 1
    <3>1. Taken' = Len(got') + Len(sLine')
      BY DEF Taken
    <3>2. CASE b[1] \in LineEnds
      <4>1. Len(got') = Len(got) + Len(sLine) + 1 /\ Len(sLine') = 0
        BY <2>1, <2>2, <3>2
      <4>2. Taken' = Taken + 1
        BY <1>n, <3>1, <4>1
      <4>3. QED
        BY <1>2, <2>1, <2>2, <3>2, <4>2
    <3>3. CASE b[1] \notin LineEnds
      <4>1. Len(got') = Len(got) /\ Len(sLine') = Len(sLine) + 1
        BY <2>1, <2>2, <3>3
      <4>2. Taken' = Taken + 1
        BY <1>n, <3>1, <4>1
      <4>3. QED
        BY <1>2, <2>1, <2>2, <3>3, <4>2
    <3>4. QED
      BY <3>2, <3>3
  <2>6. TakenOnce(got', sLine') /\ (skipped' \/ TakenInOrder(got', sLine'))
    BY <2>1, <2>3, <2>4 DEF ReadInv
  <2>7. /\ reading' \in {"none", "char", "read", "line"} \X {"idle", "top", "more", "wait"}
                          \X (0 .. Total)
        /\ ReaderAt' /\ atEnd' = FALSE
    <3>1. CASE b[1] \in LineEnds
      <4>1. reading' = <<"none", "idle", 0>> /\ atEnd' = FALSE
        BY <2>1, <3>1 DEF EndRead, Quiet
      <4>2. QED
        BY <1>2, <4>1 DEF ReaderAt, TsAt, Quiet
    <3>2. CASE b[1] \notin LineEnds
      <4>1. reading' = <<"line", "more", 1>> /\ atEnd' = FALSE
        BY <1>5, <2>1, <3>2 DEF ReadInv, ReadTypes
      <4>2. rKey = 0 => \E e \in LineEnds : e > Taken' /\ e <= plain
        <5>1. SUFFICES ASSUME rKey = 0
                       PROVE  \E e \in LineEnds : e > Taken' /\ e <= plain
          OBVIOUS
        <5>2. PICK e \in LineEnds : e > Taken /\ e <= plain
          BY <1>5, <1>7, <5>1 DEF StaysPlain
        <5>3. e \in Nat /\ e # Taken + 1
          BY <1>6, <3>2, TcpStreamAssumption
        <5>4. Taken' = Taken + 1 /\ Taken \in Nat
          BY <1>n, <2>5
        <5>5. e > Taken'
          BY <5>2, <5>3, <5>4
        <5>6. QED
          BY <5>2, <5>5
      <4>3. StaysPlain'
        BY <1>1, <4>1, <4>2 DEF StaysPlain, Call
      <4>4. 1 \in 0 .. Total
        BY <1>2, <1>5
      <4>5. QED
        BY <4>1, <4>3, <4>4 DEF ReaderAt, TsAt, Call
    <3>3. QED
      BY <3>1, <3>2
  <2>8. QED
    BY <2>5, <2>6, <2>7
<1>8. ASSUME Call # "line"
     PROVE  /\ got' \in Seq(Byte) /\ sLine' \in Seq(Byte) /\ Taken' = Taken + 1
            /\ TakenOnce(got', sLine') /\ (skipped' \/ TakenInOrder(got', sLine'))
            /\ reading' \in {"none", "char", "read", "line"} \X {"idle", "top", "more", "wait"}
                              \X (0 .. Total)
            /\ ReaderAt' /\ atEnd' = FALSE
  <2>1. /\ got' = Append(got, b) /\ sLine' = sLine
        /\ IF reading[3] = 1 THEN EndRead(FALSE)
           ELSE reading' = <<Call, "more", reading[3] - 1>> /\ atEnd' = atEnd
    BY <1>8 DEF TakeByte, b
  <2>2. /\ Append(got, b) \in Seq(Byte) /\ Len(Append(got, b)) = Len(got) + 1
        /\ Len(got) \in Nat /\ Len(sLine) \in Nat
    BY <1>2, <1>6
  <2>3. got' \in Seq(Byte) /\ sLine' \in Seq(Byte) /\ Taken' = Taken + 1
    BY <1>2, <2>1, <2>2 DEF Taken
  <2>4. /\ TakenOnce(Append(got, b), sLine)
        /\ sLine = << >> /\ TakenInOrder(got, sLine) => TakenInOrder(Append(got, b), sLine)
    BY <1>2, <1>6, TakenMore DEF ReadInv
  <2>5. TakenOnce(got', sLine') /\ (skipped' \/ TakenInOrder(got', sLine'))
    BY <1>1, <1>8, <2>1, <2>4 DEF ReadInv
  <2>6. /\ reading' \in {"none", "char", "read", "line"} \X {"idle", "top", "more", "wait"}
                          \X (0 .. Total)
        /\ ReaderAt' /\ atEnd' = FALSE
    <3>1. CASE reading[3] = 1
      <4>1. reading' = <<"none", "idle", 0>> /\ atEnd' = FALSE
        BY <2>1, <3>1 DEF EndRead, Quiet
      <4>2. QED
        BY <1>2, <4>1 DEF ReaderAt, TsAt, Quiet
    <3>2. CASE reading[3] # 1
      <4>1. reading' = <<Call, "more", reading[3] - 1>> /\ atEnd' = FALSE
        BY <1>5, <2>1, <3>2 DEF ReadInv, ReadTypes
      <4>2. reading[3] - 1 \in 0 .. Total /\ reading[3] - 1 > 0
        BY <1>2, <1>5, <3>2
      <4>3. rKey = 0 => Taken' + (reading[3] - 1) <= plain
        <5>1. rKey = 0 => Taken + reading[3] <= plain
          BY <1>5, <1>8 DEF StaysPlain
        <5>2. Taken' = Taken + 1
          BY <2>3
        <5>3. Taken \in Nat /\ plain \in Nat /\ reading[3] \in Nat
          BY <1>n, <1>2, <1>5
        <5>4. QED
          BY <5>1, <5>2, <5>3
      <4>4. StaysPlain'
        BY <1>1, <1>8, <4>1, <4>3 DEF StaysPlain, Call
      <4>5. QED
        BY <1>2, <1>5, <4>1, <4>2, <4>4 DEF ReaderAt, TsAt, Call
    <3>3. QED
      BY <3>1, <3>2
  <2>7. QED
    BY <2>3, <2>5, <2>6
<1>9. /\ got' \in Seq(Byte) /\ sLine' \in Seq(Byte) /\ Taken' = Taken + 1
      /\ TakenOnce(got', sLine') /\ (skipped' \/ TakenInOrder(got', sLine'))
      /\ reading' \in {"none", "char", "read", "line"} \X {"idle", "top", "more", "wait"}
                        \X (0 .. Total)
      /\ ReaderAt' /\ atEnd' = FALSE
  BY <1>7, <1>8
<1>10. ReadTypes'
  <2>1. skipped' \in BOOLEAN
    BY <1>1 DEF ReadInv, ReadTypes
  <2>2. Len(rBuf') <= RBuf
    BY <1>2, <1>3
  <2>3. QED
    BY <1>1, <1>3, <1>9, <2>1, <2>2 DEF ReadInv, ReadTypes
<1>11. NextBytes'
  <2>1. Taken' + Len(rBuf') + Len(net) = Total /\ Taken' + Len(rBuf') = Taken + Len(rBuf)
    <3>1. Taken + Len(rBuf) + Len(net) = Total
      BY DEF ReadInv, NextBytes
    <3>2. QED
      <4>1. Len(rBuf') = Len(rBuf) - 1 /\ Taken' = Taken + 1
        BY <1>3, <1>9
      <4>2. QED
        BY <1>n, <3>1, <4>1
  <2>2. ASSUME NEW i \in 1 .. Len(rBuf')
        PROVE  (rBuf[i] = <<Taken + i, IF rKey > 0 THEN 0 ELSE Enc(Taken + i)>>)'
    <3>0. /\ Len(rBuf') = Len(rBuf) - 1 /\ Len(rBuf) \in Nat /\ Taken' = Taken + 1
          /\ Taken \in Nat
      BY <1>2, <1>3, <1>9, <1>n
    <3>a. i + 1 \in 1 .. Len(rBuf) /\ Taken' + i = Taken + (i + 1)
      BY <3>0
    <3>b. rBuf'[i] = rBuf[i + 1]
      BY <1>3
    <3>1. i + 1 \in 1 .. Len(rBuf) /\ rBuf'[i] = rBuf[i + 1] /\ Taken' + i = Taken + (i + 1)
      BY <3>a, <3>b
    <3>2. rBuf[i + 1] = <<Taken + (i + 1), IF rKey > 0 THEN 0 ELSE Enc(Taken + (i + 1))>>
      BY <3>1 DEF ReadInv, NextBytes
    <3>3. QED
      BY <1>1, <3>1, <3>2 DEF Enc
  <2>3. ASSUME NEW i \in 1 .. Len(net)
        PROVE  (net[i] = <<Taken + Len(rBuf) + i, Enc(Taken + Len(rBuf) + i)>>)'
    <3>1. net[i] = <<Taken + Len(rBuf) + i, Enc(Taken + Len(rBuf) + i)>>
      BY DEF ReadInv, NextBytes
    <3>2. QED
      BY <1>1, <2>1, <3>1 DEF Enc
  <2>4. QED
    BY <1>1, <2>1, <2>2, <2>3 DEF NextBytes
<1>12. KeyInStep'
  <2>1. Taken' + Len(rBuf') = Taken + Len(rBuf)
    BY <1>2, <1>3, <1>9
  <2>2. QED
    BY <1>1, <2>1 DEF ReadInv, KeyInStep
<1>13. Ended'
  BY <1>1, <1>9 DEF ReadInv, Ended
<1>14. QED
  BY <1>9, <1>10, <1>11, <1>12, <1>13 DEF ReadInv

(* What the invariant says of the reading half.                            *)
LEMMA ReadInvGives ==
  ASSUME ReadInv
  PROVE  EveryByteOnce /\ ReadInOrder /\ Deciphered /\ ReadToTheEnd /\ rKey \in 0 .. Total + 1
<1>1. /\ got \in Seq(Byte) /\ sLine \in Seq(Byte) /\ rBuf \in Seq(Byte) /\ net \in Seq(Byte)
      /\ Len(got) \in Nat /\ Len(sLine) \in Nat /\ Len(rBuf) \in Nat /\ Len(net) \in Nat
      /\ Total \in Nat /\ plain \in 0 .. Total /\ Taken = Len(got) + Len(sLine) /\ rKey \in Nat
      /\ Taken + Len(rBuf) + Len(net) = Total
  BY TcpStreamAssumption DEF ReadInv, ReadTypes, NextBytes, Taken
<1> DEFINE all == got \o sLine \o rBuf \o net
           t == got \o sLine
<1>2. /\ t \in Seq(Byte) /\ Len(t) = Taken
      /\ \A i \in 1 .. Len(t) : t[i][1] \in 1 .. Taken
      /\ \A i, j \in 1 .. Len(t) : i # j => t[i][1] # t[j][1]
  <2>1. Len(t) = Taken /\ t \in Seq(Byte) /\ Len(<< >>) = 0
    BY <1>1
  <2>2. TakenOnce(t, << >>)
    BY <1>1, LineGiven DEF ReadInv
  <2> HIDE DEF t
  <2>3. /\ \A i \in 1 .. Len(t) : t[i][1] \in 1 .. Len(t) + 0
        /\ \A i, j \in 1 .. Len(t) : i # j => t[i][1] # t[j][1]
    BY <2>1, <2>2 DEF TakenOnce
  <2>4. Len(t) + 0 = Taken
    BY <1>1, <2>1
  <2>5. QED
    BY <2>1, <2>3, <2>4
<1> HIDE DEF t
<1> DEFINE u == t \o rBuf
<1>3. /\ u \in Seq(Byte) /\ Len(u) = Taken + Len(rBuf)
      /\ \A i \in 1 .. Taken : u[i] = t[i]
      /\ \A i \in Taken + 1 .. Taken + Len(rBuf) : u[i] = rBuf[i - Taken]
  <2>1. /\ Len(u) = Len(t) + Len(rBuf) /\ u \in Seq(Byte)
        /\ \A i \in 1 .. Len(t) : u[i] = t[i]
        /\ \A i \in Len(t) + 1 .. Len(t) + Len(rBuf) : u[i] = rBuf[i - Len(t)]
    <3>1. t \in Seq(Byte) /\ rBuf \in Seq(Byte)
      BY <1>1, <1>2
    <3>2. QED
      BY <3>1
  <2>2. QED
    BY <1>2, <2>1
<1>4. all = u \o net
  BY DEF t
<1> HIDE DEF u, all
<1>5. /\ Len(all) = Total
      /\ \A i \in 1 .. Len(u) : all[i] = u[i]
      /\ \A i \in Len(u) + 1 .. Total : all[i] = net[i - Len(u)]
  <2>1. u \in Seq(Byte) /\ net \in Seq(Byte)
    BY <1>1, <1>3
  <2>2. /\ Len(all) = Len(u) + Len(net)
        /\ \A i \in 1 .. Len(u) : all[i] = u[i]
        /\ \A i \in Len(u) + 1 .. Len(u) + Len(net) : all[i] = net[i - Len(u)]
    BY <1>4, <2>1
  <2>3. Len(u) + Len(net) = Total
    BY <1>1, <1>3
  <2>4. QED
    BY <2>2, <2>3
<1>6. \A i \in 1 .. Taken : all[i] = t[i]
  BY <1>1, <1>3, <1>5
<1>7. ASSUME NEW i \in Taken + 1 .. Total
      PROVE  all[i][1] = i
  <2>1. CASE i <= Taken + Len(rBuf)
    <3>1. i - Taken \in 1 .. Len(rBuf) /\ i \in 1 .. Len(u) /\ i \in Taken + 1 .. Taken + Len(rBuf)
      BY <1>1, <1>3, <2>1
    <3>2. all[i] = rBuf[i - Taken] /\ Taken + (i - Taken) = i
      BY <1>1, <1>3, <1>5, <3>1
    <3>3. rBuf[i - Taken][1] = Taken + (i - Taken)
      BY <3>1 DEF ReadInv, NextBytes
    <3>4. QED
      BY <3>2, <3>3
  <2>2. CASE i > Taken + Len(rBuf)
    <3>1. i - Len(u) \in 1 .. Len(net) /\ i \in Len(u) + 1 .. Total
      BY <1>1, <1>3, <2>2
    <3>2. all[i] = net[i - Len(u)] /\ Taken + Len(rBuf) + (i - Len(u)) = i
      BY <1>1, <1>3, <1>5, <3>1
    <3>3. net[i - Len(u)][1] = Taken + Len(rBuf) + (i - Len(u))
      BY <3>1 DEF ReadInv, NextBytes
    <3>4. QED
      BY <3>2, <3>3
  <2>3. QED
    BY <1>1, <2>1, <2>2
<1>8. ASSUME NEW i \in 1 .. Total, NEW j \in 1 .. Total, i # j
      PROVE  all[i][1] # all[j][1]
  <2>1. CASE i <= Taken /\ j <= Taken
    <3>1. i \in 1 .. Len(t) /\ j \in 1 .. Len(t) /\ all[i] = t[i] /\ all[j] = t[j]
      BY <1>1, <1>2, <1>6, <2>1
    <3>2. QED
      BY <1>2, <1>8, <3>1
  <2>2. CASE i <= Taken /\ j > Taken
    <3>1. all[i][1] \in 1 .. Taken
      BY <1>1, <1>2, <1>6, <2>2
    <3>2. all[j][1] = j
      BY <1>1, <1>7, <2>2
    <3>3. QED
      BY <1>1, <2>2, <3>1, <3>2
  <2>3. CASE i > Taken /\ j <= Taken
    <3>1. all[j][1] \in 1 .. Taken
      BY <1>1, <1>2, <1>6, <2>3
    <3>2. all[i][1] = i
      BY <1>1, <1>7, <2>3
    <3>3. QED
      BY <1>1, <2>3, <3>1, <3>2
  <2>4. CASE i > Taken /\ j > Taken
    <3>1. i \in Taken + 1 .. Total /\ j \in Taken + 1 .. Total
      BY <1>1, <2>4
    <3>2. all[i][1] = i /\ all[j][1] = j
      BY <1>7, <3>1
    <3>3. QED
      BY <1>8, <3>2
  <2>5. QED
    BY <1>1, <2>1, <2>2, <2>3, <2>4
<1>9. EveryByteOnce
  BY <1>5, <1>7, <1>8 DEF EveryByteOnce, all
<1>10. ReadInOrder /\ Deciphered /\ ReadToTheEnd
  <2>1. DOMAIN got = 1 .. Len(got) /\ DOMAIN sLine = 1 .. Len(sLine)
    BY <1>1
  <2>2. ReadInOrder
    BY <2>1 DEF ReadInv, ReadInOrder, TakenInOrder
  <2>3. Deciphered
    BY <2>1 DEF ReadInv, Deciphered, TakenOnce
  <2>4. QED
    BY <2>2, <2>3 DEF ReadInv, ReadToTheEnd, Ended
<1>11. rKey \in 0 .. Total + 1
  BY <1>1 DEF ReadInv, KeyInStep
<1>12. QED
  BY <1>9, <1>10, <1>11

-----------------------------------------------------------------------------
(* The writing half.                                                       *)

(* A byte that is written: its block, and its place in the block.          *)
Piece == Nat \X Nat
Steps == {"idle", "lock", "put", "flush", "send"}
Calls == {"none", "write", "nf", "put", "flush"}
(* All that was put, in order.                                             *)
Stream == wire \o sending \o xBuf

(* The writer is between lock and unlock, or needs no lock, being alone.   *)
Inside(w) == writing[w][2] \in {"put", "flush", "send"}
Locks(w) == writing[w][1] \in {"write", "nf"}
HasBlock(w) == writing[w][1] \in {"write", "nf", "put"}
Unput(w) == writing[w][3]
Block(w) == writing[w][4]
Done(w) == writing[w][5] - Len(writing[w][3])

WriterTypes ==
  /\ DOMAIN writing = TxThreads
  /\ \A w \in TxThreads :
       /\ DOMAIN writing[w] = 1 .. 5
       /\ writing[w][1] \in Calls /\ writing[w][2] \in Steps
       /\ writing[w][3] \in Seq(Piece) /\ writing[w][4] \in Nat /\ writing[w][5] \in Nat

WriteTypes ==
  /\ WriterTypes
  /\ muxTX \in TxThreads \cup {FreeTX} /\ blocks \in Nat
  /\ xBuf \in Seq(Piece) /\ sending \in Seq(Piece) /\ wire \in Seq(Piece)
  /\ Len(xBuf) <= XBuf /\ Len(sending) <= XBuf

(* Who is where; one writer has the mutex, or is alone.                    *)
WriterIn(w) ==
  /\ WDoing(w, "idle") => writing[w] = NotWriting
  /\ ~WDoing(w, "idle") => writing[w][1] # "none"
  /\ WDoing(w, "lock") => Locks(w)
  /\ muxTX = w <=> Inside(w) /\ Locks(w)
  /\ writing[w][1] \in {"put", "flush"} => Inside(w) /\ Alone(w)
  /\ writing[w][1] = "flush" => Unput(w) = << >> /\ writing[w][5] = 0

(* Who sends has put nothing since it began to; who puts has room.         *)
BuffersOf(w) ==
  /\ WDoing(w, "send") => xBuf = << >>
  /\ WDoing(w, "put") => Len(xBuf) < XBuf

(* A full buffer is being flushed, and a flush is by a writer.             *)
BuffersLeft ==
  /\ sending # << >> => \E w \in TxThreads : WDoing(w, "send")
  /\ Len(xBuf) >= XBuf => \E w \in TxThreads : WDoing(w, "flush")

(* What a writer has still to put of its block, and what it has put: the   *)
(* end of the stream, before which there is nothing of this block.         *)
BlockAt(w) ==
  /\ Block(w) \in 1 .. blocks
  /\ Done(w) >= 0 /\ Done(w) <= Len(Stream)
  /\ \A m \in 1 .. Len(Unput(w)) : Unput(w)[m] = <<Block(w), Done(w) + m>>
  /\ \A m \in 1 .. Done(w) : Stream[Len(Stream) - Done(w) + m] = <<Block(w), m>>
  /\ \A i \in 1 .. Len(Stream) - Done(w) : Stream[i][1] # Block(w)
  /\ Done(w) > 0 => Inside(w)

(* Two writers never have the same block.                                  *)
BlocksApart ==
  \A v, w \in TxThreads : v # w /\ HasBlock(v) /\ HasBlock(w) => Block(v) # Block(w)

(* Blocks follow one another, each in order.                               *)
Whole(s) ==
  \A i, j \in 1 .. Len(s) :
    i < j /\ s[i][1] = s[j][1]
      => s[i][2] < s[j][2] /\ \A k \in i .. j : s[k][1] = s[i][1]

(* The inductive invariant of the writing half.                            *)
WriteInv ==
  /\ WriteTypes /\ BuffersLeft /\ BlocksApart /\ Whole(Stream) /\ AcceptedIsSent
  /\ \A w \in TxThreads : WriterIn(w) /\ BuffersOf(w) /\ (HasBlock(w) => BlockAt(w))
  /\ \A i \in 1 .. Len(Stream) : Stream[i][1] <= blocks

-----------------------------------------------------------------------------
(* How a writer's entry changes.                                           *)

(* A writer goes to another step.                                          *)
LEMMA EntryMoves ==
  ASSUME WriterTypes, NEW w \in TxThreads, NEW st \in Steps,
         writing' = [writing EXCEPT ![w][2] = st]
  PROVE  /\ WriterTypes'
         /\ writing'[w][1] = writing[w][1] /\ writing'[w][2] = st /\ writing'[w][3] = writing[w][3]
         /\ writing'[w][4] = writing[w][4] /\ writing'[w][5] = writing[w][5]
         /\ \A v \in TxThreads : v # w => writing'[v] = writing[v]
<1>1. /\ writing'[w][1] = writing[w][1] /\ writing'[w][2] = st /\ writing'[w][3] = writing[w][3]
      /\ writing'[w][4] = writing[w][4] /\ writing'[w][5] = writing[w][5]
      /\ DOMAIN writing' = TxThreads /\ DOMAIN writing'[w] = 1 .. 5
      /\ \A v \in TxThreads : v # w => writing'[v] = writing[v]
  BY DEF WriterTypes
<1>2. QED
  BY <1>1 DEF WriterTypes

(* As EntryMoves says, also when the entry stays.                          *)
Moves(w, st) ==
  /\ WriterTypes'
  /\ writing'[w][1] = writing[w][1] /\ writing'[w][2] = st /\ writing'[w][3] = writing[w][3]
  /\ writing'[w][4] = writing[w][4] /\ writing'[w][5] = writing[w][5]
  /\ \A v \in TxThreads : v # w => writing'[v] = writing[v]

(* A writer goes to another step with less to put.                         *)
LEMMA EntryPuts ==
  ASSUME WriterTypes, NEW w \in TxThreads, NEW st \in Steps, NEW r \in Seq(Piece),
         writing' = [writing EXCEPT ![w][2] = st, ![w][3] = r]
  PROVE  /\ WriterTypes'
         /\ writing'[w][1] = writing[w][1] /\ writing'[w][2] = st /\ writing'[w][3] = r
         /\ writing'[w][4] = writing[w][4] /\ writing'[w][5] = writing[w][5]
         /\ \A v \in TxThreads : v # w => writing'[v] = writing[v]
<1>1. /\ writing'[w][1] = writing[w][1] /\ writing'[w][2] = st /\ writing'[w][3] = r
      /\ writing'[w][4] = writing[w][4] /\ writing'[w][5] = writing[w][5]
      /\ DOMAIN writing' = TxThreads /\ DOMAIN writing'[w] = 1 .. 5
      /\ \A v \in TxThreads : v # w => writing'[v] = writing[v]
  BY DEF WriterTypes
<1>2. QED
  BY <1>1 DEF WriterTypes

(* A writer gets a new entry.                                              *)
LEMMA EntryBecomes ==
  ASSUME WriterTypes, NEW w \in TxThreads, NEW call \in Calls, NEW st \in Steps,
         NEW r \in Seq(Piece), NEW b \in Nat, NEW n \in Nat,
         writing' = [writing EXCEPT ![w] = <<call, st, r, b, n>>]
  PROVE  /\ WriterTypes'
         /\ writing'[w] = <<call, st, r, b, n>>
         /\ \A v \in TxThreads : v # w => writing'[v] = writing[v]
<1>1. /\ writing'[w] = <<call, st, r, b, n>> /\ DOMAIN writing' = TxThreads
      /\ \A v \in TxThreads : v # w => writing'[v] = writing[v]
  BY DEF WriterTypes
<1>2. DOMAIN writing'[w] = 1 .. 5
  BY <1>1
<1>3. /\ writing'[w][1] = call /\ writing'[w][2] = st /\ writing'[w][3] = r
      /\ writing'[w][4] = b /\ writing'[w][5] = n
  BY <1>1
<1>4. QED
  BY <1>1, <1>2, <1>3 DEF WriterTypes

(* A call of a writer ends.                                                *)
LEMMA EntryEnds ==
  ASSUME WriterTypes, NEW w \in TxThreads, EndWrite(w)
  PROVE  /\ WriterTypes'
         /\ writing'[w] = NotWriting
         /\ \A v \in TxThreads : v # w => writing'[v] = writing[v]
<1>1. /\ writing'[w] = NotWriting /\ DOMAIN writing' = TxThreads
      /\ \A v \in TxThreads : v # w => writing'[v] = writing[v]
  BY DEF EndWrite, WriterTypes
<1>2. /\ DOMAIN NotWriting = 1 .. 5 /\ NotWriting[1] = "none" /\ NotWriting[2] = "idle"
      /\ NotWriting[3] = << >> /\ NotWriting[4] = 0 /\ NotWriting[5] = 0
  BY DEF NotWriting
<1>3. << >> \in Seq(Piece) /\ 0 \in Nat /\ "none" \in Calls /\ "idle" \in Steps
  BY DEF Calls, Steps
<1>4. ASSUME NEW v \in TxThreads
      PROVE  /\ DOMAIN writing'[v] = 1 .. 5
             /\ writing'[v][1] \in Calls /\ writing'[v][2] \in Steps
             /\ writing'[v][3] \in Seq(Piece) /\ writing'[v][4] \in Nat /\ writing'[v][5] \in Nat
  <2>1. CASE v = w
    BY <1>1, <1>2, <1>3, <2>1
  <2>2. CASE v # w
    BY <1>1, <2>2 DEF WriterTypes
  <2>3. QED
    BY <2>1, <2>2
<1>5. QED
  BY <1>1, <1>4 DEF WriterTypes

LEMMA DoneIsInt ==
  ASSUME WriterTypes, NEW w \in TxThreads
  PROVE  Done(w) \in Int
<1>1. writing[w][5] \in Nat /\ writing[w][3] \in Seq(Piece)
  BY DEF WriterTypes
<1>2. Len(writing[w][3]) \in Nat
  BY <1>1
<1>3. QED
  BY <1>1, <1>2 DEF Done

(* One writer at a time is inside.                                         *)
LEMMA OneInside ==
  ASSUME WriteInv, NEW v \in TxThreads, NEW w \in TxThreads, Inside(v), Inside(w)
  PROVE  v = w
<1>1. WriterIn(v) /\ WriterIn(w) /\ WriterTypes
  BY DEF WriteInv, WriteTypes
<1>2. CASE Locks(v) /\ Locks(w)
  BY <1>1, <1>2 DEF WriterIn
<1>3. CASE ~Locks(v)
  <2>1. writing[v][1] \in {"put", "flush"}
    BY <1>1, <1>3 DEF WriterIn, WriterTypes, Calls, Locks, Inside, WDoing
  <2>2. Alone(v)
    BY <1>1, <2>1 DEF WriterIn
  <2>3. QED
    BY <2>2 DEF Alone, Inside
<1>4. CASE ~Locks(w)
  <2>1. writing[w][1] \in {"put", "flush"}
    BY <1>1, <1>4 DEF WriterIn, WriterTypes, Calls, Locks, Inside, WDoing
  <2>2. Alone(w)
    BY <1>1, <2>1 DEF WriterIn
  <2>3. QED
    BY <2>2 DEF Alone, Inside
<1>5. QED
  BY <1>2, <1>3, <1>4

(* Who is inside and sees another that calls put or flush: there is none.  *)
LEMMA OthersLock ==
  ASSUME WriteInv, NEW v \in TxThreads, NEW w \in TxThreads, v # w, ~WDoing(w, "idle")
  PROVE  writing[v][1] \notin {"put", "flush"}
BY DEF WriteInv, WriterIn, Alone, WDoing

-----------------------------------------------------------------------------
(* Bytes in sequences.                                                     *)

(* A byte of a sequence stands at one of its places.                       *)
LEMMA BytesIn ==
  ASSUME NEW s \in Seq(Piece), NEW b
  PROVE  b \in InBytes(s) <=> \E i \in 1 .. Len(s) : s[i] = b
BY DEF InBytes

(* The bytes of two sequences in one.                                      *)
LEMMA BytesConcat ==
  ASSUME NEW s \in Seq(Piece), NEW t \in Seq(Piece)
  PROVE  InBytes(s \o t) = InBytes(s) \cup InBytes(t)
<1> DEFINE u == s \o t
<1>1. /\ u \in Seq(Piece) /\ Len(u) = Len(s) + Len(t) /\ Len(s) \in Nat /\ Len(t) \in Nat
      /\ \A i \in 1 .. Len(s) : u[i] = s[i]
      /\ \A i \in 1 .. Len(t) : u[Len(s) + i] = t[i]
  OBVIOUS
<1> HIDE DEF u
<1>2. ASSUME NEW b \in InBytes(u)
      PROVE  b \in InBytes(s) \cup InBytes(t)
  <2>1. PICK i \in 1 .. Len(u) : u[i] = b
    BY <1>1, BytesIn
  <2>2. CASE i <= Len(s)
    <3>1. i \in 1 .. Len(s) /\ s[i] = b
      BY <1>1, <2>1, <2>2
    <3>2. QED
      BY <3>1, BytesIn
  <2>3. CASE i > Len(s)
    <3>1. i - Len(s) \in 1 .. Len(t) /\ Len(s) + (i - Len(s)) = i
      BY <1>1, <2>1, <2>3
    <3>2. t[i - Len(s)] = b
      BY <1>1, <2>1, <3>1
    <3>3. QED
      BY <3>1, <3>2, BytesIn
  <2>4. QED
    BY <1>1, <2>1, <2>2, <2>3
<1>3. ASSUME NEW b \in InBytes(s)
      PROVE  b \in InBytes(u)
  <2>1. PICK i \in 1 .. Len(s) : s[i] = b
    BY BytesIn
  <2>2. i \in 1 .. Len(u) /\ u[i] = b
    BY <1>1, <2>1
  <2>3. QED
    BY <1>1, <2>2, BytesIn
<1>4. ASSUME NEW b \in InBytes(t)
      PROVE  b \in InBytes(u)
  <2>1. PICK i \in 1 .. Len(t) : t[i] = b
    BY BytesIn
  <2>2. Len(s) + i \in 1 .. Len(u) /\ u[Len(s) + i] = b
    BY <1>1, <2>1
  <2>3. QED
    BY <1>1, <2>2, BytesIn
<1>5. QED
  BY <1>2, <1>3, <1>4 DEF u

(* What the stream is made of.                                             *)
LEMMA StreamBytes ==
  ASSUME WriteTypes
  PROVE  /\ Stream \in Seq(Piece) /\ Len(Stream) = Len(wire) + Len(sending) + Len(xBuf)
         /\ \A i \in 1 .. Len(wire) : Stream[i] = wire[i]
         /\ InBytes(Stream) = InBytes(wire) \cup InBytes(sending) \cup InBytes(xBuf)
         /\ InBytes(xBuf \o sending) = InBytes(sending) \cup InBytes(xBuf)
         /\ InBytes(<< >>) = {}
<1>1. wire \in Seq(Piece) /\ sending \in Seq(Piece) /\ xBuf \in Seq(Piece)
  BY DEF WriteTypes
<1>2. /\ wire \o sending \in Seq(Piece) /\ Len(wire \o sending) = Len(wire) + Len(sending)
      /\ \A i \in 1 .. Len(wire) : (wire \o sending)[i] = wire[i]
  BY <1>1
<1> DEFINE u == wire \o sending
<1> HIDE DEF u
<1>3. /\ u \in Seq(Piece) /\ Len(u) = Len(wire) + Len(sending) /\ Stream = u \o xBuf
      /\ \A i \in 1 .. Len(wire) : u[i] = wire[i]
  BY <1>2 DEF u, Stream
<1>4. /\ u \o xBuf \in Seq(Piece) /\ Len(u \o xBuf) = Len(u) + Len(xBuf)
      /\ \A i \in 1 .. Len(u) : (u \o xBuf)[i] = u[i]
  <2>1. u \in Seq(Piece) /\ xBuf \in Seq(Piece)
    BY <1>1, <1>3
  <2>2. QED
    BY <2>1
<1>5. Len(wire) \in Nat /\ Len(sending) \in Nat /\ Len(xBuf) \in Nat
  BY <1>1
<1>6. \A i \in 1 .. Len(wire) : Stream[i] = wire[i]
  <2>1. \A i \in 1 .. Len(wire) : i \in 1 .. Len(u)
    BY <1>3, <1>5
  <2>2. QED
    BY <1>3, <1>4, <2>1
<1>7. InBytes(Stream) = InBytes(wire) \cup InBytes(sending) \cup InBytes(xBuf)
  <2>1. InBytes(u) = InBytes(wire) \cup InBytes(sending)
    BY <1>1, BytesConcat DEF u
  <2>2. InBytes(u \o xBuf) = InBytes(u) \cup InBytes(xBuf)
    <3>1. u \in Seq(Piece) /\ xBuf \in Seq(Piece)
      BY <1>1, <1>3
    <3>2. QED
      BY <3>1, BytesConcat
  <2>3. QED
    BY <1>3, <2>1, <2>2
<1>8. InBytes(xBuf \o sending) = InBytes(sending) \cup InBytes(xBuf)
  BY <1>1, BytesConcat
<1>9. InBytes(<< >>) = {}
  BY DEF InBytes
<1>10. QED
  BY <1>3, <1>4, <1>6, <1>7, <1>8, <1>9

(* Bytes go from the buffers to the wire or are dropped, and stay there.   *)
BytesGoOn ==
  /\ InBytes(wire) \subseteq InBytes(wire')
  /\ InBytes(wire) \cup InBytes(sending) \cup InBytes(xBuf) \cup dropped
       \subseteq InBytes(wire') \cup InBytes(sending') \cup InBytes(xBuf') \cup dropped'

(* What was accepted is still under way when bytes only move on.           *)
LEMMA AcceptedStays ==
  ASSUME WriteTypes, WriteTypes', AcceptedIsSent, BytesGoOn,
         \A a \in accepted' : a \notin accepted =>
           \A n \in 1 .. a[3] :
             \/ <<a[2], n>> \in InBytes(wire')
             \/ a[1] # "write" /\ <<a[2], n>> \in InBytes(sending') \cup InBytes(xBuf') \cup dropped'
  PROVE  AcceptedIsSent'
<1>1. InBytes(xBuf \o sending) = InBytes(sending) \cup InBytes(xBuf)
  BY StreamBytes
<1>2. InBytes(xBuf' \o sending') = InBytes(sending') \cup InBytes(xBuf')
  <2>1. xBuf' \in Seq(Piece) /\ sending' \in Seq(Piece)
    BY DEF WriteTypes
  <2>2. QED
    BY <2>1, BytesConcat
<1>3. ASSUME NEW c \in accepted', NEW n \in 1 .. c[3]
      PROVE  \/ <<c[2], n>> \in InBytes(wire')
             \/ c[1] # "write" /\ <<c[2], n>> \in InBytes(xBuf' \o sending') \cup dropped'
  <2>1. CASE c \notin accepted
    BY <1>2, <1>3, <2>1
  <2>2. CASE c \in accepted
    <3>1. \/ <<c[2], n>> \in InBytes(wire)
          \/ c[1] # "write" /\ <<c[2], n>> \in InBytes(xBuf \o sending) \cup dropped
      BY <2>2 DEF AcceptedIsSent
    <3>2. QED
      BY <1>1, <1>2, <3>1 DEF BytesGoOn
  <2>3. QED
    BY <2>1, <2>2
<1>4. QED
  BY <1>3 DEF AcceptedIsSent

-----------------------------------------------------------------------------
(* Nothing is written at first.                                            *)
LEMMA InitWriteInv == TsInit => WriteInv
<1> SUFFICES ASSUME TsInit
             PROVE  WriteInv
  OBVIOUS
<1>1. /\ muxTX = FreeTX /\ xBuf = << >> /\ sending = << >> /\ wire = << >> /\ blocks = 0
      /\ writing = [w \in TxThreads |-> NotWriting] /\ accepted = {}
      /\ XBuf \in Nat \ {0} /\ FreeTX \notin TxThreads
  BY TcpStreamAssumption DEF TsInit
<1>2. ASSUME NEW w \in TxThreads
      PROVE  /\ writing[w] = NotWriting /\ DOMAIN writing[w] = 1 .. 5
             /\ writing[w][1] = "none" /\ writing[w][2] = "idle" /\ writing[w][3] = << >>
             /\ writing[w][4] = 0 /\ writing[w][5] = 0
  BY <1>1 DEF NotWriting
<1>3. WriterTypes
  <2>1. << >> \in Seq(Piece) /\ 0 \in Nat
    OBVIOUS
  <2>2. DOMAIN writing = TxThreads
    BY <1>1
  <2>3. QED
    BY <1>2, <2>1, <2>2 DEF WriterTypes, Calls, Steps
<1>4. << >> \in Seq(Piece) /\ Len(<< >>) = 0
  OBVIOUS
<1>5. WriteTypes
  BY <1>1, <1>3, <1>4 DEF WriteTypes
<1>6. Len(Stream) = 0
  BY <1>1, <1>4, <1>5, StreamBytes
<1>7. BuffersLeft /\ BlocksApart /\ Whole(Stream) /\ AcceptedIsSent
  BY <1>1, <1>2, <1>4, <1>6 DEF BuffersLeft, BlocksApart, HasBlock, Whole, AcceptedIsSent
<1>8. ASSUME NEW w \in TxThreads
      PROVE  WriterIn(w) /\ BuffersOf(w) /\ ~HasBlock(w)
  BY <1>1, <1>2, <1>8 DEF WriterIn, BuffersOf, HasBlock, WDoing, Inside
<1>9. QED
  BY <1>5, <1>6, <1>7, <1>8 DEF WriteInv

(* The entries of the others, when w's changes and w was not idle before.  *)
LEMMA OthersStay ==
  ASSUME WriteInv, NEW w \in TxThreads, ~WDoing(w, "idle"), NEW v \in TxThreads, v # w,
         writing'[v] = writing[v], (muxTX' = v) <=> (muxTX = v)
  PROVE  WriterIn(v)'
<1>1. WriterIn(v)
  BY DEF WriteInv
<1>2. writing[v][1] \notin {"put", "flush"}
  BY OthersLock
<1>3. QED
  BY <1>1, <1>2 DEF WriterIn, WDoing, Locks, Inside, Unput

(* A writer inside goes on: what is in the stream stays as it is.          *)
LEMMA InsideGoes ==
  ASSUME WriteInv, NEW w \in TxThreads, Inside(w), NEW st \in {"put", "flush", "send"},
         Moves(w, st), UNCHANGED <<muxTX, blocks>>,
         wire' \in Seq(Piece), sending' \in Seq(Piece), xBuf' \in Seq(Piece),
         Len(sending') <= XBuf, Len(xBuf') <= XBuf, Stream' = Stream, AcceptedIsSent',
         st = "send" => xBuf' = << >>, st = "put" => Len(xBuf') < XBuf,
         sending' # << >> => st = "send", Len(xBuf') >= XBuf => st = "flush"
  PROVE  WriteInv'
<1>1. /\ WriterTypes'
      /\ writing'[w][1] = writing[w][1] /\ writing'[w][2] = st /\ writing'[w][3] = writing[w][3]
      /\ writing'[w][4] = writing[w][4] /\ writing'[w][5] = writing[w][5]
      /\ \A v \in TxThreads : v # w => writing'[v] = writing[v]
  BY DEF Moves
<1>2. WriteTypes'
  BY <1>1 DEF WriteInv, WriteTypes
<1>3. BuffersLeft'
  BY <1>1 DEF BuffersLeft, WDoing
<1>4. ASSUME NEW v \in TxThreads
      PROVE  /\ writing'[v][1] = writing[v][1] /\ writing'[v][3] = writing[v][3]
             /\ writing'[v][4] = writing[v][4] /\ writing'[v][5] = writing[v][5]
             /\ Inside(v)' <=> Inside(v)
             /\ v # w => ~Inside(v)
  BY <1>1, OneInside DEF Inside
<1>5. BlocksApart'
  BY <1>4 DEF WriteInv, BlocksApart, HasBlock, Block
<1>6. ~WDoing(w, "idle") /\ WriterIn(w)
  BY DEF Inside, WDoing, WriteInv
<1>7. ASSUME NEW v \in TxThreads
      PROVE  WriterIn(v)'
  <2>1. CASE v = w
    <3>1. Alone(w) => Alone(w)'
      BY <1>1 DEF Alone
    <3>2. QED
      BY <1>1, <1>4, <1>6, <2>1, <3>1 DEF WriterIn, WDoing, Locks, Inside, Unput
  <2>2. CASE v # w
    BY <1>1, <1>6, <2>2, OthersStay
  <2>3. QED
    BY <2>1, <2>2
<1>8. ASSUME NEW v \in TxThreads
      PROVE  BuffersOf(v)'
  BY <1>1, <1>4 DEF BuffersOf, WDoing, Inside
<1>9. ASSUME NEW v \in TxThreads, HasBlock(v)'
      PROVE  BlockAt(v)'
  <2>1. HasBlock(v) /\ BlockAt(v)
    BY <1>4, <1>9 DEF WriteInv, HasBlock
  <2>2. Done(v)' = Done(v) /\ Unput(v)' = Unput(v) /\ Block(v)' = Block(v)
    BY <1>4 DEF Done, Unput, Block
  <2>3. QED
    BY <1>4, <2>1, <2>2 DEF BlockAt
<1>10. Whole(Stream') /\ \A i \in 1 .. Len(Stream') : Stream'[i][1] <= blocks'
  BY DEF WriteInv
<1>11. QED
  BY <1>2, <1>3, <1>5, <1>7, <1>8, <1>9, <1>10 DEF WriteInv

(* A call ends: the stream stays, or loses its end.                        *)
LEMMA WriteEnds ==
  ASSUME WriteInv, NEW w \in TxThreads, Inside(w), EndWrite(w), blocks' = blocks,
         wire' \in Seq(Piece), sending' = << >>, xBuf' \in Seq(Piece), Len(xBuf') < XBuf,
         Len(Stream') <= Len(Stream), \A i \in 1 .. Len(Stream') : Stream'[i] = Stream[i],
         AcceptedIsSent'
  PROVE  WriteInv'
<1>0. << >> \in Seq(Piece) /\ Len(<< >>) = 0 /\ XBuf \in Nat
  BY TcpStreamAssumption
<1>1. /\ WriterTypes'
      /\ writing'[w] = NotWriting
      /\ \A v \in TxThreads : v # w => writing'[v] = writing[v]
  <2>1. WriterTypes
    BY DEF WriteInv, WriteTypes
  <2>2. QED
    BY <2>1, EntryEnds
<1>2. WriteTypes'
  <2>1. muxTX' \in TxThreads \cup {FreeTX} /\ blocks' \in Nat
    BY DEF EndWrite, WriteInv, WriteTypes
  <2>2. Len(xBuf') <= XBuf /\ Len(sending') <= XBuf
    <3>1. Len(xBuf') \in Nat
      OBVIOUS
    <3>2. QED
      BY <1>0, <3>1
  <2>3. QED
    BY <1>0, <1>1, <2>1, <2>2 DEF WriteTypes
<1>3. BuffersLeft'
  <2>1. ~(Len(xBuf') >= XBuf)
    <3>1. Len(xBuf') \in Nat
      OBVIOUS
    <3>2. QED
      BY <1>0, <3>1
  <2>2. QED
    BY <2>1 DEF BuffersLeft
<1>4. ASSUME NEW v \in TxThreads, v # w
      PROVE  writing'[v] = writing[v] /\ ~Inside(v)
  BY <1>1, <1>4, OneInside
<1>5. /\ writing'[w][1] = "none" /\ writing'[w][2] = "idle" /\ ~HasBlock(w)'
  BY <1>1 DEF NotWriting, HasBlock
<1>6. BlocksApart'
  BY <1>4, <1>5 DEF WriteInv, BlocksApart, HasBlock, Block
<1>7. ~WDoing(w, "idle") /\ WriterIn(w)
  BY DEF Inside, WDoing, WriteInv
<1>8. FreeTX \notin TxThreads
  BY TcpStreamAssumption
<1>9. ASSUME NEW v \in TxThreads
      PROVE  WriterIn(v)'
  <2>1. CASE v = w
    <3>1. muxTX' # w
      BY <1>8 DEF EndWrite
    <3>2. QED
      BY <1>1, <1>5, <2>1, <3>1 DEF WriterIn, WDoing, Locks, Inside
  <2>2. CASE v # w
    <3>1. (muxTX' = v) <=> (muxTX = v)
      BY <1>8, <2>2 DEF EndWrite
    <3>2. QED
      BY <1>1, <1>7, <2>2, <3>1, OthersStay
  <2>3. QED
    BY <2>1, <2>2
<1>10. ASSUME NEW v \in TxThreads
       PROVE  BuffersOf(v)'
  BY <1>4, <1>5 DEF BuffersOf, WDoing, Inside
<1>11. Len(Stream) \in Nat /\ Len(Stream') \in Nat
  <2>1. Stream \in Seq(Piece)
    BY StreamBytes DEF WriteInv
  <2>2. Stream' \in Seq(Piece)
    <3>1. wire' \o sending' \in Seq(Piece)
      BY <1>0
    <3>2. QED
      BY <3>1 DEF Stream
  <2>3. QED
    BY <2>1, <2>2
<1>12. ASSUME NEW v \in TxThreads, HasBlock(v)'
       PROVE  BlockAt(v)'
  <2>1. v # w
    BY <1>5, <1>12
  <2>2. HasBlock(v) /\ BlockAt(v) /\ ~Inside(v)
    BY <1>4, <1>12, <2>1 DEF WriteInv, HasBlock
  <2>3. Done(v)' = Done(v) /\ Unput(v)' = Unput(v) /\ Block(v)' = Block(v) /\ (Inside(v)' <=> Inside(v))
    BY <1>4, <2>1 DEF Done, Unput, Block, Inside
  <2>4. Done(v) = 0
    <3>1. Done(v) \in Int
      BY DoneIsInt DEF WriteInv, WriteTypes
    <3>2. QED
      BY <2>2, <3>1 DEF BlockAt
  <2>5. ASSUME NEW i \in 1 .. Len(Stream')
        PROVE  Stream'[i][1] # Block(v)
    <3>1. i \in 1 .. Len(Stream) - Done(v) /\ Stream'[i] = Stream[i]
      BY <1>11, <2>4
    <3>2. QED
      BY <2>2, <3>1 DEF BlockAt
  <2>6. \A i \in 1 .. Len(Stream') - 0 : Stream'[i][1] # Block(v)
    BY <1>11, <2>5
  <2>7. Block(v) \in 1 .. blocks /\ \A m \in 1 .. Len(Unput(v)) : Unput(v)[m] = <<Block(v), Done(v) + m>>
    BY <2>2 DEF BlockAt
  <2>8. 0 >= 0 /\ 0 <= Len(Stream') /\ 1 .. 0 = {}
    BY <1>11
  <2>9. QED
    BY <2>3, <2>4, <2>6, <2>7, <2>8 DEF BlockAt
<1>13. Whole(Stream') /\ \A i \in 1 .. Len(Stream') : Stream'[i][1] <= blocks'
  <2>1. ASSUME NEW i \in 1 .. Len(Stream')
        PROVE  i \in 1 .. Len(Stream) /\ Stream'[i] = Stream[i]
    BY <1>11
  <2>2. Whole(Stream) /\ \A i \in 1 .. Len(Stream) : Stream[i][1] <= blocks
    BY DEF WriteInv
  <2>3. ASSUME NEW i \in 1 .. Len(Stream'), NEW j \in 1 .. Len(Stream'),
               i < j, Stream'[i][1] = Stream'[j][1]
        PROVE  Stream'[i][2] < Stream'[j][2] /\ \A k \in i .. j : Stream'[k][1] = Stream'[i][1]
    <3>1. Stream[i][2] < Stream[j][2] /\ \A k \in i .. j : Stream[k][1] = Stream[i][1]
      BY <2>1, <2>2, <2>3 DEF Whole
    <3>2. \A k \in i .. j : k \in 1 .. Len(Stream')
      BY <1>11
    <3>3. QED
      BY <2>1, <3>1, <3>2
  <2>4. QED
    BY <2>1, <2>2, <2>3 DEF Whole
<1>14. QED
  BY <1>2, <1>3, <1>6, <1>9, <1>10, <1>12, <1>13 DEF WriteInv

-----------------------------------------------------------------------------
(* The steps of a writer.                                                  *)

(* A call begins: its block is a new one, and nothing of it in the stream. *)
LEMMA WriteCallKeeps ==
  ASSUME WriteInv, NEW w \in TxThreads, WriteCall(w)
  PROVE  WriteInv'
<1>1. /\ WDoing(w, "idle") /\ NoUnlocked
      /\ UNCHANGED <<muxTX, xBuf, sending, wire, accepted, dropped>>
      /\ Stream' = Stream
  BY DEF WriteCall, Stream
<1>2. /\ blocks \in Nat /\ WriterTypes /\ WriterIn(w) /\ muxTX # w
      /\ BlockSizes \subseteq Nat \ {0}
  <2>1. WriterIn(w)
    BY DEF WriteInv
  <2>2. QED
    BY <1>1, <2>1, TcpStreamAssumption DEF WriteInv, WriteTypes, WriterIn, WDoing, Inside
<1>3. ASSUME NEW n \in Nat, n > 0
      PROVE  /\ Bytes(blocks + 1, n) \in Seq(Piece) /\ Len(Bytes(blocks + 1, n)) = n
             /\ \A m \in 1 .. n : Bytes(blocks + 1, n)[m] = <<blocks + 1, m>>
  <2>1. Bytes(blocks + 1, n) \in [1 .. n -> Piece]
    BY <1>2 DEF Bytes, Piece
  <2>2. Bytes(blocks + 1, n) \in Seq(Piece) /\ Len(Bytes(blocks + 1, n)) = n
    BY <2>1, SeqDef, LenProperties
  <2>3. QED
    BY <2>2 DEF Bytes
(* The calls that have a block, and the flush that has none.               *)
<1>4. PICK call \in {"write", "nf", "put", "flush"}, st \in {"lock", "put"}, r \in Seq(Piece),
           b \in Nat, n \in Nat :
        /\ writing' = [writing EXCEPT ![w] = <<call, st, r, b, n>>]
        /\ call \in {"write", "nf"} <=> st = "lock"
        /\ st = "put" => Alone(w)
        /\ call # "flush" => /\ b = blocks + 1 /\ blocks' = blocks + 1 /\ Len(r) = n
                             /\ \A m \in 1 .. n : r[m] = <<b, m>>
        /\ call = "flush" => blocks' = blocks /\ r = << >> /\ n = 0
  <2>1. CASE blocks' = blocks + 1 /\ \E n \in BlockSizes, call \in {"write", "nf"} :
               writing' = [writing EXCEPT ![w] = <<call, "lock", Bytes(blocks + 1, n), blocks + 1, n>>]
    <3>1. PICK n \in BlockSizes, call \in {"write", "nf"} :
            writing' = [writing EXCEPT ![w] = <<call, "lock", Bytes(blocks + 1, n), blocks + 1, n>>]
      BY <2>1
    <3>2. n \in Nat /\ n > 0 /\ blocks + 1 \in Nat
      BY <1>2
    <3>3. QED
      BY <1>3, <2>1, <3>1, <3>2
  <2>2. CASE /\ Alone(w) /\ blocks' = blocks + 1
             /\ writing' = [writing EXCEPT ![w] = <<"put", "put", Bytes(blocks + 1, 1), blocks + 1, 1>>]
    <3>1. 1 \in Nat /\ 1 > 0 /\ blocks + 1 \in Nat
      BY <1>2
    <3>2. QED
      BY <1>3, <2>2, <3>1
  <2>3. CASE /\ Alone(w) /\ blocks' = blocks
             /\ writing' = [writing EXCEPT ![w] = <<"flush", "put", << >>, 0, 0>>]
    <3>1. << >> \in Seq(Piece) /\ 0 \in Nat
      OBVIOUS
    <3>2. QED
      BY <2>3, <3>1
  <2>4. QED
    BY <2>1, <2>2, <2>3 DEF WriteCall
<1>5. /\ WriterTypes'
      /\ writing'[w] = <<call, st, r, b, n>>
      /\ \A v \in TxThreads : v # w => writing'[v] = writing[v]
  <2>1. call \in Calls /\ st \in Steps
    BY DEF Calls, Steps
  <2>2. QED
    BY <1>2, <1>4, <2>1, EntryBecomes
<1>6. /\ writing'[w][1] = call /\ writing'[w][2] = st /\ writing'[w][3] = r
      /\ writing'[w][4] = b /\ writing'[w][5] = n
  BY <1>5
<1>7. blocks' \in Nat /\ blocks' >= blocks /\ (call # "flush" => b \in 1 .. blocks' /\ b > blocks)
  BY <1>2, <1>4
<1>8. WriteTypes'
  BY <1>1, <1>5, <1>7 DEF WriteInv, WriteTypes
<1>9. BuffersLeft'
  <2>1. ASSUME NEW v \in TxThreads, WDoing(v, "send") \/ WDoing(v, "flush")
        PROVE  v # w
    BY <1>1, <2>1 DEF WDoing
  <2>2. QED
    BY <1>1, <1>5, <2>1 DEF WriteInv, BuffersLeft, WDoing
<1>10. ASSUME NEW v \in TxThreads
       PROVE  WriterIn(v)'
  <2>1. CASE v = w
    <3>1. Alone(w) => Alone(w)'
      BY <1>5 DEF Alone
    <3>2. QED
      BY <1>1, <1>2, <1>4, <1>6, <2>1, <3>1 DEF WriterIn, WDoing, Locks, Inside, Unput
  <2>2. CASE v # w
    <3>1. writing[v][1] \notin {"put", "flush"} /\ WriterIn(v)
      BY <1>1 DEF NoUnlocked, WriteInv
    <3>2. QED
      BY <1>1, <1>5, <2>2, <3>1 DEF WriterIn, WDoing, Locks, Inside, Unput
  <2>3. QED
    BY <2>1, <2>2
<1>11. ASSUME NEW v \in TxThreads
       PROVE  BuffersOf(v)'
  <2>1. CASE v = w /\ st = "put"
    <3>1. \A u \in TxThreads : ~WDoing(u, "flush")
      BY <1>1, <1>4, <2>1 DEF Alone, WDoing
    <3>2. ~(Len(xBuf) >= XBuf)
      BY <3>1 DEF WriteInv, BuffersLeft
    <3>3. Len(xBuf) \in Nat /\ XBuf \in Nat
      BY TcpStreamAssumption DEF WriteInv, WriteTypes
    <3>4. Len(xBuf) < XBuf
      BY <3>2, <3>3
    <3>5. QED
      BY <1>1, <1>6, <2>1, <3>4 DEF BuffersOf, WDoing
  <2>2. CASE v = w /\ st = "lock"
    BY <1>6, <2>2 DEF BuffersOf, WDoing
  <2>3. CASE v # w
    BY <1>1, <1>5, <2>3 DEF WriteInv, BuffersOf, WDoing
  <2>4. QED
    BY <2>1, <2>2, <2>3
<1>12. ASSUME NEW v \in TxThreads, v # w, HasBlock(v)'
       PROVE  /\ HasBlock(v) /\ BlockAt(v) /\ Block(v)' = Block(v) /\ Block(v) <= blocks
              /\ Block(v) \in Nat
  <2>1. HasBlock(v) /\ BlockAt(v) /\ Block(v)' = Block(v)
    BY <1>5, <1>12 DEF WriteInv, HasBlock, Block
  <2>2. QED
    BY <1>2, <2>1 DEF BlockAt
<1>13. BlocksApart'
  <2>1. ASSUME NEW v \in TxThreads, v # w, HasBlock(v)', HasBlock(w)'
        PROVE  Block(v)' # Block(w)'
    <3>1. Block(w)' = b /\ b > blocks /\ b \in Nat
      BY <1>6, <1>7, <2>1 DEF Block, HasBlock
    <3>2. Block(v)' <= blocks /\ Block(v)' \in Nat
      BY <1>12, <2>1
    <3>3. QED
      BY <1>2, <3>1, <3>2
  <2>2. ASSUME NEW v \in TxThreads, NEW u \in TxThreads, v # w, u # w, v # u, HasBlock(v)', HasBlock(u)'
        PROVE  Block(v)' # Block(u)'
    BY <1>12, <2>2 DEF WriteInv, BlocksApart
  <2>3. QED
    BY <2>1, <2>2 DEF BlocksApart
<1>14. \A i \in 1 .. Len(Stream) : Stream[i][1] <= blocks
  BY DEF WriteInv
<1>15. Stream \in Seq(Piece) /\ Len(Stream) \in Nat
  <2>1. Stream \in Seq(Piece)
    BY StreamBytes DEF WriteInv
  <2>2. QED
    BY <2>1
<1>16. ASSUME NEW i \in 1 .. Len(Stream)
       PROVE  Stream[i][1] \in Nat
  <2>1. Stream[i] \in Piece
    BY <1>15
  <2>2. QED
    BY <2>1 DEF Piece
<1>17. ASSUME NEW v \in TxThreads, HasBlock(v)'
       PROVE  BlockAt(v)'
  <2>1. CASE v = w
    <3>1. call # "flush"
      BY <1>6, <1>17, <2>1 DEF HasBlock
    <3>2. Unput(w)' = r /\ Block(w)' = b /\ Done(w)' = n - n
      BY <1>4, <1>6, <3>1 DEF Unput, Block, Done
    <3>3. n - n = 0 /\ 1 .. 0 = {} /\ 0 <= Len(Stream) /\ Len(Stream) - 0 = Len(Stream) /\ ~(0 > 0)
      BY <1>15
    <3>4. \A m \in 1 .. Len(r) : r[m] = <<b, 0 + m>>
      BY <1>4, <3>1
    <3>5. \A i \in 1 .. Len(Stream) : Stream[i][1] # b
      BY <1>2, <1>7, <1>14, <1>16, <3>1
    <3>6. QED
      BY <1>1, <1>7, <2>1, <3>1, <3>2, <3>3, <3>4, <3>5 DEF BlockAt
  <2>2. CASE v # w
    <3>1. BlockAt(v) /\ Block(v) \in 1 .. blocks'
      <4>1. BlockAt(v)
        BY <1>12, <1>17, <2>2
      <4>2. QED
        BY <1>2, <1>7, <4>1 DEF BlockAt
    <3>2. Done(v)' = Done(v) /\ Unput(v)' = Unput(v) /\ Block(v)' = Block(v) /\ (Inside(v)' <=> Inside(v))
      BY <1>5, <2>2 DEF Done, Unput, Block, Inside
    <3>3. QED
      BY <1>1, <3>1, <3>2 DEF BlockAt
  <2>3. QED
    BY <2>1, <2>2
<1>18. /\ Whole(Stream') /\ AcceptedIsSent'
       /\ \A i \in 1 .. Len(Stream') : Stream'[i][1] <= blocks'
  <2>1. Whole(Stream') /\ AcceptedIsSent'
    BY <1>1 DEF WriteInv, AcceptedIsSent
  <2>2. \A i \in 1 .. Len(Stream) : Stream[i][1] <= blocks'
    BY <1>2, <1>7, <1>14, <1>16
  <2>3. QED
    BY <1>1, <2>1, <2>2
<1>19. QED
  BY <1>8, <1>9, <1>10, <1>11, <1>13, <1>17, <1>18 DEF WriteInv

(* A writer gets the mutex.                                                *)
LEMMA LockKeeps ==
  ASSUME WriteInv, NEW w \in TxThreads, LockTX(w)
  PROVE  WriteInv'
<1>1. /\ WDoing(w, "lock") /\ muxTX = FreeTX /\ muxTX' = w
      /\ writing' = [writing EXCEPT ![w][2] = "put"]
      /\ UNCHANGED <<xBuf, sending, wire, blocks, accepted, dropped>>
      /\ Stream' = Stream
  BY DEF LockTX, MuxTXFree, Stream
<1>2. WriterTypes /\ WriterIn(w) /\ Locks(w) /\ FreeTX \notin TxThreads
  BY <1>1, TcpStreamAssumption DEF WriteInv, WriteTypes, WriterIn
<1>3. /\ WriterTypes'
      /\ writing'[w][1] = writing[w][1] /\ writing'[w][2] = "put" /\ writing'[w][3] = writing[w][3]
      /\ writing'[w][4] = writing[w][4] /\ writing'[w][5] = writing[w][5]
      /\ \A v \in TxThreads : v # w => writing'[v] = writing[v]
  <2>1. "put" \in Steps
    BY DEF Steps
  <2>2. QED
    BY <1>1, <1>2, <2>1, EntryMoves
(* Nobody is inside.                                                       *)
<1>4. ASSUME NEW v \in TxThreads
      PROVE  ~Inside(v)
  <2>1. SUFFICES ASSUME Inside(v)
                 PROVE  FALSE
    OBVIOUS
  <2>2. v # w /\ ~WDoing(w, "idle") /\ WriterIn(v)
    BY <1>1, <2>1 DEF WDoing, Inside, WriteInv
  <2>3. writing[v][1] \notin {"put", "flush"}
    BY <2>2, OthersLock
  <2>4. Locks(v)
    BY <1>2, <2>1, <2>2, <2>3 DEF WriterIn, WriterTypes, Calls, Locks, WDoing, Inside
  <2>5. QED
    BY <1>1, <1>2, <2>1, <2>2, <2>4 DEF WriterIn
<1>5. WriteTypes'
  BY <1>1, <1>3 DEF WriteInv, WriteTypes
<1>6. sending = << >> /\ Len(xBuf) < XBuf
  <2>1. ~(Len(xBuf) >= XBuf) /\ sending = << >>
    BY <1>4 DEF WriteInv, BuffersLeft, WDoing, Inside
  <2>2. Len(xBuf) \in Nat /\ XBuf \in Nat
    BY TcpStreamAssumption DEF WriteInv, WriteTypes
  <2>3. QED
    BY <2>1, <2>2
<1>7. BuffersLeft'
  <2>1. ~(Len(xBuf) >= XBuf) /\ sending = << >>
    BY <1>4 DEF WriteInv, BuffersLeft, WDoing, Inside
  <2>2. QED
    BY <1>1, <2>1 DEF BuffersLeft
<1>8. ASSUME NEW v \in TxThreads
      PROVE  WriterIn(v)'
  <2>1. CASE v = w
    BY <1>1, <1>2, <1>3, <2>1 DEF WriterIn, WDoing, Locks, Inside
  <2>2. CASE v # w
    <3>1. ~WDoing(w, "idle") /\ ((muxTX' = v) <=> (muxTX = v))
      BY <1>1, <1>2, <2>2 DEF WDoing
    <3>2. QED
      BY <1>3, <2>2, <3>1, OthersStay
  <2>3. QED
    BY <2>1, <2>2
<1>9. ASSUME NEW v \in TxThreads
      PROVE  BuffersOf(v)'
  <2>1. CASE v = w
    BY <1>1, <1>3, <1>6, <2>1 DEF BuffersOf, WDoing
  <2>2. CASE v # w
    BY <1>3, <1>4, <2>2 DEF BuffersOf, WDoing, Inside
  <2>3. QED
    BY <2>1, <2>2
<1>10. ASSUME NEW v \in TxThreads
       PROVE  /\ writing'[v][1] = writing[v][1] /\ writing'[v][3] = writing[v][3]
              /\ writing'[v][4] = writing[v][4] /\ writing'[v][5] = writing[v][5]
              /\ Inside(v) => Inside(v)'
  BY <1>3, <1>4
<1>11. BlocksApart'
  BY <1>10 DEF WriteInv, BlocksApart, HasBlock, Block
<1>12. ASSUME NEW v \in TxThreads, HasBlock(v)'
       PROVE  BlockAt(v)'
  <2>1. HasBlock(v) /\ BlockAt(v)
    BY <1>10, <1>12 DEF WriteInv, HasBlock
  <2>2. Done(v)' = Done(v) /\ Unput(v)' = Unput(v) /\ Block(v)' = Block(v)
    BY <1>10 DEF Done, Unput, Block
  <2>3. QED
    BY <1>1, <1>10, <2>1, <2>2 DEF BlockAt
<1>13. /\ Whole(Stream') /\ AcceptedIsSent'
       /\ \A i \in 1 .. Len(Stream') : Stream'[i][1] <= blocks'
  BY <1>1 DEF WriteInv, AcceptedIsSent
<1>14. QED
  BY <1>5, <1>7, <1>8, <1>9, <1>11, <1>12, <1>13 DEF WriteInv

(* Appending to the second of two sequences.                               *)
LEMMA AppendToSecond ==
  ASSUME NEW S, NEW s \in Seq(S), NEW t \in Seq(S), NEW m \in S
  PROVE  s \o Append(t, m) = Append(s \o t, m)
<1>1. <<m>> \in Seq(S) /\ s \o t \in Seq(S)
  OBVIOUS
<1>2. Append(t, m) = t \o <<m>>
  BY AppendIsConcat
<1>3. Append(s \o t, m) = (s \o t) \o <<m>>
  BY <1>1, AppendIsConcat
<1>4. (s \o t) \o <<m>> = s \o (t \o <<m>>)
  BY <1>1, ConcatAssociative
<1>5. QED
  BY <1>2, <1>3, <1>4

(* A byte goes behind the stream: it is the next of its block.             *)
LEMMA PutKeeps ==
  ASSUME WriteInv, NEW w \in TxThreads, PutByte(w)
  PROVE  WriteInv'
<1> DEFINE b == Head(writing[w][3])
           st == IF Flushes(xBuf') THEN "flush" ELSE "put"
<1>1. /\ WDoing(w, "put") /\ writing[w][3] # << >>
      /\ xBuf' = Append(xBuf, b)
      /\ writing' = [writing EXCEPT ![w][2] = st, ![w][3] = Tail(writing[w][3])]
      /\ UNCHANGED <<muxTX, sending, wire, blocks, accepted, dropped>>
  BY DEF PutByte
<1>2. /\ WriterTypes /\ WriterIn(w) /\ BuffersOf(w) /\ Inside(w) /\ ~WDoing(w, "idle")
      /\ HasBlock(w) /\ BlockAt(w)
  <2>1. WriterTypes /\ WriterIn(w) /\ BuffersOf(w)
    BY DEF WriteInv, WriteTypes
  <2>2. HasBlock(w)
    BY <1>1, <2>1 DEF WriterIn, WriterTypes, HasBlock, WDoing, Calls, Unput
  <2>3. BlockAt(w)
    BY <2>2 DEF WriteInv
  <2>4. QED
    BY <1>1, <2>1, <2>2, <2>3 DEF Inside, WDoing
<1> DEFINE r == writing[w][3]
<1>3. /\ r \in Seq(Piece) /\ Len(r) \in Nat /\ Len(r) >= 1 /\ b = r[1] /\ b \in Piece
      /\ Tail(r) \in Seq(Piece) /\ Len(Tail(r)) = Len(r) - 1
      /\ \A m \in 1 .. Len(r) - 1 : Tail(r)[m] = r[m + 1]
  <2>1. r \in Seq(Piece) /\ r # << >>
    BY <1>1, <1>2 DEF WriterTypes
  <2>2. QED
    BY <2>1
<1>4. /\ WriterTypes'
      /\ writing'[w][1] = writing[w][1] /\ writing'[w][2] = st /\ writing'[w][3] = Tail(r)
      /\ writing'[w][4] = writing[w][4] /\ writing'[w][5] = writing[w][5]
      /\ \A v \in TxThreads : v # w => writing'[v] = writing[v]
  <2>1. st \in Steps
    BY DEF Steps
  <2>2. QED
    BY <1>1, <1>2, <1>3, <2>1, EntryPuts
<1> HIDE DEF r, b
<1>5. st \in {"put", "flush"}
  OBVIOUS
<1>6. xBuf \in Seq(Piece) /\ sending \in Seq(Piece) /\ wire \in Seq(Piece) /\ blocks \in Nat
  BY DEF WriteInv, WriteTypes
<1>7. /\ xBuf' \in Seq(Piece) /\ Len(xBuf') = Len(xBuf) + 1
      /\ XBuf \in Nat /\ Len(xBuf) \in Nat /\ Len(xBuf) < XBuf
      /\ st = "flush" <=> Len(xBuf') >= XBuf
  <2>1. xBuf' \in Seq(Piece) /\ Len(xBuf') = Len(xBuf) + 1 /\ Len(xBuf) \in Nat
    BY <1>1, <1>3, <1>6
  <2>2. Len(xBuf) < XBuf
    BY <1>1, <1>2 DEF BuffersOf
  <2>3. QED
    BY <2>1, <2>2, TcpStreamAssumption DEF Flushes
<1> HIDE DEF st
<1>8. WriteTypes'
  <2>1. Len(xBuf') <= XBuf
    BY <1>7
  <2>2. QED
    BY <1>1, <1>4, <1>7, <2>1 DEF WriteInv, WriteTypes
<1>9. ASSUME NEW v \in TxThreads, v # w
      PROVE  writing'[v] = writing[v] /\ ~Inside(v)
  BY <1>2, <1>4, <1>9, OneInside
<1>10. BuffersLeft'
  <2>1. sending = << >>
    <3>1. \A v \in TxThreads : ~WDoing(v, "send")
      BY <1>1, <1>9 DEF WDoing, Inside
    <3>2. QED
      BY <3>1 DEF WriteInv, BuffersLeft
  <2>2. QED
    BY <1>1, <1>4, <1>7, <2>1 DEF BuffersLeft, WDoing
<1>11. ASSUME NEW v \in TxThreads
       PROVE  WriterIn(v)'
  <2>1. CASE v = w
    <3>1. Alone(w) => Alone(w)'
      BY <1>4 DEF Alone
    <3>2. writing[w][1] # "flush"
      BY <1>2 DEF HasBlock
    <3>3. QED
      BY <1>1, <1>2, <1>4, <1>5, <2>1, <3>1, <3>2 DEF WriterIn, WDoing, Locks, Inside
  <2>2. CASE v # w
    BY <1>1, <1>2, <1>9, <2>2, OthersStay
  <2>3. QED
    BY <2>1, <2>2
<1>12. ASSUME NEW v \in TxThreads
       PROVE  BuffersOf(v)'
  <2>1. CASE v = w
    <3>1. st = "put" => Len(xBuf') < XBuf
      BY <1>5, <1>7
    <3>2. QED
      BY <1>4, <1>5, <2>1, <3>1 DEF BuffersOf, WDoing
  <2>2. CASE v # w
    BY <1>9, <2>2 DEF BuffersOf, WDoing, Inside
  <2>3. QED
    BY <2>1, <2>2
<1>13. BlocksApart'
  BY <1>4, <1>9 DEF WriteInv, BlocksApart, HasBlock, Block
(* The stream.                                                             *)
<1> DEFINE s == Stream
           B == Block(w)
           n == Done(w)
<1>14. /\ s \in Seq(Piece) /\ Len(s) \in Nat
       /\ Stream' = Append(s, b)
  <2>1. s \in Seq(Piece)
    BY StreamBytes DEF WriteInv
  <2>2. wire \o sending \in Seq(Piece)
    BY <1>6
  <2>3. (wire \o sending) \o Append(xBuf, b) = Append((wire \o sending) \o xBuf, b)
    BY <1>3, <1>6, <2>2, AppendToSecond
  <2>4. Stream' = (wire \o sending) \o Append(xBuf, b)
    BY <1>1 DEF Stream
  <2>5. QED
    BY <2>1, <2>3, <2>4 DEF Stream
<1>15. /\ B \in 1 .. blocks /\ n \in Int /\ n >= 0 /\ n <= Len(s)
       /\ \A m \in 1 .. Len(r) : r[m] = <<B, n + m>>
       /\ \A m \in 1 .. n : s[Len(s) - n + m] = <<B, m>>
       /\ \A i \in 1 .. Len(s) - n : s[i][1] # B
       /\ Done(w)' = n + 1 /\ Block(w)' = B /\ Unput(w)' = Tail(r)
  <2>1. writing[w][5] \in Nat
    BY <1>2 DEF WriterTypes
  <2>2. n \in Int /\ Done(w)' = n + 1
    <3>1. n = writing[w][5] - Len(r)
      BY DEF Done, r
    <3>2. Done(w)' = writing[w][5] - Len(Tail(r))
      BY <1>4 DEF Done
    <3>3. Len(Tail(r)) = Len(r) - 1 /\ Len(r) \in Nat
      BY <1>3
    <3> DEFINE L == Len(r)
               W == writing[w][5]
    <3>4. n = W - L /\ Done(w)' = W - (L - 1) /\ L \in Nat /\ W \in Nat
      BY <2>1, <3>1, <3>2, <3>3
    <3> HIDE DEF L, W, n
    <3>5. QED
      BY <3>4
  <2>3. Block(w)' = B /\ Unput(w)' = Tail(r) /\ Unput(w) = r
    BY <1>4 DEF Block, Unput, r
  <2>4. QED
    BY <1>2, <2>2, <2>3 DEF BlockAt
<1>16. b = <<B, n + 1>>
  BY <1>3, <1>15
<1> DEFINE t == Append(s, b)
<1>17. /\ t \in Seq(Piece) /\ Len(t) = Len(s) + 1 /\ t[Len(s) + 1] = b
       /\ \A i \in 1 .. Len(s) : t[i] = s[i]
  BY <1>3, <1>14
<1> HIDE DEF s, B, n, t
<1>18. \A i \in 1 .. Len(s) : s[i][1] \in Nat /\ s[i][1] <= blocks
  <2>1. ASSUME NEW i \in 1 .. Len(s)
        PROVE  s[i][1] \in Nat
    <3>1. s[i] \in Piece
      BY <1>14
    <3>2. QED
      BY <3>1 DEF Piece
  <2>2. QED
    BY <2>1 DEF WriteInv, s
<1>19. ASSUME NEW v \in TxThreads, HasBlock(v)'
       PROVE  BlockAt(v)'
  <2>1. CASE v = w
    <3>1. Inside(w)'
      BY <1>4, <1>5 DEF Inside
    <3>2. ASSUME NEW m \in 1 .. Len(Tail(r))
          PROVE  Tail(r)[m] = <<B, (n + 1) + m>>
      <4>1. m + 1 \in 1 .. Len(r) /\ n + (m + 1) = (n + 1) + m /\ Tail(r)[m] = r[m + 1]
        BY <1>3, <1>15
      <4>2. QED
        BY <1>15, <4>1
    <3>3. ASSUME NEW m \in 1 .. n + 1
          PROVE  t[Len(t) - (n + 1) + m] = <<B, m>>
      <4>1. CASE m = n + 1
        <5>1. Len(t) - (n + 1) + m = Len(s) + 1
          BY <1>14, <1>15, <1>17, <4>1
        <5>2. QED
          BY <1>16, <1>17, <4>1, <5>1
      <4>2. CASE m \in 1 .. n
        <5>1. Len(t) - (n + 1) + m = Len(s) - n + m /\ Len(s) - n + m \in 1 .. Len(s)
          BY <1>14, <1>15, <1>17, <4>2
        <5>2. QED
          BY <1>15, <1>17, <4>2, <5>1
      <4>3. QED
        BY <1>15, <4>1, <4>2
    <3>4. ASSUME NEW i \in 1 .. Len(t) - (n + 1)
          PROVE  t[i][1] # B
      <4>1. i \in 1 .. Len(s) - n /\ i \in 1 .. Len(s)
        BY <1>14, <1>15, <1>17
      <4>2. QED
        BY <1>15, <1>17, <4>1
    <3>5. n + 1 >= 0 /\ n + 1 <= Len(t)
      BY <1>14, <1>15, <1>17
    <3>6. QED
      BY <1>1, <1>14, <1>15, <2>1, <3>1, <3>2, <3>3, <3>4, <3>5 DEF BlockAt, t
  <2>2. CASE v # w
    <3>1. HasBlock(v) /\ BlockAt(v) /\ ~Inside(v)
      BY <1>9, <1>19, <2>2 DEF WriteInv, HasBlock
    <3>2. Done(v)' = Done(v) /\ Unput(v)' = Unput(v) /\ Block(v)' = Block(v)
      BY <1>9, <2>2 DEF Done, Unput, Block
    <3>3. Done(v) = 0
      <4>1. Done(v) \in Int
        BY <1>2, DoneIsInt
      <4>2. QED
        BY <3>1, <4>1 DEF BlockAt
    <3>4. /\ Block(v) \in 1 .. blocks
          /\ \A m \in 1 .. Len(Unput(v)) : Unput(v)[m] = <<Block(v), Done(v) + m>>
          /\ \A i \in 1 .. Len(s) - Done(v) : s[i][1] # Block(v)
      BY <3>1 DEF BlockAt, s
    <3>5. Block(v) # B
      BY <1>2, <2>2, <3>1 DEF WriteInv, BlocksApart, B
    <3>6. ASSUME NEW i \in 1 .. Len(t)
          PROVE  t[i][1] # Block(v)
      <4>1. CASE i = Len(s) + 1
        BY <1>16, <1>17, <3>5, <4>1
      <4>2. CASE i \in 1 .. Len(s)
        <5>1. i \in 1 .. Len(s) - Done(v)
          BY <1>14, <3>3, <4>2
        <5>2. QED
          BY <1>17, <3>4, <4>2, <5>1
      <4>3. QED
        BY <1>14, <1>17, <4>1, <4>2
    <3>7. /\ 0 >= 0 /\ 0 <= Len(t) /\ 1 .. 0 = {} /\ Len(t) - 0 = Len(t) /\ ~(0 > 0)
      BY <1>14, <1>17
    <3>8. QED
      BY <1>1, <1>14, <3>2, <3>3, <3>4, <3>6, <3>7 DEF BlockAt, t
  <2>3. QED
    BY <2>1, <2>2
<1>20. Whole(t)
  <2>1. Whole(s)
    BY DEF WriteInv, s
  <2>2. ASSUME NEW i \in 1 .. Len(t), NEW j \in 1 .. Len(t), i < j, t[i][1] = t[j][1]
        PROVE  t[i][2] < t[j][2] /\ \A k \in i .. j : t[k][1] = t[i][1]
    <3>1. CASE j \in 1 .. Len(s)
      <4>1. i \in 1 .. Len(s) /\ t[i] = s[i] /\ t[j] = s[j]
        BY <1>14, <1>17, <2>2, <3>1
      <4>2. s[i][2] < s[j][2] /\ \A k \in i .. j : s[k][1] = s[i][1]
        BY <2>1, <2>2, <3>1, <4>1 DEF Whole
      <4>3. \A k \in i .. j : k \in 1 .. Len(s) /\ t[k] = s[k]
        BY <1>14, <1>17, <3>1, <4>1
      <4>4. QED
        BY <4>1, <4>2, <4>3
    <3>2. CASE j = Len(s) + 1
      <4>1. i \in 1 .. Len(s) /\ t[i] = s[i] /\ t[j] = b /\ s[i][1] = B
        BY <1>14, <1>16, <1>17, <2>2, <3>2
      <4>2. i > Len(s) - n
        BY <1>14, <1>15, <4>1
      <4>3. ASSUME NEW k \in i .. Len(s)
            PROVE  k \in 1 .. Len(s) /\ t[k] = <<B, k - (Len(s) - n)>>
        <5>1. k - (Len(s) - n) \in 1 .. n /\ Len(s) - n + (k - (Len(s) - n)) = k /\ k \in 1 .. Len(s)
          BY <1>14, <1>15, <4>1, <4>2
        <5>2. QED
          BY <1>15, <1>17, <5>1
      <4>4. t[i][2] = i - (Len(s) - n) /\ t[j][2] = n + 1
        <5>1. i \in i .. Len(s)
          BY <1>14, <4>1
        <5>2. QED
          BY <1>16, <4>1, <4>3, <5>1
      <4>5. t[i][2] < t[j][2]
        BY <1>14, <1>15, <4>1, <4>4
      <4>6. ASSUME NEW k \in i .. j
            PROVE  t[k][1] = B
        <5>1. k \in i .. Len(s) \/ k = j
          BY <1>14, <3>2, <4>1
        <5>2. QED
          BY <1>16, <4>1, <4>3, <5>1
      <4>7. QED
        BY <4>1, <4>5, <4>6
    <3>3. QED
      BY <1>14, <1>17, <3>1, <3>2
  <2>3. QED
    BY <2>2 DEF Whole
<1>21. ASSUME NEW i \in 1 .. Len(t)
       PROVE  t[i][1] <= blocks
  <2>1. CASE i \in 1 .. Len(s)
    BY <1>17, <1>18, <2>1
  <2>2. CASE i = Len(s) + 1
    BY <1>15, <1>16, <1>17, <2>2
  <2>3. QED
    BY <1>14, <1>17, <2>1, <2>2
<1>22. AcceptedIsSent'
  <2>1. InBytes(xBuf) \subseteq InBytes(xBuf')
    <3>1. <<b>> \in Seq(Piece) /\ xBuf' = xBuf \o <<b>>
      BY <1>1, <1>3, <1>6, AppendIsConcat
    <3>2. QED
      BY <1>6, <3>1, BytesConcat
  <2>2. BytesGoOn
    BY <1>1, <2>1 DEF BytesGoOn
  <2>3. WriteTypes /\ AcceptedIsSent
    BY DEF WriteInv
  <2>4. accepted' = accepted
    BY <1>1
  <2>5. QED
    BY <1>8, <2>2, <2>3, <2>4, AcceptedStays
<1>23. Stream' = t /\ blocks' = blocks
  BY <1>1, <1>14 DEF t
<1>24. QED
  BY <1>8, <1>10, <1>11, <1>12, <1>13, <1>19, <1>20, <1>21, <1>22, <1>23 DEF WriteInv

(* What the caller is told: every byte of its block is in the stream.      *)
LEMMA AllDone ==
  ASSUME WriteInv, NEW w \in TxThreads, HasBlock(w), Unput(w) = << >>,
         NEW n \in 1 .. writing[w][5]
  PROVE  <<Block(w), n>> \in InBytes(Stream)
<1>1. BlockAt(w) /\ WriterTypes /\ Stream \in Seq(Piece)
  BY StreamBytes DEF WriteInv, WriteTypes
<1>2. Done(w) = writing[w][5] /\ writing[w][5] \in Nat
  BY <1>1 DEF Done, Unput, WriterTypes
<1>3. /\ Done(w) <= Len(Stream) /\ Len(Stream) \in Nat
      /\ Stream[Len(Stream) - Done(w) + n] = <<Block(w), n>>
  BY <1>1, <1>2 DEF BlockAt
<1>4. Len(Stream) - Done(w) + n \in 1 .. Len(Stream)
  BY <1>2, <1>3
<1>5. QED
  BY <1>1, <1>3, <1>4, BytesIn

(* A call that ends with what it has in the stream, and says so.           *)
LEMMA CallEnds ==
  ASSUME WriteInv, NEW w \in TxThreads, Inside(w), EndWrite(w), Accepts(w),
         Unput(w) = << >>, UNCHANGED <<xBuf, sending, wire, blocks, dropped>>,
         sending = << >>, Len(xBuf) < XBuf, writing[w][1] = "write" => xBuf = << >>
  PROVE  WriteInv'
<1>1. WriteTypes /\ AcceptedIsSent /\ WriterIn(w)
  BY DEF WriteInv
<1>2. /\ InBytes(Stream) = InBytes(wire) \cup InBytes(sending) \cup InBytes(xBuf)
      /\ InBytes(<< >>) = {}
  BY <1>1, StreamBytes
<1>3. WriteTypes'
  <2>1. WriterTypes'
    BY <1>1, EntryEnds DEF WriteTypes
  <2>2. QED
    BY <1>1, <2>1 DEF WriteTypes, EndWrite
<1>4. BytesGoOn
  BY DEF BytesGoOn
<1>5. ASSUME NEW a \in accepted', a \notin accepted, NEW n \in 1 .. a[3]
      PROVE  \/ <<a[2], n>> \in InBytes(wire')
             \/ a[1] # "write" /\ <<a[2], n>> \in InBytes(sending') \cup InBytes(xBuf') \cup dropped'
  <2>1. a = <<writing[w][1], writing[w][4], writing[w][5]>>
    BY <1>5 DEF Accepts
  <2>2. a[1] = writing[w][1] /\ a[2] = Block(w) /\ a[3] = writing[w][5]
    BY <2>1 DEF Block
  <2>3. CASE HasBlock(w)
    <3>1. <<a[2], n>> \in InBytes(Stream)
      BY <1>5, <2>2, <2>3, AllDone
    <3>2. QED
      BY <1>2, <2>2, <3>1
  <2>4. CASE ~HasBlock(w)
    <3>1. writing[w][1] = "flush"
      BY <1>1, <2>4 DEF HasBlock, WriteTypes, WriterTypes, Calls, WriterIn, Inside, WDoing
    <3>2. a[3] = 0 /\ 1 .. 0 = {}
      BY <1>1, <2>2, <3>1 DEF WriterIn
    <3>3. QED
      BY <1>5, <3>2
  <2>5. QED
    BY <2>3, <2>4
<1>6. AcceptedIsSent'
  BY <1>1, <1>3, <1>4, <1>5, AcceptedStays
<1>7. /\ Stream' = Stream /\ Stream \in Seq(Piece)
  BY <1>1, StreamBytes DEF Stream
<1>8. Len(Stream') <= Len(Stream)
  BY <1>7
<1>9. QED
  BY <1>1, <1>6, <1>7, <1>8, WriteEnds DEF WriteTypes

(* A writer has put its block.                                             *)
LEMMA AllPutKeeps ==
  ASSUME WriteInv, NEW w \in TxThreads, AllPut(w)
  PROVE  WriteInv'
<1>1. /\ WDoing(w, "put") /\ Unput(w) = << >>
      /\ UNCHANGED <<xBuf, sending, wire, blocks, dropped>>
      /\ Stream' = Stream
  BY DEF AllPut, Unput, Stream
<1>2. /\ Inside(w) /\ BuffersOf(w) /\ WriteTypes
      /\ Len(xBuf) < XBuf
  BY <1>1 DEF WriteInv, Inside, WDoing, BuffersOf
<1>3. sending = << >>
  <2>1. \A v \in TxThreads : ~WDoing(v, "send")
    <3>1. ASSUME NEW v \in TxThreads, WDoing(v, "send")
          PROVE  FALSE
      BY <1>1, <1>2, <3>1, OneInside DEF WDoing, Inside
    <3>2. QED
      BY <3>1
  <2>2. QED
    BY <2>1 DEF WriteInv, BuffersLeft
<1>4. CASE writing[w][1] \in {"write", "flush"}
  <2>1. Moves(w, "flush") /\ UNCHANGED <<muxTX, accepted>>
    <3>1. /\ writing' = [writing EXCEPT ![w][2] = "flush"] /\ UNCHANGED <<muxTX, accepted>>
      BY <1>4 DEF AllPut, Flushing
    <3>2. WriterTypes /\ "flush" \in Steps
      BY <1>2 DEF WriteTypes, Steps
    <3>3. QED
      BY <3>1, <3>2, EntryMoves DEF Moves
  <2>2. AcceptedIsSent'
    BY <1>1, <2>1 DEF WriteInv, AcceptedIsSent
  <2>3. "flush" \in {"put", "flush", "send"} /\ "flush" # "send" /\ "flush" # "put"
    OBVIOUS
  <2>4. /\ wire' \in Seq(Piece) /\ sending' \in Seq(Piece) /\ xBuf' \in Seq(Piece)
        /\ Len(sending') <= XBuf /\ Len(xBuf') <= XBuf
    BY <1>1, <1>2 DEF WriteTypes
  <2>5. sending' = << >>
    BY <1>1, <1>3
  <2>6. QED
    BY <1>1, <1>2, <2>1, <2>2, <2>3, <2>4, <2>5, InsideGoes
<1>5. CASE writing[w][1] \notin {"write", "flush"}
  <2>1. EndWrite(w) /\ Accepts(w)
    BY <1>5 DEF AllPut
  <2>2. QED
    BY <1>1, <1>2, <1>3, <1>5, <2>1, CallEnds
<1>6. QED
  BY <1>4, <1>5

(* A flush is through.                                                     *)
LEMMA SentKeeps ==
  ASSUME WriteInv, NEW w \in TxThreads, Sent(w)
  PROVE  WriteInv'
<1>1. /\ WDoing(w, "send") /\ sending = << >>
      /\ UNCHANGED <<xBuf, sending, wire, blocks, dropped>>
      /\ Stream' = Stream
  BY DEF Sent, Stream
<1>2. Inside(w) /\ BuffersOf(w) /\ WriteTypes /\ xBuf = << >> /\ Len(xBuf) < XBuf
  <2>1. Inside(w) /\ BuffersOf(w) /\ WriteTypes
    BY <1>1 DEF WriteInv, Inside, WDoing
  <2>2. xBuf = << >>
    BY <1>1, <2>1 DEF BuffersOf
  <2>3. Len(<< >>) = 0
    OBVIOUS
  <2>4. QED
    BY <2>1, <2>2, <2>3, TcpStreamAssumption
<1>3. CASE writing[w][3] # << >> \/ writing[w][1] = "nf"
  <2>1. Moves(w, "put") /\ UNCHANGED <<muxTX, accepted>>
    <3>1. /\ writing' = [writing EXCEPT ![w][2] = "put"] /\ UNCHANGED <<muxTX, accepted>>
      BY <1>3 DEF Sent
    <3>2. WriterTypes /\ "put" \in Steps
      BY <1>2 DEF WriteTypes, Steps
    <3>3. QED
      BY <3>1, <3>2, EntryMoves DEF Moves
  <2>2. AcceptedIsSent'
    BY <1>1, <2>1 DEF WriteInv, AcceptedIsSent
  <2>3. "put" \in {"put", "flush", "send"} /\ "put" # "send"
    OBVIOUS
  <2>4. /\ wire' \in Seq(Piece) /\ sending' \in Seq(Piece) /\ xBuf' \in Seq(Piece)
        /\ Len(sending') <= XBuf /\ Len(xBuf') <= XBuf /\ Len(xBuf') < XBuf
    BY <1>1, <1>2 DEF WriteTypes
  <2>5. sending' = << >> /\ ~(Len(xBuf') >= XBuf)
    <3>1. Len(xBuf) = 0 /\ XBuf \in Nat /\ XBuf # 0
      BY <1>2, TcpStreamAssumption
    <3>2. QED
      BY <1>1, <3>1
  <2>6. QED
    BY <1>1, <1>2, <2>1, <2>2, <2>3, <2>4, <2>5, InsideGoes
<1>4. CASE ~(writing[w][3] # << >> \/ writing[w][1] = "nf")
  <2>1. EndWrite(w) /\ Accepts(w) /\ Unput(w) = << >>
    BY <1>4 DEF Sent, Unput
  <2>2. QED
    BY <1>1, <1>2, <2>1, CallEnds
<1>5. QED
  BY <1>3, <1>4

LEMMA ThreeParts ==
  ASSUME NEW x \in Seq(Piece), NEW y \in Seq(Piece), NEW z \in Seq(Piece)
  PROVE  (x \o y) \o z = x \o (y \o z)
BY ConcatAssociative

(* Bytes go out of the buffer.                                             *)
LEMMA SendKeeps ==
  ASSUME WriteInv, NEW w \in TxThreads, Send(w)
  PROVE  WriteInv'
<1>1. /\ WDoing(w, "send") /\ sending # << >>
      /\ UNCHANGED <<muxTX, xBuf, writing, blocks, accepted, dropped>>
  BY DEF Send
<1>2. PICK k \in 1 .. Len(sending) :
        /\ wire' = wire \o SubSeq(sending, 1, k)
        /\ sending' = SubSeq(sending, k + 1, Len(sending))
  BY DEF Send
<1>3. /\ Inside(w) /\ BuffersOf(w) /\ WriteTypes /\ xBuf = << >>
      /\ wire \in Seq(Piece) /\ sending \in Seq(Piece) /\ Len(sending) \in Nat /\ Len(sending) <= XBuf
      /\ XBuf \in Nat /\ XBuf # 0
  <2>1. Inside(w) /\ BuffersOf(w) /\ WriteTypes
    BY <1>1 DEF WriteInv, Inside, WDoing
  <2>2. QED
    BY <1>1, <2>1, TcpStreamAssumption DEF BuffersOf, WriteTypes
<1> DEFINE p == SubSeq(sending, 1, k)
           q == SubSeq(sending, k + 1, Len(sending))
<1>4. /\ p \in Seq(Piece) /\ q \in Seq(Piece) /\ Len(p) = k /\ Len(q) = Len(sending) - k
      /\ \A i \in 1 .. k : p[i] = sending[i]
      /\ \A i \in 1 .. Len(sending) - k : q[i] = sending[k + i]
  BY <1>3
<1> HIDE DEF p, q
<1>5. p \o q = sending
  <2>0. p \in Seq(Piece) /\ q \in Seq(Piece)
    BY <1>4
  <2>1. p \o q \in Seq(Piece) /\ Len(p \o q) = Len(p) + Len(q)
    BY <2>0
  <2>2. \A i \in 1 .. Len(p \o q) : (p \o q)[i] = IF i <= Len(p) THEN p[i] ELSE q[i - Len(p)]
    BY <2>0
  <2>3. Len(p \o q) = Len(sending)
    BY <1>3, <1>4, <2>1
  <2>4. ASSUME NEW i \in 1 .. Len(sending)
        PROVE  (p \o q)[i] = sending[i]
    <3>1. CASE i <= k
      BY <1>3, <1>4, <2>2, <2>3, <3>1
    <3>2. CASE i > k
      <4>1. i - k \in 1 .. Len(sending) - k /\ k + (i - k) = i /\ ~(i <= k)
        BY <1>3, <3>2
      <4>2. QED
        BY <1>4, <2>2, <2>3, <4>1
    <3>3. i <= k \/ i > k
      OBVIOUS
    <3>4. QED
      BY <3>1, <3>2, <3>3
  <2>5. QED
    BY <1>3, <2>1, <2>3, <2>4, SeqEqual
<1>6. /\ wire' = wire \o p /\ sending' = q
      /\ wire' \in Seq(Piece) /\ sending' \in Seq(Piece)
  <2>1. wire' = wire \o p /\ sending' = q
    BY <1>2 DEF p, q
  <2>2. wire \in Seq(Piece) /\ p \in Seq(Piece) /\ q \in Seq(Piece)
    BY <1>3, <1>4
  <2>3. wire \o p \in Seq(Piece)
    BY <2>2
  <2>4. QED
    BY <2>1, <2>2, <2>3
<1>7. wire' \o sending' = wire \o sending
  <2>1. (wire \o p) \o q = wire \o (p \o q)
    <3>1. wire \in Seq(Piece) /\ p \in Seq(Piece) /\ q \in Seq(Piece)
      BY <1>3, <1>4
    <3>2. QED
      BY <3>1, ThreeParts
  <2>2. QED
    BY <1>5, <1>6, <2>1
<1>8. Stream' = Stream
  BY <1>1, <1>7 DEF Stream
<1>9. Len(sending') <= XBuf
  BY <1>3, <1>4, <1>6
<1>10. WriteTypes'
  BY <1>1, <1>3, <1>6, <1>9 DEF WriteTypes, WriterTypes
<1>11. BytesGoOn
  <2>1. /\ InBytes(wire') = InBytes(wire) \cup InBytes(p)
        /\ InBytes(sending) = InBytes(p) \cup InBytes(q)
    BY <1>3, <1>4, <1>5, <1>6, BytesConcat
  <2>2. QED
    BY <1>1, <1>6, <2>1 DEF BytesGoOn
<1>12. AcceptedIsSent'
  <2>1. WriteTypes /\ AcceptedIsSent /\ accepted' = accepted
    BY <1>1 DEF WriteInv
  <2>2. QED
    BY <1>10, <1>11, <2>1, AcceptedStays
<1>13. Moves(w, "send")
  BY <1>1, <1>10 DEF Moves, WDoing, WriteTypes
<1>14. QED
  <2>1. "send" \in {"put", "flush", "send"} /\ "send" # "put"
    OBVIOUS
  <2>2. Len(xBuf') <= XBuf /\ ~(Len(xBuf') >= XBuf) /\ xBuf' = << >> /\ xBuf' \in Seq(Piece)
    <3>1. Len(<< >>) = 0 /\ << >> \in Seq(Piece)
      OBVIOUS
    <3>2. xBuf' = << >>
      BY <1>1, <1>3
    <3>3. QED
      BY <1>3, <3>1, <3>2
  <2>3. QED
    BY <1>1, <1>3, <1>6, <1>8, <1>9, <1>12, <1>13, <2>1, <2>2, InsideGoes

(* stlTcpFlush begins: connected it takes what is stored to send it, else  *)
(* it drops that and the call ends.                                        *)
LEMMA FlushStartKeeps ==
  ASSUME WriteInv, NEW w \in TxThreads, FlushStart(w)
  PROVE  WriteInv'
<1>1. /\ WDoing(w, "flush") /\ xBuf' = << >> /\ UNCHANGED <<wire, blocks, accepted>>
  BY DEF FlushStart
<1>2. /\ Inside(w) /\ WriteTypes /\ AcceptedIsSent
      /\ wire \in Seq(Piece) /\ xBuf \in Seq(Piece) /\ Len(xBuf) <= XBuf
      /\ XBuf \in Nat /\ XBuf # 0
  BY <1>1, TcpStreamAssumption DEF WriteInv, WriteTypes, Inside, WDoing
<1>3. << >> \in Seq(Piece) /\ Len(<< >>) = 0 /\ InBytes(<< >>) = {}
  BY DEF InBytes
<1>4. sending = << >>
  <2>1. ASSUME NEW v \in TxThreads, WDoing(v, "send")
        PROVE  FALSE
    BY <1>1, <1>2, <2>1, OneInside DEF WDoing, Inside
  <2>2. QED
    BY <2>1 DEF WriteInv, BuffersLeft
<1>5. wire \o << >> = wire /\ xBuf \o << >> = xBuf /\ Stream = wire \o xBuf
  BY <1>2, <1>4, ConcatEmptySeq DEF Stream
<1>6. CASE ~connected
  <2>1. EndWrite(w) /\ dropped' = dropped \cup InBytes(xBuf) /\ sending' = sending
    BY <1>6 DEF FlushStart
  <2>2. Stream' = wire
    <3>1. Stream' = (wire \o << >>) \o << >>
      BY <1>1, <1>4, <2>1 DEF Stream
    <3>2. QED
      BY <1>5, <3>1
  <2>3. WriteTypes'
    <3>1. WriterTypes'
      BY <1>2, <2>1, EntryEnds DEF WriteTypes
    <3>2. QED
      BY <1>1, <1>2, <1>3, <1>4, <2>1, <3>1 DEF WriteTypes, EndWrite
  <2>4. BytesGoOn
    BY <1>1, <1>3, <1>4, <2>1 DEF BytesGoOn
  <2>5. AcceptedIsSent'
    BY <1>1, <1>2, <2>3, <2>4, AcceptedStays
  <2>6. /\ Len(Stream') <= Len(Stream)
        /\ \A i \in 1 .. Len(Stream') : Stream'[i] = Stream[i]
    <3>1. /\ Len(wire \o xBuf) = Len(wire) + Len(xBuf)
          /\ \A i \in 1 .. Len(wire) : (wire \o xBuf)[i] = wire[i]
          /\ Len(wire) \in Nat /\ Len(xBuf) \in Nat
      BY <1>2
    <3>2. Len(wire) <= Len(wire \o xBuf)
      BY <3>1
    <3>3. QED
      BY <1>5, <2>2, <3>1, <3>2
  <2>7. wire' \in Seq(Piece) /\ sending' = << >> /\ xBuf' \in Seq(Piece) /\ Len(xBuf') < XBuf
    BY <1>1, <1>2, <1>3, <1>4, <2>1
  <2>8. QED
    BY <1>1, <1>2, <2>1, <2>5, <2>6, <2>7, WriteEnds
<1>7. CASE connected
  <2>1. /\ sending' = xBuf /\ UNCHANGED <<muxTX, dropped>>
        /\ writing' = [writing EXCEPT ![w][2] = "send"]
    BY <1>7 DEF FlushStart
  <2>2. Moves(w, "send")
    <3>1. WriterTypes /\ "send" \in Steps
      BY <1>2 DEF WriteTypes, Steps
    <3>2. QED
      BY <2>1, <3>1, EntryMoves DEF Moves
  <2>3. Stream' = Stream
    <3>1. wire \o xBuf \in Seq(Piece)
      BY <1>2
    <3>2. Stream' = (wire \o xBuf) \o << >>
      BY <1>1, <2>1 DEF Stream
    <3>3. QED
      BY <1>5, <3>1, <3>2, ConcatEmptySeq
  <2>4. WriteTypes'
    BY <1>1, <1>2, <1>3, <2>1, <2>2 DEF WriteTypes, Moves
  <2>5. BytesGoOn
    BY <1>1, <1>3, <1>4, <2>1 DEF BytesGoOn
  <2>6. AcceptedIsSent'
    BY <1>1, <1>2, <2>4, <2>5, AcceptedStays
  <2>7. "send" \in {"put", "flush", "send"} /\ "send" # "put" /\ ~(Len(xBuf') >= XBuf)
    <3>1. "send" \in {"put", "flush", "send"} /\ "send" # "put"
      OBVIOUS
    <3>2. QED
      BY <1>1, <1>2, <1>3, <3>1
  <2>8. /\ wire' \in Seq(Piece) /\ sending' \in Seq(Piece) /\ xBuf' \in Seq(Piece)
        /\ Len(sending') <= XBuf /\ Len(xBuf') <= XBuf
    BY <2>4 DEF WriteTypes
  <2>9. QED
    BY <1>1, <1>2, <2>1, <2>2, <2>3, <2>6, <2>7, <2>8, InsideGoes
<1>8. QED
  BY <1>6, <1>7

(* The flush fails: what was not sent is dropped, and the call ends.       *)
LEMMA FlushFailsKeeps ==
  ASSUME WriteInv, NEW w \in TxThreads, FlushFails(w)
  PROVE  WriteInv'
<1>1. /\ WDoing(w, "send") /\ EndWrite(w) /\ sending' = << >>
      /\ dropped' = dropped \cup InBytes(sending)
      /\ UNCHANGED <<xBuf, wire, blocks, accepted>>
  BY DEF FlushFails, Fails
<1>2. /\ Inside(w) /\ BuffersOf(w) /\ WriteTypes /\ AcceptedIsSent /\ xBuf = << >>
      /\ wire \in Seq(Piece) /\ sending \in Seq(Piece) /\ XBuf \in Nat /\ XBuf # 0
  <2>1. Inside(w) /\ BuffersOf(w) /\ WriteTypes /\ AcceptedIsSent
    BY <1>1 DEF WriteInv, Inside, WDoing
  <2>2. QED
    BY <1>1, <2>1, TcpStreamAssumption DEF BuffersOf, WriteTypes
<1>3. << >> \in Seq(Piece) /\ Len(<< >>) = 0 /\ InBytes(<< >>) = {}
  BY DEF InBytes
<1>4. wire \o << >> = wire
  BY <1>2, ConcatEmptySeq
<1>5. Stream' = wire
  <2>1. Stream' = (wire \o << >>) \o << >>
    BY <1>1, <1>2 DEF Stream
  <2>2. QED
    BY <1>4, <2>1
<1>6. /\ Len(Stream') <= Len(Stream)
      /\ \A i \in 1 .. Len(Stream') : Stream'[i] = Stream[i]
  <2>1. /\ Len(Stream) = Len(wire) + Len(sending) + Len(xBuf)
        /\ \A i \in 1 .. Len(wire) : Stream[i] = wire[i]
    BY <1>2, StreamBytes
  <2>2. Len(wire) \in Nat /\ Len(sending) \in Nat /\ Len(xBuf) = 0
    BY <1>2, <1>3
  <2>3. Len(wire) <= Len(Stream)
    BY <2>1, <2>2
  <2>4. QED
    BY <1>5, <2>1, <2>3
<1>7. WriteTypes'
  <2>1. WriterTypes'
    BY <1>1, <1>2, EntryEnds DEF WriteTypes
  <2>2. QED
    BY <1>1, <1>2, <1>3, <2>1 DEF WriteTypes, EndWrite
<1>8. BytesGoOn
  BY <1>1, <1>3 DEF BytesGoOn
<1>9. AcceptedIsSent'
  BY <1>1, <1>2, <1>7, <1>8, AcceptedStays
<1>10. QED
  <2>1. wire' \in Seq(Piece) /\ xBuf' \in Seq(Piece) /\ Len(xBuf') < XBuf
    BY <1>1, <1>2, <1>3
  <2>2. QED
    BY <1>1, <1>2, <1>6, <1>9, <2>1, WriteEnds

(* Read steps leave what is written, and write steps what is read.         *)
LEMMA ReaderLeavesWriter ==
  ASSUME WriteInv, UNCHANGED tsWrite
  PROVE  WriteInv'
<1>1. /\ UNCHANGED <<muxTX, xBuf, writing, sending, wire, blocks, accepted, dropped>>
      /\ Stream' = Stream
  BY DEF tsWrite, Stream
<1>2. WriteTypes' /\ BuffersLeft' /\ BlocksApart'
  BY <1>1 DEF WriteInv, WriteTypes, WriterTypes, BuffersLeft, WDoing, BlocksApart, HasBlock, Block
<1>3. Whole(Stream') /\ \A i \in 1 .. Len(Stream') : Stream'[i][1] <= blocks'
  BY <1>1 DEF WriteInv
<1>4. AcceptedIsSent'
  BY <1>1 DEF WriteInv, AcceptedIsSent
<1>5. ASSUME NEW w \in TxThreads
      PROVE  WriterIn(w)' /\ BuffersOf(w)' /\ (HasBlock(w)' => BlockAt(w)')
  <2>1. WriterIn(w) /\ BuffersOf(w) /\ (HasBlock(w) => BlockAt(w))
    BY DEF WriteInv
  <2>2. WriterIn(w)' /\ BuffersOf(w)' /\ (HasBlock(w)' <=> HasBlock(w))
    BY <1>1, <2>1 DEF WriterIn, WDoing, Locks, Inside, Alone, Unput, BuffersOf, HasBlock
  <2>3. BlockAt(w) => BlockAt(w)'
    BY <1>1 DEF BlockAt, Block, Done, Unput, Inside
  <2>4. QED
    BY <2>1, <2>2, <2>3
<1>6. QED
  BY <1>2, <1>3, <1>4, <1>5 DEF WriteInv

(* The steps of the reader keep both halves.                               *)
LEMMA ReadsKeep ==
  ASSUME ReadInv, WriteInv,
         CryptStart \/ ReadCall \/ ReadRefused \/ TakeByte \/ WaitByte \/ Receive \/ EndWait
  PROVE  ReadInv' /\ WriteInv'
<1>1. ReadInv'
  BY CryptStartKeeps, ReadCallKeeps, RefusedKeeps, TakeByteKeeps, WaitByteKeeps, ReceiveKeeps,
     EndWaitKeeps
<1>2. UNCHANGED tsWrite
  BY DEF CryptStart, ReadCall, ReadRefused, TakeByte, WaitByte, Receive, EndWait
<1>3. QED
  BY <1>1, <1>2, ReaderLeavesWriter

(* The steps of a writer keep both halves.                                 *)
LEMMA WritesKeep ==
  ASSUME ReadInv, WriteInv, NEW w \in TxThreads,
         \/ WriteCall(w) \/ LockTX(w) \/ PutByte(w) \/ AllPut(w)
         \/ FlushStart(w) \/ Send(w) \/ Sent(w) \/ FlushFails(w)
  PROVE  ReadInv' /\ WriteInv'
<1>1. WriteInv'
  BY WriteCallKeeps, LockKeeps, PutKeeps, AllPutKeeps, FlushStartKeeps, SendKeeps, SentKeeps,
     FlushFailsKeeps
<1>2. /\ UNCHANGED <<plain, tsRead>>
      /\ \/ UNCHANGED <<connected, broken>>
         \/ connected' = FALSE /\ broken' = TRUE
  BY DEF WriteCall, LockTX, PutByte, AllPut, FlushStart, Send, Sent, FlushFails
<1>3. QED
  BY <1>1, <1>2, WriterLeavesReader

(* What the invariant of the writing half says of the properties.          *)
LEMMA WriteInvGives ==
  ASSUME WriteInv
  PROVE  BlocksWhole /\ AcceptedIsSent
<1>1. AcceptedIsSent
  BY DEF WriteInv
<1>2. /\ WriteTypes /\ Whole(Stream)
      /\ wire \in Seq(Piece) /\ sending \in Seq(Piece) /\ xBuf \in Seq(Piece)
  BY DEF WriteInv, WriteTypes
<1>3. /\ Len(Stream) = Len(wire) + Len(sending) + Len(xBuf)
      /\ \A i \in 1 .. Len(wire) : Stream[i] = wire[i]
  BY <1>2, StreamBytes
<1>4. /\ DOMAIN wire = 1 .. Len(wire)
      /\ Len(wire) \in Nat /\ Len(sending) \in Nat /\ Len(xBuf) \in Nat
  BY <1>2
<1>5. Len(Stream) \in Nat /\ Len(wire) <= Len(Stream)
  BY <1>3, <1>4
<1>6. ASSUME NEW i \in DOMAIN wire, NEW j \in DOMAIN wire, i < j, wire[i][1] = wire[j][1]
      PROVE  wire[i][2] < wire[j][2] /\ \A k \in i .. j : wire[k][1] = wire[i][1]
  <2>1. i \in 1 .. Len(Stream) /\ j \in 1 .. Len(Stream)
    BY <1>4, <1>5
  <2>2. wire[i] = Stream[i] /\ wire[j] = Stream[j]
    BY <1>3, <1>4
  <2>3. Stream[i][2] < Stream[j][2] /\ \A k \in i .. j : Stream[k][1] = Stream[i][1]
    BY <1>2, <1>6, <2>1, <2>2 DEF Whole
  <2>4. \A k \in i .. j : wire[k] = Stream[k]
    BY <1>3, <1>4
  <2>5. QED
    BY <2>2, <2>3, <2>4
<1>7. BlocksWhole
  BY <1>6 DEF BlocksWhole
<1>8. QED
  BY <1>1, <1>7

(* What is read and what is written over one connection is given and sent  *)
(* once, in order, deciphered and in whole blocks, for every number of     *)
(* bytes, writers, blocks and sizes of the buffers.                        *)
THEOREM StreamsComeThrough == TsSpec => []StreamKept
<1>1. TsInit => ReadInv /\ WriteInv
  BY InitReadInv, InitWriteInv
<1>2. ReadInv /\ WriteInv /\ [TsNext]_tsVars => (ReadInv /\ WriteInv)'
  <2> SUFFICES ASSUME ReadInv, WriteInv, [TsNext]_tsVars
               PROVE  ReadInv' /\ WriteInv'
    OBVIOUS
  <2>1. CASE CryptStart \/ ReadCall \/ ReadRefused \/ TakeByte \/ WaitByte \/ Receive \/ EndWait
    BY <2>1, ReadsKeep
  <2>2. CASE \E w \in TxThreads :
               \/ WriteCall(w) \/ LockTX(w) \/ PutByte(w) \/ AllPut(w)
               \/ FlushStart(w) \/ Send(w) \/ Sent(w) \/ FlushFails(w)
    BY <2>2, WritesKeep
  <2>3. CASE UNCHANGED tsVars
    <3>1. UNCHANGED <<plain, connected, tsRead, tsWrite, broken>>
      BY <2>3 DEF tsVars, tsWrite
    <3>2. QED
      BY <3>1, WriterLeavesReader, ReaderLeavesWriter
  <2>4. QED
    BY <2>1, <2>2, <2>3 DEF TsNext
<1>3. ReadInv /\ WriteInv => StreamKept
  <2> SUFFICES ASSUME ReadInv, WriteInv
               PROVE  StreamKept
    OBVIOUS
  <2>1. /\ EveryByteOnce /\ ReadInOrder /\ Deciphered /\ ReadToTheEnd /\ rKey \in 0 .. Total + 1
        /\ BlocksWhole /\ AcceptedIsSent
    BY ReadInvGives, WriteInvGives
  <2>2. TsTypeOK
    BY <2>1 DEF TsTypeOK, ReadInv, ReadTypes, WriteInv, WriteTypes
  <2>3. QED
    BY <2>1, <2>2 DEF StreamKept
<1>4. QED
  BY <1>1, <1>2, <1>3, PTL DEF TsSpec

-----------------------------------------------------------------------------
(* A serial line.                                                          *)

(* The place in what comes in up to which characters left the buffer.      *)
Passed == readTo - bufLen + bufOfs

SrTypes ==
  /\ readTo \in 0 .. SrTotal /\ bufLen \in 0 .. BufSize /\ bufOfs \in 0 .. BufSize
  /\ buf \in [1 .. BufSize -> 0 .. readTo] /\ zeros \in Nat /\ bufLen <= readTo
LineTypes ==
  /\ srOp \in [kind : Kinds \cup {"none"}, want : Nat, got : Seq(Nat)]
  /\ srOp.kind = "none" <=> srOp = NoCall
  /\ KeptLine \in Seq(Nat) /\ (kept = << >> \/ kept = <<KeptLine>>)
  /\ lastLine \in Seq(Nat)
  /\ given \subseteq 0 .. readTo
  /\ \A i \in 1 .. Len(srOp.got) : srOp.got[i] <= readTo
  /\ \A i \in 1 .. Len(KeptLine) : KeptLine[i] <= readTo

(* A call that takes the line that was kept has it in got.                 *)
OneLine ==
  /\ TakesLine(srOp.kind) => kept = << >>
  /\ srOp.kind \in {"none", "clear"} => srOp.got = << >>

(* The buffer is the end of what came in.                                  *)
Window ==
  /\ \A i \in 1 .. bufLen : buf[i] = readTo - bufLen + i
  /\ zeros = 0 => bufOfs <= bufLen

(* What left the buffer and was not given yet.                             *)
InOrder(gs, s, passed) ==
  \A i \in 1 .. Len(s) :
    /\ s[i] > 0 /\ s[i] <= passed
    /\ \A g \in gs : g < s[i]
    /\ \A j \in 1 .. i - 1 : s[j] < s[i]

(* The characters are the last ones up to the place, one after the other.  *)
Run(s, passed) == \A i \in 1 .. Len(s) : s[i] = passed - Len(s) + i

(* No read gave nothing, and nobody took characters past a kept line.      *)
Orderly == zeros = 0 /\ ~overtaken
(* What is given next comes behind what was given.                         *)
Order ==
  Orderly =>
    /\ ~disorder
    /\ \A g \in given : g <= Passed
    /\ InOrder(given, srOp.got, Passed)
    /\ srOp.kind # "clear" => InOrder(given, KeptLine, Passed)
    /\ srOp.kind \in {"getch", "max", "length"} => KeptLine = << >>
    /\ ~missed => Run(srOp.got, Passed) /\ (srOp.kind # "clear" => Run(KeptLine, Passed))

NoStop(s) == \A i \in 1 .. Len(s) : s[i] \notin SrLineEnds
Follow(s) == \A i \in 2 .. Len(s) : s[i] = s[i - 1] + 1
NoStops ==
  /\ srOp.kind = "line" => NoStop(srOp.got)
  /\ NoStop(KeptLine) /\ NoStop(lastLine)
  /\ Orderly /\ ~missed => Follow(lastLine)

(* Where a character is that left the buffer.                              *)
Held == given \cup srDropped \cup CharsIn(KeptLine) \cup CharsIn(srOp.got)
AllHeld == \A c \in 1 .. readTo : c <= Passed => c \in Held

LineInv == LineTypes /\ OneLine /\ Order /\ NoStops
(* The inductive invariant.                                                *)
SrInv == SrTypes /\ Window /\ LineInv /\ AllHeld

-----------------------------------------------------------------------------
(* A character of a text stands at one of its places.                      *)
LEMMA CharsAre ==
  ASSUME NEW s \in Seq(Nat), NEW c
  PROVE  c \in CharsIn(s) <=> \E i \in 1 .. Len(s) : s[i] = c
BY DEF CharsIn

(* A text with one character more.                                         *)
LEMMA CharsAppend ==
  ASSUME NEW s \in Seq(Nat), NEW c \in Nat
  PROVE  /\ Append(s, c) \in Seq(Nat) /\ Len(Append(s, c)) = Len(s) + 1
         /\ \A i \in 1 .. Len(s) : Append(s, c)[i] = s[i]
         /\ Append(s, c)[Len(s) + 1] = c
         /\ CharsIn(Append(s, c)) = CharsIn(s) \cup {c}
<1> DEFINE t == Append(s, c)
<1>1. /\ t \in Seq(Nat) /\ Len(t) = Len(s) + 1 /\ Len(s) \in Nat
      /\ \A i \in 1 .. Len(s) : t[i] = s[i]
      /\ t[Len(s) + 1] = c
  OBVIOUS
<1> HIDE DEF t
<1>2. ASSUME NEW d
      PROVE  d \in CharsIn(t) <=> d \in CharsIn(s) \/ d = c
  <2>1. d \in CharsIn(t) <=> \E i \in 1 .. Len(t) : t[i] = d
    BY <1>1, CharsAre
  <2>2. d \in CharsIn(s) <=> \E i \in 1 .. Len(s) : s[i] = d
    BY CharsAre
  <2>3. \A i \in 1 .. Len(t) : i \in 1 .. Len(s) \/ i = Len(s) + 1
    BY <1>1
  <2>4. \A i \in 1 .. Len(s) : i \in 1 .. Len(t)
    BY <1>1
  <2>5. Len(s) + 1 \in 1 .. Len(t)
    BY <1>1
  <2>6. QED
    BY <1>1, <2>1, <2>2, <2>3, <2>4, <2>5
<1>3. CharsIn(t) = CharsIn(s) \cup {c}
  BY <1>2
<1>4. QED
  BY <1>1, <1>3 DEF t

(* The empty text.                                                         *)
LEMMA NoChars ==
  /\ << >> \in Seq(Nat) /\ Len(<< >>) = 0 /\ 1 .. 0 = {} /\ CharsIn(<< >>) = {}
  /\ NoStop(<< >>) /\ Follow(<< >>)
<1>1. << >> \in Seq(Nat) /\ Len(<< >>) = 0 /\ 1 .. 0 = {} /\ 2 .. 0 = {} /\ DOMAIN << >> = {}
  OBVIOUS
<1>2. QED
  BY <1>1 DEF CharsIn, NoStop, Follow

(* The empty text is in order.                                             *)
LEMMA NoneInOrder ==
  ASSUME NEW gs, NEW p
  PROVE  InOrder(gs, << >>, p) /\ Run(<< >>, p)
BY NoChars DEF InOrder, Run

(* The next character goes behind those that were taken.                   *)
LEMMA OneMore ==
  ASSUME given \subseteq Nat, NEW s \in Seq(Nat), NEW p \in Nat, InOrder(given, s, p),
         \A g \in given : g <= p
  PROVE  InOrder(given, Append(s, p + 1), p + 1)
<1> DEFINE t == Append(s, p + 1)
<1>1. /\ Len(t) = Len(s) + 1 /\ Len(s) \in Nat
      /\ \A i \in 1 .. Len(s) : t[i] = s[i] /\ s[i] \in Nat
      /\ t[Len(s) + 1] = p + 1
  OBVIOUS
<1> HIDE DEF t
<1>2. ASSUME NEW i \in 1 .. Len(t)
      PROVE  /\ t[i] > 0 /\ t[i] <= p + 1
             /\ \A g \in given : g < t[i]
             /\ \A j \in 1 .. i - 1 : t[j] < t[i]
  <2>1. CASE i \in 1 .. Len(s)
    <3>1. /\ s[i] > 0 /\ s[i] <= p
          /\ \A g \in given : g < s[i]
          /\ \A j \in 1 .. i - 1 : s[j] < s[i]
      BY <2>1 DEF InOrder
    <3>2. t[i] = s[i] /\ s[i] \in Nat
      BY <1>1, <2>1
    <3>3. \A j \in 1 .. i - 1 : t[j] = s[j]
      BY <1>1, <2>1
    <3>4. QED
      BY <3>1, <3>2, <3>3
  <2>2. CASE i = Len(s) + 1
    <3>1. t[i] = p + 1
      BY <1>1, <2>2
    <3>2. \A j \in 1 .. i - 1 : t[j] \in Nat /\ t[j] <= p
      <4>1. \A j \in 1 .. Len(s) : s[j] <= p
        BY DEF InOrder
      <4>2. QED
        BY <1>1, <2>2, <4>1
    <3>3. QED
      BY <3>1, <3>2
  <2>3. QED
    BY <1>1, <2>1, <2>2
<1>3. QED
  BY <1>2 DEF InOrder, t

(* The next character goes on.                                             *)
LEMMA RunOn ==
  ASSUME NEW s \in Seq(Nat), NEW p \in Nat, Run(s, p)
  PROVE  Run(Append(s, p + 1), p + 1) /\ Follow(s)
<1> DEFINE t == Append(s, p + 1)
<1>1. /\ Len(t) = Len(s) + 1 /\ Len(s) \in Nat
      /\ \A i \in 1 .. Len(s) : t[i] = s[i]
      /\ t[Len(s) + 1] = p + 1
  OBVIOUS
<1> HIDE DEF t
<1>2. ASSUME NEW i \in 1 .. Len(t)
      PROVE  t[i] = (p + 1) - Len(t) + i
  <2>1. CASE i \in 1 .. Len(s)
    <3>1. s[i] = p - Len(s) + i /\ t[i] = s[i]
      BY <1>1, <2>1 DEF Run
    <3>2. QED
      BY <1>1, <3>1
  <2>2. CASE i = Len(s) + 1
    BY <1>1, <2>2
  <2>3. QED
    BY <1>1, <2>1, <2>2
<1>3. Follow(s)
  <2>1. ASSUME NEW i \in 2 .. Len(s)
        PROVE  s[i] = s[i - 1] + 1
    <3>1. i \in 1 .. Len(s) /\ i - 1 \in 1 .. Len(s)
      BY <1>1
    <3>2. s[i] = p - Len(s) + i /\ s[i - 1] = p - Len(s) + (i - 1)
      BY <3>1 DEF Run
    <3>3. QED
      BY <1>1, <3>2
  <2>2. QED
    BY <2>1 DEF Follow
<1>4. QED
  BY <1>2, <1>3 DEF Run, t

(* What is in order is given in order.                                     *)
LEMMA GivenSo ==
  ASSUME given \subseteq Nat, NEW s \in Seq(Nat), NEW p \in Nat, InOrder(given, s, p), Gives(s),
         \A g \in given : g <= p, ~disorder
  PROVE  ~disorder' /\ \A g \in given' : g <= p
<1>1. DOMAIN s = 1 .. Len(s) /\ \A i \in 1 .. Len(s) : s[i] \in Nat
  OBVIOUS
<1>2. ASSUME NEW i \in 1 .. Len(s), NEW g \in given \cup {0} \cup {s[j] : j \in 1 .. i - 1}
      PROVE  ~(s[i] <= g)
  <2>1. g < s[i]
    BY DEF InOrder
  <2>2. g \in Nat
    <3>1. \A j \in 1 .. i - 1 : j \in 1 .. Len(s)
      OBVIOUS
    <3>2. QED
      BY <1>1, <3>1
  <2>3. QED
    BY <1>1, <2>1, <2>2
<1>3. ~disorder'
  BY <1>1, <1>2 DEF Gives
<1>4. \A i \in 1 .. Len(s) : s[i] <= p
  BY DEF InOrder
<1>5. QED
  BY <1>1, <1>3, <1>4 DEF Gives, CharsIn

(* What is given to the caller is given.                                   *)
LEMMA GivesMore ==
  ASSUME NEW s \in Seq(Nat), Gives(s), NEW n \in Nat, given \subseteq 0 .. n,
         \A i \in 1 .. Len(s) : s[i] <= n
  PROVE  given' \subseteq 0 .. n /\ given' = given \cup CharsIn(s)
<1>1. given' = given \cup CharsIn(s)
  BY DEF Gives
<1>2. ASSUME NEW c \in CharsIn(s)
      PROVE  c \in 0 .. n
  <2>1. PICK i \in 1 .. Len(s) : s[i] = c
    BY CharsAre
  <2>2. s[i] \in Nat /\ s[i] <= n
    OBVIOUS
  <2>3. QED
    BY <2>1, <2>2
<1>3. QED
  BY <1>1, <1>2

(* Characters stay in order when the place moves on.                       *)
LEMMA StaysInOrder ==
  ASSUME given \subseteq Nat, NEW s \in Seq(Nat), NEW p \in Nat, NEW q \in Nat, p <= q,
         InOrder(given, s, p)
  PROVE  InOrder(given, s, q)
<1>1. ASSUME NEW i \in 1 .. Len(s)
      PROVE  s[i] <= q
  <2>1. s[i] <= p /\ s[i] \in Nat
    BY DEF InOrder
  <2>2. QED
    BY <2>1
<1>2. QED
  BY <1>1 DEF InOrder

-----------------------------------------------------------------------------
(* A call takes a character.                                               *)

(* What a call does with characters, apart from the buffer they come from. *)
LineKept ==
  /\ LineInv'
  /\ Held \subseteq Held'

(* What the buffer does meanwhile.                                         *)
MovesOn(c) ==
  /\ readTo \in Nat /\ readTo' \in Nat /\ readTo <= readTo' /\ c \in Nat /\ c <= readTo'
  /\ zeros' = 0 => zeros = 0 /\ Passed \in Nat /\ Passed' = Passed + 1 /\ c = Passed + 1

(* A call takes the next character.                                        *)
LEMMA StoresChar ==
  ASSUME LineInv, NEW c \in Nat, MovesOn(c), srOp # NoCall, ~Clearing,
         srOp' = [srOp EXCEPT !.got = Append(srOp.got, c)],
         UNCHANGED <<given, disorder, kept, srDropped, lastLine, overtaken, missed>>,
         srOp.kind = "line" => c \notin SrLineEnds
  PROVE  LineKept /\ c \in Held'
<1> DEFINE s == srOp.got
           t == Append(s, c)
<1>1. /\ LineTypes /\ OneLine /\ Order /\ NoStops
      /\ KeptLine' = KeptLine
  BY DEF LineInv, KeptLine
<1>2. /\ s \in Seq(Nat) /\ srOp.kind \in Kinds /\ srOp.kind # "none" /\ srOp.kind # "clear"
      /\ srOp'.kind = srOp.kind /\ srOp'.got = t
      /\ srOp' \in [kind : Kinds \cup {"none"}, want : Nat, got : Seq(Nat)]
  <2>1. srOp \in [kind : Kinds \cup {"none"}, want : Nat, got : Seq(Nat)]
    BY <1>1 DEF LineTypes
  <2>2. t \in Seq(Nat)
    BY <2>1, CharsAppend
  <2>3. QED
    BY <1>1, <2>1, <2>2 DEF LineTypes, Clearing
<1>3. /\ t \in Seq(Nat) /\ Len(t) = Len(s) + 1 /\ Len(s) \in Nat
      /\ \A i \in 1 .. Len(s) : t[i] = s[i] /\ s[i] \in Nat
      /\ t[Len(s) + 1] = c
      /\ CharsIn(t) = CharsIn(s) \cup {c}
  BY <1>2, CharsAppend
<1>4. \A i \in 1 .. Len(t) : i \in 1 .. Len(s) \/ i = Len(s) + 1
  BY <1>3
<1> HIDE DEF t
<1>5. LineTypes'
  <2>1. given \subseteq 0 .. readTo'
    BY <1>1 DEF LineTypes, MovesOn
  <2>2. ASSUME NEW i \in 1 .. Len(t)
        PROVE  t[i] <= readTo'
    <3>1. CASE i = Len(s) + 1
      BY <1>3, <3>1 DEF MovesOn
    <3>2. CASE i \in 1 .. Len(s)
      <4>1. s[i] <= readTo /\ t[i] = s[i] /\ s[i] \in Nat
        BY <1>1, <1>3, <3>2 DEF LineTypes
      <4>2. QED
        BY <4>1 DEF MovesOn
    <3>3. QED
      BY <1>4, <3>1, <3>2
  <2>3. ASSUME NEW i \in 1 .. Len(KeptLine)
        PROVE  KeptLine[i] <= readTo'
    <3>1. KeptLine[i] <= readTo /\ KeptLine[i] \in Nat
      BY <1>1 DEF LineTypes
    <3>2. QED
      BY <3>1 DEF MovesOn
  <2>4. srOp'.kind # "none" /\ srOp' # NoCall
    BY <1>2 DEF NoCall
  <2>5. QED
    BY <1>1, <1>2, <2>1, <2>2, <2>3, <2>4 DEF LineTypes
<1>6. OneLine'
  BY <1>1, <1>2 DEF OneLine
<1>7. Order'
  <2>1. SUFFICES ASSUME Orderly'
                 PROVE  /\ ~disorder
                        /\ \A g \in given : g <= Passed'
                        /\ InOrder(given, t, Passed')
                        /\ InOrder(given, KeptLine, Passed')
                        /\ srOp.kind \in {"getch", "max", "length"} => KeptLine = << >>
                        /\ ~missed => Run(t, Passed') /\ Run(KeptLine, Passed')
    BY <1>1, <1>2 DEF Order
  <2>2. /\ Orderly /\ Passed \in Nat /\ Passed' = Passed + 1 /\ c = Passed + 1
        /\ given \subseteq Nat
    BY <1>1, <2>1 DEF Orderly, MovesOn, LineTypes
  <2>3. /\ ~disorder
        /\ \A g \in given : g <= Passed
        /\ InOrder(given, s, Passed)
        /\ srOp.kind \in {"getch", "max", "length"} => KeptLine = << >>
        /\ ~missed => Run(s, Passed)
    BY <1>1, <2>2 DEF Order
  <2>4. KeptLine = << >>
    BY <1>1, <1>2, <2>3 DEF OneLine, TakesLine, Kinds, KeptLine
  <2>5. InOrder(given, t, Passed')
    BY <1>2, <2>2, <2>3, OneMore DEF t
  <2>6. ~missed => Run(t, Passed')
    BY <1>2, <2>2, <2>3, RunOn DEF t
  <2>7. \A g \in given : g <= Passed'
    BY <2>2, <2>3
  <2>8. QED
    BY <2>3, <2>4, <2>5, <2>6, <2>7, NoneInOrder
<1>8. NoStops'
  <2>1. srOp.kind = "line" => NoStop(t)
    <3>1. SUFFICES ASSUME srOp.kind = "line", NEW i \in 1 .. Len(t)
                   PROVE  t[i] \notin SrLineEnds
      BY DEF NoStop
    <3>2. NoStop(s)
      BY <1>1, <3>1 DEF NoStops
    <3>3. QED
      BY <1>3, <1>4, <3>1, <3>2 DEF NoStop
  <2>2. Orderly' => Orderly
    BY DEF Orderly, MovesOn
  <2>3. QED
    BY <1>1, <1>2, <2>1, <2>2 DEF NoStops
<1>9. Held \subseteq Held' /\ c \in Held'
  BY <1>1, <1>2, <1>3 DEF Held
<1>10. QED
  BY <1>5, <1>6, <1>7, <1>8, <1>9 DEF LineKept, LineInv

-----------------------------------------------------------------------------
(* A call ends.                                                            *)

(* What holds after a call has ended.                                      *)
LEMMA NoCallNow ==
  ASSUME srOp' = NoCall, KeptLine' \in Seq(Nat), kept' = << >> \/ kept' = <<KeptLine'>>,
         lastLine' \in Seq(Nat), given' \subseteq 0 .. readTo',
         \A i \in 1 .. Len(KeptLine') : KeptLine'[i] <= readTo',
         Orderly' => /\ ~disorder'
                     /\ \A g \in given' : g <= Passed'
                     /\ InOrder(given', KeptLine', Passed')
                     /\ ~missed' => Run(KeptLine', Passed'),
         NoStop(KeptLine'), NoStop(lastLine'), Orderly' /\ ~missed' => Follow(lastLine')
  PROVE  LineInv'
<1>1. srOp'.kind = "none" /\ srOp'.got = << >> /\ srOp'.want = 0
  BY DEF NoCall
<1>2. /\ << >> \in Seq(Nat) /\ Len(<< >>) = 0 /\ 1 .. 0 = {}
      /\ "none" \in Kinds \cup {"none"} /\ "none" # "line" /\ "none" # "read" /\ "none" # "clear"
      /\ "none" \notin {"getch", "max", "length"}
  OBVIOUS
<1>3. srOp' \in [kind : Kinds \cup {"none"}, want : Nat, got : Seq(Nat)]
  BY <1>2 DEF NoCall
<1>4. LineTypes'
  BY <1>1, <1>2, <1>3 DEF LineTypes
<1>5. OneLine'
  BY <1>1, <1>2 DEF OneLine, TakesLine
<1>6. Order'
  BY <1>1, <1>2, NoneInOrder DEF Order
<1>7. NoStops'
  BY <1>1, <1>2 DEF NoStops
<1>8. QED
  BY <1>4, <1>5, <1>6, <1>7 DEF LineInv

(* It gives what it has: nothing is kept then, unless it overtook a line.  *)
LEMMA ReturnsInOrder ==
  ASSUME LineInv, NEW t \in Seq(Nat), Gives(t), srOp' = NoCall,
         UNCHANGED <<kept, srDropped, overtaken, missed>>,
         readTo \in Nat, readTo' \in Nat, readTo <= readTo', \A i \in 1 .. Len(t) : t[i] <= readTo',
         CharsIn(srOp.got) \subseteq CharsIn(t),
         Orderly' => /\ Orderly /\ KeptLine = << >> /\ Passed \in Nat /\ Passed' \in Nat
                     /\ Passed <= Passed' /\ InOrder(given, t, Passed'),
         lastLine' \in Seq(Nat), NoStop(lastLine'), Orderly' /\ ~missed' => Follow(lastLine')
  PROVE  LineKept /\ CharsIn(t) \subseteq Held'
<1>1. /\ LineTypes /\ Order /\ NoStops /\ KeptLine' = KeptLine
  BY DEF LineInv, KeptLine
<1>2. given \subseteq 0 .. readTo' /\ given \subseteq Nat
  BY <1>1 DEF LineTypes
<1>3. given' \subseteq 0 .. readTo' /\ given' = given \cup CharsIn(t)
  BY <1>2, GivesMore
<1>4. ASSUME Orderly'
      PROVE  /\ ~disorder'
             /\ \A g \in given' : g <= Passed'
             /\ InOrder(given', KeptLine', Passed')
             /\ ~missed' => Run(KeptLine', Passed')
  <2>1. ~disorder /\ \A g \in given : g <= Passed
    BY <1>1, <1>4 DEF Order
  <2>2. \A g \in given : g <= Passed'
    BY <1>2, <1>4, <2>1
  <2>3. ~disorder' /\ \A g \in given' : g <= Passed'
    BY <1>2, <1>4, <2>1, <2>2, GivenSo
  <2>4. KeptLine' = << >>
    BY <1>1, <1>4
  <2>5. QED
    BY <2>3, <2>4, NoneInOrder
<1>5. ASSUME NEW i \in 1 .. Len(KeptLine')
      PROVE  KeptLine'[i] <= readTo'
  <2>1. KeptLine[i] <= readTo /\ KeptLine[i] \in Nat
    BY <1>1 DEF LineTypes
  <2>2. QED
    BY <1>1, <2>1
<1>6. KeptLine' \in Seq(Nat) /\ (kept' = << >> \/ kept' = <<KeptLine'>>) /\ NoStop(KeptLine')
  BY <1>1 DEF LineTypes, NoStops
<1>7. LineInv'
  BY <1>3, <1>4, <1>5, <1>6, NoCallNow
<1>8. Held \subseteq Held' /\ CharsIn(t) \subseteq Held'
  BY <1>1, <1>3 DEF Held
<1>9. QED
  BY <1>7, <1>8 DEF LineKept

(* It gives nothing: what it has is kept, or dropped.                      *)
LEMMA KeepsOrDrops ==
  ASSUME LineInv, srOp' = NoCall, UNCHANGED <<given, disorder, lastLine, overtaken>>,
         readTo \in Nat, readTo' \in Nat, readTo <= readTo', missed => missed',
         \/ kept' = <<srOp.got>> /\ TakesLine(srOp.kind) /\ srOp.kind = "line"
         \/ kept' = << >> /\ (CharsIn(srOp.got) \cup CharsIn(KeptLine) \subseteq srDropped'),
         srDropped \subseteq srDropped',
         Orderly' => Orderly /\ Passed \in Nat /\ Passed' \in Nat /\ Passed <= Passed',
         kept' = << >> \/ missed' \/ Passed' = Passed
  PROVE  LineKept
<1>1. LineTypes /\ OneLine /\ Order /\ NoStops /\ srOp.got \in Seq(Nat)
  BY DEF LineInv, LineTypes
<1>2. /\ KeptLine' = srOp.got \/ KeptLine' = << >>
      /\ kept' = << >> => KeptLine' = << >>
      /\ kept' = <<KeptLine'>> \/ kept' = << >>
      /\ kept' # << >> => srOp.kind = "line" /\ KeptLine' = srOp.got
      /\ << >> # <<srOp.got>>
  BY DEF KeptLine
<1>3. given' \subseteq 0 .. readTo' /\ given \subseteq Nat
  BY <1>1 DEF LineTypes
<1>4. ASSUME NEW i \in 1 .. Len(KeptLine')
      PROVE  KeptLine'[i] <= readTo'
  <2>1. KeptLine' = srOp.got
    BY <1>2, <1>4, NoChars
  <2>2. srOp.got[i] <= readTo /\ srOp.got[i] \in Nat
    BY <1>1, <2>1 DEF LineTypes
  <2>3. QED
    BY <2>1, <2>2
<1>5. ASSUME Orderly'
      PROVE  /\ ~disorder'
             /\ \A g \in given' : g <= Passed'
             /\ InOrder(given', KeptLine', Passed')
             /\ ~missed' => Run(KeptLine', Passed')
  <2>1. /\ ~disorder /\ \A g \in given : g <= Passed
        /\ InOrder(given, srOp.got, Passed)
        /\ ~missed => Run(srOp.got, Passed)
    BY <1>1, <1>5 DEF Order
  <2>2. \A g \in given : g <= Passed'
    BY <1>3, <1>5, <2>1
  <2>3. InOrder(given, srOp.got, Passed')
    BY <1>1, <1>3, <1>5, <2>1, StaysInOrder
  <2>4. InOrder(given, KeptLine', Passed')
    BY <1>2, <2>3, NoneInOrder
  <2>5. ~missed' => Run(KeptLine', Passed')
    <3>1. CASE kept' = << >>
      BY <1>2, <3>1, NoneInOrder
    <3>2. CASE kept' # << >>
      BY <1>2, <2>1, <3>2
    <3>3. QED
      BY <3>1, <3>2
  <2>6. QED
    BY <2>1, <2>2, <2>4, <2>5
<1>6. KeptLine' \in Seq(Nat) /\ NoStop(KeptLine')
  <2>1. CASE kept' = << >>
    BY <1>2, <2>1, NoChars
  <2>2. CASE kept' # << >>
    BY <1>1, <1>2, <2>2 DEF NoStops
  <2>3. QED
    BY <2>1, <2>2
<1>7. /\ lastLine' \in Seq(Nat) /\ NoStop(lastLine')
      /\ Orderly' /\ ~missed' => Follow(lastLine')
  BY <1>1 DEF LineTypes, NoStops
<1>8. LineInv'
  BY <1>2, <1>3, <1>4, <1>5, <1>6, <1>7, NoCallNow
<1>9. Held \subseteq Held'
  <2>1. CASE kept' = << >>
    <3>1. CharsIn(srOp.got) \cup CharsIn(KeptLine) \subseteq srDropped'
      BY <1>2, <2>1
    <3>2. QED
      BY <3>1 DEF Held
  <2>2. CASE kept' # << >>
    <3>1. KeptLine' = srOp.got /\ TakesLine(srOp.kind)
      BY <1>2, <2>2 DEF TakesLine
    <3>2. KeptLine = << >>
      BY <1>1, <3>1 DEF OneLine, KeptLine
    <3>3. QED
      BY <3>1, <3>2, NoChars DEF Held
  <2>3. QED
    BY <2>1, <2>2
<1>10. QED
  BY <1>8, <1>9 DEF LineKept

-----------------------------------------------------------------------------
(* A character that comes next is stored, given with those before it, or,  *)
(* a stop character with its top bit set from the buffer, dropped.         *)
LEMMA WithKeeps ==
  ASSUME LineInv, NEW c \in Nat, NEW fresh \in BOOLEAN, MovesOn(c), srOp # NoCall, ~Clearing,
         SrWith(c, fresh)
  PROVE  LineKept /\ c \in Held'
<1> DEFINE s == srOp.got
           t == Append(s, c)
<1>1. /\ LineTypes /\ OneLine /\ Order /\ NoStops
      /\ s \in Seq(Nat) /\ srOp.kind \in {"getch", "max", "length", "line", "read"}
  BY DEF LineInv, LineTypes, Kinds, Clearing
<1>2. /\ t \in Seq(Nat) /\ Len(t) = Len(s) + 1 /\ Len(s) \in Nat
      /\ \A i \in 1 .. Len(s) : t[i] = s[i] /\ s[i] \in Nat
      /\ t[Len(s) + 1] = c
      /\ CharsIn(t) = CharsIn(s) \cup {c}
  BY <1>1, CharsAppend
<1>3. ASSUME NEW i \in 1 .. Len(t)
      PROVE  t[i] <= readTo'
  <2>1. CASE i = Len(s) + 1
    BY <1>2, <2>1 DEF MovesOn
  <2>2. CASE i \in 1 .. Len(s)
    <3>1. s[i] <= readTo /\ t[i] = s[i] /\ s[i] \in Nat
      BY <1>1, <1>2, <2>2 DEF LineTypes
    <3>2. QED
      BY <3>1 DEF MovesOn
  <2>3. QED
    BY <1>2, <2>1, <2>2
(* In an orderly run it goes on where the call is.                         *)
<1>4. ASSUME zeros' = 0, ~overtaken
      PROVE  /\ Orderly /\ Passed \in Nat /\ Passed' \in Nat /\ Passed <= Passed'
             /\ KeptLine = << >> /\ InOrder(given, t, Passed')
             /\ ~missed => Run(s, Passed)
  <2>1. /\ Orderly /\ Passed \in Nat /\ Passed' = Passed + 1 /\ c = Passed + 1
        /\ given \subseteq Nat
    BY <1>1, <1>4 DEF Orderly, MovesOn, LineTypes
  <2>2. /\ \A g \in given : g <= Passed
        /\ InOrder(given, s, Passed)
        /\ srOp.kind \in {"getch", "max", "length"} => KeptLine = << >>
        /\ ~missed => Run(s, Passed)
    BY <1>1, <2>1 DEF Order
  <2>3. KeptLine = << >>
    BY <1>1, <2>2 DEF OneLine, TakesLine, KeptLine
  <2>4. InOrder(given, t, Passed')
    BY <1>1, <2>1, <2>2, OneMore
  <2>5. QED
    BY <2>1, <2>2, <2>3, <2>4
<1>5. readTo \in Nat /\ readTo' \in Nat /\ readTo <= readTo'
  BY DEF MovesOn
<1> HIDE DEF t
<1>6. CASE srOp.kind \in {"getch", "max", "length"} /\ Len(t) = srOp.want
  <2>1. Returns(t)
    BY <1>6 DEF SrWith, t
  <2>2. /\ Gives(t) /\ srOp' = NoCall
        /\ UNCHANGED <<kept, srDropped, lastLine, overtaken, missed>>
    BY <2>1 DEF Returns
  <2>3. /\ lastLine' \in Seq(Nat) /\ NoStop(lastLine')
        /\ Orderly' => Orderly /\ zeros' = 0 /\ ~overtaken
        /\ Orderly' /\ ~missed' => Follow(lastLine')
    BY <1>1, <1>4, <2>2 DEF LineTypes, NoStops, Orderly
  <2>4. CharsIn(srOp.got) \subseteq CharsIn(t) /\ c \in CharsIn(t)
    BY <1>2
  <2>5. QED
    BY <1>2, <1>3, <1>4, <1>5, <2>2, <2>3, <2>4, ReturnsInOrder
<1>7. CASE srOp.kind = "line" /\ IsStop(c, fresh)
  <2>1. CASE TakesStop(fresh)
    <3>1. /\ Gives(t) /\ lastLine' = s /\ srOp' = NoCall
          /\ UNCHANGED <<kept, srDropped, overtaken, missed>>
      BY <1>7, <2>1 DEF SrWith, t
    <3>2. lastLine' \in Seq(Nat) /\ NoStop(lastLine')
      BY <1>1, <1>7, <3>1 DEF NoStops
    <3>3. Orderly' /\ ~missed' => Follow(lastLine')
      <4>1. SUFFICES ASSUME Orderly', ~missed'
                     PROVE  Follow(s)
        BY <3>1
      <4>2. zeros' = 0 /\ ~overtaken /\ ~missed
        BY <3>1, <4>1 DEF Orderly
      <4>3. Run(s, Passed) /\ Passed \in Nat
        BY <1>4, <4>2
      <4>4. QED
        BY <1>1, <4>3, RunOn
    <3>4. CharsIn(srOp.got) \subseteq CharsIn(t) /\ c \in CharsIn(t)
      BY <1>2
    <3>5. Orderly' => zeros' = 0 /\ ~overtaken
      BY <3>1 DEF Orderly
    <3>6. QED
      BY <1>2, <1>3, <1>4, <1>5, <3>1, <3>2, <3>3, <3>4, <3>5, ReturnsInOrder
  <2>2. CASE ~TakesStop(fresh)
    <3>1. /\ kept' = <<srOp.got>> /\ srOp' = NoCall
          /\ srDropped' = srDropped \cup {c} /\ missed' = TRUE
          /\ UNCHANGED <<given, disorder, lastLine, overtaken>>
      BY <1>7, <2>2 DEF SrWith
    <3>2. /\ TakesLine(srOp.kind) /\ srDropped \subseteq srDropped' /\ c \in srDropped'
          /\ Orderly' => zeros' = 0 /\ ~overtaken
      BY <1>7, <3>1 DEF TakesLine, Orderly
    <3>3. LineKept
      BY <1>4, <1>5, <1>7, <3>1, <3>2, KeepsOrDrops
    <3>4. QED
      BY <3>2, <3>3 DEF Held
  <2>3. QED
    BY <2>1, <2>2
<1>8. CASE /\ ~(srOp.kind \in {"getch", "max", "length"} /\ Len(t) = srOp.want)
           /\ ~(srOp.kind = "line" /\ IsStop(c, fresh))
  <2>1. /\ srOp' = [srOp EXCEPT !.got = Append(srOp.got, c)]
        /\ UNCHANGED <<given, disorder, kept, srDropped, lastLine, overtaken, missed>>
    BY <1>8 DEF SrWith, t
  <2>2. srOp.kind = "line" => c \notin SrLineEnds
    BY <1>8 DEF IsStop
  <2>3. QED
    BY <2>1, <2>2, StoresChar
<1>9. QED
  BY <1>6, <1>7, <1>8

(* Nothing has come in at first.                                           *)
LEMMA InitSrInv == SrInit => SrInv
<1> SUFFICES ASSUME SrInit
             PROVE  SrInv
  OBVIOUS
<1>1. /\ readTo = 0 /\ bufLen = 0 /\ bufOfs = 0 /\ kept = << >> /\ srOp = NoCall
      /\ given = {} /\ disorder = FALSE /\ lastLine = << >> /\ zeros = 0
      /\ buf = [i \in 1 .. BufSize |-> 0] /\ KeptLine = << >>
      /\ SrTotal \in Nat /\ BufSize \in Nat
  BY SerialReadAssumption DEF SrInit, KeptLine
<1>2. srOp.kind = "none" /\ srOp.got = << >> /\ srOp.want = 0
  BY <1>1 DEF NoCall
<1>3. srOp \in [kind : Kinds \cup {"none"}, want : Nat, got : Seq(Nat)]
  BY <1>1, NoChars DEF NoCall
<1>4. SrTypes /\ Window /\ AllHeld
  BY <1>1 DEF SrTypes, Window, AllHeld
<1>5. LineTypes
  BY <1>1, <1>2, <1>3, NoChars DEF LineTypes
<1>6. OneLine
  BY <1>1, <1>2 DEF OneLine
<1>7. Order
  BY <1>1, <1>2, NoneInOrder DEF Order
<1>8. NoStops
  BY <1>1, <1>2, NoChars DEF NoStops
<1>9. QED
  BY <1>4, <1>5, <1>6, <1>7, <1>8 DEF SrInv, LineInv

(* A call begins.                                                          *)
LEMMA CallSerialKeeps ==
  ASSUME SrInv, CallSerial
  PROVE  SrInv'
<1>1. PICK kind \in Kinds, n \in Wanted :
        /\ srOp' = [kind |-> kind,
                    want |-> CASE kind = "getch" -> 1 [] kind \in {"max", "length"} -> n [] OTHER -> 0,
                    got |-> IF TakesLine(kind) THEN KeptLine ELSE << >>]
        /\ kept' = (IF TakesLine(kind) THEN << >> ELSE kept)
        /\ overtaken' = (overtaken \/ (~TakesLine(kind) /\ kind # "clear" /\ KeptLine # << >>))
  BY DEF CallSerial
<1>2. /\ UNCHANGED <<readTo, buf, bufLen, bufOfs, given, disorder, srDropped, lastLine, zeros, missed>>
      /\ srOp = NoCall /\ Passed' = Passed
  BY DEF CallSerial, Passed
<1>3. /\ LineTypes /\ OneLine /\ Order /\ NoStops /\ KeptLine \in Seq(Nat)
      /\ srOp.kind = "none" /\ srOp.got = << >> /\ n \in Nat
  BY <1>2, SerialReadAssumption DEF SrInv, LineInv, LineTypes, NoCall
<1>4. /\ srOp'.kind = kind /\ kind # "none"
      /\ srOp'.got = IF TakesLine(kind) THEN KeptLine ELSE << >>
      /\ srOp'.want \in Nat
  BY <1>1, <1>3 DEF Kinds
<1>5. KeptLine' = IF TakesLine(kind) THEN << >> ELSE KeptLine
  BY <1>1 DEF KeptLine
<1>6. srOp' \in [kind : Kinds \cup {"none"}, want : Nat, got : Seq(Nat)]
  <2>1. srOp'.got \in Seq(Nat)
    BY <1>3, <1>4, NoChars
  <2>2. srOp' = [kind |-> kind, want |-> srOp'.want, got |-> srOp'.got]
    BY <1>1
  <2>3. QED
    BY <1>4, <2>1, <2>2
<1>7. LineTypes'
  <2>1. srOp' # NoCall
    BY <1>4 DEF NoCall
  <2>2. kept' = << >> \/ kept' = <<KeptLine'>>
    BY <1>1, <1>3, <1>5 DEF LineTypes
  <2>3. KeptLine' \in Seq(Nat)
    BY <1>3, <1>5, NoChars
  <2>4. /\ \A i \in 1 .. Len(srOp'.got) : srOp'.got[i] <= readTo
        /\ \A i \in 1 .. Len(KeptLine') : KeptLine'[i] <= readTo
    BY <1>3, <1>4, <1>5, NoChars DEF LineTypes
  <2>5. QED
    BY <1>2, <1>3, <1>4, <1>6, <2>1, <2>2, <2>3, <2>4 DEF LineTypes
<1>8. OneLine'
  BY <1>1, <1>4 DEF OneLine, TakesLine
<1>9. Order'
  <2>1. SUFFICES ASSUME Orderly'
                 PROVE  /\ ~disorder
                        /\ \A g \in given : g <= Passed
                        /\ InOrder(given, srOp'.got, Passed)
                        /\ InOrder(given, KeptLine', Passed)
                        /\ kind \in {"getch", "max", "length"} => KeptLine' = << >>
                        /\ ~missed => Run(srOp'.got, Passed) /\ Run(KeptLine', Passed)
    BY <1>2, <1>4 DEF Order
  <2>2. Orderly /\ (~TakesLine(kind) /\ kind # "clear" => KeptLine = << >>)
    BY <1>1, <1>2, <2>1 DEF Orderly
  <2>3. /\ ~disorder
        /\ \A g \in given : g <= Passed
        /\ InOrder(given, KeptLine, Passed)
        /\ ~missed => Run(KeptLine, Passed)
    BY <1>3, <2>2 DEF Order
  <2>4. kind \in {"getch", "max", "length"} => KeptLine' = << >>
    BY <1>5, <2>2 DEF TakesLine
  <2>5. QED
    BY <1>4, <1>5, <2>3, <2>4, NoneInOrder
<1>10. NoStops'
  <2>1. Orderly' => Orderly
    BY <1>1, <1>2 DEF Orderly
  <2>2. NoStop(KeptLine) /\ NoStop(lastLine) /\ (Orderly /\ ~missed => Follow(lastLine))
    BY <1>3 DEF NoStops
  <2>3. NoStop(srOp'.got) /\ NoStop(KeptLine')
    BY <1>4, <1>5, <2>2, NoChars
  <2>4. QED
    BY <1>2, <2>1, <2>2, <2>3 DEF NoStops
<1>11. Held' = Held
  BY <1>2, <1>3, <1>4, <1>5, NoChars DEF Held
<1>12. SrTypes' /\ Window' /\ AllHeld'
  BY <1>2, <1>11 DEF SrInv, SrTypes, Window, AllHeld
<1>13. QED
  BY <1>7, <1>8, <1>9, <1>10, <1>12 DEF SrInv, LineInv

(* The next character is in the buffer.                                    *)
LEMMA FromBufferKeeps ==
  ASSUME SrInv, FromBuffer
  PROVE  SrInv'
<1>1. /\ srOp # NoCall /\ ~Clearing /\ bufOfs < bufLen /\ bufOfs' = bufOfs + 1
      /\ SrWith(buf[bufOfs + 1], FALSE)
      /\ UNCHANGED <<readTo, buf, bufLen, zeros>>
  BY DEF FromBuffer
<1>2. /\ readTo \in Nat /\ bufLen \in 0 .. BufSize /\ bufOfs \in 0 .. BufSize /\ BufSize \in Nat
      /\ buf \in [1 .. BufSize -> 0 .. readTo] /\ SrTotal \in Nat
      /\ SrTypes /\ Window /\ AllHeld /\ LineInv
  BY SerialReadAssumption DEF SrInv, SrTypes
<1>3. bufOfs + 1 \in 1 .. bufLen /\ bufOfs + 1 \in 1 .. BufSize
  BY <1>1, <1>2
<1> DEFINE c == buf[bufOfs + 1]
<1>4. c \in 0 .. readTo /\ c = readTo - bufLen + (bufOfs + 1)
  BY <1>2, <1>3 DEF Window
<1>5. Passed' = Passed + 1 /\ c = Passed + 1 /\ Passed \in Int
  BY <1>1, <1>2, <1>4 DEF Passed
<1>6. MovesOn(c)
  <2>1. Passed \in Nat
    BY <1>2 DEF Passed, SrTypes
  <2>2. QED
    BY <1>1, <1>2, <1>4, <1>5, <2>1 DEF MovesOn
<1> HIDE DEF c
<1>7. LineKept /\ c \in Held'
  <2>1. SrWith(c, FALSE) /\ c \in Nat /\ FALSE \in BOOLEAN
    <3>1. SrWith(c, FALSE)
      BY <1>1 DEF c
    <3>2. c \in Nat
      BY <1>2, <1>4
    <3>3. QED
      BY <3>1, <3>2
  <2>2. QED
    BY <1>1, <1>2, <1>6, <2>1, WithKeeps
<1>8. SrTypes'
  BY <1>1, <1>2, <1>3 DEF SrTypes
<1>9. Window'
  <2>1. zeros = 0 => bufOfs' <= bufLen
    BY <1>1, <1>2
  <2>2. QED
    BY <1>1, <1>2, <2>1 DEF Window
<1>10. AllHeld'
  <2>1. SUFFICES ASSUME NEW d \in 1 .. readTo, d <= Passed'
                 PROVE  d \in Held'
    BY <1>1 DEF AllHeld
  <2>2. CASE d <= Passed
    BY <1>2, <1>7, <2>2 DEF AllHeld, LineKept
  <2>3. CASE d = c
    BY <1>7, <2>3
  <2>4. QED
    BY <1>5, <2>1, <2>2, <2>3
<1>11. QED
  BY <1>7, <1>8, <1>9, <1>10 DEF SrInv, LineKept

(* What is in the buffer from bufOfs on comes after what was passed.       *)
LEMMA RestIsInBuffer ==
  ASSUME SrTypes, Window, NEW d \in 1 .. readTo, ~(d <= Passed)
  PROVE  d \in CharsIn(SubSeq(buf, bufOfs + 1, bufLen)) /\ bufOfs < bufLen
<1>1. /\ readTo \in Nat /\ bufLen \in 0 .. BufSize /\ bufOfs \in 0 .. BufSize /\ BufSize \in Nat
      /\ buf \in [1 .. BufSize -> 0 .. readTo] /\ d \in Nat
  BY SerialReadAssumption DEF SrTypes
<1>2. \A i \in 1 .. bufLen : buf[i] = readTo - bufLen + i
  BY DEF Window
<1> DEFINE i == d - readTo + bufLen
<1>3. i \in bufOfs + 1 .. bufLen /\ bufOfs < bufLen /\ i \in 1 .. bufLen
  BY <1>1 DEF Passed
<1>4. buf[i] = d
  BY <1>1, <1>2, <1>3
<1>5. buf \in Seq(0 .. readTo) /\ Len(buf) = BufSize
  BY <1>1, SeqDef, LenProperties
<1>6. /\ SubSeq(buf, bufOfs + 1, bufLen) \in Seq(0 .. readTo)
      /\ Len(SubSeq(buf, bufOfs + 1, bufLen)) = bufLen - bufOfs
      /\ \A j \in 1 .. bufLen - bufOfs : SubSeq(buf, bufOfs + 1, bufLen)[j] = buf[bufOfs + j]
  BY <1>1, <1>3, <1>5
<1> HIDE DEF i
<1>7. i - bufOfs \in 1 .. bufLen - bufOfs /\ bufOfs + (i - bufOfs) = i
  BY <1>1, <1>3
<1>8. SubSeq(buf, bufOfs + 1, bufLen)[i - bufOfs] = d
  BY <1>4, <1>6, <1>7
<1>9. DOMAIN SubSeq(buf, bufOfs + 1, bufLen) = 1 .. bufLen - bufOfs
  BY <1>6
<1>10. QED
  BY <1>3, <1>7, <1>8, <1>9 DEF CharsIn

(* The buffer is filled again.                                             *)
LEMMA FromPortKeeps ==
  ASSUME SrInv, FromPort
  PROVE  SrInv'
<1>1. srOp # NoCall /\ (Clearing \/ bufOfs >= bufLen)
  BY DEF FromPort
<1>2. PICK n \in 0 .. BufSize :
        /\ readTo + n <= SrTotal
        /\ zeros' = zeros + (IF n = 0 THEN 1 ELSE 0)
        /\ readTo' = readTo + n /\ bufLen' = n
        /\ buf' = [i \in 1 .. BufSize |-> IF i <= n THEN readTo + i ELSE buf[i]]
        /\ IF Clearing
           THEN /\ srDropped' = srDropped \cup CharsIn(SubSeq(buf, bufOfs + 1, bufLen))
                /\ bufOfs' = 0
                /\ UNCHANGED <<srOp, kept, given, disorder, lastLine, overtaken, missed>>
           ELSE bufOfs' = AfterFirst /\ SrWith(IF n = 0 THEN buf[1] ELSE readTo + 1, TRUE)
  BY DEF FromPort
<1>3. /\ readTo \in Nat /\ bufLen \in 0 .. BufSize /\ bufOfs \in 0 .. BufSize
      /\ BufSize \in Nat /\ BufSize # 0 /\ zeros \in Nat /\ bufLen <= readTo
      /\ buf \in [1 .. BufSize -> 0 .. readTo] /\ SrTotal \in Nat
      /\ SrTypes /\ Window /\ AllHeld /\ LineInv
  BY SerialReadAssumption DEF SrInv, SrTypes
<1>4. /\ n \in Nat /\ readTo' \in 0 .. SrTotal /\ readTo' \in Nat /\ readTo <= readTo'
      /\ zeros' \in Nat /\ (zeros' = 0 => zeros = 0 /\ n > 0) /\ bufLen' <= readTo'
  BY <1>2, <1>3
<1>5. buf' \in [1 .. BufSize -> 0 .. readTo']
  <2>1. ASSUME NEW i \in 1 .. BufSize
        PROVE  (IF i <= n THEN readTo + i ELSE buf[i]) \in 0 .. readTo'
    <3>1. buf[i] \in 0 .. readTo
      BY <1>3
    <3>2. QED
      BY <1>2, <1>3, <1>4, <3>1
  <2>2. QED
    BY <1>2, <2>1
<1>6. \A i \in 1 .. bufLen' : buf'[i] = readTo' - bufLen' + i
  <2>1. ASSUME NEW i \in 1 .. n
        PROVE  buf'[i] = readTo' - n + i
    <3>1. i \in 1 .. BufSize /\ i <= n
      BY <1>3, <1>4
    <3>2. buf'[i] = readTo + i
      BY <1>2, <3>1
    <3>3. QED
      BY <1>2, <1>3, <1>4, <3>2
  <2>2. QED
    BY <1>2, <2>1
<1>7. CASE Clearing
  <2>1. /\ srDropped' = srDropped \cup CharsIn(SubSeq(buf, bufOfs + 1, bufLen)) /\ bufOfs' = 0
        /\ UNCHANGED <<srOp, kept, given, disorder, lastLine, overtaken, missed>>
        /\ KeptLine' = KeptLine
    BY <1>2, <1>7 DEF KeptLine
  <2>2. SrTypes' /\ Window'
    BY <1>2, <1>3, <1>4, <1>5, <1>6, <2>1 DEF SrTypes, Window
  <2>3. /\ LineTypes /\ OneLine /\ Order /\ NoStops
        /\ srOp.kind = "clear" /\ srOp.got = << >> /\ srOp'.got = << >>
    BY <1>3, <1>7, <2>1 DEF LineInv, OneLine, Clearing
  <2>4. LineTypes'
    <3>1. \A i \in 1 .. Len(KeptLine) : KeptLine[i] <= readTo'
      <4>1. ASSUME NEW i \in 1 .. Len(KeptLine)
            PROVE  KeptLine[i] <= readTo'
        <5>1. KeptLine[i] \in Nat /\ KeptLine[i] <= readTo
          BY <2>3 DEF LineTypes
        <5>2. QED
          BY <1>3, <1>4, <5>1
      <4>2. QED
        BY <4>1
    <3>2. given \subseteq 0 .. readTo'
      BY <1>3, <1>4, <2>3 DEF LineTypes
    <3>3. \A i \in 1 .. Len(srOp'.got) : srOp'.got[i] <= readTo'
      BY <2>3, NoChars
    <3>4. QED
      BY <2>1, <2>3, <3>1, <3>2, <3>3 DEF LineTypes
  <2>5. OneLine'
    BY <2>1, <2>3 DEF OneLine
  <2>6. Passed' = readTo /\ Passed \in Int /\ (zeros = 0 => Passed <= readTo)
    BY <1>2, <1>3, <1>4, <2>1 DEF Passed, Window
  <2>7. Order'
    <3>1. SUFFICES ASSUME Orderly'
                   PROVE  ~disorder /\ \A g \in given : g <= Passed'
      BY <2>1, <2>3, NoneInOrder DEF Order
    <3>2. Orderly /\ zeros = 0
      BY <1>4, <2>1, <3>1 DEF Orderly
    <3>3. ~disorder /\ (\A g \in given : g <= Passed) /\ given \subseteq Nat
      BY <2>3, <3>2 DEF Order, LineTypes
    <3>4. QED
      BY <1>3, <2>6, <3>2, <3>3
  <2>8. NoStops'
    <3>1. Orderly' => Orderly
      BY <1>4, <2>1 DEF Orderly
    <3>2. QED
      BY <2>1, <2>3, <3>1 DEF NoStops
  <2>9. AllHeld'
    <3>1. SUFFICES ASSUME NEW d \in 1 .. readTo', d <= Passed'
                   PROVE  d \in Held'
      BY DEF AllHeld
    <3>2. d \in 1 .. readTo
      BY <1>3, <1>4, <2>6, <3>1
    <3>3. CASE d <= Passed
      BY <1>3, <2>1, <3>2, <3>3 DEF AllHeld, Held
    <3>4. CASE ~(d <= Passed)
      BY <1>3, <2>1, <3>2, <3>4, RestIsInBuffer DEF Held
    <3>5. QED
      BY <3>3, <3>4
  <2>10. QED
    BY <2>2, <2>4, <2>5, <2>7, <2>8, <2>9 DEF SrInv, LineInv
<1>8. CASE ~Clearing
  <2> DEFINE c == IF n = 0 THEN buf[1] ELSE readTo + 1
  <2>1. bufOfs >= bufLen /\ bufOfs' = 1 /\ SrWith(c, TRUE)
    BY <1>1, <1>2, <1>8 DEF AfterFirst
  <2>2. buf[1] \in 0 .. readTo
    BY <1>3
  <2>3. c \in Nat /\ c <= readTo'
    BY <1>2, <1>3, <1>4, <2>2
  <2>4. Passed \in Nat /\ Passed >= readTo /\ Passed' = readTo + 1
    BY <1>2, <1>3, <1>4, <2>1 DEF Passed
  <2>5. zeros' = 0 => Passed = readTo /\ c = readTo + 1
    BY <1>3, <1>4, <2>1 DEF Passed, Window
  <2>6. n # 0 => c = readTo + 1
    OBVIOUS
  <2> HIDE DEF c
  <2>7. MovesOn(c)
    BY <1>3, <1>4, <2>3, <2>4, <2>5 DEF MovesOn
  <2>8. LineKept /\ c \in Held'
    <3>1. TRUE \in BOOLEAN
      OBVIOUS
    <3>2. QED
      BY <1>1, <1>3, <1>8, <2>1, <2>3, <2>7, <3>1, WithKeeps
  <2>9. SrTypes' /\ Window'
    BY <1>2, <1>3, <1>4, <1>5, <1>6, <2>1 DEF SrTypes, Window
  <2>10. AllHeld'
    <3>1. SUFFICES ASSUME NEW d \in 1 .. readTo', d <= Passed'
                   PROVE  d \in Held'
      BY DEF AllHeld
    <3>2. CASE d <= readTo
      <4>1. d \in 1 .. readTo /\ d <= Passed
        BY <1>3, <2>4, <3>2
      <4>2. QED
        BY <1>3, <2>8, <4>1 DEF AllHeld, LineKept
    <3>3. CASE d > readTo
      <4>1. d = readTo + 1 /\ n # 0
        BY <1>2, <1>3, <1>4, <2>4, <3>1, <3>3
      <4>2. QED
        BY <2>6, <2>8, <4>1
    <3>4. QED
      BY <1>3, <3>2, <3>3
  <2>11. QED
    BY <2>8, <2>9, <2>10 DEF SrInv, LineKept
<1>9. QED
  BY <1>7, <1>8

(* The time is over, or the port is cleared.                               *)
LEMMA TimeoutKeeps ==
  ASSUME SrInv, Timeout
  PROVE  SrInv'
<1>1. /\ srOp # NoCall /\ (Clearing \/ bufOfs >= bufLen)
      /\ UNCHANGED <<readTo, buf, zeros>>
  BY DEF Timeout
<1>2. /\ readTo \in Nat /\ bufLen \in 0 .. BufSize /\ bufOfs \in 0 .. BufSize /\ BufSize \in Nat
      /\ bufLen <= readTo /\ readTo <= readTo' /\ readTo' \in Nat
      /\ SrTypes /\ Window /\ AllHeld /\ LineInv
      /\ Passed \in Nat
  BY <1>1, SerialReadAssumption DEF SrInv, SrTypes, Passed
<1>3. /\ LineTypes /\ OneLine /\ Order /\ NoStops
      /\ srOp.got \in Seq(Nat) /\ srOp.kind \in Kinds
  BY <1>1, <1>2 DEF LineInv, LineTypes
(* The buffer stays, but for a call that clears it.                        *)
<1>4. ASSUME UNCHANGED <<bufLen, bufOfs>>
      PROVE  /\ SrTypes' /\ Window' /\ Passed' = Passed
             /\ LineKept => AllHeld'
  BY <1>1, <1>2, <1>4 DEF SrTypes, Window, Passed, AllHeld, LineKept
<1>5. CASE srOp.kind \in {"getch", "max", "read"}
  <2>1. /\ Gives(srOp.got) /\ srOp' = NoCall
        /\ UNCHANGED <<kept, srDropped, lastLine, overtaken, missed, bufLen, bufOfs>>
    BY <1>5 DEF Timeout, Returns, Clearing
  <2>2. Orderly' => /\ Orderly /\ KeptLine = << >> /\ Passed \in Nat /\ Passed' \in Nat
                    /\ Passed <= Passed' /\ InOrder(given, srOp.got, Passed')
    <3>1. Orderly' => Orderly
      BY <1>1, <2>1 DEF Orderly
    <3>2. Orderly => InOrder(given, srOp.got, Passed) /\ KeptLine = << >>
      BY <1>3, <1>5 DEF Order, OneLine, TakesLine, KeptLine
    <3>3. QED
      BY <1>2, <1>4, <2>1, <3>1, <3>2
  <2>3. /\ lastLine' \in Seq(Nat) /\ NoStop(lastLine')
        /\ Orderly' /\ ~missed' => Follow(lastLine')
        /\ \A i \in 1 .. Len(srOp.got) : srOp.got[i] <= readTo'
    BY <1>1, <1>3, <2>1, <2>2 DEF LineTypes, NoStops
  <2>4. LineKept
    BY <1>2, <1>3, <2>1, <2>2, <2>3, ReturnsInOrder
  <2>5. QED
    BY <1>4, <2>1, <2>4 DEF SrInv, LineKept
<1>6. CASE srOp.kind = "length"
  <2>1. /\ srDropped' = srDropped \cup CharsIn(srOp.got) /\ srOp' = NoCall
        /\ UNCHANGED <<given, disorder, kept, lastLine, overtaken, missed, bufLen, bufOfs>>
        /\ KeptLine' = KeptLine
    BY <1>6 DEF Timeout, KeptLine, Clearing
  <2>2. Orderly' => Orderly
    BY <1>1, <2>1 DEF Orderly
  <2>3. /\ KeptLine' \in Seq(Nat) /\ (kept' = << >> \/ kept' = <<KeptLine'>>)
        /\ lastLine' \in Seq(Nat) /\ given' \subseteq 0 .. readTo'
        /\ \A i \in 1 .. Len(KeptLine') : KeptLine'[i] <= readTo'
        /\ NoStop(KeptLine') /\ NoStop(lastLine')
        /\ Orderly' /\ ~missed' => Follow(lastLine')
    BY <1>1, <1>3, <2>1, <2>2 DEF LineTypes, NoStops
  <2>4. Orderly' => /\ ~disorder' /\ \A g \in given' : g <= Passed'
                    /\ KeptLine' = << >>
    BY <1>3, <1>4, <1>6, <2>1, <2>2 DEF Order
  <2>5. LineInv'
    BY <2>1, <2>3, <2>4, NoCallNow, NoneInOrder
  <2>6. LineKept
    BY <2>1, <2>5 DEF LineKept, Held
  <2>7. QED
    BY <1>4, <2>1, <2>5, <2>6 DEF SrInv
<1>7. CASE srOp.kind = "line"
  <2>1. /\ kept' = <<srOp.got>> /\ srOp' = NoCall
        /\ UNCHANGED <<given, disorder, srDropped, lastLine, overtaken, missed, bufLen, bufOfs>>
    BY <1>7 DEF Timeout, LineAfterTimeout, Clearing
  <2>2. /\ TakesLine(srOp.kind) /\ Passed' = Passed
        /\ Orderly' => Orderly
    BY <1>1, <1>4, <1>7, <2>1 DEF TakesLine, Orderly
  <2>3. LineKept
    BY <1>2, <1>7, <2>1, <2>2, KeepsOrDrops
  <2>4. QED
    BY <1>4, <2>1, <2>3 DEF SrInv, LineKept
<1>8. CASE srOp.kind = "clear"
  <2>1. /\ srDropped' = srDropped \cup CharsIn(SubSeq(buf, bufOfs + 1, bufLen)) \cup CharsIn(KeptLine)
        /\ bufLen' = 0 /\ bufOfs' = 0 /\ kept' = << >> /\ srOp' = NoCall
        /\ UNCHANGED <<given, disorder, lastLine, overtaken, missed>>
    BY <1>8 DEF Timeout, Clearing
  <2>2. srOp.got = << >> /\ CharsIn(srOp.got) = {}
    BY <1>3, <1>8, NoChars DEF OneLine
  <2>3. SrTypes' /\ Window'
    BY <1>1, <1>2, <2>1 DEF SrTypes, Window
  <2>4. Passed' = readTo /\ (zeros = 0 => Passed <= readTo)
    BY <1>1, <1>2, <2>1 DEF Passed, Window
  <2>5. Orderly' => Orderly /\ Passed \in Nat /\ Passed' \in Nat /\ Passed <= Passed'
    BY <1>1, <1>2, <2>1, <2>4 DEF Orderly
  <2>6. LineKept
    BY <1>2, <2>1, <2>2, <2>5, KeepsOrDrops
  <2>7. AllHeld'
    <3>1. SUFFICES ASSUME NEW d \in 1 .. readTo
                   PROVE  d \in Held'
      BY <1>1 DEF AllHeld
    <3>2. CASE d <= Passed
      BY <1>2, <2>6, <3>2 DEF AllHeld, LineKept
    <3>3. CASE ~(d <= Passed)
      BY <1>2, <2>1, <3>3, RestIsInBuffer DEF Held
    <3>4. QED
      BY <3>2, <3>3
  <2>8. QED
    BY <2>3, <2>6, <2>7 DEF SrInv, LineKept
<1>9. QED
  BY <1>3, <1>5, <1>6, <1>7, <1>8 DEF Kinds

(* What a serial port receives is given once and in order, no character is *)
(* lost, and a line is whole, for every number of characters, size of the  *)
(* buffer and length that is asked for.                                    *)
THEOREM SerialLinesCome == SrSpec => []LinesKept
<1>1. SrInv /\ [SrNext]_srVars => SrInv'
  <2> SUFFICES ASSUME SrInv, [SrNext]_srVars
               PROVE  SrInv'
    OBVIOUS
  <2>1. CASE SrNext
    BY <2>1, CallSerialKeeps, FromBufferKeeps, FromPortKeeps, TimeoutKeeps DEF SrNext
  <2>2. CASE UNCHANGED srVars
    <3>1. /\ UNCHANGED <<readTo, buf, bufLen, bufOfs, kept, srOp, given, disorder, srDropped,
                         lastLine, zeros, overtaken, missed>>
          /\ KeptLine' = KeptLine /\ Passed' = Passed
      BY <2>2 DEF srVars, KeptLine, Passed
    <3>2. SrTypes' /\ Window' /\ AllHeld'
      BY <3>1 DEF SrInv, SrTypes, Window, AllHeld, Held
    <3>3. LineTypes' /\ OneLine' /\ Order' /\ NoStops'
      BY <3>1 DEF SrInv, LineInv, LineTypes, OneLine, Order, NoStops, Orderly
    <3>4. QED
      BY <3>2, <3>3 DEF SrInv, LineInv
  <2>3. QED
    BY <2>1, <2>2
<1>2. SrInv => LinesKept
  <2> SUFFICES ASSUME SrInv
               PROVE  LinesKept
    OBVIOUS
  <2>1. /\ SrTypes /\ Window /\ AllHeld /\ LineTypes /\ Order /\ NoStops
        /\ lastLine \in Seq(Nat)
    BY DEF SrInv, LineInv, LineTypes
  <2>2. SrTypeOK
    <3>1. Len(kept) <= 1
      <4>1. kept = << >> \/ kept = <<KeptLine>>
        BY <2>1 DEF LineTypes
      <4>2. Len(<< >>) = 0 /\ Len(<<KeptLine>>) = 1
        OBVIOUS
      <4>3. Len(kept) = 0 \/ Len(kept) = 1
        BY <4>1, <4>2, Zenon
      <4>4. QED
        <5>1. 0 <= 1 /\ 1 <= 1
          OBVIOUS
        <5>2. QED
          BY <4>3, <5>1, Zenon
    <3>2. QED
      BY <2>1, <3>1 DEF SrTypeOK, SrTypes, LineTypes
  <2>3. NothingLost
    BY <2>1, RestIsInBuffer DEF NothingLost, AllHeld, Held
  <2>4. GivenInOrder
    BY <2>1 DEF GivenInOrder, Order, Orderly
  <2>5. CharsIn(lastLine) \cap SrLineEnds = {}
    <3>1. DOMAIN lastLine = 1 .. Len(lastLine)
      BY <2>1
    <3>2. QED
      BY <2>1, <3>1 DEF CharsIn, NoStops, NoStop
  <2>6. LinesWhole
    BY <2>1, <2>5 DEF LinesWhole, NoStops, Orderly, Follow
  <2>7. QED
    BY <2>2, <2>3, <2>4, <2>6 DEF LinesKept
<1>3. QED
  BY <1>1, <1>2, InitSrInv, PTL DEF SrSpec
=============================================================================
