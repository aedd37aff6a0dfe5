------------------------------- MODULE Codes --------------------------------
(***************************************************************************)
(* Texts that are coded for the network: base64 (stl_mailUtil.c), URLs     *)
(* (stl_url.c), the parameters in the body of a page (stl_httpReply.cpp),  *)
(* and names of hosts (stl_tcpdns.c).  A text grows by a letter at a time; *)
(* what a letter is depends on the kind of the text: a byte, a character,  *)
(* a field of an address, or a parameter <<name, value>>.  Behind them:    *)
(* checksums, digests and the cipher, and the LZW compression.             *)
(***************************************************************************)
EXTENDS StrBase, Integers, Sequences
LOCAL INSTANCE SequencesExt
LOCAL INSTANCE Bitwise

CONSTANTS
  LettersOf,             (* kind -> letters                                *)
  LengthOf               (* BOUND: kind -> length                          *)
Kinds == {"bytes", "url", "address", "body"}
ASSUME CodesAssumption ==
  /\ DOMAIN LettersOf = Kinds /\ LengthOf \in [Kinds -> Nat]
  /\ LettersOf["bytes"] \subseteq 0 .. 255 /\ LettersOf["url"] \subseteq 1 .. 255

VARIABLES kind, letters
codeVars == <<kind, letters>>

-----------------------------------------------------------------------------
(* Base64.  A character is its value; PAD is '=', FOREIGN any other.       *)
PAD == 64
FOREIGN == 127

Group(g) ==
  LET b == g \o <<0, 0>>
      symbols == <<b[1] \div 4, (b[1] % 4) * 16 + (b[2] \div 16),
                   (b[2] % 16) * 4 + b[3] \div 64, b[3] % 64>>
  IN [i \in 1 .. 4 |-> IF i <= Len(g) + 1 THEN symbols[i] ELSE PAD]
Encode(s) ==
  FlattenSeq([k \in 1 .. (Len(s) + 2) \div 3 |->
    Group(SubSeq(s, 3 * k - 2, IF 3 * k < Len(s) THEN 3 * k ELSE Len(s)))])

(* The next character of the table, or the end of the text.                *)
NextKnown_Any(t, i) == i                                         \* mutant
NextKnown(t, i) ==
  CHOOSE j \in i .. Len(t) + 1 :
    (j > Len(t) \/ t[j] # FOREIGN) /\ \A k \in i .. j - 1 : t[k] = FOREIGN

(* What is decoded, and its length or an error.  An '=' before a group is  *)
(* passed over, and the character after it taken for what it is.           *)
RECURSIVE DecodeFrom(_, _, _)
DecodeFrom(t, at, out) ==
  LET f == NextKnown(t, at)
      i == IF f <= Len(t) /\ t[f] = PAD THEN f + 1 ELSE f
      j == NextKnown(t, i + 1)
      k == NextKnown(t, j + 1)
      l == NextKnown(t, k + 1)
      one == Append(out, (t[i] * 4 + t[j] \div 16) % 256)
      two == Append(one, (t[j] * 16 + t[k] \div 4) % 256)
      Result(o, r) == [data |-> o, res |-> r]
  IN IF i > Len(t) THEN Result(out, Len(out))
     ELSE IF j > Len(t) \/ t[j] = PAD THEN Result(out, -3)
     ELSE IF k > Len(t) THEN Result(out, -4)
     ELSE IF t[k] = PAD THEN Result(one, Len(one))
     ELSE IF l > Len(t) THEN Result(out, -5)
     ELSE IF t[l] = PAD THEN Result(two, Len(two))
     ELSE DecodeFrom(t, l + 1, Append(two, (t[k] * 64 + t[l]) % 256))
Decode(t) == DecodeFrom(t, 1, << >>)

-----------------------------------------------------------------------------
(* URLs, of character codes.                                               *)
Unreserved(c) ==
  c \in (97 .. 122) \cup (65 .. 90) \cup (48 .. 57) \cup {45, 95, 46, 126}
HexDigit(n) == IF n < 10 THEN 48 + n ELSE 55 + n
Kept_Plus(c) == Unreserved(c) \/ c = 43                      \* mutant
Kept(c) == Unreserved(c)
UrlEncode(s) ==
  FlattenSeq([i \in DOMAIN s |->
    IF Kept(s[i]) THEN <<s[i]>> ELSE IF s[i] = 32 THEN <<43>>
    ELSE <<37, HexDigit(s[i] \div 16), HexDigit(s[i] % 16)>>])

(* Of digits only: the code does not ask what the two characters are.      *)
HexValue_Digits(c) == c % 16                                 \* mutant
HexValue(c) == (c % 16) + (IF c > 57 THEN 9 ELSE 0)
RECURSIVE UrlDecode(_)
UrlDecode(s) ==
  IF s = << >> THEN << >>
  ELSE IF s[1] = 37 /\ Len(s) > 2
       THEN <<HexValue(s[2]) * 16 + HexValue(s[3])>> \o UrlDecode(SubSeq(s, 4, Len(s)))
       ELSE <<IF s[1] = 43 THEN 32 ELSE s[1]>> \o UrlDecode(Tail(s))

(* stlGetDlm, and bodySplit: of the first line, what follows its first     *)
(* '?'; a value ends at the next '='.                                      *)
GetDlm(s, n, c) == LET o == GetOfs(s, c, n, 0, Len(s)) IN SubSeq(s, o[1] + 1, o[2])
CountOf(s, c) == Len(SelectSeq(s, LAMBDA x : x = c))
BodyLine(body) ==
  LET line == SelectSeq(GetDlm(body, 1, 13), LAMBDA c : c # 10)
  IN IF CountOf(line, 63) > 0 THEN SubSeq(line, Len(GetDlm(line, 1, 63)) + 2, Len(line)) ELSE line
BodySplit(body) ==
  LET line == BodyLine(body)
      Part(i, k) == UrlDecode(GetDlm(GetDlm(line, i, 38), k, 61))
  IN [i \in 1 .. CountOf(line, 38) + 1 |-> <<Part(i, 1), Part(i, 2)>>]

Lower(s) == [i \in DOMAIN s |-> IF s[i] \in 65 .. 90 THEN s[i] + 32 ELSE s[i]]
(* getBodyParami: the first of its name, in any case; NULL without.        *)
GetBodyParam(body, name) ==
  LET named == SelectSeq(BodySplit(body), LAMBDA p : Lower(p[1]) = Lower(name))
  IN IF named = << >> THEN <<"NULL">> ELSE named[1][2]

-----------------------------------------------------------------------------
(* stlTcpTestValidIp of an address, a sequence of fields, each a sequence  *)
(* of characters: the fourth is not looked at.                             *)
IsDigit(c) == c \in 48 .. 57
Digits(f) == CHOOSE n \in 0 .. Len(f) :
  (\A i \in 1 .. n : IsDigit(f[i])) /\ (n = Len(f) \/ ~IsDigit(f[n + 1]))
Atoi(f) == FoldLeft(LAMBDA a, c : 10 * a + c - 48, 0, SubSeq(f, 1, Digits(f)))
FieldValid_AnyLength(f) == Len(f) \in 1 .. 3 /\ Atoi(f) <= 255  \* mutant
FieldValid(f) ==
  /\ Len(f) <= 3 /\ Atoi(f) <= 255
  /\ Len(f) = (IF Atoi(f) < 10 THEN 1 ELSE IF Atoi(f) < 100 THEN 2 ELSE 3)
  /\ \A i \in DOMAIN f : IsDigit(f[i])
TestValidIp(a) == Len(a) = 4 /\ \A i \in 1 .. 3 : FieldValid(a[i])

(* stlTcpDnsResolve: an address stands for itself; else the first address  *)
(* the resolver found, if any; stlTcpDnsConnectTout without one gives -5.  *)
DnsResolve(a, found) == IF TestValidIp(a) THEN <<a>> ELSE found
DnsConnect(a, found) == IF DnsResolve(a, found) = << >> THEN -5 ELSE 0

-----------------------------------------------------------------------------
CodesInit == kind \in Kinds /\ letters = << >>
Longer ==
  /\ Len(letters) < LengthOf[kind]
  /\ \E c \in LettersOf[kind] : letters' = Append(letters, c)
  /\ UNCHANGED kind
CodesNext == Longer

-----------------------------------------------------------------------------
(* Bytes survive base64, also when other characters, like line ends, are   *)
(* anywhere in the text; of a text that is cut within a group, the groups  *)
(* before it are decoded and an error tells where (stl_mailUtil.c:197).    *)
Inserted(t, i, c) == SubSeq(t, 1, i) \o <<c>> \o SubSeq(t, i + 1, Len(t))
BytesSurvive ==
  kind = "bytes" =>
    LET t == Encode(letters)
        whole == [data |-> letters, res |-> Len(letters)]
    IN /\ Decode(t) = whole
       /\ \A i \in 0 .. Len(t) : Decode(Inserted(t, i, FOREIGN)) = whole
       /\ \A n \in 0 .. Len(t) :
            LET d == Decode(SubSeq(t, 1, n))
            IN n % 4 # 0 =>
                 IF n % 4 = 3 /\ t[n] = PAD THEN d = whole
                 ELSE d = [data |-> SubSeq(letters, 1, 3 * (n \div 4)), res |-> -2 - (n % 4)]

(* Any text survives a URL, and is there without what ends or divides the  *)
(* parameters of one (stl_url.c:42, 62).                                   *)
UrlSurvives ==
  kind = "url" =>
    /\ UrlDecode(UrlEncode(letters)) = letters
    /\ \A c \in {13, 10, 32, 38, 61, 63} : CountOf(UrlEncode(letters), c) = 0

(* Parameters sent in a body, after a path or not, are read back by name:  *)
(* the first of a name, whatever is in it (stl_httpReply.cpp:154).         *)
JoinWith(parts, c) ==
  FoldLeft(LAMBDA a, p : IF a = << >> THEN p ELSE a \o <<c>> \o p, << >>, parts)
ParametersRead ==
  kind = "body" /\ letters # << >> =>
    LET pairs == [i \in DOMAIN letters |-> UrlEncode(letters[i][1]) \o <<61>> \o UrlEncode(letters[i][2])]
        line == JoinWith(pairs, 38)
    IN \A body \in {line, <<47, 97, 63>> \o line \o <<13, 10, 98, 61, 49>>} :
         \A i \in DOMAIN letters :
           (\A j \in 1 .. i - 1 : Lower(letters[j][1]) # Lower(letters[i][1]))
             => GetBodyParam(body, letters[i][1]) = letters[i][2]

(* A name is an address when it is four numbers of a byte, as they are     *)
(* written; the last may be anything (stl_tcpdns.c:68): such a name is not *)
(* looked up, every other one is.                                          *)
Numerals == {<<48 + n>> : n \in 0 .. 9} \cup {<<48 + n \div 10, 48 + (n % 10)>> : n \in 10 .. 99}
  \cup {<<48 + n \div 100, 48 + ((n \div 10) % 10), 48 + (n % 10)>> : n \in 100 .. 255}
AddressesKnown ==
  kind = "address" =>
    LET numbers == Len(letters) = 4 /\ \A i \in 1 .. 3 : letters[i] \in Numerals
    IN /\ DnsResolve(letters, << >>) = (IF numbers THEN <<letters>> ELSE << >>)
       /\ DnsConnect(letters, << >>) = (IF numbers THEN 0 ELSE -5)

(* Codes give back what was coded, and are told from what is no code.      *)
CodesKept == BytesSurvive /\ UrlSurvives /\ ParametersRead /\ AddressesKnown

-----------------------------------------------------------------------------
(***************************************************************************)
(* Checksums, digests and the stream cipher of libStl: stl_crc32.c,        *)
(* stl_md5.c (how a message is cut and filled up to blocks; what a block   *)
(* does to the state is left out), stl_crypt.c, and the random bytes of    *)
(* its keys (stl_random.c).  Widths are constants: an octet has OCTET      *)
(* bits, a checksum CRC bits, an unsigned long LONG bits; the code has 8,  *)
(* 32 and, built for Linux, 64.                                            *)
(***************************************************************************)

CONSTANTS
  OCTET, CRC, Longs,     (* widths; those of an unsigned long              *)
  POLY, POLYMPG,         (* the polynomials of the two tables              *)
  BLOCK, WORD,           (* bytes of a block; numbers of a word of count   *)
  RawKeys, KeyLens,      (* what the generator yields, the keys' lengths   *)
  Octets, MaxOctets        (* BOUND: bytes of a message                      *)
ASSUME CiphersAssumption ==
  /\ {OCTET, CRC, BLOCK, WORD} \subseteq Nat \ {0} /\ CRC % OCTET = 0 /\ CRC > OCTET
  /\ \A l \in Longs : l >= CRC
  /\ Octets \subseteq 0 .. 2 ^ OCTET - 1 /\ DOMAIN KeyLens = DOMAIN RawKeys

VARIABLES
  message,
  running,               (* stlCrc32MemU of the pieces so far, by width    *)
  sender, receiver,      (* iOfs of the cipher at both ends                *)
  wire, plain            (* what was enciphered, what was deciphered       *)
ciVars == <<message, running, sender, receiver, wire, plain>>

-----------------------------------------------------------------------------
(* Tables of checksums: the octet's bits from the lowest on, or, for MPEG, *)
(* from the highest on.                                                    *)
Table ==
  LET Bit[k \in 0 .. OCTET, x \in 0 .. 2 ^ CRC - 1] ==
        IF k = 0 THEN x ELSE Bit[k - 1, IF x % 2 = 1 THEN (x \div 2) ^^ POLY ELSE x \div 2]
  IN [i \in 0 .. 2 ^ OCTET - 1 |-> Bit[OCTET, i]]
TableMPG ==
  LET top == 2 ^ (CRC - 1)
      Bit[k \in 0 .. OCTET, x \in 0 .. 2 ^ CRC - 1] ==
        IF k = 0 THEN x ELSE Bit[k - 1, IF x >= top THEN ((x - top) * 2) ^^ POLYMPG ELSE x * 2]
  IN [i \in 0 .. 2 ^ OCTET - 1 |-> Bit[OCTET, i * 2 ^ (CRC - OCTET)]]

Inverted(x, w) == 2 ^ w - 1 - x
LowCrc(x) == x % (2 ^ CRC)

Upd_Signed(octet, crc) == Table[(crc + octet) % (2 ^ OCTET)] ^^ (crc \div 2 ^ OCTET)  \* mutant
Upd(octet, crc) == Table[(crc ^^ octet) % (2 ^ OCTET)] ^^ (crc \div 2 ^ OCTET)
Updates(s, crc) == FoldLeft(LAMBDA c, b : Upd(b, c), crc, s)

(* An unsigned long may be wider than the checksum: what is turned around  *)
(* with ~ has all bits above it set.                                       *)
CrcMem(s, w) == Inverted(Updates(s, 2 ^ CRC - 1), w)
CrcMemU(s, old, w) == Inverted(Updates(s, Inverted(old, w)), w)
CrcMPG(s, w) ==
  FoldLeft(LAMBDA c, b :
    ((c * 2 ^ OCTET) % (2 ^ w)) ^^ TableMPG[((c \div 2 ^ (CRC - OCTET)) ^^ b) % (2 ^ OCTET)],
    2 ^ CRC - 1, s)

-----------------------------------------------------------------------------
(* MD5: the blocks that were transformed, the bits in two words, the       *)
(* buffer up to its index.                                                 *)
MD5Init == [count |-> <<0, 0>>, buffer |-> << >>, blocks |-> << >>]
Index(c) == (c.count[1] \div 8) % BLOCK
Pieces(s) == [k \in 1 .. Len(s) \div BLOCK |-> SubSeq(s, BLOCK * (k - 1) + 1, BLOCK * k)]
Counted8(c, n) ==
  LET low == (c.count[1] + 8 * n) % WORD
      carry == IF low < (8 * n) % WORD THEN 1 ELSE 0
  IN <<low, c.count[2] + carry + (8 * n) \div WORD>>
MD5Update(c, input) ==
  LET held == SubSeq(c.buffer, 1, Index(c)) \o input
      done == BLOCK * (Len(held) \div BLOCK)
  IN [count |-> Counted8(c, Len(input)), blocks |-> c.blocks \o Pieces(held),
      buffer |-> SubSeq(held, done + 1, Len(held))]

PadLen_Short(index) == IF index <= BLOCK - 2 THEN BLOCK - 2 - index ELSE 2 * BLOCK - 2 - index  \* mutant
PadLen(index) == IF index < BLOCK - 2 THEN BLOCK - 2 - index ELSE 2 * BLOCK - 2 - index
Padding(n) == [i \in 1 .. n |-> IF i = 1 THEN -1 ELSE 0]
MD5Final(c) == MD5Update(MD5Update(c, Padding(PadLen(Index(c)))), c.count)
Md5Mem(s) == MD5Final(MD5Update(MD5Init, s))

-----------------------------------------------------------------------------
(* stlRandom: of the bytes the generator yields, those of the mode; and    *)
(* stlCryptData.                                                           *)
NoZero(b) == b # 0
Random(raw, n) == SubSeq(SelectSeq(raw, NoZero), 1, n)
Keys == [i \in DOMAIN RawKeys |-> Random(RawKeys[i], KeyLens[i])]

NextOfs_Late(o, n) == IF o + 1 > n THEN 0 ELSE o + 1         \* mutant
NextOfs(o, n) == IF o + 1 >= n THEN 0 ELSE o + 1
KeyByte(i, o) == IF o < Len(Keys[i]) THEN Keys[i][o + 1] ELSE 0
CryptByte(ofs, b) == FoldLeft(LAMBDA c, i : c ^^ KeyByte(i, ofs[i]), b, [i \in DOMAIN Keys |-> i])
AfterByte(ofs) == [i \in DOMAIN ofs |-> NextOfs(ofs[i], Len(Keys[i]))]
CryptData(ofs, s) ==
  FoldLeft(LAMBDA r, b : [ofs |-> AfterByte(r.ofs), out |-> Append(r.out, CryptByte(r.ofs, b))],
           [ofs |-> ofs, out |-> << >>], s)
NewCrypt == [i \in DOMAIN Keys |-> 0]

-----------------------------------------------------------------------------
CipherInit ==
  /\ message = << >> /\ wire = << >> /\ plain = << >>
  /\ running = [w \in Longs |-> 0]
  /\ sender = NewCrypt /\ receiver = NewCrypt

(* A piece of the message is added to the checksum and sent, or received:  *)
(* in other pieces than it was sent.                                       *)
Send(s) ==
  LET c == CryptData(sender, s)
  IN /\ message' = message \o s /\ wire' = wire \o c.out /\ sender' = c.ofs
     /\ running' = [w \in Longs |-> CrcMemU(s, running[w], w)]
     /\ UNCHANGED <<receiver, plain>>
Receive(n) ==
  LET c == CryptData(receiver, SubSeq(wire, Len(plain) + 1, Len(plain) + n))
  IN /\ plain' = plain \o c.out /\ receiver' = c.ofs
     /\ UNCHANGED <<message, running, sender, wire>>
CipherNext ==
  \/ \E n \in 1 .. 2 : Len(message) + n <= MaxOctets /\ \E s \in [1 .. n -> Octets] : Send(s)
  \/ \E n \in {1, 3} : Len(plain) + n <= Len(wire) /\ Receive(n)

-----------------------------------------------------------------------------
(* What a checksum is: the rest of the message's bits, divided.            *)
Bits(s) == FlattenSeq([i \in DOMAIN s |-> [k \in 1 .. OCTET |-> (s[i] \div 2 ^ (k - 1)) % 2]])
Remainder(s) ==
  FoldLeft(LAMBDA c, b : LET x == c \div 2 IN IF (c + b) % 2 = 1 THEN x ^^ POLY ELSE x,
           2 ^ CRC - 1, Bits(s))
BitsMPG(s) == FlattenSeq([i \in DOMAIN s |-> [k \in 1 .. OCTET |-> (s[i] \div 2 ^ (OCTET - k)) % 2]])
RemainderMPG(s) ==
  FoldLeft(LAMBDA c, b :
             LET x == LowCrc(c * 2)
             IN IF (c \div 2 ^ (CRC - 1) + b) % 2 = 1 THEN x ^^ POLYMPG ELSE x,
           2 ^ CRC - 1, BitsMPG(s))

(* The checksum of pieces is that of the whole, and the bits of a checksum *)
(* are the rest; but stlCrc32MemU of a long that is wider than it starts   *)
(* with other bits: it gives another checksum than stlCrc32Mem for every   *)
(* message but the empty one (stl_crc32.c:162).                            *)
ChecksumsAgree ==
  \A w \in Longs :
    /\ running[w] = CrcMemU(message, 0, w)
    /\ LowCrc(CrcMem(message, w)) = Inverted(Remainder(message), CRC)
    /\ LowCrc(CrcMPG(message, w)) = RemainderMPG(message)
    /\ (LowCrc(running[w]) = LowCrc(CrcMem(message, w))) <=> (w = CRC \/ message = << >>)

(* The blocks of a digest are the message, a mark, as few zeros as fill    *)
(* the last block, and the message's length in bits (stl_md5.c:170).       *)
DigestOfWhole ==
  LET digest == Md5Mem(message)
      n == 8 * Len(message)
      Filled(k) == (message \o Padding(k)) \o <<n % WORD, n \div WORD>>
      k == CHOOSE i \in 1 .. BLOCK : (Len(message) + i + 2) % BLOCK = 0
  IN digest.blocks = Pieces(Filled(k)) /\ digest.buffer = << >>

(* Both ends stay at the same place of every key, whatever the pieces; so  *)
(* what is deciphered is what was sent (stl_crypt.c:129).                  *)
CipherInStep ==
  /\ plain = SubSeq(message, 1, Len(plain))
  /\ \A i \in DOMAIN Keys :
       sender[i] = Len(message) % Len(Keys[i]) /\ receiver[i] = Len(plain) % Len(Keys[i])

(* Checksums, digests and the cipher do not depend on how a message is     *)
(* cut, and are what they should be.                                       *)
CiphersKept == ChecksumsAgree /\ DigestOfWhole /\ CipherInStep

-----------------------------------------------------------------------------
(***************************************************************************)
(* The class stlCompressLzw of stl_compressLzw.cpp: compress() looks for   *)
(* the longest known string, adds it with the next character to its table  *)
(* and writes its code; codes of BITS bits are packed into bytes through a *)
(* long of which 32 bits are meant to be used.  expand() is given the      *)
(* bytes as a string.                                                      *)
(*                                                                         *)
(* The widths are parameters with the ratios of the code (12 bits, bytes   *)
(* of 8, 32 bits of a long), so that tables fill up.  The hashing of       *)
(* find_match is a lookup.  Texts are compressed one after the other, by   *)
(* the same object (which keeps its output bits) or a new one; the input   *)
(* bits are static.                                                        *)
(***************************************************************************)

CONSTANTS
  BYTE,                  (* bits of a byte                                 *)
  BITS,                  (* bits of a code                                 *)
  LONG,                  (* bits of a long that are used                   *)
  LongBits,              (* widths a long of the build may have            *)
  LzTexts,               (* texts to compress                              *)
  MaxRounds              (* BOUND: texts, one after the other              *)

ASSUME LzwAssumption ==
  /\ BYTE \in Nat \ {0} /\ BITS > BYTE /\ LONG \in Nat
  /\ LongBits \subseteq {LONG, 2 * LONG}
  /\ \A t \in LzTexts : t \in Seq(0 .. 2 ^ BYTE - 1)
  /\ MaxRounds \in Nat

MaxValue == 2 ^ BITS - 1
MaxCode == MaxValue - 1
Known == 2 ^ BYTE                               (* codes of single characters *)
Eof == -1

VARIABLES
  long,                  (* width of a long                                *)
  round,                 (* texts compressed so far                        *)
  fresh,                 (* this text is the first of its object           *)
  text,                  (* the text                                       *)
  at,                    (* inputDataIdx, inputCodeIdx                     *)
  enc,                   (* compress: its table and the string so far      *)
  dec,                   (* expand: its codes so far and its output        *)
  obuf,                  (* output_bit_buffer and output_bit_count         *)
  ibuf,                  (* input_bit_buffer and input_bit_count           *)
  bytes,                 (* sOutputCode                                    *)
  codes,                 (* HISTORY: codes of this text                    *)
  mode                   (* "idle", "compress", "expand", "lost"           *)
lzVars == <<long, round, fresh, text, at, enc, dec, obuf, ibuf, bytes, codes, mode>>

NoBits == [bits |-> 0, count |-> 0]

LzInit ==
  /\ long \in LongBits /\ round = 0 /\ fresh = TRUE /\ text = << >> /\ at = 0
  /\ enc = [table |-> << >>, string |-> Eof] /\ dec = [seen |-> << >>, out |-> << >>]
  /\ obuf = NoBits /\ ibuf = NoBits
  /\ bytes = << >> /\ codes = << >> /\ mode = "idle"

-----------------------------------------------------------------------------
(* output_code: a code goes behind the bits kept, whole bytes are written. *)

Put_NoGap(b, code) ==                                        \* mutant
  [bits |-> b.bits + ((code % 2 ^ BITS) * 2 ^ (LONG - BITS)), count |-> b.count + BITS]
PutCode(b, code) ==
  [bits |-> b.bits + ((code % 2 ^ BITS) * 2 ^ (LONG - BITS - b.count)), count |-> b.count + BITS]

RECURSIVE Bytes_OffByOne(_)
Bytes_OffByOne(b) ==                                         \* mutant
  IF b.count <= BYTE THEN <<<< >>, b>>
  ELSE LET r == Bytes_OffByOne([bits |-> (b.bits * 2 ^ BYTE) % 2 ^ long, count |-> b.count - BYTE])
       IN <<<<(b.bits \div 2 ^ (LONG - BYTE)) % 2 ^ BYTE>> \o r[1], r[2]>>
RECURSIVE Bytes(_)
Bytes(b) ==                                     (* <<bytes, what is kept>> *)
  IF b.count < BYTE THEN <<<< >>, b>>
  ELSE LET r == Bytes([bits |-> (b.bits * 2 ^ BYTE) % 2 ^ long, count |-> b.count - BYTE])
       IN <<<<(b.bits \div 2 ^ (LONG - BYTE)) % 2 ^ BYTE>> \o r[1], r[2]>>

RECURSIVE PutAll(_, _)
PutAll(b, cs) ==
  IF cs = << >> THEN <<<< >>, b>>
  ELSE LET one == Bytes(PutCode(b, Head(cs)))
           rest == PutAll(one[2], Tail(cs))
       IN <<one[1] \o rest[1], rest[2]>>

Writes(cs) ==
  LET r == PutAll(obuf, cs)
  IN bytes' = bytes \o r[1] /\ obuf' = r[2] /\ codes' = codes \o cs

-----------------------------------------------------------------------------
(* compress.                                                               *)

Begin(t) ==
  /\ mode = "idle" /\ round < MaxRounds
  /\ round' = round + 1 /\ text' = t /\ at' = 1
  /\ \/ fresh' = TRUE /\ obuf' = NoBits
     \/ round > 0 /\ fresh' = FALSE /\ obuf' = obuf
  /\ enc' = [table |-> << >>, string |-> IF t = << >> THEN Eof ELSE t[1]]
  /\ bytes' = << >> /\ codes' = << >> /\ mode' = "compress"
  /\ UNCHANGED <<long, dec, ibuf>>

RoomFor_OneMore(table) == Known + Len(table) <= MaxValue     \* mutant
RoomFor(table) == Known + Len(table) <= MaxCode

Character ==
  /\ mode = "compress" /\ at < Len(text)
  /\ LET ch == text[at + 1]
         i == SelectInSeq(enc.table, LAMBDA e : e = <<enc.string, ch>>)
     IN IF i # 0
        THEN /\ enc' = [enc EXCEPT !.string = Known + i - 1]
             /\ UNCHANGED <<bytes, obuf, codes>>
        ELSE /\ enc' = [table |-> IF RoomFor(enc.table) THEN Append(enc.table, <<enc.string, ch>>)
                                  ELSE enc.table,
                        string |-> ch]
             /\ Writes(<<enc.string>>)
  /\ at' = at + 1
  /\ UNCHANGED <<long, round, fresh, text, dec, ibuf, mode>>

(* The end of the text; expand() of what was written begins.               *)
Finish ==
  /\ mode = "compress" /\ at >= Len(text)
  /\ Writes(<<enc.string, MaxValue, 0>>)
  /\ at' = 0 /\ dec' = [seen |-> << >>, out |-> << >>] /\ mode' = "expand"
  /\ UNCHANGED <<long, round, fresh, text, enc, ibuf>>

-----------------------------------------------------------------------------
(* input_code takes a byte of a string when there are none left, and EOF   *)
(* (ones in every bit from its place up) when there are.                   *)

NextByte_Right(i) == IF i < Len(bytes) THEN bytes[i + 1] ELSE Eof   \* mutant
NextByte(i) == IF i >= Len(bytes) THEN 0 ELSE Eof

WithByte(b, ch) ==
  LET k == LONG - BYTE - b.count
  IN [bits |-> IF ch = Eof THEN (b.bits % 2 ^ k) + 2 ^ long - 2 ^ k ELSE b.bits + ch * 2 ^ k,
      count |-> b.count + BYTE]

RECURSIVE Filled(_, _)
Filled(b, i) ==                                 (* <<bits, position>>      *)
  IF b.count > LONG - BYTE THEN <<b, i>>
  ELSE LET ch == NextByte(i)
       IN Filled(WithByte(b, ch), IF ch = Eof THEN i ELSE i + 1)

(* A long that is wider keeps the bits of earlier codes.                   *)
Code(b) == (b.bits \div 2 ^ (LONG - BITS)) % 2 ^ LONG
Taken(b) == [bits |-> (b.bits * 2 ^ BITS) % 2 ^ long, count |-> b.count - BITS]

(* What a code stands for when this many codes were read before it; the    *)
(* code that is not in the table yet stands for the string before it and   *)
(* its first character.                                                    *)
RECURSIVE Spelled(_, _)
Spelled(cs, i) ==
  LET code == cs[i]
      j == code - Known + 1                     (* made of codes j and j + 1 *)
  IN IF i = 1 \/ code < Known THEN <<code % 2 ^ BYTE>>
     ELSE IF code >= Known + i - 2 THEN Append(Spelled(cs, i - 1), Head(Spelled(cs, i - 1)))
     ELSE Append(Spelled(cs, j), Head(Spelled(cs, j + 1)))

(* expand: the first code is written as a character whatever it is; after  *)
(* a first code that is no character the arrays are read beyond their end. *)
ReadCode ==
  /\ mode = "expand"
  /\ LET r == Filled(ibuf, at)
         code == Code(r[1])
         seen == Append(dec.seen, code)
         ends == dec.seen # << >> /\ code = MaxValue
         beyond == Len(seen) = 2 /\ seen[1] > MaxValue
     IN /\ ibuf' = Taken(r[1]) /\ at' = r[2]
        /\ mode' = IF ends THEN "idle" ELSE IF beyond THEN "lost" ELSE mode
        /\ dec' = IF ends \/ beyond THEN dec
                  ELSE [seen |-> seen, out |-> dec.out \o Spelled(seen, Len(seen))]
  /\ UNCHANGED <<long, round, fresh, text, enc, obuf, bytes, codes>>

LzNext == (\E t \in LzTexts : Begin(t)) \/ Character \/ Finish \/ ReadCode

LzSpec == LzInit /\ [][LzNext]_lzVars

-----------------------------------------------------------------------------
(* Properties.                                                             *)

(* Type invariant.                                                         *)
LzTypeOK ==
  /\ round \in 0 .. MaxRounds /\ mode \in {"idle", "compress", "expand", "lost"}
  /\ obuf.count \in 0 .. BYTE - 1 /\ obuf.bits \in 0 .. 2 ^ long - 1
  /\ ibuf.count \in 0 .. LONG - BITS /\ ibuf.bits \in 0 .. 2 ^ long - 1

(* What the article's expander makes of codes: it stops at MaxValue, and   *)
(* its table is the one compress() had a code earlier.                     *)
RECURSIVE Article(_, _, _)
Article(cs, i, out) ==
  IF i > Len(cs) \/ cs[i] = MaxValue THEN out
  ELSE Article(cs, i + 1, out \o Spelled(cs, i))

(* What compress() has written, and the string it holds, spell the text it *)
(* was given up to there, also when the table is full.                     *)
CodesSpellText ==
  /\ mode = "compress" /\ text # << >> =>
       Article(Append(codes, enc.string), 1, << >>) = SubSeq(text, 1, at)
  /\ mode = "expand" /\ text # << >> => Article(codes, 1, << >>) = text

(* The codes lie in the bytes one after the other, of BITS bits each,      *)
(* behind the bits left of the text the same object compressed before.     *)
Bit(s, width, k) == (s[((k - 1) \div width) + 1] \div 2 ^ (width - 1 - ((k - 1) % width))) % 2
CodesArePacked ==
  mode = "expand" /\ text # << >> /\ fresh =>
    /\ Len(bytes) = (Len(codes) * BITS) \div BYTE
    /\ \A k \in 1 .. Len(bytes) * BYTE : Bit(bytes, BYTE, k) = Bit(codes, BITS, k)

(* expand() finds none of what was written: it gives one character that is *)
(* all ones, or reads beyond its arrays when longs are wider.              *)
ExpandsNothing ==
  /\ mode = "lost" => long # LONG
  /\ mode \in {"expand", "idle"} /\ round > 0 => dec.out \in {<< >>, <<2 ^ BYTE - 1>>}

(* All of it: what compress() writes, and what expand() makes of it.       *)
CompressionKept ==
  /\ LzTypeOK /\ CodesSpellText /\ CodesArePacked
  /\ ExpandsNothing
=============================================================================
