----------------------------- MODULE StringOps ------------------------------
(***************************************************************************)
(* The strings of libStl as one thread uses them: fields, values and sub-  *)
(* values between the delimiters _D1, _D2 and _D3 (strtl_base.c, stl_get.c,*)
(* stl_store.c, stl_delete.c), and the operators that change characters    *)
(* (stl_strip.c, stl_swap.c, stl_append.c).  A string is a sequence of     *)
(* character codes; offsets count from 0, as in the code.  A field is      *)
(* <<iD1, iD2, iD3>>; a search over no delimiter (0) takes all.  Below:    *)
(* the characters of a text, and sorted lists.                             *)
(***************************************************************************)
EXTENDS StrBase
LOCAL INSTANCE SequencesExt

CONSTANTS
  Letters,               (* characters that are no delimiter               *)
  MaxStr,                (* BOUND: length of the string                    *)
  Indices                (* the values of <<iD1, iD2, iD3>>                *)

D1 == 255
D2 == 254
D3 == 253
ASSUME FieldsAssumption ==
  /\ Letters \subseteq 1 .. 127 /\ MaxStr \in Nat
  /\ Indices \subseteq Int \X Int \X Int

VARIABLE str             (* the string                                     *)

-----------------------------------------------------------------------------
(* The three searches every function begins with.                          *)
Ofs(s, f) ==
  LET o1 == GetOfs(s, D1, f[1], 0, Len(s))
      o2 == GetOfs(s, D2, f[2], o1[1], o1[2])
      o3 == GetOfs(s, D3, f[3], o2[1], o2[2])
  IN [start |-> o3[1], end |-> o3[2], miss |-> <<o1[3], o2[3], o3[3]>>]

(* stlGetFld, stlGetStr and stlGetStN.                                     *)
GetFld(s, f) == LET o == Ofs(s, f) IN SubSeq(s, o.start + 1, o.end)

(* stlCountV.                                                              *)
CountV(s, f, c) == Len(SelectSeq(GetFld(s, f), LAMBDA x : x = c))

(* stlIndexOfN: negative numbers count delimiters, not fields.             *)
IndexOfN(s, c, n) ==
  LET o == GetOfs(s, c, IF n < 0 THEN n - 2 ELSE n, 0, Len(s))
  IN IF o[3] # 0 \/ o[2] = Len(s) THEN -1 ELSE o[2]

-----------------------------------------------------------------------------
(* stlStoreStr and stlInsertStr: delimiters that are missing are written   *)
(* before the value, from _D1 on, or after it, up to _D1.                  *)

Times(c, n) == [i \in 1 .. Max({0, n}) |-> c]
Before(m) == Times(D1, m[1]) \o Times(D2, m[2]) \o Times(D3, m[3])
After_Swapped(m) == Times(D1, -m[1]) \o Times(D2, -m[2]) \o Times(D3, -m[3])  \* mutant
After(m) == Times(D3, -m[3]) \o Times(D2, -m[2]) \o Times(D1, -m[1])

Put(s, from, to, v) == SubSeq(s, 1, from) \o v \o SubSeq(s, to + 1, Len(s))

StoreStr(s, v, f) ==
  LET o == Ofs(s, f)
  IN Put(s, o.start, o.end, Before(o.miss) \o v \o After(o.miss))

LevelDelim_Top(f) == D1                                      \* mutant
LevelDelim(f) == IF f[3] # 0 THEN D3 ELSE IF f[2] # 0 THEN D2 ELSE D1

InsertStr(s, v, f) ==
  LET o == Ofs(s, f)
  IN Put(s, o.start, o.start,
         Before(o.miss) \o v \o <<LevelDelim(f)>> \o After(o.miss))

(* stlDelStr: with the delimiter of its level before it, or whatever       *)
(* character comes after it.                                               *)
DelimBefore_Any(s, i, f) == i > 0                            \* mutant
DelimBefore(s, i, f) == i > 0 /\ s[i] = LevelDelim(f)

DelStr(s, f) ==
  LET o == Ofs(s, f)
      all == f = <<0, 0, 0>>
      before == ~all /\ DelimBefore(s, o.start, f)
      from == IF before THEN o.start - 1 ELSE o.start
      to == IF all \/ before THEN o.end ELSE o.end + 1
  IN IF o.miss # <<0, 0, 0>> THEN s ELSE Put(s, from, to, << >>)

(* stlConvert, and stlConvertV within a field.                             *)
Convert(s, c, r) == [i \in DOMAIN s |-> IF s[i] = c THEN r ELSE s[i]]

(* stlCpyVld: what is copied to a deeper level has its delimiters lowered. *)
LowerD2_Late(s) == Convert(Convert(s, D1, D2), D2, D3)       \* mutant
LowerD2(s) == Convert(Convert(s, D2, D3), D1, D2)

Deepest(f, g, v) ==
  IF f[3] = 0 \/ g[3] # 0 THEN v
  ELSE FoldLeft(LAMBDA w, c : Convert(w, c, 252), v,
                (IF g[2] # 0 THEN <<D3>> ELSE << >>) \o (IF g[1] # 0 THEN <<D2>> ELSE << >>))
Deeper(f, g, v) == IF f[2] # 0 /\ g[2] = 0 /\ g[1] # 0 THEN Convert(v, D2, D3) ELSE v
Deep(f, g, v) == IF f[1] # 0 /\ g[1] = 0 THEN LowerD2(v) ELSE v

CpyVld(dst, f, src, g) ==
  StoreStr(dst, Deep(f, g, Deeper(f, g, Deepest(f, g, GetFld(src, g)))), f)

-----------------------------------------------------------------------------
(* stl_strip.c.                                                            *)

FirstKept(s, c) == CHOOSE i \in 1 .. Len(s) + 1 :
  (i > Len(s) \/ s[i] # c) /\ \A j \in 1 .. i - 1 : s[j] = c
LastKept_First(s, c) == CHOOSE i \in 0 .. Len(s) :           \* mutant
  (i = Len(s) \/ s[i + 1] = c) /\ \A j \in FirstKept(s, c) .. i : s[j] # c
LastKept(s, c) == CHOOSE i \in 0 .. Len(s) :
  (i = 0 \/ s[i] # c) /\ \A j \in i + 1 .. Len(s) : s[j] = c
StripChr(s, c) == SubSeq(s, FirstKept(s, c), LastKept(s, c))

Single(s, c) ==
  FoldLeft(LAMBDA r, ch : IF ch = c /\ r # << >> /\ r[Len(r)] = c THEN r ELSE Append(r, ch),
           << >>, s)
RemoveCh(s, cs) == SelectSeq(s, LAMBDA ch : ch \notin cs)

(* stlSwapStr, with the buffer it is done in: source and destination are   *)
(* in one buffer, the source moved to its end when the text grows.         *)
Hits(s, src, at) == Len(s) - at >= Len(src) /\ SubSeq(s, at + 1, at + Len(src)) = src

CountFrom_Next(at, src) == at + 1                            \* mutant
CountFrom(at, src) == at + Len(src)

RECURSIVE HitCount(_, _, _)
HitCount(s, src, at) ==
  IF at >= Len(s) THEN 0
  ELSE IF Hits(s, src, at) THEN 1 + HitCount(s, src, CountFrom(at, src))
  ELSE HitCount(s, src, at + 1)

Write(b, at, v) == [i \in DOMAIN b |-> IF i > at /\ i <= at + Len(v) THEN v[i - at] ELSE b[i]]

RECURSIVE Swap(_, _, _, _, _)
Swap(b, pS, pR, src, rep) ==
  IF pS >= Len(b) THEN b
  ELSE IF Hits(b, src, pS) THEN Swap(Write(b, pR, rep), pS + Len(src), pR + Len(rep), src, rep)
  ELSE Swap(Write(b, pR, <<b[pS + 1]>>), pS + 1, pR + 1, src, rep)

SwapStr(s, src, rep) ==
  LET grows == HitCount(s, src, 0) * (Len(rep) - Len(src))
      room == Max({0, grows})
  IN IF src = << >> THEN s
     ELSE SubSeq(Swap(Times(0, room) \o s, room, 0, src, rep), 1, Len(s) + grows)

(* stlRotate: values become fields and fields values; delimiters at the end*)
(* of a row are removed.                                                   *)
Field(s, n) == GetFld(s, <<n, 0, 0>>)
Value(s, n) == LET o == GetOfs(s, D2, n, 0, Len(s)) IN SubSeq(s, o[1] + 1, o[2])
CountCh(s, c) == Len(SelectSeq(s, LAMBDA x : x = c))
Columns(s) ==
  Max({1} \cup {CountCh(Field(s, i), D2) + 1 : i \in 1 .. CountCh(s, D1) + 1})
RowStart_Always(j) == <<D1>>                                 \* mutant
RowStart(j) == IF j > 1 THEN <<D1>> ELSE << >>
Row(s, j) ==
  LET row == FoldLeft(LAMBDA r, i : r \o Value(Field(s, i), j) \o <<D2>>,
                      RowStart(j), [i \in 1 .. CountCh(s, D1) + 1 |-> i])
  IN SubSeq(row, 1, LastKept(row, D2))
Rotate(s) == FoldLeft(LAMBDA r, j : r \o Row(s, j), << >>, [j \in 1 .. Columns(s) |-> j])

-----------------------------------------------------------------------------
(* A program that changes one string.                                      *)

StrInit == str = << >>

Values == {<< >>} \cup {<<c>> : c \in Letters}
Result(s) == Len(s) <= MaxStr /\ str' = s

Store == \E f \in Indices, v \in Values : Result(StoreStr(str, v, f))
Insert == \E f \in Indices, v \in Values : Result(InsertStr(str, v, f))
Delete == \E f \in Indices : Result(DelStr(str, f))
Copy == \E f \in Indices, g \in {<<0, 0, 0>>, <<1, 0, 0>>, <<1, 1, 0>>} : Result(CpyVld(str, f, str, g))
Change ==
  \/ \E c \in Letters : Result(StripChr(str, c)) \/ Result(Single(str, c)) \/ Result(RemoveCh(str, {c}))
  \/ \E c \in Letters, v \in Values : Result(SwapStr(str, <<c>>, v)) \/ Result(str \o v)
  \/ Result(Rotate(str))

StrNext == Store \/ Insert \/ Delete \/ Copy \/ Change
StrSpec == StrInit /\ [][StrNext]_str

-----------------------------------------------------------------------------
(* What the operators should do, stated with the list of fields.           *)

Parts(s, c) ==
  LET cuts == {i \in DOMAIN s : s[i] = c} \cup {0, Len(s) + 1}
      at == SetToSortSeq(cuts, <)
  IN [i \in 1 .. Len(at) - 1 |-> SubSeq(s, at[i] + 1, at[i + 1] - 1)]
Joined(p, c) == FoldLeft(LAMBDA r, i : IF i = 1 THEN p[1] ELSE r \o <<c>> \o p[i], << >>,
                         [i \in DOMAIN p |-> i])

(* The place of field n among k: from 1 on, -1 is after the last.          *)
Place(n, k, empty) == IF n > 0 THEN n ELSE IF n = -1 /\ empty THEN 1 ELSE k + 2 + n
Padded(p, at) ==
  IF at < 1 THEN Times(<< >>, 1 - at) \o p ELSE p \o Times(<< >>, at - Len(p))

(* With(s, f, c, Op): the part f of s replaced by Op of it.                *)
RECURSIVE With(_, _, _, _)
With(s, f, c, v) ==
  IF f = << >> THEN v
  ELSE IF f[1] = 0 THEN With(s, Tail(f), c - 1, v)
  ELSE LET p == Parts(s, c)
           at == Place(f[1], Len(p), s = << >>)
           all == Padded(p, at)
           i == IF at < 1 THEN 1 ELSE at
       IN Joined([all EXCEPT ![i] = With(@, Tail(f), c - 1, v)], c)

RECURSIVE PartOf(_, _, _)
PartOf(s, f, c) ==
  IF f = << >> THEN s
  ELSE IF f[1] = 0 THEN PartOf(s, Tail(f), c - 1)
  ELSE LET p == Parts(s, c)
           at == Place(f[1], Len(p), FALSE)
       IN IF at \in DOMAIN p THEN PartOf(p[at], Tail(f), c - 1) ELSE << >>

(* The level of a field, and the parts it is one of.                       *)
Upper(f) == IF f[3] # 0 THEN <<f[1], f[2]>> ELSE IF f[2] # 0 THEN <<f[1]>> ELSE << >>
LastIndex(f) == IF f[3] # 0 THEN f[3] ELSE IF f[2] # 0 THEN f[2] ELSE f[1]
Siblings(s, f) == Parts(PartOf(s, Upper(f), D1), LevelDelim(f))

There(f) ==
  /\ f # <<0, 0, 0>> /\ -1 \notin {f[1], f[2], f[3]}
  /\ Ofs(str, f).miss = <<0, 0, 0>> /\ LastIndex(f) \in DOMAIN Siblings(str, f)

-----------------------------------------------------------------------------
(* Properties, of every string the program comes to.                       *)

(* Type invariant.                                                         *)
StrTypeOK == Len(str) <= MaxStr /\ \A i \in DOMAIN str : str[i] \in Letters \cup {D1, D2, D3, 252}

(* stlGetStr gives the field that is asked for, stlCountV and stlIndexOfN  *)
(* look at the same characters.                                            *)
GetIsField ==
  /\ \A f \in Indices : GetFld(str, f) = PartOf(str, f, D1)
  /\ \A n \in 1 .. MaxStr, c \in {D1} \cup Letters :
       LET p == Parts(str, c)
       IN IndexOfN(str, c, n) = IF n < Len(p) THEN Len(Joined(SubSeq(p, 1, n), c)) ELSE -1

(* stlStoreStr stores at its place, makes the fields that are missing, and *)
(* leaves every other field.                                               *)
StoreIsWith ==
  \A f \in Indices, v \in Values : StoreStr(str, v, f) = With(str, f, D1, v)

(* stlInsertStr puts a field before one that is there, and the others stay.*)
InsertKeepsOthers ==
  \A f \in Indices, v \in Values :
    There(f) => Siblings(InsertStr(str, v, f), f) = InsertAt(Siblings(str, f), LastIndex(f), v)

(* stlDelStr takes one field of its level away, unless it is the only one: *)
(* then it takes a delimiter of the level above with it, or none.          *)
DeleteKeepsOthers ==
  \A f \in Indices :
    There(f) /\ Len(Siblings(str, f)) > 1
      => DelStr(str, f) = With(str, Upper(f), D1,
                               Joined(RemoveAt(Siblings(str, f), LastIndex(f)), LevelDelim(f)))

(* stlCpyVld of all of a string into a field: every field of the source is *)
(* a value of it, and no field of the destination is added.                *)
CopyLowers ==
  LET copy == CpyVld(str, <<1, 0, 0>>, str, <<0, 0, 0>>)
  IN /\ CountCh(copy, D1) = CountCh(str, D1)
     /\ CountCh(GetFld(copy, <<1, 0, 0>>), D2) = CountCh(str, D1)

(* stlStripChr keeps all from the first to the last other character.       *)
StripKeepsInner ==
  \A c \in Letters :
    LET r == StripChr(str, c)
    IN /\ RemoveCh(r, {c}) = RemoveCh(str, {c})
       /\ r # << >> => r[1] # c /\ r[Len(r)] # c
       /\ \E i, k \in 0 .. Len(str) : str = Times(c, i) \o r \o Times(c, k)

(* stlSwapStr, in its one buffer, replaces every occurrence, from the left.*)
RECURSIVE Replaced(_, _, _)
Replaced(s, src, rep) ==
  IF s = << >> THEN << >>
  ELSE IF IsPrefix(src, s) THEN rep \o Replaced(SubSeq(s, Len(src) + 1, Len(s)), src, rep)
  ELSE <<s[1]>> \o Replaced(Tail(s), src, rep)
SwapReplaces ==
  \A c, d \in Letters \cup {D1} : \A src \in {<<c>>, <<c, d>>} :
    \A rep \in {<< >>, <<d>>, <<c, c>>, <<d, c, d>>} :
      SwapStr(str, src, rep) = Replaced(str, src, rep)

(* Value j of field i of a rotated string is value i of field j.           *)
RotateTransposes ==
  \A i, j \in 1 .. MaxStr + 1 :
    Value(Field(Rotate(str), j), i) = Value(Field(str, i), j)

(* All of it: the operators do to fields what they should, and nothing to  *)
(* others.                                                                 *)
FieldsKept ==
  /\ StrTypeOK /\ GetIsField /\ StoreIsWith
  /\ InsertKeepsOthers /\ DeleteKeepsOthers /\ CopyLowers
  /\ StripKeepsInner /\ SwapReplaces /\ RotateTransposes

-----------------------------------------------------------------------------
(***************************************************************************)
(* Operations on the characters of a text: those of the class cST          *)
(* (cSTP.cpp) in one buffer, numbers in fields (stl_integer.c, itoa of     *)
(* stl_case.c), the room for a formatted text (stl_printf.c), and texts    *)
(* read from files (stl_file.c).  A character is its code.                 *)
(***************************************************************************)

CONSTANTS
  Alphabets,             (* a text is made of the letters of one of them     *)
  MaxOpText,             (* BOUND: length of a text                          *)
  OpPatterns,            (* patterns for compareMatch                      *)
  INTBITS,               (* bits of an int, 32 in the code                 *)
  CHUNK, SPARE,          (* 256 and 20: room for a formatted text            *)
  LINE                   (* 5: room for a line at first                    *)

ASSUME StringOpsAssumption ==
  INTBITS \in Nat \ {0} /\ SPARE \in Nat /\ CHUNK \in Nat /\ CHUNK > SPARE /\ LINE \in Nat \ {0}

VARIABLES alphabet, opText
opVars == <<alphabet, opText>>

NUL == 0
BLANK == 32
ZERO == 48
MINUSSIGN == 45
XS == {120, 88}

-----------------------------------------------------------------------------
(* cST::single, strip, toUpper, toLower, and convert of a text.            *)

Repeats_Never(hit, ch, c) == FALSE                           \* mutant
Repeats(hit, ch, c) == ch = c /\ hit
single(s, c) ==
  FoldLeft(LAMBDA r, ch : IF Repeats(r.hit, ch, c) THEN r
                          ELSE [hit |-> ch = c, out |-> Append(r.out, ch)],
           [hit |-> FALSE, out |-> << >>], s).out

(* The length that is kept ends behind the last character that is not c.   *)
strip(s, c) ==
  LET from == FirstKept(s, c)
      kept == {k \in from .. Len(s) : s[k] # c}
  IN IF kept = {} THEN << >> ELSE SubSeq(s, from, CHOOSE k \in kept : \A j \in kept : j <= k)

toUpper(s) == [i \in DOMAIN s |-> IF s[i] \in 97 .. 122 THEN s[i] - 32 ELSE s[i]]
toLower(s) == [i \in DOMAIN s |-> IF s[i] \in 65 .. 90 THEN s[i] + 32 ELSE s[i]]

(* In place, as stlSwapStr does it; it gives the number of replacements.   *)
convert(s, src, rep) == <<SwapStr(s, src, rep), IF src = << >> THEN 0 ELSE HitCount(s, src, 0)>>

(* cST::count, getDlm, StartsWith, EndsWith, contains, compareMatchI.      *)
count(s, c) == Cardinality({i \in DOMAIN s : s[i] = c})
getDlm(s, n, c) == LET o == GetOfs(s, c, n, 0, Len(s)) IN SubSeq(s, o[1] + 1, o[2])
CaseOf(s, sensitive) == IF sensitive THEN s ELSE toLower(s)
StartsWith(s, cmp, sensitive) ==
  Len(cmp) <= Len(s) /\ CaseOf(SubSeq(s, 1, Len(cmp)), sensitive) = CaseOf(cmp, sensitive)
EndsWith(s, cmp, sensitive) ==
  /\ Len(cmp) <= Len(s)
  /\ CaseOf(SubSeq(s, Len(s) - Len(cmp) + 1, Len(s)), sensitive) = CaseOf(cmp, sensitive)
contains(s, find) == \E i \in 0 .. Len(s) : Hits(s, find, i)
compareMatchI(s, pat) == patmat(toUpper(pat), toUpper(s))

-----------------------------------------------------------------------------
(* strtol and strtoul of the C library, without overflow.                  *)

Digit(c) == CASE c \in 48 .. 57 -> c - 48 [] c \in 65 .. 90 -> c - 55
              [] c \in 97 .. 122 -> c - 87 [] OTHER -> 99
Unsigned(s) == IF s # << >> /\ s[1] \in {43, MINUSSIGN} THEN Tail(s) ELSE s
HexMark(u) == Len(u) > 2 /\ u[1] = ZERO /\ u[2] \in XS /\ Digit(u[3]) < 16
Base(u, base) ==
  IF base # 0 THEN base ELSE IF HexMark(u) THEN 16 ELSE IF u # << >> /\ u[1] = ZERO THEN 8 ELSE 10
DigitsOf(u, base) ==
  SubSeq(u, 1, CHOOSE n \in 0 .. Len(u) :
    (\A i \in 1 .. n : Digit(u[i]) < base) /\ (n < Len(u) => Digit(u[n + 1]) >= base))
Number(u, base) == FoldLeft(LAMBDA n, c : n * base + Digit(c), 0, DigitsOf(u, base))
strtol(t, base) ==
  LET s == SubSeq(t, FirstKept(t, BLANK), Len(t))
      u == Unsigned(s)
      b == Base(u, base)
      n == Number(IF b = 16 /\ HexMark(u) THEN SubSeq(u, 3, Len(u)) ELSE u, b)
  IN IF s # u /\ s[1] = MINUSSIGN THEN -n ELSE n

(* cST::toInt passes over zeroes in front, so that they mean nothing; the  *)
(* last is kept when it is all there is, or belongs to a 0x.               *)
KeepsZero_Not(z, next) == FALSE                              \* mutant
KeepsZero(z, next) == z > 0 /\ next \in XS \cup {NUL}
toInt(s) ==
  LET z == FirstKept(s, ZERO) - 1
      next == IF z < Len(s) THEN s[z + 1] ELSE NUL
      iOfs == IF KeepsZero(z, next) THEN z - 1 ELSE z
  IN strtol(SubSeq(s, iOfs + 1, Len(s)), 0)
getDlmInt(s, n, c) == toInt(getDlm(s, n, c))

(* itoa: bases but ten take the number without its sign.                   *)
Wrap_Half(n) == IF n < 0 THEN n + 2 ^ (INTBITS - 1) ELSE n   \* mutant
Wrap(n) == IF n < 0 THEN n + 2 ^ INTBITS ELSE n
DigitChar(d) == IF d > 9 THEN d + 55 ELSE d + ZERO
Spelt(n, base) ==
  LET f[k \in 0 .. n] == IF k < base THEN <<DigitChar(k)>>
                         ELSE Append(f[k \div base], DigitChar(k % base))
  IN f[n]
itoa(n, base) ==
  IF base # 10 THEN Spelt(Wrap(n), base)
  ELSE IF n < 0 THEN <<MINUSSIGN>> \o Spelt(-n, 10) ELSE Spelt(n, 10)

StoreInt(n, s, f) == StoreStr(s, itoa(n, 10), f)
StoreHex(n, s, f) == StoreStr(s, itoa(n, 16), f)
StoreBin(n, s, f) == StoreStr(s, itoa(n, 2), f)
GetInt(s, f) == strtol(GetFld(s, f), 10)
GetHex(s, f) == strtol(GetFld(s, f), 16)
GetBin(s, f) == strtol(GetFld(s, f), 2)
GetDlmIntAutoD(s, n, c, default) == LET v == getDlm(s, n, c) IN IF v = << >> THEN default ELSE strtol(v, 0)

-----------------------------------------------------------------------------
(* stlSetSta: the room for a formatted text of n characters, of which it   *)
(* leaves SPARE unused; vsnprintf says how many there would be.            *)
TooSmall_NoSpare(n, iLen) == n >= iLen                       \* mutant
TooSmall(n, iLen) == n >= iLen - SPARE
Written(n, iLen) == IF n < iLen - SPARE THEN n ELSE iLen - SPARE - 1
SetSta(n) ==
  LET next == n + CHUNK + n \div 16
      iLen == IF TooSmall(n, CHUNK) THEN next ELSE CHUNK
  IN [fits |-> ~TooSmall(n, iLen), length |-> n, written |-> Written(n, iLen)]

(* stlGetSect: a negative offset is behind the end.                        *)
GetSect(s, iOfs, iLen) ==
  LET asked == IF iOfs < 0 THEN Len(s) - iOfs ELSE iOfs
      from == IF asked > Len(s) THEN Len(s) ELSE asked
      n == IF iLen + from > Len(s) THEN Len(s) - from ELSE iLen
  IN SubSeq(s, from + 1, from + n)

(* stlFileReadLineEx: characters are left out or stop the line (so that a  *)
(* NUL, which ends the lists of both, is left out); the buffer grows.      *)
Grows_Late(ofs, len) == ofs > len                            \* mutant
Grows(ofs, len) == ofs >= len
Line0 == [line |-> << >>, room |-> LINE, extra |-> LINE, over |-> FALSE, n |-> 0, end |-> FALSE]
WithChar(r, ch) ==
  LET ofs == Len(r.line) + 1
      more == Grows(ofs, r.room)
  IN [r EXCEPT !.line = Append(@, ch), !.n = @ + 1,
        !.over = @ \/ ofs > r.room,
        !.room = IF more THEN ofs + 2 * r.extra ELSE @,
        !.extra = IF more THEN 2 * @ ELSE @]
ReadLineEx(file, ignored, stops) ==
  FoldLeft(LAMBDA r, ch : IF r.end THEN r
                          ELSE IF ch \in ignored \cup {NUL} THEN [r EXCEPT !.n = @ + 1]
                          ELSE IF ch \in stops THEN [r EXCEPT !.n = @ + 1, !.end = TRUE]
                          ELSE WithChar(r, ch),
           Line0, file)

(* stlFileRead, and stlProcFileRead, which cannot know the length.         *)
FileRead(file, iStart, iBytes) ==
  LET n == Len(file)
      from == IF iStart < 0 THEN Max({0, n + iStart}) ELSE Min({iStart, n})
      bytes == IF iBytes < 0 \/ iBytes + from > n THEN n - from ELSE iBytes
  IN SubSeq(file, from + 1, from + bytes)
ProcRead(file, iStart, iBytes) ==
  LET rest == SubSeq(file, Max({0, iStart}) + 1, Len(file))
  IN IF iBytes < 0 THEN rest ELSE SubSeq(rest, 1, Min({iBytes, Len(rest)}))

(* _fixStringSlash and the parts of a path between slashes (stl_xml.c): a  *)
(* slash in quotes is hidden as the character 1 while the path is cut.     *)
SLASH == 47
QUOTE == 39
HIDDEN == 1
InQuotes_Never(s, i) == FALSE                                \* mutant
InQuotes(s, i) == count(SubSeq(s, 1, i), QUOTE) % 2 = 1
fixStringSlash(s, find, rep) == [i \in DOMAIN s |-> IF s[i] = find /\ InQuotes(s, i) THEN rep ELSE s[i]]
Unhidden(s) == fixStringSlash(s, HIDDEN, SLASH)
GetDlmXP(s, n) == Unhidden(getDlm(fixStringSlash(s, SLASH, HIDDEN), n, SLASH))
CountXP(s) == count(fixStringSlash(s, SLASH, HIDDEN), SLASH)

-----------------------------------------------------------------------------
(* A program that makes a text.                                            *)
OpInit == alphabet \in Alphabets /\ opText = << >>
Type == \E c \in alphabet : Len(opText) < MaxOpText /\ opText' = Append(opText, c)
Change8 ==
  \E c \in alphabet \ {NUL} :
    \/ opText' \in {single(opText, c), strip(opText, c)}
    \/ \E r \in {<< >>, <<c, c>>} : opText' = convert(opText, <<c>>, r)[1] /\ Len(opText') <= MaxOpText
OpNext == (Type \/ Change8 \/ opText' \in {toUpper(opText), toLower(opText)}) /\ UNCHANGED alphabet
OpSpec == OpInit /\ [][OpNext]_opVars

-----------------------------------------------------------------------------
(* What the operations should do.                                          *)

(* cST takes no NUL as a character; files may have them.                   *)
ForString == NUL \notin alphabet
Needles == {<<c>> : c \in alphabet} \cup {<<c, d>> : c, d \in alphabet}

(* single leaves one of each run of c, strip what is between the first and *)
(* the last other character; both lose nothing else.                       *)
Runs(s, c) == {i \in DOMAIN s : s[i] = c /\ (i = 1 \/ s[i - 1] # c)}
StripsAndSingles ==
  ForString => \A c \in alphabet :
    /\ single(opText, c) = LET kept == {i \in DOMAIN opText : opText[i] # c} \cup Runs(opText, c)
                             at == SetToSortSeq(kept, <)
                         IN [i \in DOMAIN at |-> opText[at[i]]]
    /\ \E a, b \in 0 .. Len(opText) :
         /\ opText = Times(c, a) \o strip(opText, c) \o Times(c, b)
         /\ LET s == strip(opText, c) IN s # << >> => s[1] # c /\ s[Len(s)] # c

(* convert replaces what it finds from the front, each once, and says how  *)
(* often.                                                                  *)
ReplacedIn(src, rep) ==
  LET f[i \in 0 .. Len(opText)] ==  \* of the last i characters
        LET s == SubSeq(opText, Len(opText) - i + 1, Len(opText))
        IN IF i = 0 THEN <<<< >>, 0>>
           ELSE IF Hits(s, src, 0) THEN LET r == f[i - Len(src)] IN <<rep \o r[1], r[2] + 1>>
           ELSE LET r == f[i - 1] IN <<<<s[1]>> \o r[1], r[2]>>
  IN f[Len(opText)]
ConvertsInPlace ==
  ForString => \A src \in Needles, rep \in {<< >>, <<64>>, <<64, 64, 64>>} :
    convert(opText, src, rep) = ReplacedIn(src, rep)

(* A name matches a pattern, whatever the case, when its pieces do.        *)
MatchesI ==
  \A pat \in OpPatterns : compareMatchI(opText, pat) = IsMatch(toUpper(pat), toUpper(opText))

(* A number may have zeroes in front, and be hexadecimal with 0x; one with *)
(* a sign or a blank in front may not (zeroes then mean an octal one).     *)
Value10(s) == FoldLeft(LAMBDA n, c : 10 * n + c - 48, 0, s)
ToIntIsDecimal ==
  /\ opText # << >> /\ (\A i \in DOMAIN opText : opText[i] \in 48 .. 57) => toInt(opText) = Value10(opText)
  /\ \A z \in 0 .. 2, d \in 1 .. 9 : toInt(Times(ZERO, z) \o <<ZERO, 120, ZERO + d>>) = d

(* A number stored in a field is the one that is got, without its sign if  *)
(* it is not decimal.                                                      *)
NumbersStay ==
  Len(opText) < 2 =>
    \A n \in -(2 ^ (INTBITS - 1)) .. 2 ^ (INTBITS - 1) - 1, f \in {<<1, 0, 0>>, <<-2, 1, 0>>, <<2, 2, 1>>} :
    /\ GetInt(StoreInt(n, opText, f), f) = n
    /\ GetHex(StoreHex(n, opText, f), f) = Wrap(n) /\ Wrap(n) % 2 ^ INTBITS = n % 2 ^ INTBITS
    /\ GetBin(StoreBin(n, opText, f), f) = Wrap(n)

(* A formatted text is never cut.                                          *)
FormattedWhole ==
  \A n \in Len(opText) * CHUNK .. (Len(opText) + 1) * CHUNK : SetSta(n).fits /\ SetSta(n).written = n

(* The lines of a file are all its lines, and no line is written past its  *)
(* buffer; a part of a file is the same part through /proc.                *)
Lines(file) ==
  LET f[i \in 0 .. Len(file)] ==
        IF i = 0 THEN << >>
        ELSE LET r == ReadLineEx(SubSeq(file, Len(file) - i + 1, Len(file)), {13}, {10})
             IN (IF r.line = << >> /\ ~r.end THEN << >> ELSE <<r.line>>) \o f[i - r.n]
  IN f[Len(file)]
FileLinesWhole ==
  LET plain == SelectSeq(opText, LAMBDA c : c \notin {13, NUL})
      parts == Parts(plain, 10)
  IN /\ Lines(opText) = IF parts[Len(parts)] = << >> THEN SubSeq(parts, 1, Len(parts) - 1) ELSE parts
     /\ ~ReadLineEx(opText, {13}, {10}).over
SlicesAgree ==
  \A a, n \in -1 .. MaxOpText + 1 :
    /\ a >= 0 => ProcRead(opText, a, n) = FileRead(opText, a, n)
    /\ n >= 0 /\ a >= 0 => GetSect(opText, a, n) = FileRead(opText, a, n)

(* The steps of a path, put together, are the path; no step ends inside a  *)
(* text in quotes (of a path whose quotes are closed).                     *)
StepsWhole ==
  SLASH \in alphabet /\ count(opText, QUOTE) % 2 = 0 =>
    LET steps == [n \in 1 .. CountXP(opText) + 1 |-> GetDlmXP(opText, n)]
    IN /\ Joined(steps, SLASH) = opText
       /\ \A n \in DOMAIN steps : count(steps[n], QUOTE) % 2 = 0

StringOpsKept ==
  /\ StepsWhole
  /\ StripsAndSingles /\ ConvertsInPlace /\ MatchesI /\ ToIntIsDecimal /\ NumbersStay
  /\ FormattedWhole /\ FileLinesWhole /\ SlicesAgree

-----------------------------------------------------------------------------
(***************************************************************************)
(* Lists kept sorted in a string with stlLocate (stl_locate.c): it gives   *)
(* the place of a value among the fields, or the place to insert it with   *)
(* stlInsertStr.  Values are deleted with stlDelStr.  where says in which  *)
(* field and value the list is (0: in the whole string), sOpts how values  *)
(* compare: "I" without case, "E" as numbers, "D" descending, "N" not at   *)
(* all.  ("R", aligned to the right, moves its data pointer by a negative  *)
(* length and is not modelled.)                                            *)
(***************************************************************************)

CONSTANTS
  ListValues,            (* values, of characters that are no delimiter    *)
  ListOptions,           (* sets of options                                *)
  Wheres,                (* <<string, iD1, iD2>>: the string at first      *)
  MaxListed,             (* BOUND: values in the list                      *)
  MaxListLen             (* BOUND: length of the string                    *)

VARIABLES list, where, sOpts, listed
slVars == <<list, where, sOpts, listed>>

-----------------------------------------------------------------------------
(* _strFlgCmp.                                                             *)
LowerCase(v) == [i \in DOMAIN v |-> IF v[i] \in 65 .. 90 THEN v[i] + 32 ELSE v[i]]
Sign(a, b) == IF a < b THEN -1 ELSE IF a > b THEN 1 ELSE 0
MinOf(a, b) == IF a < b THEN a ELSE b
memcmp(a, b) ==
  LET n == MinOf(Len(a), Len(b))
      at == {i \in 1 .. n : a[i] # b[i]}
      first == CHOOSE i \in at : \A j \in at : i <= j
  IN IF at = {} THEN 0 ELSE Sign(a[first], b[first])

ByLength_Not(res, a, b) == res                               \* mutant
ByLength(res, a, b) == IF res = 0 THEN Sign(Len(a), Len(b)) ELSE res
Compared(find, data, opts) ==
  IF "E" \in opts
    THEN IF Len(find) # Len(data) THEN Sign(Len(find), Len(data)) ELSE memcmp(find, data)
  ELSE IF "I" \in opts THEN ByLength(memcmp(LowerCase(find), LowerCase(data)), find, data)
  ELSE ByLength(memcmp(find, data), find, data)
FlgCmp(find, data, opts) ==
  LET c == Compared(find, data, opts)
      res == IF "N" \in opts /\ c < 0 THEN 1 ELSE c
  IN IF "D" \in opts THEN -res ELSE res

(* _strLocate between two offsets: the fields until one that is equal or   *)
(* comes later.  What is after a delimiter at the end is no field.         *)
StopsAt_Later(res) == res < -1                               \* mutant
StopsAt(res) == res <= 0
EndOf(s, from, iEind, c) ==
  CHOOSE i \in from .. iEind : (i = iEind \/ s[i + 1] = c) /\ \A j \in from .. i - 1 : s[j + 1] # c
LocateIn(find, s, iStart, iEind, cDlm, opts) ==
  LET f[i \in iStart .. iEind + 1] ==
        LET end == EndOf(s, i, iEind, cDlm)
            res == FlgCmp(find, SubSeq(s, i + 1, end), opts)
        IN IF i >= iEind THEN [found |-> FALSE, iVld |-> 1]
           ELSE IF StopsAt(res) THEN [found |-> res = 0, iVld |-> 1]
           ELSE LET rest == f[end + 1] IN [rest EXCEPT !.iVld = @ + 1]
  IN f[iStart]

(* stlLocate.                                                              *)
stlLocate(find, s, iD1, iD2, opts) ==
  LET o1 == GetOfs(s, D1, iD1, 0, Len(s))
      o2 == GetOfs(s, D2, iD2, o1[1], o1[2])
  IN LocateIn(find, s, o2[1], o2[2], IF iD2 # 0 THEN D3 ELSE IF iD1 # 0 THEN D2 ELSE D1, opts)

FieldOf(w, i) == IF w[3] # 0 THEN <<w[2], w[3], i>> ELSE IF w[2] # 0 THEN <<w[2], i, 0>> ELSE <<i, 0, 0>>
Find(v) == stlLocate(v, list, where[2], where[3], sOpts)

-----------------------------------------------------------------------------
(* The users of the list.                                                  *)
SlInit ==
  /\ where \in Wheres /\ sOpts \in ListOptions
  /\ list = where[1] /\ listed = {}

(* A value is inserted when it is not found.                               *)
InsertSorted(v) ==
  /\ Cardinality(listed) < MaxListed
  /\ list' = IF Find(v).found THEN list ELSE InsertStr(list, v, FieldOf(where, Find(v).iVld))
  /\ listed' = IF Find(v).found THEN listed ELSE listed \cup {v}
  /\ Len(list') <= MaxListLen
DeleteFound(v) ==
  /\ Find(v).found
  /\ list' = DelStr(list, FieldOf(where, Find(v).iVld))
  /\ listed' = {w \in listed : Compared(v, w, sOpts) # 0}

SlNext == (\E v \in ListValues : InsertSorted(v) \/ DeleteFound(v)) /\ UNCHANGED <<where, sOpts>>
SlSpec == SlInit /\ [][SlNext]_slVars

-----------------------------------------------------------------------------
(* The list is what was inserted and not deleted: each value is found, at  *)
(* its place, and no other; but with "N" and "D" together, where the       *)
(* search stops at the first value.                                        *)
FindsAll ==
  {"N", "D"} \subseteq sOpts \/
    \A v \in ListValues :
      /\ Find(v).found = \E w \in listed : Compared(v, w, sOpts) = 0
      /\ Find(v).found
           => Compared(v, GetFld(list, FieldOf(where, Find(v).iVld)), sOpts) = 0

(* Its values stand in their order.                                        *)
ListInOrder ==
  sOpts \cap {"N"} = {} =>
    \A i, j \in 1 .. Cardinality(listed) :
      i < j => FlgCmp(GetFld(list, FieldOf(where, i)), GetFld(list, FieldOf(where, j)), sOpts) < 0

(* What stands beside the list stays as it was.                            *)
OtherFieldsStay ==
  \A i \in 1 .. 3 :
    where[2] # 0 /\ i # where[2] => GetFld(list, <<i, 0, 0>>) = GetFld(where[1], <<i, 0, 0>>)

ListKept == FindsAll /\ ListInOrder /\ OtherFieldsStay
=============================================================================
