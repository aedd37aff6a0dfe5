----------------------------- MODULE StringClass -----------------------------
(***************************************************************************)
(* The class cST of cSTP.cpp: a string that may hold an 8 bit buffer, a    *)
(* wide buffer, or both, of iLen characters each.  An 8 bit buffer holds   *)
(* Latin-1, or UTF-8 when isUTF8 is set.  Two strings, 1 and 2, are        *)
(* changed by a program; want is the text, as a sequence of code points,   *)
(* it put into each.                                                       *)
(*                                                                         *)
(* Buffers are pictured up to iLen, and their growth is left out: a string *)
(* that has ever had a buffer has iLenLoc > 0 and room for what is stored. *)
(* Characters that are written nowhere are Garbage.                        *)
(***************************************************************************)
EXTENDS StrBase
LOCAL INSTANCE FiniteSetsExt

CONSTANTS
  Texts,                 (* texts the program stores                       *)
  MaxText,               (* BOUND: length of a text                        *)
  MaxOps                 (* BOUND: operations                              *)

ASSUME StringClassAssumption ==
  /\ \A t \in Texts : t \in Seq(1 .. 65535)
  /\ MaxText \in Nat /\ MaxOps \in Nat

Comma == 44
Garbage == 63
Strs == {1, 2}

VARIABLES
  obj,                    (* a string: b and w are << >> (NULL) or <<text>> *)
  want,                  (* HISTORY: the text it should hold               *)
  excuse,                (* HISTORY: what made it lose its text            *)
  crashed,               (* a string whose NULL buffer was used, or 0      *)
  widths,                (* HISTORY: widths of the buffers it has had      *)
  ops                    (* operations so far                              *)
stVars == <<obj, want, excuse, crashed, widths, ops>>

Empty == [b |-> << >>, w |-> << >>, loc |-> FALSE, utf8 |-> FALSE]

StInit ==
  /\ obj = [s \in Strs |-> Empty] /\ want = [s \in Strs |-> << >>]
  /\ excuse = [s \in Strs |-> {}] /\ crashed = 0
  /\ widths = [s \in Strs |-> {}] /\ ops = 0

-----------------------------------------------------------------------------
(* UTF-8, as update8bit writes it and update16bit reads it.                *)

EncodeChar(ch) ==
  IF ch < 128 THEN <<ch>>
  ELSE IF ch < 2048 THEN <<192 + ch \div 64, 128 + (ch % 64)>>
  ELSE <<224 + ch \div 4096, 128 + ((ch \div 64) % 64), 128 + (ch % 64)>>

RECURSIVE Encode(_)
Encode(t) == IF t = << >> THEN << >> ELSE EncodeChar(Head(t)) \o Encode(Tail(t))

Extra(ch) ==
  IF ch < 192 \/ ch >= 248 THEN 0 ELSE IF ch < 224 THEN 1 ELSE IF ch < 240 THEN 2 ELSE 3
LeadBits(ch) == CASE Extra(ch) = 1 -> ch % 32 [] Extra(ch) = 2 -> ch % 16
                  [] Extra(ch) = 3 -> ch % 8 [] OTHER -> ch

(* A byte that should continue a character and does not ends it, and is    *)
(* skipped.                                                                *)
RECURSIVE DecodeRest(_, _, _)
DecodeRest(s, ch, more) ==
  IF more = 0 THEN <<ch, s>>
  ELSE IF s = << >> THEN <<ch, << >>>>
  ELSE IF Head(s) \notin 128 .. 191 THEN <<ch, Tail(s)>>
  ELSE DecodeRest(Tail(s), ch * 64 + (Head(s) % 64), more - 1)

RECURSIVE Decode(_)
Decode(s) ==
  IF s = << >> THEN << >>
  ELSE LET r == DecodeRest(Tail(s), LeadBits(Head(s)), Extra(Head(s)))
       IN <<r[1]>> \o Decode(r[2])

Ascii(s) == \A i \in DOMAIN s : s[i] < 128

-----------------------------------------------------------------------------
(* update16bit, update8bit, switch16bit and switch8bit.  Only a conversion *)
(* from or to UTF-8 gives the other buffer back.                           *)

Update16(o) ==
  IF o.w # << >> \/ o.b = << >> THEN o
  ELSE IF o.utf8 THEN [o EXCEPT !.w = <<Decode(o.b[1])>>, !.b = << >>]
  ELSE [o EXCEPT !.w = o.b]

NeedsUtf8_Known(o) == o.utf8                                 \* mutant
NeedsUtf8(o) == o.utf8 \/ \E i \in DOMAIN o.w[1] : o.w[1][i] > 255

Update8(o) ==
  IF o.b # << >> \/ o.w = << >> THEN o
  ELSE IF NeedsUtf8(o)
    THEN [o EXCEPT !.b = <<Encode(o.w[1])>>, !.w = << >>, !.utf8 = TRUE]
    ELSE [o EXCEPT !.b = <<[i \in DOMAIN o.w[1] |-> o.w[1][i] % 256]>>]

Switch8(o) ==
  LET u == Update8(o)
  IN [u EXCEPT !.b = IF u.loc THEN @ ELSE <<<< >>>>, !.w = << >>, !.loc = TRUE]
Switch16_KeepsBoth(o) ==                                     \* mutant
  LET u == Update16(o) IN [u EXCEPT !.w = IF u.loc THEN @ ELSE <<<< >>>>, !.loc = TRUE]
Switch16(o) ==
  LET u == Update16(o)
  IN [u EXCEPT !.w = IF u.loc THEN @ ELSE <<<< >>>>, !.b = << >>, !.loc = TRUE]

(* "default to 16 bit when both buffers filled".                           *)
OneWidth(o) == IF o.w # << >> /\ o.b # << >> THEN [o EXCEPT !.b = << >>] ELSE o

Length(o) == IF o.w # << >> THEN Len(o.w[1]) ELSE IF o.b # << >> THEN Len(o.b[1]) ELSE 0

Text(o) ==
  IF o.w # << >> THEN o.w[1]
  ELSE IF o.b = << >> THEN << >>
  ELSE IF o.utf8 THEN Decode(o.b[1]) ELSE o.b[1]

-----------------------------------------------------------------------------
(* set, setA (the constructors and setf), operator = and the copies.       *)
(* 8 bit text comes as Latin-1, or as UTF-8 with its mark in front.        *)

Narrow == {t \in Texts : \A i \in DOMAIN t : t[i] < 256}
Given8 == {<<t, FALSE>> : t \in Narrow} \cup {<<Encode(t), TRUE>> : t \in Texts}
Meant(bytes, marked) == IF marked THEN Decode(bytes) ELSE bytes

Set8(o, bytes, marked) ==
  [b |-> <<bytes>>, w |-> << >>, loc |-> TRUE, utf8 |-> o.utf8 \/ marked]
Set16(o, t) == [b |-> << >>, w |-> <<t>>, loc |-> TRUE, utf8 |-> o.utf8]

(* After an operation: the string, its text, and why it may be wrong.      *)
Becomes(s, o, text, why) ==
  /\ obj' = [obj EXCEPT ![s] = o]
  /\ want' = [want EXCEPT ![s] = text]
  /\ excuse' = [excuse EXCEPT ![s] = why]
  /\ widths' = [widths EXCEPT ![s] =
       @ \cup (IF o.b # << >> THEN {8} ELSE {}) \cup (IF o.w # << >> THEN {16} ELSE {})]
  /\ Len(text) <= MaxText /\ Length(o) <= 3 * MaxText
Why(cond, reason) == IF cond THEN {reason} ELSE {}

(* The flag isUTF8 is never taken back.                                    *)
StaleFlag(o, bytes, marked) == Why(o.utf8 /\ ~marked /\ ~Ascii(bytes), "isUTF8 of an earlier text")

DoSet(s) ==
  /\ \/ \E g \in Given8 :
          Becomes(s, Set8(obj[s], g[1], g[2]), Meant(g[1], g[2]), StaleFlag(obj[s], g[1], g[2]))
     \/ \E t \in Texts : Becomes(s, Set16(obj[s], t), t, {})
  /\ UNCHANGED crashed

(* setA gives the buffer of the other width back, and takes the room of    *)
(* iLenLoc as that of its own.                                             *)
Crashes(s, width) ==
  /\ crashed' = s /\ widths' = [widths EXCEPT ![s] = @ \cup {width}]
  /\ UNCHANGED <<obj, want, excuse>>

DoSetf(s) ==
  \/ \E g \in Given8 :
       IF obj[s].loc /\ obj[s].b = << >>
         THEN Crashes(s, 8)
         ELSE /\ Becomes(s, Set8(obj[s], g[1], g[2]), Meant(g[1], g[2]), StaleFlag(obj[s], g[1], g[2]))
              /\ UNCHANGED crashed
  \/ \E t \in Texts :
       IF obj[s].loc /\ obj[s].w = << >>
         THEN Crashes(s, 16)
         ELSE Becomes(s, Set16(obj[s], t), t, {}) /\ UNCHANGED crashed

CopyFlag_Not(o, p) == o                                      \* mutant
CopyFlag(o, p) == [o EXCEPT !.utf8 = p.utf8]

(* set(const cST * ) leaves the text when the source has none; operator =  *)
(* makes it empty.                                                         *)
DoCopy(s) ==
  LET p == obj[3 - s] IN
  /\ \E assigns \in BOOLEAN :
       Becomes(s,
         CopyFlag(IF p.b # << >> THEN Set8(obj[s], p.b[1], FALSE)
                  ELSE IF p.w # << >> THEN Set16(obj[s], p.w[1])
                  ELSE IF assigns THEN Set16(obj[s], << >>) ELSE obj[s], p),
         want[3 - s],
         excuse[3 - s] \cup (IF ~assigns /\ p.b = << >> /\ p.w = << >>
                              THEN excuse[s] \cup {"copy of nothing"} ELSE {}))
  /\ UNCHANGED crashed

-----------------------------------------------------------------------------
(* append.                                                                 *)

Mixed(o, bytes, utf8) ==
  Why(o.utf8 # utf8 /\ (~Ascii(bytes) \/ ~Ascii(o.b[1])), "Latin-1 and UTF-8 mixed")

DoAppend(s) ==
  LET o8 == Switch8(obj[s])
      o16 == Switch16(obj[s])
  IN /\ \/ \E g \in Given8 :
             /\ g[1] # << >>
             /\ Becomes(s, [o8 EXCEPT !.b = <<@[1] \o g[1]>>, !.utf8 = @ \/ g[2]],
                        want[s] \o Meant(g[1], g[2]), excuse[s] \cup Mixed(o8, g[1], g[2]))
        \/ \E t \in Texts \ {<< >>} :
             Becomes(s, [o16 EXCEPT !.w = <<@[1] \o t>>], want[s] \o t, excuse[s])
     /\ UNCHANGED crashed

(* append(cST * ): room is made for the characters p has before it is      *)
(* converted to this width.                                                *)
DoAppendObj(s) ==
  LET p == obj[3 - s]
      o == OneWidth(obj[s])
      n == Length(p)
      q == IF o.w # << >> THEN Update16(p) ELSE Update8(p)
      part == IF o.w # << >> THEN q.w[1] ELSE q.b[1]
      copied == [i \in 1 .. n |-> IF i <= Len(part) THEN part[i] ELSE Garbage]
      old == IF o.b # << >> THEN o.b[1] ELSE << >>
  IN /\ n > 0 /\ Len(want[s]) + Len(want[3 - s]) <= MaxText
     /\ LET new == IF o.w # << >> THEN [o EXCEPT !.w = <<@[1] \o copied>>]
                   ELSE [o EXCEPT !.b = <<old \o copied>>, !.loc = TRUE]
        IN obj' = [obj EXCEPT ![s] = new, ![3 - s] = q]
     /\ want' = [want EXCEPT ![s] = @ \o want[3 - s]]
     /\ excuse' = [excuse EXCEPT ![s] = @ \cup excuse[3 - s]
          \cup Why(Len(part) # n, "length before the conversion")
          \cup (IF o.w = << >> THEN Mixed([o EXCEPT !.b = <<old>>], part, q.utf8) ELSE {})]
     /\ widths' = [t \in Strs |-> widths[t] \cup
          (IF o.w # << >> THEN {16} ELSE {8}) \cup (IF q.b # << >> THEN {8} ELSE {})]
     /\ UNCHANGED crashed

-----------------------------------------------------------------------------
(* buf, bufW, operator [], and operators in place.                         *)

DoBuf(s) ==
  /\ Becomes(s, Update8(obj[s]), want[s], excuse[s]) \/ Becomes(s, Update16(obj[s]), want[s], excuse[s])
  /\ UNCHANGED crashed

(* operator []: what is stored goes to the 8 bit buffer only.              *)
PokedBuffer_Any(o) == o                                      \* mutant
PokedBuffer(o) == IF o.b = << >> THEN Update8(o) ELSE o

DoPoke(s) ==
  LET o == PokedBuffer(obj[s])
  IN IF o.b = << >> THEN crashed' = s /\ UNCHANGED <<obj, want, excuse, widths>>
     ELSE /\ o.b[1] # << >>
          /\ Becomes(s, [o EXCEPT !.b[1][1] = Comma],
                     [i \in DOMAIN want[s] |-> IF i = 1 THEN Comma ELSE want[s][i]],
                     excuse[s] \cup Why(o.w # << >>, "stored in one buffer")
                               \cup Why(o.utf8 /\ ~Ascii(o.b[1]), "stored in a part of a character"))
          /\ UNCHANGED crashed

Without(s, c) == SelectSeq(s, LAMBDA ch : ch # c)
Swapped(s, c, r) == [i \in DOMAIN s |-> IF s[i] = c THEN r ELSE s[i]]

(* remove, and convert of a character.                                     *)
DoInPlace(s) ==
  LET o8 == Switch8(obj[s])
      o == OneWidth(obj[s])
  IN /\ \/ Becomes(s, [o8 EXCEPT !.b = <<Without(@[1], Comma)>>], Without(want[s], Comma), excuse[s])
        \/ Becomes(s, [o EXCEPT !.b = IF @ = << >> THEN @ ELSE <<Swapped(@[1], Comma, 97)>>,
                                !.w = IF @ = << >> THEN @ ELSE <<Swapped(@[1], Comma, 97)>>],
                   Swapped(want[s], Comma, 97), excuse[s])
     /\ UNCHANGED crashed

-----------------------------------------------------------------------------
(* insDel, and the fields of delDlm and setDlm.                            *)

Deleted(t, from, n) == SubSeq(t, 1, from) \o SubSeq(t, from + n + 1, Len(t))

(* A wide tail of k characters and its end is moved by k + 1 bytes, not    *)
(* characters: what should have moved is garbage, but for 1 of 4.          *)
MovedChars(k) == (k + 1) \div 4
Inserted(t, at, n, wide) ==
  LET k == Len(t) - at
      good == IF wide THEN MovedChars(k) ELSE k
  IN [i \in 1 .. Len(t) + n |->
        IF i <= at THEN t[i]
        ELSE IF i > at + n /\ i <= at + n + good THEN t[i - n] ELSE Garbage]

Cut(t, from, to) == SubSeq(t, from + 1, to)

(* delDlm does not test whether the field is there.                        *)
DelDlm(t, n) ==
  LET f == GetOfs(t, Comma, n, 0, Len(t))
      before == f[1] > 0 /\ t[f[1]] = Comma
      from == IF before THEN f[1] - 1 ELSE f[1]
      to == IF before THEN f[2] ELSE f[2] + 1
  IN Deleted(t, from, to - from)
HasField(t, n) ==
  LET f == GetOfs(t, Comma, n, 0, Len(t)) IN f[3] = 0 /\ n # -1
FieldGone(t, n) ==
  IF HasField(t, n) THEN DelDlm(t, n) ELSE t

DoDelDlm(s) ==
  LET o == OneWidth(obj[s]) IN
  /\ \E n \in {-3, -2, 1, 2} :
       Becomes(s, [o EXCEPT !.w = IF @ = << >> THEN @ ELSE <<DelDlm(@[1], n)>>,
                            !.b = IF @ = << >> THEN @ ELSE <<DelDlm(@[1], n)>>],
               FieldGone(want[s], n),
               excuse[s] \cup Why(~HasField(want[s], n), "deleted a field that is not there"))
  /\ UNCHANGED crashed

Dlms(n) == [i \in 1 .. Max({0, n}) |-> Comma]
Stored(t, f, v) ==
  SubSeq(t, 1, f[1]) \o Dlms(f[3]) \o v \o Dlms(-f[3]) \o SubSeq(t, f[2] + 1, Len(t))

(* setDlm: in a wide string a quarter of the value is copied.              *)
DoSetDlm(s) ==
  LET p == obj[3 - s]
      o == IF obj[s].w # << >> THEN Switch16(obj[s])
           ELSE IF obj[s].b # << >> THEN Switch8(obj[s]) ELSE obj[s]
      wide == o.w # << >>
      q == IF wide THEN Update16(p) ELSE IF p.b # << >> THEN p ELSE Switch16(p)
      v == IF wide THEN q.w ELSE Update8(q).b
      n == Length(q)
  IN /\ v # << >> /\ o.loc
     /\ \E i \in {-2, 1, 2} :
          LET t == IF wide THEN o.w[1] ELSE o.b[1]
              f == GetOfs(t, Comma, i, 0, Len(t))
              miss == IF f[3] < 0 THEN -f[3] ELSE f[3]
              grow == n + miss - (f[2] - f[1])
              moved == IF grow > 0 THEN Inserted(t, f[1], grow, wide) ELSE Deleted(t, f[1], -grow)
              good == IF wide THEN n \div 4 ELSE n
              from == f[1] + Max({0, f[3]})
              new == [k \in DOMAIN moved |->
                        IF k > f[1] /\ k <= f[1] + n + miss
                          THEN IF k <= from \/ k > from + n THEN Comma
                               ELSE IF k <= from + good THEN v[1][k - from] ELSE moved[k]
                          ELSE moved[k]]
          IN Becomes(s, IF wide THEN [o EXCEPT !.w = <<new>>] ELSE [o EXCEPT !.b = <<new>>],
                     Stored(want[s], GetOfs(want[s], Comma, i, 0, Len(want[s])), want[3 - s]),
                     excuse[s] \cup excuse[3 - s]
                       \cup Why(wide, "field of a wide string")
                       \cup Why(~wide /\ Len(v[1]) # n, "length before the conversion")
                       \cup (IF wide THEN {} ELSE Mixed(o, v[1], Update8(q).utf8)))
     /\ UNCHANGED crashed

-----------------------------------------------------------------------------
(* operator <, lt, gt and compare: two strings with a buffer of one width  *)
(* are compared in it, others are neither before, nor after, nor equal.    *)

Precedes(s, t) ==
  \E k \in 0 .. Min({Len(s), Len(t)}) :
    /\ SubSeq(s, 1, k) = SubSeq(t, 1, k)
    /\ IF k < Len(s) THEN k < Len(t) /\ s[k + 1] < t[k + 1] ELSE k < Len(t)
lt(o, p) ==
  IF o.w # << >> /\ p.w # << >> THEN Precedes(o.w[1], p.w[1])
  ELSE o.b # << >> /\ p.b # << >> /\ Precedes(o.b[1], p.b[1])
gt(o, p) == lt(p, o)

(* Of wide characters, which have four bytes, two for each are compared.   *)
SameLength_Not(o, p) == Length(o) <= Length(p)               \* mutant
SameLength(o, p) == Length(o) = Length(p)
Half(t) == SubSeq(t, 1, (Len(t) + 1) \div 2)
compare(o, p) ==
  /\ SameLength(o, p)
  /\ IF o.b # << >> /\ p.b # << >> THEN SubSeq(p.b[1], 1, Len(o.b[1])) = o.b[1]
     ELSE o.w # << >> /\ p.w # << >> /\ Half(o.w[1]) = SubSeq(p.w[1], 1, Len(Half(o.w[1])))

-----------------------------------------------------------------------------

StNext ==
  /\ crashed = 0 /\ ops < MaxOps /\ ops' = ops + 1
  /\ \E s \in Strs :
       \/ DoSet(s) \/ DoSetf(s) \/ DoCopy(s) \/ DoAppend(s) \/ DoAppendObj(s)
       \/ DoBuf(s) \/ DoPoke(s) \/ DoInPlace(s) \/ DoDelDlm(s) \/ DoSetDlm(s)

StSpec == StInit /\ [][StNext]_stVars

-----------------------------------------------------------------------------
(* Properties.                                                             *)

(* Type invariant.                                                         *)
StTypeOK ==
  \A s \in Strs :
    /\ Len(obj[s].b) <= 1 /\ Len(obj[s].w) <= 1
    /\ obj[s].utf8 \in BOOLEAN /\ obj[s].loc = (obj[s].b # << >> \/ obj[s].w # << >>)

(* A string holds the text that was put into it, whichever conversions and *)
(* copies were made, unless one of the named things happened to it.        *)
TextKept == \A s \in Strs : excuse[s] = {} => Text(obj[s]) = want[s]

(* Both buffers hold the same text, of one encoding, unless a character was*)
(* stored with operator [].                                                *)
BuffersAgree ==
  \A s \in Strs :
    obj[s].b # << >> /\ obj[s].w # << >> /\ "stored in one buffer" \notin excuse[s]
      => obj[s].b[1] = obj[s].w[1]

(* A NULL buffer is used only in a string of both widths (by setf), or in  *)
(* one that never had a buffer (by operator []).                           *)
NullOnlyAfterSwitch == crashed # 0 => widths[crashed] \in {{}, {8, 16}}

(* Of two strings with one kind of buffer, in one encoding, one is before  *)
(* the other as its text is, or they are equal; but wide texts that are    *)
(* equal in their first halves already count as equal in compare.          *)
OneKind(o, p) ==
  \/ o.w # << >> /\ p.w # << >> /\ o.b = << >> /\ p.b = << >>
  \/ o.w = << >> /\ p.w = << >> /\ o.b # << >> /\ p.b # << >> /\ o.utf8 = p.utf8
ComparesTexts ==
  LET o == obj[1]  p == obj[2]  s == Text(o)  t == Text(p) IN
  excuse[1] = {} /\ excuse[2] = {} /\ OneKind(o, p) =>
    /\ lt(o, p) = Precedes(s, t) /\ gt(o, p) = Precedes(t, s)
    /\ (s = t) = (~lt(o, p) /\ ~gt(o, p))
    /\ s = t => compare(o, p)
    /\ compare(o, p) => IF o.w = << >> THEN s = t ELSE Len(s) = Len(t) /\ Half(s) = Half(t)

(* All of it: a string keeps its text, in whichever buffers it is.         *)
StringsKept == ComparesTexts /\ StTypeOK /\ TextKept /\ BuffersAgree /\ NullOnlyAfterSwitch
=============================================================================
