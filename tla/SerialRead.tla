----------------------------- MODULE SerialRead ------------------------------
(***************************************************************************)
(* Reading a serial port through struct stlSerial (stl_rs232.cpp): one     *)
(* thread gets characters, blocks, lines and fixed lengths, clears the     *)
(* buffer, and uses the class rs232, while characters 1, 2, ... come in.   *)
(* The port does not block, so a read may give nothing though select       *)
(* called it ready, and does so for ever when the device is gone.          *)
(*                                                                         *)
(* Characters are their numbers; LineEnds are the stop characters, all of  *)
(* them with the top bit set or none.                                      *)
(***************************************************************************)
EXTENDS Integers, Sequences

CONSTANTS
  SrTotal,               (* BOUND: characters that come in                 *)
  SrLineEnds,            (* those that are stop characters                 *)
  BufSize,               (* size of sBuf                                   *)
  Wanted,                (* lengths asked for                              *)
  MaxZeros               (* BOUND: reads that give nothing                 *)

ASSUME SerialReadAssumption ==
  /\ SrTotal \in Nat /\ SrLineEnds \subseteq 1 .. SrTotal
  /\ BufSize \in Nat \ {0} /\ Wanted \subseteq Nat \ {0} /\ MaxZeros \in Nat

VARIABLES
  high,                  (* the stop characters have the top bit set       *)
  readTo,                (* characters read from the port                  *)
  buf,                   (* sBuf: what was ever put there                  *)
  bufLen, bufOfs,        (* iBufLen, iBufOfs                               *)
  kept,                  (* sLine: << >> (NULL) or <<characters>>          *)
  srOp,                  (* the call: [kind, want, got]                    *)
  given,                 (* HISTORY: characters given to the program       *)
  disorder,              (* HISTORY: one was given after a later one, or twice *)
  srDropped,             (* HISTORY: characters thrown away by a call    *)
  lastLine,              (* HISTORY: the last line returned                *)
  zeros,                 (* reads that gave nothing                        *)
  overtaken,             (* HISTORY: read past a kept line                 *)
  missed                 (* HISTORY: a stop character taken for an error   *)
srVars == <<high, readTo, buf, bufLen, bufOfs, kept, srOp, given, disorder, srDropped, lastLine, zeros,
            overtaken, missed>>

NoCall == [kind |-> "none", want |-> 0, got |-> << >>]
Kinds == {"getch", "max", "length", "line", "read", "clear"}
TakesLine(kind) == kind \in {"line", "read"}
CharsIn(s) == {s[i] : i \in DOMAIN s}

SrInit ==
  /\ high \in BOOLEAN /\ readTo = 0
  /\ buf = [i \in 1 .. BufSize |-> 0] /\ bufLen = 0 /\ bufOfs = 0
  /\ kept = << >> /\ srOp = NoCall
  /\ given = {} /\ disorder = FALSE /\ srDropped = {} /\ lastLine = << >> /\ zeros = 0
  /\ overtaken = FALSE /\ missed = FALSE

-----------------------------------------------------------------------------
(* A call begins; stlSerialReadLineEx goes on with the line that was kept. *)

KeptLine_New == << >>                                        \* mutant
KeptLine == IF kept = << >> THEN << >> ELSE kept[1]

CallSerial ==
  /\ srOp = NoCall
  /\ \E kind \in Kinds, n \in Wanted :
       /\ srOp' = [kind |-> kind,
                   want |-> CASE kind = "getch" -> 1 [] kind \in {"max", "length"} -> n [] OTHER -> 0,
                   got |-> IF TakesLine(kind) THEN KeptLine ELSE << >>]
       /\ kept' = (IF TakesLine(kind) THEN << >> ELSE kept)
       /\ overtaken' = (overtaken \/ (~TakesLine(kind) /\ kind # "clear" /\ KeptLine # << >>))
  /\ UNCHANGED <<high, readTo, buf, bufLen, bufOfs, given, disorder, srDropped, lastLine, zeros, missed>>

Gives(s) ==
  /\ given' = given \cup CharsIn(s)
  /\ disorder' = (disorder \/ \E i \in DOMAIN s :
                     \E g \in given \cup {0} \cup {s[j] : j \in 1 .. i - 1} : s[i] <= g)
Returns(s) ==
  /\ Gives(s) /\ srOp' = NoCall
  /\ UNCHANGED <<kept, srDropped, lastLine, overtaken, missed>>

(* A stop character from the buffer is negative when its top bit is set,   *)
(* and is taken for a timeout; one from stlSerialGetch is not.             *)
TakesStop(fresh) == fresh \/ ~high

IsStop_InBuffer(c, fresh) == c \in SrLineEnds /\ ~fresh      \* mutant
IsStop(c, fresh) == c \in SrLineEnds

SrWith(c, fresh) ==
  LET got == Append(srOp.got, c)
  IN CASE srOp.kind \in {"getch", "max", "length"} ->
            IF Len(got) = srOp.want THEN Returns(got)
            ELSE srOp' = [srOp EXCEPT !.got = got]
                 /\ UNCHANGED <<given, disorder, kept, srDropped, lastLine, overtaken, missed>>
       [] srOp.kind = "line" /\ IsStop(c, fresh) ->
            IF TakesStop(fresh)
              THEN /\ Gives(got) /\ lastLine' = srOp.got /\ srOp' = NoCall
                   /\ UNCHANGED <<kept, srDropped, overtaken, missed>>
              ELSE /\ kept' = <<srOp.got>> /\ srOp' = NoCall
                   /\ srDropped' = srDropped \cup {c} /\ missed' = TRUE
                   /\ UNCHANGED <<given, disorder, lastLine, overtaken>>
       [] OTHER ->
            /\ srOp' = [srOp EXCEPT !.got = got]
            /\ UNCHANGED <<given, disorder, kept, srDropped, lastLine, overtaken, missed>>

Clearing == srOp.kind = "clear"

(* The next character is in the buffer.                                    *)
FromBuffer ==
  /\ srOp # NoCall /\ ~Clearing /\ bufOfs < bufLen
  /\ bufOfs' = bufOfs + 1 /\ SrWith(buf[bufOfs + 1], FALSE)
  /\ UNCHANGED <<high, readTo, buf, bufLen, zeros>>

(* _stlSerialRead, and stlSerialGetch that takes the first character of    *)
(* sBuf, whether it read any or not.                                       *)
AfterFirst_Same == 0                                         \* mutant
AfterFirst == 1
FromPort ==
  /\ srOp # NoCall /\ (Clearing \/ bufOfs >= bufLen)
  /\ \E n \in 0 .. BufSize :
       /\ readTo + n <= SrTotal
       /\ n = 0 => zeros < MaxZeros
       /\ zeros' = zeros + (IF n = 0 THEN 1 ELSE 0)
       /\ readTo' = readTo + n /\ bufLen' = n
       /\ buf' = [i \in 1 .. BufSize |-> IF i <= n THEN readTo + i ELSE buf[i]]
       /\ IF Clearing
          THEN /\ srDropped' = srDropped \cup CharsIn(SubSeq(buf, bufOfs + 1, bufLen))
               /\ bufOfs' = 0
               /\ UNCHANGED <<srOp, kept, given, disorder, lastLine, overtaken, missed>>
          ELSE bufOfs' = AfterFirst /\ SrWith(IF n = 0 THEN buf[1] ELSE readTo + 1, TRUE)
  /\ UNCHANGED high

(* The time is over: a block is returned as far as it came, a line is kept,*)
(* a fixed length is thrown away, and the buffer is clear.                 *)
LineAfterTimeout_None(s) == << >>                            \* mutant
LineAfterTimeout(s) == <<s>>
Timeout ==
  /\ srOp # NoCall /\ (Clearing \/ bufOfs >= bufLen)
  /\ \/ /\ srOp.kind \in {"getch", "max", "read"}
        /\ Returns(srOp.got) /\ UNCHANGED <<bufLen, bufOfs>>
     \/ /\ srOp.kind = "length"
        /\ srDropped' = srDropped \cup CharsIn(srOp.got) /\ srOp' = NoCall
        /\ UNCHANGED <<given, disorder, kept, lastLine, overtaken, missed, bufLen, bufOfs>>
     \/ /\ srOp.kind = "line"
        /\ kept' = LineAfterTimeout(srOp.got) /\ srOp' = NoCall
        /\ UNCHANGED <<given, disorder, srDropped, lastLine, overtaken, missed, bufLen, bufOfs>>
     \/ /\ Clearing
        /\ srDropped' = srDropped \cup CharsIn(SubSeq(buf, bufOfs + 1, bufLen)) \cup CharsIn(KeptLine)
        /\ bufLen' = 0 /\ bufOfs' = 0 /\ kept' = << >> /\ srOp' = NoCall
        /\ UNCHANGED <<given, disorder, lastLine, overtaken, missed>>
  /\ UNCHANGED <<high, readTo, buf, zeros>>

SrNext == CallSerial \/ FromBuffer \/ FromPort \/ Timeout

SrSpec == SrInit /\ [][SrNext]_srVars

-----------------------------------------------------------------------------
(* Properties.                                                             *)

(* Type invariant.                                                         *)
SrTypeOK ==
  /\ readTo \in 0 .. SrTotal /\ bufLen \in 0 .. BufSize /\ bufOfs \in 0 .. BufSize
  /\ Len(kept) <= 1 /\ srOp.kind \in Kinds \cup {"none"}
  /\ given \subseteq 0 .. readTo

(* No character that was read is lost: it was given to the program, thrown *)
(* away by a call that says so, or is in the buffer, the kept line or the  *)
(* call.                                                                   *)
NothingLost ==
  \A c \in 1 .. readTo :
    c \in given \cup srDropped \cup CharsIn(KeptLine) \cup CharsIn(srOp.got)
          \cup CharsIn(SubSeq(buf, bufOfs + 1, bufLen))

(* Characters are given in order and once each, unless a read gave nothing *)
(* (the character at the start of the buffer is then given again), or      *)
(* characters were asked for while the start of a line was kept.           *)
GivenInOrder ==
  zeros = 0 /\ ~overtaken => ~disorder

(* A line that is returned holds no stop character, and is what came one   *)
(* after the other, unless a read gave nothing, characters were asked for  *)
(* while the start of a line was kept, or a stop character was missed.     *)
LinesWhole ==
  /\ CharsIn(lastLine) \cap SrLineEnds = {}
  /\ zeros = 0 /\ ~overtaken /\ ~missed
       => \A i \in 2 .. Len(lastLine) : lastLine[i] = lastLine[i - 1] + 1

(* All of it: what the port receives is given once, in order, in whole     *)
(* lines.                                                                  *)
LinesKept == SrTypeOK /\ NothingLost /\ GivenInOrder /\ LinesWhole
=============================================================================
