------------------------------ MODULE StrBase -------------------------------
(***************************************************************************)
(* _strTlGetOfs and _strTlGetOfsW of strtl_base.c: where a field is, among *)
(* delimiters c, in what is between the offsets st and en of a string.     *)
(***************************************************************************)
EXTENDS Integers, Sequences

(* <<start, end, result>>.  The result is the number of delimiters that    *)
(* are missing, negative when they are missing in front.                   *)

BeyondLast_Not(n, en, st) == st                              \* mutant
BeyondLast(n, en, st) == IF n > 1 THEN en ELSE st

RECURSIVE Forward(_, _, _, _, _, _)
Forward(s, c, n, i, st, en) ==
  IF i = en THEN <<BeyondLast(n, en, st), en, n - 1>>
  ELSE IF s[i + 1] # c THEN Forward(s, c, n, i + 1, st, en)
  ELSE IF n = 1 THEN <<st, i, 0>>
  ELSE Forward(s, c, n - 1, i + 1, IF n = 2 THEN i + 1 ELSE st, en)

RECURSIVE Backward(_, _, _, _, _, _)
Backward(s, c, n, i, st, en) ==
  IF i = st THEN <<st, IF n < -2 THEN st ELSE en, n + 2>>
  ELSE IF s[i] # c THEN Backward(s, c, n, i - 1, st, en)
  ELSE IF n = -2 THEN <<i, en, 0>>
  ELSE Backward(s, c, n + 1, i - 1, st, IF n = -3 THEN i - 1 ELSE en)

GetOfs(s, c, n, st, en) ==
  CASE n = 0 -> <<st, en, 0>>
    [] n > 0 -> Forward(s, c, n, st, st, en)
    [] n = -1 -> <<en, en, IF en > st THEN 1 ELSE 0>>
    [] OTHER -> Backward(s, c, n, en, st, en)

-----------------------------------------------------------------------------
(* The match of a name with a pattern of '?' and '*' (patmat of            *)
(* stl_fileFind.cpp, and of cSTP.cpp).  Both are sequences of characters.  *)

STAR == 42      \* '*'
ANYCHAR == 63   \* '?'

(* From the i-th character of the pattern and the j-th of the name on.     *)
Rest_Star(m, i, j, s) == m[i + 1, j]                         \* mutant
StarMatches(m, i, j, s) == m[i + 1, j] \/ (j <= Len(s) /\ m[i, j + 1])
patmat(pat, s) ==
  LET m[i \in 1 .. Len(pat) + 1, j \in 1 .. Len(s) + 1] ==
        IF i > Len(pat) THEN j > Len(s)
        ELSE CASE pat[i] = STAR -> StarMatches(m, i, j, s)
               [] pat[i] = ANYCHAR -> j <= Len(s) /\ m[i + 1, j + 1]
               [] OTHER -> j <= Len(s) /\ pat[i] = s[j] /\ m[i + 1, j + 1]
  IN m[1, 1]

-----------------------------------------------------------------------------
(* What a match is: the characters of the pattern stand, in order, for the *)
(* pieces of the name, '*' for any piece, '?' for one of one character.    *)
StandsFor(c, piece) == \/ c = STAR \/ (c = ANYCHAR /\ Len(piece) = 1) \/ piece = <<c>>
Cuts(n, k) == {cut \in [0 .. k -> 0 .. n] : cut[0] = 0 /\ cut[k] = n /\ \A i \in 1 .. k : cut[i - 1] <= cut[i]}
IsMatch(pat, s) ==
  \E cut \in Cuts(Len(s), Len(pat)) :
    \A i \in 1 .. Len(pat) : StandsFor(pat[i], SubSeq(s, cut[i - 1] + 1, cut[i]))
=============================================================================
