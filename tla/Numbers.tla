------------------------------ MODULE Numbers -------------------------------
(***************************************************************************)
(* Formulas (mathEvaluate of stl_math.cpp) and averages of the last N      *)
(* samples (stl_MovingAverage.h).  A formula is a sequence of tokens, that *)
(* grows by one at a time; division and variables are left out.  A moving  *)
(* average counts its samples in an unsigned number of a limited width.    *)
(* Behind them: the calendar, and timers and reports.                      *)
(***************************************************************************)
EXTENDS Integers, Sequences, FiniteSets
LOCAL INSTANCE SequencesExt

OPEN == -1
CLOSE == -2
PLUS == -3
MINUS == -4
TIMES == -5
POWER == -6

CONSTANTS
  Operands, Operators,   (* tokens of a formula                            *)
  MaxTokens,             (* BOUND: length of a formula                     *)
  N,                     (* samples of an average                          *)
  CountMod,              (* numbers of a counter, 2^32 in the code         *)
  Samples, MaxSamples    (* BOUNDS: values added, how many                 *)
ASSUME NumbersAssumption ==
  /\ Operands \subseteq Nat /\ Operators \subseteq {PLUS, MINUS, TIMES, POWER}
  /\ N \in Nat \ {0} /\ CountMod \in Nat /\ CountMod > N /\ Samples \subseteq Int

VARIABLES
  formula,
  avg,                   (* samples_, num_samples_, total_                 *)
  given                  (* all samples, and the total at the last wrap   *)
numVars == <<formula, avg, given>>

-----------------------------------------------------------------------------
(* calculate(): stacks of values and operators, their tops at 1.           *)
Evaluate(a, b, op) ==
  CASE op = PLUS -> a + b
    [] op = MINUS -> a - b
    [] op = TIMES -> a * b
    [] op = POWER -> IF b >= 0 THEN a ^ b ELSE IF a = 1 THEN 1 ELSE 0
    [] OTHER -> 0
Prior_Flat(op) == IF op = OPEN THEN 0 ELSE 1                  \* mutant
Prior(op) == CASE op \in {PLUS, MINUS} -> 1 [] op = TIMES -> 2 [] op = POWER -> 4 [] OTHER -> 0

ValueAt(s, i) == IF i <= Len(s) THEN s[i] ELSE 0
(* Without an operator, the code reads what is not there.                  *)
DoOp(st) ==
  IF st.ops = << >> THEN [st EXCEPT !.undefined = TRUE]
  ELSE [st EXCEPT !.ops = Tail(st.ops),
                  !.vals = <<Evaluate(ValueAt(st.vals, 2), ValueAt(st.vals, 1), Head(st.ops))>>
                             \o SubSeq(st.vals, 3, Len(st.vals))]
RECURSIVE DoWhile(_, _)
DoWhile(st, least) ==
  IF st.ops # << >> /\ Head(st.ops) # OPEN /\ least <= Prior(Head(st.ops))
  THEN DoWhile(DoOp(st), least) ELSE st
Closed(st) ==
  LET d == DoWhile(st, 0)
  IN IF d.ops = << >> THEN [d EXCEPT !.undefined = TRUE] ELSE [d EXCEPT !.ops = Tail(@)]
Take(st, token) ==
  CASE token \in Operands -> [st EXCEPT !.vals = <<token>> \o @]
    [] token = OPEN -> [st EXCEPT !.ops = <<token>> \o @]
    [] token = CLOSE -> Closed(st)
    [] OTHER -> LET d == DoWhile(st, Prior(token)) IN [d EXCEPT !.ops = <<token>> \o @]

(* The last operator only is done at the end; (int)(v + 0.5) cuts towards  *)
(* zero.                                                                   *)
ToInt(v) == IF v >= 0 THEN v ELSE v + 1
Undefined == << >>
Calculate(f) ==
  LET st == DoOp(FoldLeft(Take, [vals |-> << >>, ops |-> << >>, undefined |-> FALSE], f))
  IN IF st.undefined THEN Undefined ELSE <<ToInt(Head(st.vals))>>

-----------------------------------------------------------------------------
(* MovingAverage<T, N>.                                                    *)
Ring == 0 .. N - 1
NoSamples == [samples |-> [i \in Ring |-> 0], num |-> 0, total |-> 0]
NextCount(n) == (n + 1) % CountMod
Overwritten_Not(m) == 0                                         \* mutant
Overwritten(m) == IF m.num < N THEN 0 ELSE m.samples[m.num % N]
AddSample(m, x) ==
  [samples |-> [m.samples EXCEPT ![m.num % N] = x],
   num |-> NextCount(m.num), total |-> m.total + x - Overwritten(m)]
At(m, idx) == IF idx \in Ring THEN m.samples[(m.num + N - (1 + idx)) % N] ELSE m.samples[0]
SumRing(m) == FoldLeft(LAMBDA a, i : a + m.samples[i - 1], 0, [i \in 1 .. N |-> i])

-----------------------------------------------------------------------------
(* Formulas as they are written: an operand, or what is between two        *)
(* parentheses, then an operator, and so on.                               *)
Depth(f) == Len(SelectSeq(f, LAMBDA t : t = OPEN)) - Len(SelectSeq(f, LAMBDA t : t = CLOSE))
AfterOperand(f) == f # << >> /\ f[Len(f)] \in Operands \cup {CLOSE}
Complete(f) == AfterOperand(f) /\ Depth(f) = 0
Tokens(f) ==
  IF AfterOperand(f) THEN Operators \cup (IF Depth(f) > 0 THEN {CLOSE} ELSE {})
  ELSE Operands \cup {OPEN}

NumInit == formula = << >> /\ avg = NoSamples /\ given = [all |-> << >>, lost |-> 0]
WriteToken ==
  /\ \E t \in Tokens(formula) :
       /\ Len(formula) + Depth(Append(formula, t)) < MaxTokens
       /\ formula' = Append(formula, t)
  /\ UNCHANGED <<avg, given>>
Sample ==
  /\ Len(given.all) < MaxSamples
  /\ \E x \in Samples :
       /\ avg' = AddSample(avg, x)
       /\ given' = [all |-> Append(given.all, x),
                    lost |-> IF avg'.num = 0 THEN avg'.total ELSE given.lost]
  /\ UNCHANGED formula
NumNext == (given.all = << >> /\ WriteToken) \/ (formula = << >> /\ Sample)

-----------------------------------------------------------------------------
(* What a formula is worth: of the operators outside parentheses, the last *)
(* of the lowest priority is done last.                                    *)
Binds(op) == CASE op \in {PLUS, MINUS} -> 1 [] op = TIMES -> 2 [] op = POWER -> 3
Outside(f) == {k \in DOMAIN f : f[k] \in Operators /\ Depth(SubSeq(f, 1, k)) = 0}
LastDone(f) == CHOOSE k \in Outside(f) :
  \A j \in Outside(f) : Binds(f[k]) < Binds(f[j]) \/ (Binds(f[k]) = Binds(f[j]) /\ j <= k)
RightOf(f) == SubSeq(f, LastDone(f) + 1, Len(f))
RECURSIVE Worth(_)
Worth(f) ==
  IF Outside(f) = {} THEN (IF Len(f) = 1 THEN f[1] ELSE Worth(SubSeq(f, 2, Len(f) - 1)))
  ELSE Evaluate(Worth(SubSeq(f, 1, LastDone(f) - 1)), Worth(RightOf(f)), f[LastDone(f)])

(* A formula without an operator outside parentheses is not defined, and   *)
(* one that ends in operators of rising priority gives the last of them    *)
(* only: 1+2*3 is 6 (stl_math.cpp:30).  All others give what they are      *)
(* worth, negative values one too much (line 31).                          *)
RECURSIVE LastPart(_)
LastPart(f) == IF Outside(RightOf(f)) = {} THEN f ELSE LastPart(RightOf(f))
FormulasRight ==
  Complete(formula) =>
    Calculate(formula) =
      IF Outside(formula) = {} THEN Undefined ELSE <<ToInt(Worth(LastPart(formula)))>>

(* The total is the sum of the last N samples, until the counter wraps:    *)
(* what is kept then is in the total for ever (stl_MovingAverage.h:27-38). *)
Newest(k) == FoldLeft(LAMBDA a, b : a + b, 0, SubSeq(given.all, Len(given.all) - k + 1, Len(given.all)))
AverageOfLast ==
  /\ avg.total = given.lost + Newest(IF avg.num < N THEN avg.num ELSE N)
  /\ Len(given.all) < CountMod =>
       /\ given.lost = 0
       /\ \A i \in Ring : i < Len(given.all) => At(avg, i) = given.all[Len(given.all) - i]

(* Formulas and averages are worth what they should be, but for the cases  *)
(* named above.                                                            *)
NumbersKept == FormulasRight /\ AverageOfLast

-----------------------------------------------------------------------------
(***************************************************************************)
(* The calendar of libStl (stl_date.c): days counted from 1 January 1968,  *)
(* weekdays, numbers of weeks, Julian dates, and the difference between    *)
(* local time and UTC (also tzoffset of stl_mailUtil.c).  The state walks  *)
(* from day to day by the rules of the calendar; the functions of the code *)
(* are compared with it on every day it reaches.                           *)
(***************************************************************************)

CONSTANTS
  FirstDates,            (* BOUND: days <<y, m, d>> a walk begins at       *)
  Walk,                  (* BOUND: days of a walk                          *)
  WeekRules,             (* values of <<iFirstDay, iMinDays>>              *)
  Zones,                 (* minutes local time is ahead of UTC             *)
  Seconds                (* seconds of a day a clock is read at            *)
ASSUME CalendarAssumption ==
  /\ Walk \in Nat /\ Zones \subseteq -1439 .. 1439 /\ Seconds \subseteq 0 .. 86399
  /\ WeekRules \subseteq (0 .. 7) \X (0 .. 7)

VARIABLES
  today,                 (* <<y, m, d>>                                    *)
  walked                 (* days since the walk began                      *)
calVars == <<today, walked>>

-----------------------------------------------------------------------------
(* C divides towards zero.                                                 *)
Quot(a, b) == IF a >= 0 THEN a \div b ELSE -((-a) \div b)
Rem(a, b) == a - b * Quot(a, b)
Clamp(x, lo, hi) == IF x < lo THEN lo ELSE IF x > hi THEN hi ELSE x

MonthDays(y) == <<31, IF y % 4 = 0 THEN 29 ELSE 28, 31, 30, 31, 30, 31, 31, 30, 31, 30, 31>>
Until(y, m) == FoldLeft(LAMBDA a, b : a + b, 0, SubSeq(MonthDays(y), 1, m))

LeapDay_Always(k) == IF Rem(k, 4) # 0 THEN 1 ELSE 0          \* mutant
LeapDay(k) == IF k >= 0 /\ Rem(k, 4) # 0 THEN 1 ELSE 0
DateToInt(yy, mm, dd) ==
  LET y == IF yy < 100 THEN yy + 2000 ELSE yy
      m == Clamp(mm, 1, 12)
      k == y - 1968
  IN Rem(k, 4) * 365 + Quot(k, 4) * 1461 + LeapDay(k) + Until(y, m - 1)
       + Clamp(dd, 1, MonthDays(y)[m])

(* Within four years, the loops add or take off a year at a time.          *)
YearsOn(day) == Cardinality({c \in {366, 731, 1096} : day > c})
YearsBack(day) == Cardinality({c \in {0, -365, -730, -1095} : day <= c})
IntToDate(day) ==
  LET c == Quot(day - 1, 1461)
      r == day - c * 1461
      on == YearsOn(r)
      back == YearsBack(r)
      left == r - (IF on > 0 THEN 365 * on + 1 ELSE 0) + 365 * back + (IF back = 4 THEN 1 ELSE 0)
      y == 1968 + 4 * c + on - back
      m == CHOOSE i \in 1 .. 12 : Until(y, i - 1) < left /\ left <= Until(y, i)
  IN <<y, m, left - Until(y, m - 1)>>

IntToWeekday(iDate) == (iDate % 7) + 1                       (* 1 = Sunday *)

FirstDay(r) == IF r[1] <= 0 THEN 2 ELSE r[1]
MinDays(r) == IF r[2] <= 0 THEN 4 ELSE r[2]
LateYear_Never(h, r) == FALSE                                \* mutant
LateYear(h, r) == h >= MinDays(r)
FirstWeekStart(yy, r) ==
  LET h == IntToWeekday(DateToInt(yy, 1, 1) - FirstDay(r))
  IN DateToInt(yy, 1, 1) - h + (IF LateYear(h, r) THEN 7 ELSE 0)

(* A number without a year is a week of the year of the clock.             *)
WeekToDateEx(iWeek, now, r) ==
  LET yy == iWeek \div 100
  IN FirstWeekStart(IF yy <= 0 THEN now ELSE yy, r) + (iWeek - 1) * 7

RECURSIVE DateToWeekEx(_, _, _, _)
DateToWeekEx(yy, mm, dd, r) ==
  LET iDate == DateToInt(yy, mm, dd)
  IN IF iDate < FirstWeekStart(yy, r) THEN DateToWeekEx(yy - 1, 12, 31, r)
     ELSE IF iDate >= FirstWeekStart(yy + 1, r) THEN DateToWeekEx(yy + 1, 1, 1, r)
     ELSE yy * 100 + (iDate - FirstWeekStart(yy, r)) \div 7 + 1

-----------------------------------------------------------------------------
(* A Julian date is a double: a whole day, and a fraction of which the     *)
(* last bit is 2^-31 day: 86400 s = 2^31 units, 1 s = 24855 + 91/675.      *)
JulianDate(date, s) ==
  [day |-> DateToInt(date[1], date[2], date[3]), part |-> 24855 * s + ((182 * s + 675) \div 1350)]
Julian2Date(j) == IntToDate(j.day)
(* stlJulian2Time cuts off what is less than a second.                     *)
Julian2Time(j) ==
  LET q == j.part \div 24855 IN IF 675 * (j.part % 24855) >= 91 * q THEN q ELSE q - 1

(* tzOffset: the seconds between two readings, first of UTC, then of local *)
(* time, rounded to 10.                                                    *)
Rounded_Down(x) == (x \div 10) * 10                          \* mutant
Rounded(x) == ((x + 5) \div 10) * 10
TzOffset(utc, loc) ==
  LET ahead == 86400 * (DateToInt(loc.date[1], loc.date[2], loc.date[3])
                          - DateToInt(utc.date[1], utc.date[2], utc.date[3])) + loc.s - utc.s
  IN IF ahead > 0 THEN -Rounded(ahead) ELSE Rounded(-ahead)

(* tzoffset of the mail: of years, days of the year, and minutes.          *)
DayBetween_OfYear(gmt, lt) ==                                \* mutant
  IF lt.yday < gmt.yday THEN -1 ELSE IF lt.yday > gmt.yday THEN 1 ELSE 0
DayBetween(gmt, lt) ==
  IF lt.year # gmt.year THEN (IF lt.year < gmt.year THEN -1 ELSE 1)
  ELSE IF lt.yday < gmt.yday THEN -1 ELSE IF lt.yday > gmt.yday THEN 1 ELSE 0
MailOffset(gmt, lt) == lt.min - gmt.min + 24 * 60 * DayBetween(gmt, lt)

-----------------------------------------------------------------------------
(* What the calendar is: external to the code.                             *)
Leap(y) == y % 4 = 0 /\ (y % 100 # 0 \/ y % 400 = 0)
DaysIn(y, m) == IF m = 2 THEN (IF Leap(y) THEN 29 ELSE 28) ELSE IF m \in {4, 6, 9, 11} THEN 30 ELSE 31
After1(d) ==
  IF d[3] < DaysIn(d[1], d[2]) THEN <<d[1], d[2], d[3] + 1>>
  ELSE IF d[2] < 12 THEN <<d[1], d[2] + 1, 1>> ELSE <<d[1] + 1, 1, 1>>
Before1(d) ==
  IF d[3] > 1 THEN <<d[1], d[2], d[3] - 1>>
  ELSE IF d[2] > 1 THEN <<d[1], d[2] - 1, DaysIn(d[1], d[2] - 1)>> ELSE <<d[1] - 1, 12, 31>>
YearDay(d) == d[3] + FoldLeft(LAMBDA a, b : a + b, 0, [m \in 1 .. d[2] - 1 |-> DaysIn(d[1], m)])
(* 1 January 1968 is day 718432 of the Gregorian calendar.                 *)
DayNumber(d) ==
  LET y == d[1] - 1
  IN 365 * y + y \div 4 - y \div 100 + y \div 400 + YearDay(d) - 718431

CalInit == today \in FirstDates /\ walked = 0
Tomorrow == walked < Walk /\ walked' = walked + 1 /\ today' = After1(today)
CalNext == Tomorrow
CalSpec == CalInit /\ [][CalNext]_calVars
-----------------------------------------------------------------------------
(* A day and its number are each other's; years without a century are of   *)
(* this one, days beyond the end of a month are its last (stl_date.c:52).  *)
CountsDays ==
  LET n == DayNumber(today)
  IN /\ DateToInt(today[1], today[2], today[3]) = n
     /\ IntToDate(n) = today
     /\ today[1] \in 2000 .. 2099 => DateToInt(today[1] - 2000, today[2], today[3]) = n
     /\ DateToInt(today[1], today[2], 31) = n - today[3] + DaysIn(today[1], today[2])

(* A week belongs to the year that has 8 - iMinDays of its days or more,   *)
(* and is the one of its number counted from the first of them             *)
(* (stl_date.c:156, 187).                                                  *)
WeekBegin(n, r) == n - ((IntToWeekday(n) - FirstDay(r)) % 7)
NewYear(y) == DayNumber(<<y, 1, 1>>)
HasEnough(b, y, r) == b + 7 - NewYear(y) >= 8 - MinDays(r)
WeekYear(b, r) ==
  CHOOSE y \in today[1] - 1 .. today[1] + 1 : HasEnough(b, y, r) /\ ~HasEnough(b, y + 1, r)
WeekNumber(b, r) ==
  LET y == WeekYear(b, r)
  IN Cardinality({k \in 0 .. 53 : HasEnough(b - 7 * k, y, r)})
(* The first day of a week is found from its number when that has no year; *)
(* with one, the year is counted as weeks, too: 100 of them (line 161).    *)
WeeksOfYear ==
  \A r \in WeekRules :
    LET b == WeekBegin(DayNumber(today), r)
        y == WeekYear(b, r)
        w == WeekNumber(b, r)
    IN /\ DateToWeekEx(today[1], today[2], today[3], r) = 100 * y + w
       /\ WeekToDateEx(w, y, r) = b
       /\ WeekToDateEx(100 * y + w, today[1], r) = b + 700 * y

(* A Julian date gives its day back, and its time or the second before it: *)
(* it is the second before whenever the double was rounded down            *)
(* (stl_date.c:497).                                                       *)
JulianTimes ==
  \A s \in Seconds :
    LET j == JulianDate(today, s)
        up == (182 * s) % 1350 = 0 \/ (182 * s) % 1350 > 675
    IN Julian2Date(j) = today /\ Julian2Time(j) = IF up THEN s ELSE s - 1

(* Both ways to tell how far local time is from UTC are right in every     *)
(* zone at every moment, tzOffset also when up to 4 s pass between its     *)
(* readings (stl_date.c:361).                                              *)
Reads(t) ==
  IF t < 0 THEN [date |-> Before1(today), s |-> t + 86400]
  ELSE IF t >= 86400 THEN [date |-> After1(today), s |-> t - 86400]
  ELSE [date |-> today, s |-> t]
Tm(c) == [year |-> c.date[1], yday |-> YearDay(c.date), min |-> c.s \div 60]
ZonesRight ==
  \A s \in Seconds, z \in Zones :
    /\ \A d \in {0, 4} : TzOffset(Reads(s), Reads(s + d + 60 * z)) = -60 * z
    /\ MailOffset(Tm(Reads(s)), Tm(Reads(s + 60 * z))) = z

(* Dates, weeks, Julian dates and zones are what a calendar says, from     *)
(* March 1900 to February 2100 (stl_date.c:58-502, stl_mailUtil.c:47).     *)
CalendarKept == CountsDays /\ WeeksOfYear /\ JulianTimes /\ ZonesRight

-----------------------------------------------------------------------------
(***************************************************************************)
(* The clocks of libStl: timers that wrap (stl_timer.c), the stamps of     *)
(* stlHiresTimer and the limit of its reports (stlHiresTimer.cpp), and the *)
(* time of day with its milliseconds (stl_date.c).  A program has one of   *)
(* them at a time: use.  The clock is true, what the code reads is a       *)
(* number of a limited width.                                              *)
(***************************************************************************)

CONSTANTS
  TimerMod,              (* numbers of a timer, 2^32 in the code           *)
  SECOND,                (* milliseconds of a second                       *)
  Limit, Leak,           (* reports allowed, ms after which one is again:  *)
                         (* 100 and 10 in the code                         *)
  Items,                 (* stamps of a timer, 20 in the code              *)
  Steps, MaxClock        (* BOUNDS: how far the clock goes at once, in all *)
ASSUME TimersAssumption ==
  /\ {TimerMod, SECOND, Limit, Leak, Items} \subseteq Nat \ {0}
  /\ Steps \subseteq Nat /\ \A s \in Steps : s < TimerMod

VARIABLES
  use,
  clock,
  reports,               (* reportCount, reportCleanMS; when one was made  *)
  hires,                 (* iTimeA, iTimeS; when they were taken           *)
  day                    (* the reading of a date: its second, its moments *)
tmVars == <<use, clock, reports, hires, day>>

(* stlMsTimer, stlUsTimer.                                                 *)
Timer(old) == (clock - old) % TimerMod

-----------------------------------------------------------------------------
(* reportCleanup: one report less for every Leak ms since the last         *)
(* clean-up that took one off; the rest of the time is lost.               *)
Forgotten_All(dif) == dif                                    \* mutant
Forgotten(dif) == dif \div Leak
Cleaned(r) ==
  LET dif == Timer(r.clean)
      cnt == IF r.count > Forgotten(dif) THEN r.count - Forgotten(dif) ELSE 0
  IN IF r.count > 0 /\ cnt # r.count
     THEN [r EXCEPT !.clean = (@ + dif) % TimerMod, !.count = cnt] ELSE r
Refused(r) == r.count > Limit
Report ==
  LET r == Cleaned(reports)
  IN reports' = IF Refused(r) THEN r
                ELSE [r EXCEPT !.count = @ + 1, !.made = Append(@, clock)]

-----------------------------------------------------------------------------
(* reset, start and stamp; 0 in iTimeS stands for no start.                *)
Fresh == [a |-> <<Timer(0)>>, s |-> <<0>>, at |-> <<clock>>, from |-> <<clock>>]
HasRoom(h) == Len(h.a) < Items
Reset == hires' = Fresh
Start ==
  /\ HasRoom(hires)
  /\ hires' = [hires EXCEPT !.s = Append(SubSeq(@, 1, Len(hires.a)), Timer(0)),
                            !.from = Append(SubSeq(@, 1, Len(hires.a)), clock)]
Started(h) == Len(h.s) > Len(h.a)
Stamp ==
  /\ HasRoom(hires)
  /\ hires' = [a |-> Append(hires.a, Timer(0)), at |-> Append(hires.at, clock),
               s |-> IF Started(hires) THEN hires.s ELSE Append(hires.s, 0),
               from |-> IF Started(hires) THEN hires.from
                        ELSE Append(hires.from, hires.at[Len(hires.at)])]

(* reportAddTimings: the times between stamps, and their total.            *)
Began_Always(h, i) == h.s[i]                                 \* mutant
Began(h, i) == IF h.s[i] # 0 THEN h.s[i] ELSE h.a[i - 1]
Timing(h, i) == (h.a[i] - Began(h, i)) % TimerMod
Timings(h) == [i \in 1 .. Len(h.a) - 1 |-> Timing(h, i + 1)]

-----------------------------------------------------------------------------
(* stlDateTimeGetUTC reads time() first, then the milliseconds.            *)
ReadSecond == day.pc = "idle" /\ day' = [day EXCEPT !.pc = "ms", !.sec = clock \div SECOND, !.first = clock]
Milliseconds_Whole == clock                                  \* mutant
Milliseconds == clock % SECOND
ReadMs ==
  /\ day.pc = "ms"
  /\ day' = [day EXCEPT !.pc = "idle", !.last = clock, !.told = SECOND * day.sec + Milliseconds]

-----------------------------------------------------------------------------
TmInit ==
  /\ use \in {"reports", "stamps", "day"} /\ clock = 0
  /\ reports = [count |-> 0, clean |-> 0, made |-> << >>]
  /\ hires = Fresh
  /\ day = [pc |-> "idle", sec |-> 0, first |-> clock, last |-> clock, told |-> clock]

Tick ==
  /\ \E d \in Steps : clock + d <= MaxClock /\ clock' = clock + d
  /\ UNCHANGED <<use, reports, hires, day>>
TmNext ==
  \/ Tick
  \/ /\ use = "reports" /\ Len(reports.made) < 2 * Limit + 5
     /\ Report /\ UNCHANGED <<use, clock, hires, day>>
  \/ use = "stamps" /\ (Reset \/ Start \/ Stamp) /\ UNCHANGED <<use, clock, reports, day>>
  \/ use = "day" /\ (ReadSecond \/ ReadMs) /\ UNCHANGED <<use, clock, reports, hires>>

-----------------------------------------------------------------------------
(* Within any time no more reports are made than the limit, two, and those *)
(* that were forgotten meanwhile: the first is forgotten at once, and the  *)
(* limit is tested before counting (stlHiresTimer.cpp:83).                 *)
ReportsLimited ==
  \A i, j \in DOMAIN reports.made :
    i <= j => j - i + 1 <= Limit + 2 + (reports.made[j] - reports.made[i]) \div Leak

(* What is reported between two stamps is the time since the last start,   *)
(* or since the stamp before, over a wrap of the timer, too; but a start   *)
(* at the moment the timer reads 0 is none (stlHiresTimer.cpp:66).         *)
TimingsTrue ==
  \A i \in 2 .. Len(hires.a) :
    LET began == IF hires.from[i] % TimerMod = 0 THEN hires.at[i - 1] ELSE hires.from[i]
    IN hires.at[i] - began < TimerMod => Timings(hires)[i - 1] = hires.at[i] - began

(* The time told with its milliseconds is never ahead of the clock, less   *)
(* than a second behind it, and right when no second began between the two *)
(* readings (stl_date.c:341).                                              *)
TimeTold ==
  day.pc = "idle" =>
    /\ day.told <= day.last
    /\ day.told > day.first - SECOND
    /\ day.first \div SECOND = day.last \div SECOND => day.told = day.last

(* Timers, reports and the time told keep to the clock.                    *)
TimersKept == ReportsLimited /\ TimingsTrue /\ TimeTold
=============================================================================
