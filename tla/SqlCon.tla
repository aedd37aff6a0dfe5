------------------------------- MODULE SqlCon -------------------------------
(***************************************************************************)
(* The connections of stl_sql.cpp, shared by threads: connecting, and a    *)
(* query that reconnects, is made again or selects its database again,     *)
(* according to the flags _sqlSetError leaves in iDbFlags.                 *)
(*                                                                         *)
(* A call is a list of steps still to do; a function that is called puts   *)
(* its steps in front of it.  ODBC and the server are external: a          *)
(* connection may go away between two calls of ODBC and in the middle of   *)
(* one, a connect may be refused, the server may forget the database that  *)
(* is in use.  _sqlInit is done before threads share the table; engines of *)
(* plugins and what a statement answers are left out.                      *)
(***************************************************************************)
EXTENDS Integers, Sequences, FiniteSets
LOCAL INSTANCE SequencesExt

CONSTANTS
  SqThreads, SqCons,       (* _MaxSqlCon_ connections, 10 in the code        *)
  ServerTypes,           (* kinds of server: "mysql", "postgres"           *)
  MaxSqCalls,            (* BOUND: calls                                   *)
  MaxSqFaults            (* BOUND: losses, refusals, databases forgotten   *)

ASSUME SqlConAssumption ==
  /\ ServerTypes \subseteq {"mysql", "postgres"}
  /\ MaxSqCalls \in Nat /\ MaxSqFaults \in Nat

Nobody == "nobody"
Flags == {"retry", "reconnect", "selectdb"}

VARIABLES
  server,                (* the kind of server of a connection             *)
  sqlMux, conMux,
  hDbc,                  (* "none" (0), "up", "gone": the server closed it *)
  inUse,                 (* the server has a database selected for it      *)
  sDbInfo, iDbType, iDbFlags,
  todo, con,             (* a thread's steps and its connection            *)
  wantId, aRes, dialled, (* lstId; the query has an answer; the result of  *)
                         (* _sqlConnect                                    *)
  sqCalls, sqFaults,
  done,                  (* HISTORY: times the call's statement was        *)
                         (* executed                                       *)
  hit,                   (* HISTORY: faults within the call                *)
  goneAfter,             (* HISTORY: calls that lost the connection in or  *)
                         (* after an execution                             *)
  stale,                 (* HISTORY: calls that found flags set            *)
  unsure,                (* HISTORY: connections whose version query       *)
                         (* failed                                         *)
  hitConnect             (* HISTORY: connections on which the last call    *)
                         (* was hit, and was no query                      *)

sqCon == <<hDbc, inUse, iDbType, iDbFlags, unsure>>
sqHist == <<done, hit, goneAfter, stale, hitConnect>>
sqVars == <<server, sqlMux, conMux, sqCon, sDbInfo, todo, con, wantId, aRes,
            dialled, sqCalls, sqFaults, sqHist>>

SqInit ==
  /\ server \in [SqCons -> ServerTypes]
  /\ sqlMux = Nobody /\ conMux = [c \in SqCons |-> Nobody]
  /\ hDbc = [c \in SqCons |-> "none"] /\ inUse = [c \in SqCons |-> FALSE]
  /\ sDbInfo = [c \in SqCons |-> FALSE]
  /\ iDbType = [c \in SqCons |-> "none"] /\ iDbFlags = [c \in SqCons |-> {}]
  /\ todo = [t \in SqThreads |-> << >>]
  /\ con = [t \in SqThreads |-> CHOOSE c \in SqCons : TRUE]
  /\ wantId = [t \in SqThreads |-> FALSE] /\ aRes = [t \in SqThreads |-> FALSE]
  /\ dialled = [t \in SqThreads |-> FALSE]
  /\ sqCalls = 0 /\ sqFaults = 0
  /\ done = [t \in SqThreads |-> 0] /\ hit = [t \in SqThreads |-> 0]
  /\ goneAfter = {} /\ stale = {} /\ unsure = {} /\ hitConnect = {}

Doing(t, step) == todo[t] # << >> /\ Head(todo[t]) = step
Then(t, steps) == todo' = [todo EXCEPT ![t] = steps \o Tail(@)]
Fault == sqFaults < MaxSqFaults /\ sqFaults' = sqFaults + 1
HitBy(t) == hit' = [hit EXCEPT ![t] = @ + 1]

-----------------------------------------------------------------------------
(* The calls of a thread.                                                  *)

QuerySteps == <<"lock", "begin", "own", "reconnect", "retry", "selectdb", "end">>
ConnectSteps == <<"lock sql", "lock", "info", "dial", "unlock", "unlock sql">>
DisconnectSteps == <<"lock", "drop", "unlock">>

SqCall(t) ==
  /\ todo[t] = << >> /\ sqCalls < MaxSqCalls
  /\ sqCalls' = sqCalls + 1
  /\ \E call \in {<<QuerySteps, FALSE>>, <<QuerySteps, TRUE>>,
                  <<ConnectSteps, FALSE>>, <<DisconnectSteps, FALSE>>} :
       /\ todo' = [todo EXCEPT ![t] = call[1]]
       /\ wantId' = [wantId EXCEPT ![t] = call[2]]
  /\ \E c \in SqCons : con' = [con EXCEPT ![t] = c]
  /\ aRes' = [aRes EXCEPT ![t] = FALSE]
  /\ done' = [done EXCEPT ![t] = 0] /\ hit' = [hit EXCEPT ![t] = 0]
  /\ dialled' = [dialled EXCEPT ![t] = FALSE]
  /\ goneAfter' = goneAfter \ {t} /\ stale' = stale \ {t}
  /\ UNCHANGED <<server, sqlMux, conMux, sqCon, sDbInfo, sqFaults, hitConnect>>

TakesSqlMux_Not(t) == TRUE                                 \* mutant
TakesSqlMux(t) == sqlMux = Nobody

LockSql(t) ==
  /\ Doing(t, "lock sql") /\ TakesSqlMux(t)
  /\ sqlMux' = t
  /\ Then(t, << >>)
  /\ UNCHANGED <<server, conMux, sqCon, sDbInfo, con, wantId, aRes, dialled, sqCalls, sqFaults, sqHist>>

(* A query may give up: stlMutexLockTo.                                    *)
LockCon(t) ==
  /\ Doing(t, "lock")
  /\ \/ /\ conMux[con[t]] = Nobody
        /\ conMux' = [conMux EXCEPT ![con[t]] = t]
        /\ Then(t, << >>)
        /\ UNCHANGED hit
     \/ /\ conMux[con[t]] # Nobody /\ todo[t] = QuerySteps
        /\ todo' = [todo EXCEPT ![t] = << >>]
        /\ HitBy(t)
        /\ UNCHANGED conMux
  /\ UNCHANGED <<server, sqlMux, sqCon, sDbInfo, con, wantId, aRes, dialled, sqCalls, sqFaults, done, goneAfter, stale, hitConnect>>

(* The flags of an earlier call stay: only those of the caller are set.    *)
BeginQuery(t) ==
  /\ Doing(t, "begin")
  /\ stale' = IF iDbFlags[con[t]] = {} THEN stale ELSE stale \cup {t}
  /\ Then(t, << >>)
  /\ UNCHANGED <<server, sqlMux, conMux, sqCon, sDbInfo, con, wantId, aRes, dialled, sqCalls, sqFaults, done, hit, goneAfter, hitConnect>>

SetInfo(t) ==
  /\ Doing(t, "info")
  /\ sDbInfo' = [sDbInfo EXCEPT ![con[t]] = TRUE]
  /\ Then(t, << >>)
  /\ UNCHANGED <<server, sqlMux, conMux, sqCon, con, wantId, aRes, dialled, sqCalls, sqFaults, sqHist>>

DropCon(t) ==
  /\ Doing(t, "drop")
  /\ hDbc' = [hDbc EXCEPT ![con[t]] = "none"]
  /\ Then(t, << >>)
  /\ UNCHANGED <<server, sqlMux, conMux, inUse, iDbType, iDbFlags, unsure, sDbInfo, con, wantId, aRes, dialled, sqCalls, sqFaults, sqHist>>

CleanFlags_NotReconnect(f) == f \ {"retry", "selectdb"}        \* mutant
CleanFlags(f) == f \ Flags

(* The end of a query, and of the other calls, which leave the flags.      *)
UnlockCon(t) ==
  /\ Doing(t, "end") \/ Doing(t, "unlock")
  /\ iDbFlags' = IF Doing(t, "end") THEN [iDbFlags EXCEPT ![con[t]] = CleanFlags(@)]
                 ELSE iDbFlags
  /\ conMux' = [conMux EXCEPT ![con[t]] = Nobody]
  /\ hitConnect' = IF Doing(t, "unlock") /\ hit[t] > 0 THEN hitConnect \cup {con[t]}
                   ELSE IF Doing(t, "end") THEN hitConnect \ {con[t]} ELSE hitConnect
  /\ Then(t, << >>)
  /\ UNCHANGED <<server, sqlMux, hDbc, inUse, iDbType, unsure, sDbInfo, con, wantId, aRes, dialled, sqCalls, sqFaults, done, hit, goneAfter, stale>>

UnlockSql(t) ==
  /\ Doing(t, "unlock sql")
  /\ sqlMux' = Nobody
  /\ Then(t, << >>)
  /\ UNCHANGED <<server, conMux, sqCon, sDbInfo, con, wantId, aRes, dialled, sqCalls, sqFaults, sqHist>>

-----------------------------------------------------------------------------
(* _sqlConnect.                                                            *)

(* What _sqlSetError makes of an error, for a connection known as MySQL.   *)
Flagged(c, flag) ==
  iDbFlags' = [iDbFlags EXCEPT ![c] = IF iDbType[c] = "mysql" THEN @ \cup {flag} ELSE @]

Dial(t) ==
  /\ Doing(t, "dial")
  /\ hDbc' = [hDbc EXCEPT ![con[t]] = "none"]
  /\ Then(t, <<"dialling">>)
  /\ UNCHANGED <<server, sqlMux, conMux, inUse, iDbType, iDbFlags, unsure, sDbInfo, con, wantId, aRes, dialled, sqCalls, sqFaults, sqHist>>

DialOk(t) ==
  /\ Doing(t, "dialling")
  /\ hDbc' = [hDbc EXCEPT ![con[t]] = "up"]
  /\ inUse' = [inUse EXCEPT ![con[t]] = FALSE]
  /\ iDbType' = [iDbType EXCEPT ![con[t]] = "none"]
  /\ dialled' = [dialled EXCEPT ![t] = TRUE]
  /\ Then(t, <<"version">>)
  /\ UNCHANGED <<server, sqlMux, conMux, iDbFlags, unsure, sDbInfo, con, wantId, aRes, sqCalls, sqFaults, sqHist>>

DialRefused(t) ==
  /\ Doing(t, "dialling") /\ Fault /\ HitBy(t)
  /\ Flagged(con[t], "reconnect")
  /\ dialled' = [dialled EXCEPT ![t] = FALSE]
  /\ Then(t, << >>)
  /\ UNCHANGED <<server, sqlMux, conMux, hDbc, inUse, iDbType, unsure, sDbInfo, con, wantId, aRes, sqCalls, done, goneAfter, stale, hitConnect>>

-----------------------------------------------------------------------------
(* _sqlDoQuery: the reconnect it begins with, and the statement.           *)

Statements == {"own", "id", "version", "use"}
DoQuery(t) == \E s \in Statements : Doing(t, s)
Statement(t) == Head(todo[t])

DoReconnect(t) ==
  /\ DoQuery(t) /\ hDbc[con[t]] = "none"
  /\ Then(t, IF sDbInfo[con[t]] THEN <<"dial", "test", Statement(t)>> ELSE << >>)
  /\ UNCHANGED <<server, sqlMux, conMux, sqCon, sDbInfo, con, wantId, aRes, dialled, sqCalls, sqFaults, sqHist>>

(* Not connected after all: the statement is not made.                     *)
DoTest(t) ==
  /\ Doing(t, "test")
  /\ todo' = [todo EXCEPT ![t] = IF hDbc[con[t]] = "none" THEN Tail(Tail(@)) ELSE Tail(@)]
  /\ UNCHANGED <<server, sqlMux, conMux, sqCon, sDbInfo, con, wantId, aRes, dialled, sqCalls, sqFaults, sqHist>>

NeedsDb(t) == Statement(t) = "own" /\ server[con[t]] = "mysql"

(* What follows on a statement: the type after the version query.          *)
Follow(t, ok) ==
  CASE Statement(t) = "own" -> IF ok /\ wantId[t] THEN <<"id">> ELSE << >>
    [] Statement(t) = "version" ->
         IF ok /\ server[con[t]] = "postgres" THEN << >> ELSE <<"use">>
    [] OTHER -> << >>
KnownType_Postgres(t, ok) == "postgres"                     \* mutant
KnownType(t, ok) == IF ok THEN server[con[t]] ELSE "mysql"
TypeAfter(t, ok) ==
  iDbType' = IF Statement(t) # "version" THEN iDbType
             ELSE [iDbType EXCEPT ![con[t]] = KnownType(t, ok)]
UnsureAfter(t, ok) ==
  unsure' = IF Statement(t) # "version" THEN unsure
            ELSE IF ok THEN unsure \ {con[t]} ELSE unsure \cup {con[t]}
Executed(t) == done' = IF Statement(t) = "own" THEN [done EXCEPT ![t] = @ + 1] ELSE done

StatementOk(t) ==
  /\ DoQuery(t) /\ hDbc[con[t]] = "up" /\ (NeedsDb(t) => inUse[con[t]])
  /\ Executed(t)
  /\ aRes' = IF Statement(t) = "own" THEN [aRes EXCEPT ![t] = TRUE] ELSE aRes
  /\ inUse' = IF Statement(t) = "use" THEN [inUse EXCEPT ![con[t]] = TRUE] ELSE inUse
  /\ TypeAfter(t, TRUE) /\ UnsureAfter(t, TRUE)
  /\ Then(t, Follow(t, TRUE))
  /\ UNCHANGED <<server, sqlMux, conMux, hDbc, iDbFlags, sDbInfo, con, wantId, dialled, sqCalls, sqFaults, hit, goneAfter, stale, hitConnect>>

(* Errors 1046 (no database selected) and 2006 (has gone away).            *)
StatementRefused(t) ==
  /\ DoQuery(t)
  /\ \/ hDbc[con[t]] = "gone" /\ Flagged(con[t], "reconnect")
     \/ hDbc[con[t]] = "up" /\ NeedsDb(t) /\ ~inUse[con[t]] /\ Flagged(con[t], "selectdb")
  /\ goneAfter' = IF done[t] > 0 /\ hDbc[con[t]] = "gone" THEN goneAfter \cup {t} ELSE goneAfter
  /\ aRes' = IF Statement(t) = "own" THEN [aRes EXCEPT ![t] = FALSE] ELSE aRes
  /\ TypeAfter(t, FALSE) /\ UnsureAfter(t, FALSE)
  /\ Then(t, Follow(t, FALSE))
  /\ UNCHANGED <<server, sqlMux, conMux, hDbc, inUse, sDbInfo, con, wantId, dialled, sqCalls, sqFaults, done, hit, stale, hitConnect>>

(* Error 2013, lost connection during query: executed, or not.             *)
StatementLost(t) ==
  /\ DoQuery(t) /\ hDbc[con[t]] = "up" /\ Fault /\ HitBy(t)
  /\ hDbc' = [hDbc EXCEPT ![con[t]] = "gone"]
  /\ Flagged(con[t], "retry")
  /\ Executed(t) \/ UNCHANGED done
  /\ goneAfter' = IF done'[t] > 0 THEN goneAfter \cup {t} ELSE goneAfter
  /\ aRes' = IF Statement(t) = "own" THEN [aRes EXCEPT ![t] = FALSE] ELSE aRes
  /\ TypeAfter(t, FALSE) /\ UnsureAfter(t, FALSE)
  /\ Then(t, Follow(t, FALSE))
  /\ UNCHANGED <<server, sqlMux, conMux, inUse, sDbInfo, con, wantId, dialled, sqCalls, stale, hitConnect>>

-----------------------------------------------------------------------------
(* stlSqlConQuery after the first _sqlDoQuery.                             *)

TestReconnect(t) ==
  /\ Doing(t, "reconnect")
  /\ Then(t, IF "reconnect" \in iDbFlags[con[t]] THEN <<"dial", "dialled">> ELSE << >>)
  /\ UNCHANGED <<server, sqlMux, conMux, sqCon, sDbInfo, con, wantId, aRes, dialled, sqCalls, sqFaults, sqHist>>

AfterReconnect_Not(t) == iDbFlags[con[t]]                    \* mutant
AfterReconnect(t) == IF dialled[t] THEN iDbFlags[con[t]] \cup {"retry"} ELSE iDbFlags[con[t]]

Reconnected(t) ==
  /\ Doing(t, "dialled")
  /\ iDbFlags' = [iDbFlags EXCEPT ![con[t]] = AfterReconnect(t)]
  /\ Then(t, << >>)
  /\ UNCHANGED <<server, sqlMux, conMux, hDbc, inUse, iDbType, unsure, sDbInfo, con, wantId, aRes, dialled, sqCalls, sqFaults, sqHist>>

(* The first answer is freed before the statement is made again.           *)
RetrySteps_Twice(t) == <<"own", "own">>                      \* mutant
RetrySteps(t) == <<"own">>

Retry(t) ==
  /\ Doing(t, "retry")
  /\ IF "retry" \in iDbFlags[con[t]]
       THEN /\ iDbFlags' = [iDbFlags EXCEPT ![con[t]] = @ \ {"retry"}]
            /\ aRes' = [aRes EXCEPT ![t] = FALSE]
            /\ Then(t, RetrySteps(t))
       ELSE Then(t, << >>) /\ UNCHANGED <<iDbFlags, aRes>>
  /\ UNCHANGED <<server, sqlMux, conMux, hDbc, inUse, iDbType, unsure, sDbInfo, con, wantId, dialled, sqCalls, sqFaults, sqHist>>

SelectDb(t) ==
  /\ Doing(t, "selectdb")
  /\ IF "selectdb" \in iDbFlags[con[t]] /\ iDbType[con[t]] = "mysql" /\ sDbInfo[con[t]]
       THEN Then(t, <<"use", "own">>) /\ aRes' = [aRes EXCEPT ![t] = FALSE]
       ELSE Then(t, << >>) /\ UNCHANGED aRes
  /\ UNCHANGED <<server, sqlMux, conMux, sqCon, sDbInfo, con, wantId, dialled, sqCalls, sqFaults, sqHist>>

-----------------------------------------------------------------------------
(* The server.                                                             *)

ServerFault ==
  /\ Fault
  /\ \E c \in SqCons :
       /\ hDbc[c] = "up"
       /\ \/ hDbc' = [hDbc EXCEPT ![c] = "gone"] /\ UNCHANGED inUse
          \/ inUse[c] /\ inUse' = [inUse EXCEPT ![c] = FALSE] /\ UNCHANGED hDbc
       /\ hit' = [t \in SqThreads |-> IF conMux[c] = t THEN hit[t] + 1 ELSE hit[t]]
       /\ goneAfter' = goneAfter \cup {t \in SqThreads : conMux[c] = t /\ done[t] > 0}
  /\ UNCHANGED <<server, sqlMux, conMux, iDbType, iDbFlags, unsure, sDbInfo, todo, con, wantId, aRes, dialled, sqCalls, done, stale, hitConnect>>

-----------------------------------------------------------------------------

SqStep(t) ==
  \/ LockSql(t) \/ LockCon(t) \/ BeginQuery(t) \/ SetInfo(t) \/ DropCon(t)
  \/ UnlockCon(t) \/ UnlockSql(t)
  \/ Dial(t) \/ DialOk(t) \/ DialRefused(t)
  \/ DoReconnect(t) \/ DoTest(t) \/ StatementOk(t) \/ StatementRefused(t) \/ StatementLost(t)
  \/ TestReconnect(t) \/ Reconnected(t) \/ Retry(t) \/ SelectDb(t)

SqNext == ServerFault \/ \E t \in SqThreads : SqCall(t) \/ SqStep(t)

SqSpec == SqInit /\ [][SqNext]_sqVars

-----------------------------------------------------------------------------
(* Properties.                                                             *)

(* Type invariant.                                                         *)
SqTypeOK ==
  /\ sqlMux \in SqThreads \cup {Nobody} /\ conMux \in [SqCons -> SqThreads \cup {Nobody}]
  /\ hDbc \in [SqCons -> {"none", "up", "gone"}] /\ inUse \in [SqCons -> BOOLEAN]
  /\ iDbType \in [SqCons -> {"none", "mysql", "postgres"}]
  /\ iDbFlags \in [SqCons -> SUBSET Flags]
  /\ \A t \in SqThreads : Len(todo[t]) <= 9 /\ done[t] \in 0 .. 2
  /\ \A f \in {wantId, aRes, dialled} : f \in [SqThreads -> BOOLEAN]

Querying(t) == \E i \in DOMAIN todo[t] : todo[t][i] = "end"

(* A statement is executed twice only when the connection went away while  *)
(* it, or the query of its number after it, was made, or when flags of an  *)
(* earlier call were still set; and never more than twice.                 *)
ExecutedOnce ==
  \A t \in SqThreads : done[t] <= 1 \/ (done[t] = 2 /\ (t \in goneAfter \/ t \in stale))

(* A flag outlives its call only when the call was a connect that was hit  *)
(* by a fault: nothing a query sets makes the next one be made again.      *)
FlagsCleared ==
  \A c \in SqCons : conMux[c] = Nobody /\ iDbFlags[c] # {} => c \in hitConnect

(* What a query repairs by itself: it has no answer only when it was hit   *)
(* by a fault itself, or the server is not known to be MySQL.              *)
RepairsConnection ==
  \A t \in SqThreads :
    Doing(t, "end") /\ ~aRes[t]
      => hit[t] > 0 \/ ~sDbInfo[con[t]] \/ server[con[t]] # "mysql"

(* The kind of server is known, unless its version could not be asked.     *)
TypeIsServers ==
  \A c \in SqCons : iDbType[c] \in {"none", server[c]} \/ c \in unsure

(* "MySQL/ODBC crashed when multiple threads do simultane connects": they  *)
(* do so only when one of them reconnects in a query, without sqlMux.      *)
OneConnectAtATime ==
  \A t, u \in SqThreads :
    Doing(t, "dialling") /\ Doing(u, "dialling") /\ t # u => Querying(t) \/ Querying(u)

(* All of it: a statement is executed once, by a connection that is in     *)
(* order.                                                                  *)
QueriesKept ==
  /\ SqTypeOK /\ ExecutedOnce /\ FlagsCleared
  /\ RepairsConnection /\ TypeIsServers /\ OneConnectAtATime

-----------------------------------------------------------------------------
(* What stl_sql.cpp makes of the rows of an answer (_stlSqlGetData), and   *)
(* the message of the last error, that one thread replaces while another   *)
(* takes it.  ODBC is external: it gives a value, no value, or an error    *)
(* when the value is asked for ("head") or read ("body").                  *)

CONSTANTS
  BUF,         \* the buffer for values of unknown length, 1024 in the code
  SqCells,     \* [kind, known, val, fault]: kind is "char", "wide" or "binary",
               \* val a sequence of characters or Null
  MaxCells,    \* BOUND: cells of a table
  MaxErrors    \* BOUND: errors of the second part

ASSUME SqlDataAssumption == BUF \in Nat /\ BUF > 3

VARIABLES
  table,       \* the rows the server has
  sErrMld,     \* the message: its number, 0 for NULL
  setter,      \* who replaces it: [pc, old]
  freed,       \* messages that were freed
  taken,       \* messages that stlSqlConErrorGetMessage returned
  errors, torn \* messages so far; one was taken in the middle of a replacement

sdVars == <<table, sErrMld, setter, freed, taken, errors, torn>>

D1 == -1
D2 == -2
NUL == 0
Null == <<-3>>  \* no value

-----------------------------------------------------------------------------
(* A value of unknown length, read by pieces.  ODBC ends a text with a NUL *)
(* and gives it all in all BUF - 1 characters at a time; binary data fills *)
(* the buffer.  What is left of the piece before stays in the buffer.      *)
Room(kind) == IF kind = "char" THEN BUF - 1 ELSE BUF
Given(kind, left) == IF Len(left) > Room(kind) THEN SubSeq(left, 1, Room(kind)) ELSE left
Buffer(kind, left, old) ==
  LET new == Given(kind, left) \o (IF kind = "char" THEN <<NUL>> ELSE << >>)
  IN new \o SubSeq(old, Len(new) + 1, BUF)
PieceLen_Less(buf, n) == IF n >= BUF THEN BUF - 2 ELSE n      \* mutant
PieceLen(buf, n) ==
  LET len == IF n > BUF THEN BUF - 2 ELSE n
  IN IF len = BUF - 2 /\ buf[BUF - 1] # NUL THEN BUF - 1 ELSE len
Zeroes == [i \in 1 .. BUF |-> NUL]
Read(kind, val) ==
  LET from[n \in 0 .. Len(val)] ==  \* what n characters are left of, with the buffer
        IF n = 0 THEN [out |-> << >>, buf |-> Zeroes, left |-> val, more |-> TRUE]
        ELSE LET r == from[n - 1]
                 buf == Buffer(kind, r.left, r.buf)
                 len == PieceLen(buf, Len(r.left))
             IN IF ~r.more \/ r.left = << >> THEN r
                ELSE [out |-> r.out \o SubSeq(buf, 1, len), buf |-> buf, more |-> len >= BUF - 2,
                      left |-> SubSeq(r.left, Len(Given(kind, r.left)) + 1, Len(r.left))]
  IN from[Len(val)].out

(* A cell, and a row: an error at the head of a value ends the row.        *)
Value(c) ==
  IF c.val = Null \/ c.fault # "none" THEN << >> ELSE IF c.known THEN c.val ELSE Read(c.kind, c.val)
Upto(row) == IF \E i \in DOMAIN row : row[i].fault = "head"
             THEN CHOOSE i \in DOMAIN row : row[i].fault = "head" /\ \A k \in 1 .. i - 1 : row[k].fault # "head"
             ELSE Len(row)
RowText(row) ==
  FlattenSeq([i \in 1 .. Upto(row) |-> IF i = 1 THEN Value(row[i]) ELSE <<D2>> \o Value(row[i])])

(* The rows are divided by D1, but nothing stands before the first text.   *)
AddRow_Always(seen, text) == seen \o <<D1>> \o text           \* mutant
AddRow(seen, text) == seen \o (IF seen # << >> THEN <<D1>> ELSE << >>) \o text
GetData(rows) == FoldLeft(LAMBDA seen, row : AddRow(seen, RowText(row)), << >>, rows)

(* stlSqlCommand: the number the answer begins with.  A mark of UTF-8      *)
(* before the answer makes it none.                                        *)
IsUtf8(rows) ==
  \E r \in DOMAIN rows : \E i \in 1 .. Upto(rows[r]) : rows[r][i].kind = "wide" /\ Value(rows[r][i]) # << >>
Digits(s) == SelectInSeq(s, LAMBDA c : c \notin 1 .. 9)
Command(rows) ==
  LET s == GetData(rows)
  IN IF s = << >> THEN -1 ELSE IF IsUtf8(rows) THEN 0
     ELSE FoldLeft(LAMBDA n, c : 10 * n + c, 0, IF Digits(s) = 0 THEN s ELSE SubSeq(s, 1, Digits(s) - 1))

-----------------------------------------------------------------------------
(* The rows, one cell at a time (while there are no errors: the answer and *)
(* the message are two questions).                                         *)
AddCell ==
  /\ errors = 0 /\ Len(FlattenSeq(table)) < MaxCells
  /\ \E c \in SqCells :
       \/ table' = Append(table, <<c>>)
       \/ table # << >> /\ table' = [table EXCEPT ![Len(table)] = Append(@, c)]
  /\ UNCHANGED <<sErrMld, setter, freed, taken, errors, torn>>

(* _sqlErrStrf frees the message and sets a new one, without errMux.       *)
FreeOld(old) == freed \cup ({old} \ {0})
_sqlErrStrf ==
  /\ setter.pc = "idle" /\ table = << >> /\ errors < MaxErrors /\ errors' = errors + 1
  /\ setter' = [pc |-> "set", old |-> sErrMld] /\ freed' = FreeOld(sErrMld)
  /\ UNCHANGED <<table, sErrMld, taken, torn>>
SetMessage ==
  /\ setter.pc = "set" /\ setter' = [pc |-> "idle", old |-> 0] /\ sErrMld' = errors
  /\ UNCHANGED <<table, freed, taken, errors, torn>>

TakenAway_Not(m) == m                                         \* mutant
TakenAway(m) == 0
stlSqlConErrorGetMessage ==
  /\ sErrMld # 0
  /\ taken' = taken \cup {sErrMld} /\ sErrMld' = TakenAway(sErrMld)
  /\ torn' = (torn \/ setter.pc = "set")
  /\ UNCHANGED <<table, setter, freed, errors>>

SdInit ==
  /\ table = << >> /\ sErrMld = 0 /\ setter = [pc |-> "idle", old |-> 0]
  /\ freed = {} /\ taken = {} /\ errors = 0 /\ torn = FALSE
SdNext == AddCell \/ _sqlErrStrf \/ SetMessage \/ stlSqlConErrorGetMessage
SdSpec == SdInit /\ [][SdNext]_sdVars

-----------------------------------------------------------------------------
(* The value is the one of the server; but of unknown length, a text is    *)
(* one NUL too long when exactly BUF characters were left, and binary data *)
(* that does not fit the buffer loses some.                                *)
ReadsWhole(c) ==
  c.known \/ (IF c.kind = "char" THEN Len(c.val) < BUF \/ Len(c.val) % (BUF - 1) # 1 ELSE Len(c.val) <= BUF)
CellsKept ==
  \A r \in DOMAIN table : \A i \in DOMAIN table[r] :
    LET c == table[r][i]
    IN c.val # Null /\ c.fault = "none" /\ ReadsWhole(c) => Value(c) = c.val

(* The answer gives the rows: of those that were read whole, each value is *)
(* in its place, but that the first rows are missing while they are empty. *)
(* An error ends a row, never the answer.                                  *)
SplitAt(s, d) ==
  LET n == Cardinality({i \in DOMAIN s : s[i] = d})
      at[k \in 0 .. n + 1] ==
        IF k = 0 THEN 0
        ELSE IF k > n THEN Len(s) + 1
        ELSE CHOOSE i \in DOMAIN s : s[i] = d /\ i > at[k - 1] /\ \A j \in at[k - 1] + 1 .. i - 1 : s[j] # d
  IN [k \in 1 .. n + 1 |-> SubSeq(s, at[k - 1] + 1, at[k] - 1)]
NotEmpty(row) ==
  \/ row[1].fault = "none" /\ row[1].val \notin {<< >>, Null}
  \/ Len(row) > 1 /\ row[1].fault # "head"
FirstRow == CHOOSE r \in 1 .. Len(table) + 1 :
              /\ r <= Len(table) => NotEmpty(table[r])
              /\ \A q \in 1 .. r - 1 : ~NotEmpty(table[q])
RowsKept ==
  LET lines == SplitAt(GetData(table), D1)
  IN FirstRow <= Len(table) =>
       /\ Len(lines) = Len(table) - FirstRow + 1
       /\ \A r \in FirstRow .. Len(table) :
            LET fields == SplitAt(lines[r - FirstRow + 1], D2)
            IN \A i \in DOMAIN fields : fields[i] = Value(table[r][i])

(* A command gives the number in the first value.                          *)
CommandKept ==
  (table # << >> /\ table[1][1] = [kind |-> "char", known |-> TRUE, val |-> <<7, 2>>, fault |-> "none"]
     /\ ~IsUtf8(table))
    => Command(table) = 72

(* A message that was taken is not freed, nor taken twice by another; but  *)
(* when it is taken while it is replaced.                                  *)
MessagesKept == torn \/ freed \cap taken = {}

SqlDataKept == CellsKept /\ RowsKept /\ CommandKept /\ MessagesKept
=============================================================================
