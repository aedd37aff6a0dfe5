--------------------------- MODULE MCConnections ----------------------------
(* Instances for TLC of connections: to databases (SqlCon), Modbus         *)
(* devices (Modbus), over TCP (TcpStream) and serial lines (SerialRead),   *)
(* and of the strings that go over them (StringClass).  They share no      *)
(* state: part is the one that moves, and the others stay as they begin    *)
(* (in one of their initial states, so that none is explored twice).       *)
EXTENDS SqlCon, Modbus, TcpStream, SerialRead, StringClass

(* Letters of one, two and three bytes of UTF-8, and a delimiter.          *)
SomeTexts == {<< >>, <<97>>, <<44>>, <<233>>, <<8364>>}

(* Cells of known and unknown length, empty, and with errors.              *)
Cell(k, n, v, f) == [kind |-> k, known |-> n, val |-> v, fault |-> f]
SomeCells ==
  {Cell("char", TRUE, Null, "none"), Cell("char", TRUE, << >>, "none"),
   Cell("char", TRUE, <<7, 2>>, "none"), Cell("wide", TRUE, <<7>>, "none"),
   Cell("char", TRUE, <<7>>, "head"), Cell("binary", TRUE, <<7>>, "body"),
   Cell("char", FALSE, <<1, 2, 3, 4, 5>>, "none"), Cell("char", FALSE, <<1, 2, 3, 4>>, "none"),
   Cell("binary", FALSE, <<1, 2, 3, 4>>, "none")}

VARIABLE part

AllInit ==
  /\ part \in {"sql", "rows", "modbus", "stream", "serial", "string"}
  /\ SqInit
  /\ part # "sql" => \A c \in SqCons : server[c] = "mysql"
  /\ MbInit /\ TsInit
  /\ part # "stream" => plain = 0
  /\ SrInit
  /\ part # "serial" => high
  /\ StInit /\ SdInit

AllNext ==
  \/ part = "sql" /\ SqNext /\ UNCHANGED <<part, mbVars, tsVars, srVars, stVars, sdVars>>
  \/ part = "modbus" /\ MbNext /\ UNCHANGED <<part, sqVars, tsVars, srVars, stVars, sdVars>>
  \/ part = "stream" /\ TsNext /\ UNCHANGED <<part, sqVars, mbVars, srVars, stVars, sdVars>>
  \/ part = "serial" /\ SrNext /\ UNCHANGED <<part, sqVars, mbVars, tsVars, stVars, sdVars>>
  \/ part = "string" /\ StNext /\ UNCHANGED <<part, sqVars, mbVars, tsVars, srVars, sdVars>>
  \/ part = "rows" /\ SdNext /\ UNCHANGED <<part, sqVars, mbVars, tsVars, srVars, stVars>>

(* What the parts keep; only the one that moves can break it.              *)
(* A query is made once and on the connection it was asked for, and its    *)
(* answer is what the server has.                                          *)
SqlQueriesKept == (part = "sql" => QueriesKept) /\ (part = "rows" => SqlDataKept)

(* A text and its copies in other encodings stay one.                      *)
TextsKept == part = "string" => StringsKept

AllSpec == AllInit /\ [][AllNext]_<<part, sqVars, mbVars, tsVars, srVars, stVars, sdVars>>
=============================================================================
