------------------------------- MODULE MCData -------------------------------
(* Instances for TLC of what works on data: the string operators, on      *)
(* fields, characters and sorted lists (StringOps), the parameters of a    *)
(* document (XmlTree), texts for the network, checksums, ciphers and the   *)
(* compression (Codes), formulas, averages, dates and clocks (Numbers).    *)
(* They share no state: part is the one that moves, the others stay as     *)
(* they begin (in one of their initial states, so that it is not explored  *)
(* twice).                                                                 *)
EXTENDS StringOps, XmlTree, Numbers, Codes

(* Fields from the front and the back, and values and sub-values of them.  *)
SomeIndices ==
  ((-3 .. 3) \X {0} \X {0})
    \cup ({-2, 1, 2} \X {-2, 1, 2} \X {-2, -1, 0, 2})

TwoLetters == UNION {[1 .. n -> {1, 3}] : n \in 0 .. 7}

(* No document, an empty one, one that is no configuration, and devices    *)
(* written by hand: two with one address.                                  *)
XNode(up, name, id, c) ==
  [up |-> up, name |-> name, id |-> id, text |-> c, fact |-> "NULL"]
Device(n, a) ==
  <<XNode(3, "device", "NULL", ""), XNode(n, "address", "NULL", a), XNode(n, "bus", "NULL", "0"),
    XNode(n, "param", "p", a)>>
Of(nodes) == [nodes |-> nodes, next |-> Len(nodes) + 1]
HandMade ==
  <<XNode(0, "config", "NULL", ""), XNode(1, "can", "NULL", ""), XNode(2, "devices", "NULL", "")>>
    \o Device(4, "1") \o Device(8, "1")
FourDocs ==
  {NullDoc, Of(<<XNode(0, "config", "NULL", "")>>), Of(<<XNode(0, "other", "NULL", "")>>), Of(HandMade)}

(* Days around the leap years, the first day and the end of 2097.          *)
FourDates == {<<1963, 12, 1>>, <<1966, 12, 1>>, <<1999, 12, 1>>, <<2097, 11, 1>>}
FourRules == {<<0, 0>>, <<1, 1>>, <<7, 6>>, <<2, 7>>}
FarZones == {-720, 90, 840}

(* Bytes; characters; fields of addresses; parameters with the characters  *)
(* that divide them, and names that differ in their case.                  *)
SomeLetters ==
  [bytes |-> {0, 108, 255}, url |-> {97, 32, 37, 43, 48, 70, 200},
   address |-> {<<48>>, <<50, 53, 53>>, <<50, 53, 54>>, <<48, 49>>, <<49, 120>>},
   body |-> {<<97>>, <<65>>, <<38, 61>>} \X {<< >>, <<63, 97>>, <<61, 13>>}]
SomeLengths == [bytes |-> 6, url |-> 3, address |-> 5, body |-> 2]

AllOperators == {PLUS, MINUS, TIMES, POWER}

(* Keys of two and of three bytes.                                         *)
TwoKeys == <<<<0, 3, 1>>, <<2, 0, 0, 1, 2>>>>
TwoLens == <<2, 3>>

(* Letters of two cases, digits of a number, ends of lines, and a path;    *)
(* lists of five values that begin empty, and beside other fields.         *)
FourAlphabets == {{97, 65, 44}, {48, 49, 56, 120, 45}, {97, 10, 13, 0}, {97, 47, 39}}
FourPatterns == {<<42>>, <<97, 42>>, <<42, 65, 63>>, <<42, 97, 42, 44>>}
FiveValues == {<< >>, <<97>>, <<65>>, <<98>>, <<97, 98>>}
SevenOptions == {{}, {"I"}, {"E"}, {"D"}, {"N"}, {"I", "D"}, {"N", "D"}}
ThreeWheres ==
  {<<<< >>, 0, 0>>, <<<<255, 120>>, 1, 0>>, <<<<120, 255, 120, 254, 254, 255, 120>>, 2, 2>>}

(* Names in a document: of a device, an attribute, a leaf, and of nothing. *)
NStep(n, a) == [name |-> n, attr |-> a]
DeviceNames == <<NStep("config", ""), NStep("can", ""), NStep("devices", ""), NStep("device", "")>>
SixNamePaths ==
  {DeviceNames, DeviceNames \o <<NStep("param", "id")>>, DeviceNames \o <<NStep("bus", "")>>,
   DeviceNames \o <<NStep("param", "fact")>>,
   <<NStep("config", ""), NStep("machine", ""), NStep("param", "")>>, <<NStep("other", "")>>}

VARIABLE part

AllInit ==
  /\ part \in {"string", "characters", "lists", "compression", "tree", "dates", "codes", "numbers", "ciphers", "clocks"}
  /\ StrInit /\ LzInit /\ XmlInit /\ CalInit /\ CodesInit /\ NumInit /\ CipherInit /\ TmInit
  /\ OpInit /\ SlInit
  /\ part # "characters" => alphabet = {97, 65, 44}
  /\ part # "lists" => where[2] = 0 /\ sOpts = {}
  /\ part # "compression" => long = LONG
  /\ part # "tree" => xDoc = NullDoc
  /\ part # "dates" => today = <<1999, 12, 1>>
  /\ part # "codes" => kind = "url"
  /\ part # "clocks" => use = "day"

DataParts == <<part, str, lzVars, xmlVars>>
CodeParts == <<calVars, codeVars, opVars, slVars>>
OtherParts == <<numVars, ciVars, tmVars>>
AllNext ==
  \/ part = "string" /\ StrNext /\ UNCHANGED <<part, lzVars, xmlVars, CodeParts, OtherParts>>
  \/ part = "compression" /\ LzNext /\ UNCHANGED <<part, str, xmlVars, CodeParts, OtherParts>>
  \/ part = "tree" /\ XmlNext /\ UNCHANGED <<part, str, lzVars, CodeParts, OtherParts>>
  \/ part = "characters" /\ OpNext /\ UNCHANGED <<DataParts, calVars, codeVars, slVars, OtherParts>>
  \/ part = "lists" /\ SlNext /\ UNCHANGED <<DataParts, calVars, codeVars, opVars, OtherParts>>
  \/ part = "dates" /\ CalNext /\ UNCHANGED <<DataParts, codeVars, opVars, slVars, OtherParts>>
  \/ part = "codes" /\ CodesNext /\ UNCHANGED <<DataParts, calVars, opVars, slVars, OtherParts>>
  \/ part = "numbers" /\ NumNext /\ UNCHANGED <<DataParts, CodeParts, ciVars, tmVars>>
  \/ part = "ciphers" /\ CipherNext /\ UNCHANGED <<DataParts, CodeParts, numVars, tmVars>>
  \/ part = "clocks" /\ TmNext /\ UNCHANGED <<DataParts, CodeParts, numVars, ciVars>>

(* What the parts keep; only the one that moves can break it.              *)
(* The string operators keep the fields they do not change, operations on  *)
(* characters give what they should, and lists stay sorted.                *)
StringFieldsKept ==
  /\ part = "string" => FieldsKept
  /\ part = "characters" => StringOpsKept
  /\ part = "lists" => ListKept

(* The parameters of a document are those that were set.                   *)
DocumentTreeKept == part = "tree" => TreeKept /\ SelectionKept

(* Compression, dates, codes, formulas, checksums, ciphers and clocks give *)
(* what their definitions say.                                             *)
AlgorithmsKept ==
  /\ part = "compression" => CompressionKept
  /\ part = "dates" => CalendarKept
  /\ part = "codes" => CodesKept
  /\ part = "numbers" => NumbersKept
  /\ part = "ciphers" => CiphersKept
  /\ part = "clocks" => TimersKept

AllSpec == AllInit /\ [][AllNext]_<<DataParts, CodeParts, OtherParts>>
=============================================================================
